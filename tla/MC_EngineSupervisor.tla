------------------------- MODULE MC_EngineSupervisor -------------------------
EXTENDS EngineSupervisor

\* Bound: once activations crossed, the behaviours are followed in which nothing
\* else goes wrong.  The crossing steps themselves are always taken and checked.
Followed ==
  count.crossed => count.crashes = 0 /\ count.hangs = 0 /\ stage[Quit] = "idle"
=============================================================================
