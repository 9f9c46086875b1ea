---------------------------- MODULE AtLeastOnce ----------------------------
(***************************************************************************)
(* What post-task delivery promises for each admitted delivery: the guest  *)
(* may run any number of times while the delivery is open, a receipt is    *)
(* written only after a run that ended well, and the outcome, whatever it  *)
(* is, is decided once.                                                    *)
(***************************************************************************)

CONSTANT Deliveries

VARIABLES
  fate, \* what has become of each delivery
  ran   \* the deliveries whose guest ended well at least once

Outcomes == {"delivered", "dead_letter", "superseded"}

Init == fate = [d \in Deliveries |-> "none"] /\ ran = {}

\* A candidate is admitted, refused for a quota or malformed from the start.
Admit(d) ==
  /\ fate[d] = "none"
  /\ \E f \in {"open", "refused", "dead_letter"} : fate' = [fate EXCEPT ![d] = f]
  /\ UNCHANGED ran

\* A run of the guest ends well; there may have been others before.
Run(d) == fate[d] = "open" /\ ran' = ran \cup {d} /\ UNCHANGED fate

Deliver(d) ==
  /\ fate[d] = "open" /\ d \in ran
  /\ fate' = [fate EXCEPT ![d] = "delivered"]
  /\ UNCHANGED ran

\* A change of the plugin settles all its open deliveries together.
GiveUp(D, outcome) ==
  /\ \A d \in D : fate[d] = "open"
  /\ fate' = [d \in Deliveries |-> IF d \in D THEN outcome ELSE fate[d]]
  /\ UNCHANGED ran

\* Giving up the deliveries that are too late and going on with another one
\* is one step of the scheduler, so are several settlements of one plugin.
Next ==
  \/ \E d \in Deliveries : Admit(d) \/ Run(d) \/ Deliver(d)
  \/ \E D \in SUBSET Deliveries, outcome \in {"dead_letter", "superseded"} :
       GiveUp(D, outcome)

Spec == Init /\ [][Next]_<<fate, ran>>
=============================================================================
