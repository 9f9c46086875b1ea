---------------------------- MODULE AtomicPublish ----------------------------
(***************************************************************************)
(* What finalization promises: the target name shows the finished artifact *)
(* or what it showed before, never anything in between; until the decision *)
(* the original exists and every step can be taken back; after it the      *)
(* product stays and the original may go.  All of it as long as no other   *)
(* program disturbs the names it works with.                               *)
(***************************************************************************)

VARIABLES
  original,  \* the downloaded artifact exists, under whatever name
  shown,     \* what the target name shows
  decided,   \* the task database says the task is finished
  disturbed  \* another program has changed something under a name in use

TypeOK ==
  /\ original \in BOOLEAN /\ decided \in BOOLEAN /\ disturbed \in BOOLEAN
  /\ shown \in {"nothing", "original", "product", "garbage"}
  /\ shown = "garbage" => disturbed

\* A target path equal to the source path shows the original at first.
Init ==
  /\ original = TRUE /\ shown \in {"nothing", "original"}
  /\ decided = FALSE /\ disturbed = FALSE

Show ==
  /\ ~decided /\ original /\ shown = "nothing"
  /\ shown' = "product"
  /\ UNCHANGED <<original, decided>>

Withdraw ==
  /\ ~decided /\ original /\ shown = "product"
  /\ shown' = "nothing"
  /\ UNCHANGED <<original, decided>>

\* In place, the original makes room under another name, and may come back.
StepAside ==
  /\ ~decided /\ original /\ shown = "original"
  /\ shown' = "nothing"
  /\ UNCHANGED <<original, decided>>

Return ==
  /\ ~decided /\ original /\ shown = "nothing"
  /\ shown' = "original"
  /\ UNCHANGED <<original, decided>>

Decide ==
  /\ ~decided /\ shown \in {"product", "original"}
  /\ decided' = TRUE /\ shown' = "product"
  /\ UNCHANGED original

Discard ==
  /\ decided /\ shown = "product" /\ original
  /\ original' = FALSE
  /\ UNCHANGED <<shown, decided>>

\* Nothing is promised from the first interference on.
Anything == disturbed' = TRUE /\ TypeOK'

Next ==
  \/ /\ ~disturbed /\ UNCHANGED disturbed
     /\ Show \/ Withdraw \/ StepAside \/ Return \/ Decide \/ Discard
  \/ Anything

Spec == Init /\ [][Next]_<<original, shown, decided, disturbed>>
=============================================================================
