---------------------- MODULE CompletionShutdownProofs ----------------------
(***************************************************************************)
(* The safety properties of CompletionShutdown for every set of tasks,     *)
(* operations and activations and every grace period.                      *)
(*                                                                         *)
(* Every synchronous method of the controller either keeps the fields that *)
(* the gate depends on, interrupts, or cancels (Quiet below).  The proofs  *)
(* of the steps use these three shapes instead of the methods.             *)
(***************************************************************************)
EXTENDS CompletionShutdown, TLAPS

Keeps(c, k) ==
  /\ k.phase = c.phase /\ k.authorizing = c.authorizing /\ k.owner = c.owner
  /\ k.timer = c.timer /\ k.left = c.left /\ k.preparation = c.preparation

Interrupts(c, k) ==
  /\ c.phase \in {"countdown", "preparing"}
  /\ k.phase = "waiting" /\ k.owner = NoRun /\ k.left = 0 /\ k.preparation = NoRun
  /\ k.authorizing = c.authorizing /\ k.timer = c.timer

Cancels(k) ==
  /\ k.phase = "off" /\ ~k.authorizing /\ k.owner = NoRun
  /\ ~k.timer /\ k.left = 0 /\ k.preparation = NoRun

Quiet(c, k) == k \in Controllers /\ (Keeps(c, k) \/ Interrupts(c, k) \/ Cancels(k))

StartsCountdown(c, k) ==
  /\ k \in Controllers
  /\ c.phase \in Armed /\ ~c.authorizing
  /\ k.phase = "countdown" /\ ~k.authorizing /\ k.left = Grace
  /\ k.timer = c.timer
  /\ \/ k.owner = c.owner /\ k.preparation = c.preparation /\ c.phase = "waiting"
     \/ k.owner = NoRun /\ k.preparation = NoRun

-----------------------------------------------------------------------------
(* The synchronous methods.                                                 *)

LEMMA FieldValues ==
  /\ Phases = {"off", "waiting", "countdown", "preparing", "requested", "failed"}
  /\ 0 \in 0..Grace /\ Grace \in 0..Grace
  /\ NoRun \in Runs \cup {NoRun}
  /\ NoBaseline \in [known : BOOLEAN, ids : SUBSET Tasks]
<1>1. 0 \in 0..Grace /\ Grace \in 0..Grace
  BY ShutdownAssumption
<1> QED
  BY <1>1 DEF Phases, NoBaseline

LEMMA CancelledQuiet == ASSUME NEW c \in Controllers PROVE Quiet(c, Cancelled(c))
BY FieldValues DEF Controllers, Quiet, Cancels, Cancelled

LEMMA InterruptedQuiet == ASSUME NEW c \in Controllers PROVE Quiet(c, Interrupted(c))
BY FieldValues DEF Controllers, Quiet, Keeps, Interrupts, Interrupted

LEMMA ObservedQuiet == ASSUME NEW c \in Controllers PROVE Quiet(c, Observed(c))
BY InterruptedQuiet DEF Observed, Quiet, Keeps

LEMMA QuietTrans ==
  ASSUME NEW c, NEW d, NEW e, Quiet(c, d), Quiet(d, e)
  PROVE  Quiet(c, e)
BY DEF Quiet, Keeps, Interrupts, Cancels

LEMMA CollectedQuiet == ASSUME NEW c \in Controllers PROVE Quiet(c, Collected(c))
<1> DEFINE baseline == IF c.historical.known THEN c.historical
                       ELSE [known |-> TRUE, ids |-> Completed]
           added    == {t \in Live : t \notin baseline.ids \/ t \notin Completed}
           grown    == [c EXCEPT !.historical = baseline, !.participants = @ \cup added]
<1>1. Completed \subseteq Tasks /\ Live \subseteq Tasks
  BY DEF Completed, Live
<1>2. baseline \in [known : BOOLEAN, ids : SUBSET Tasks]
  BY <1>1 DEF Controllers
<1>3. added \subseteq Tasks
  BY <1>1
<1> HIDE DEF baseline, added
<1>4. grown \in Controllers /\ Keeps(c, grown)
  BY <1>2, <1>3 DEF Controllers, Keeps
<1>5. Quiet(c, grown)
  BY <1>4 DEF Quiet
<1> HIDE DEF grown
<1>6. Quiet(c, Interrupted(grown))
  BY <1>4, <1>5, InterruptedQuiet, QuietTrans
<1>7. Quiet(c, c) /\ Quiet(c, Cancelled(c))
  BY CancelledQuiet DEF Quiet, Keeps
<1>8. Collected(c) \in {c, Cancelled(c), grown, Interrupted(grown)}
  BY DEF Collected, baseline, added, grown
<1> QED
  BY <1>5, <1>6, <1>7, <1>8

LEMMA EvaluatedShape ==
  ASSUME NEW c \in Controllers
  PROVE  Quiet(c, Evaluated(c)) \/ StartsCountdown(c, Evaluated(c))
<1> DEFINE k == Collected(Observed(c))
<1>1. Quiet(c, k)
  BY ObservedQuiet, CollectedQuiet, QuietTrans DEF Quiet
<1>2. Quiet(c, Interrupted(k))
  BY <1>1, InterruptedQuiet, QuietTrans DEF Quiet
<1>3. Quiet(c, Collected(c)) /\ Quiet(c, c)
  BY CollectedQuiet DEF Quiet, Keeps
<1>4. CASE c.authorizing \/ c.phase \notin Armed
  BY <1>3, <1>4 DEF Evaluated
<1>5. CASE ~c.authorizing /\ c.phase \in Armed
  <2> HIDE DEF k
  <2>1. CASE AllDone(k) /\ Observed(c).phase # "preparing" /\ k.phase = "waiting"
    <3>1. Evaluated(c) = [k EXCEPT !.phase = "countdown", !.left = Grace]
      BY <1>5, <2>1 DEF Evaluated, k
    <3>2. k \in Controllers /\ ~k.authorizing /\ k.timer = c.timer
      BY <1>1, <1>5, <2>1 DEF Quiet, Keeps, Interrupts, Cancels
    <3>3. \/ k.owner = c.owner /\ k.preparation = c.preparation /\ c.phase = "waiting"
          \/ k.owner = NoRun /\ k.preparation = NoRun
      BY <1>1, <2>1 DEF Quiet, Keeps, Interrupts, Cancels
    <3> DEFINE e == [k EXCEPT !.phase = "countdown", !.left = Grace]
    <3>4. e \in Controllers
      BY <3>2, FieldValues DEF Controllers
    <3>5. /\ e.phase = "countdown" /\ e.left = Grace /\ e.authorizing = k.authorizing
          /\ e.timer = k.timer /\ e.owner = k.owner /\ e.preparation = k.preparation
      BY <3>2 DEF Controllers
    <3> HIDE DEF e
    <3>6. StartsCountdown(c, e)
      BY <1>5, <3>2, <3>3, <3>4, <3>5 DEF StartsCountdown
    <3> QED
      BY <3>1, <3>6 DEF e
  <2>2. CASE ~(AllDone(k) /\ Observed(c).phase # "preparing" /\ k.phase = "waiting")
    <3>1. CASE ~AllDone(k)
      <4>1. Evaluated(c) = Interrupted(k)
        BY <1>5, <3>1 DEF Evaluated, k
      <4> QED
        BY <1>2, <4>1
    <3>2. CASE AllDone(k)
      <4>1. Evaluated(c) = k
        BY <1>5, <2>2, <3>2 DEF Evaluated, k
      <4> QED
        BY <1>1, <4>1
    <3> QED
      BY <3>1, <3>2
  <2> QED
    BY <2>1, <2>2
<1> QED
  BY <1>4, <1>5

-----------------------------------------------------------------------------
(* The inductive invariant.                                                 *)

\* What the activation that captured the present generation may rely on.
OwnerStage ==
  \A r \in Runs : ctl.owner = r =>
    /\ runs[r] \in {"starting", "probing"} => ctl.authorizing
    /\ runs[r] \in {"draining", "skipped", "saving", "saved"} =>
         ctl.phase = "preparing" /\ hold = r

AuthorizingIsOff == ctl.authorizing => ctl.phase \in {"off", "failed"}

NothingInFlight ==
  hold # NoRun /\ runs[hold] \in {"saving", "saved"} =>
    \A w \in Works : work[w] # "running"

ConsentBacksPlan == ctl.phase \in Armed \/ ctl.authorizing => consent

Core ==
  /\ TimerMatchesPhase /\ GateOwned /\ OwnerStage
  /\ AuthorizingIsOff /\ NothingInFlight /\ ConsentBacksPlan

IInv == TypeOK /\ Core

LEMMA ReleasedTyped ==
  ASSUME TypeOK, NEW r, Released(r)
  PROVE  /\ hold' \in Runs \cup {NoRun}
         /\ work' \in [Works -> WorkStates]
         /\ \A w \in Works : work[w] # "running" => work'[w] # "running"
         /\ hold' = IF hold = r THEN NoRun ELSE hold
BY DEF TypeOK, Released, WorkStates

\* A step that moves the controller quietly and no activation.
LEMMA QuietStep ==
  ASSUME IInv, NEW c, Quiet(ctl, c), Becomes(c), runs' = runs,
         consent' = consent \/ Cancels(c)
  PROVE  Core'
<1> USE DEF IInv, Core
<1>1. /\ hold' \in Runs \cup {NoRun}
      /\ \A w \in Works : work[w] # "running" => work'[w] # "running"
      /\ hold' = IF c.preparation = NoRun /\ hold = ctl.preparation THEN NoRun ELSE hold
  BY ReleasedTyped DEF Becomes, TypeOK
<1>2. ctl' = c
  BY DEF Becomes
<1>3. TimerMatchesPhase' /\ AuthorizingIsOff' /\ ConsentBacksPlan'
  BY <1>2 DEF TimerMatchesPhase, AuthorizingIsOff, ConsentBacksPlan, Quiet, Keeps,
              Interrupts, Cancels, Armed
<1>4. GateOwned'
  BY <1>1, <1>2 DEF GateOwned, Quiet, Keeps, Interrupts, Cancels
<1>5. OwnerStage'
  BY <1>1, <1>2, ShutdownAssumption
  DEF OwnerStage, GateOwned, Quiet, Keeps, Interrupts, Cancels
<1>6. NothingInFlight'
  BY <1>1 DEF NothingInFlight
<1> QED
  BY <1>3, <1>4, <1>5, <1>6

\* A step that starts the countdown.
LEMMA StartsStep ==
  ASSUME IInv, NEW c, StartsCountdown(ctl, c), Becomes(c), runs' = runs,
         consent' = consent
  PROVE  Core'
<1> USE DEF IInv, Core
<1>1. /\ hold' = IF c.preparation = NoRun /\ hold = ctl.preparation THEN NoRun ELSE hold
      /\ \A w \in Works : work[w] # "running" => work'[w] # "running"
  BY ReleasedTyped DEF Becomes, TypeOK
<1>2. ctl' = c
  BY DEF Becomes
<1>3. TimerMatchesPhase' /\ AuthorizingIsOff' /\ ConsentBacksPlan'
  BY <1>2 DEF TimerMatchesPhase, AuthorizingIsOff, ConsentBacksPlan, StartsCountdown, Armed
<1>4. hold' = NoRun
  BY <1>1, <1>2 DEF GateOwned, StartsCountdown
<1>5. OwnerStage'
  BY <1>2, ShutdownAssumption DEF OwnerStage, StartsCountdown, AuthorizingIsOff, Armed
<1> QED
  BY <1>3, <1>4, <1>5 DEF GateOwned, NothingInFlight

\* The end of an activation.
LEMMA FinishesStep ==
  ASSUME IInv, NEW r \in Runs, NEW c, Finishes(r, c),
         runs[r] # "idle",
         c \in Controllers, consent' = consent,
         ~c.authorizing \/ (c.authorizing = ctl.authorizing),
         c.authorizing => c.phase \in {"off", "failed"},
         c.timer <=> c.phase \in Armed,
         c.phase \in Armed => ctl.phase \in Armed,
         c.owner \in {ctl.owner, NoRun},
         \/ hold = r
         \/ Keeps(ctl, c)
         \/ c.phase = "failed" /\ ctl.owner = r
  PROVE  Core'
<1> USE DEF IInv, Core
<1>1. /\ hold' = IF hold = r THEN NoRun ELSE hold
      /\ \A w \in Works : work[w] # "running" => work'[w] # "running"
  BY ReleasedTyped DEF Finishes
<1>2. /\ ctl'.phase = c.phase /\ ctl'.authorizing = c.authorizing /\ ctl'.timer = c.timer
      /\ ctl'.owner = IF c.owner = r THEN NoRun ELSE c.owner
      /\ ctl'.preparation = IF c.preparation = r THEN NoRun ELSE c.preparation
  BY DEF Finishes, Controllers
<1>3. runs' = [runs EXCEPT ![r] = "idle"]
  BY DEF Finishes
<1>4. TimerMatchesPhase' /\ AuthorizingIsOff' /\ ConsentBacksPlan'
  BY <1>2 DEF TimerMatchesPhase, AuthorizingIsOff, ConsentBacksPlan
<1>5. GateOwned'
  BY <1>1, <1>2, <1>3 DEF GateOwned, TypeOK, Keeps
<1>6. OwnerStage'
  BY <1>1, <1>2, <1>3, ShutdownAssumption DEF OwnerStage, GateOwned, TypeOK, Keeps
<1>7. NothingInFlight'
  BY <1>1, <1>3 DEF NothingInFlight, TypeOK
<1> QED
  BY <1>4, <1>5, <1>6, <1>7

-----------------------------------------------------------------------------
(* Every step preserves the invariant: first its types, then its core.      *)

LEMMA InitIInv == Init => IInv
<1> SUFFICES ASSUME Init PROVE IInv
  OBVIOUS
<1>1. ctl \in Controllers
  BY FieldValues DEF Init, Controllers
<1>2. calm \in 0..Grace /\ age \in [Tasks -> 0..Grace]
  BY FieldValues DEF Init
<1>3. TypeOK
  BY <1>1, <1>2 DEF Init, TypeOK, TaskStates, RunStages, WorkStates
<1>4. Core
  BY ShutdownAssumption
  DEF Init, Core, TimerMatchesPhase, GateOwned, OwnerStage, AuthorizingIsOff,
      NothingInFlight, ConsentBacksPlan, Armed
<1> QED
  BY <1>3, <1>4 DEF IInv

LEMMA BecomesTyped ==
  ASSUME TypeOK, NEW c \in Controllers, Becomes(c)
  PROVE  ctl' \in Controllers /\ hold' \in Runs \cup {NoRun} /\ work' \in [Works -> WorkStates]
<1>1. ctl' \in Controllers
  BY DEF Becomes
<1>2. CASE c.preparation = NoRun
  BY <1>1, <1>2, ReleasedTyped DEF Becomes
<1>3. CASE c.preparation # NoRun
  BY <1>1, <1>3 DEF Becomes, TypeOK
<1> QED
  BY <1>2, <1>3

LEMMA FinishesTyped ==
  ASSUME TypeOK, NEW r \in Runs, NEW c \in Controllers, Finishes(r, c)
  PROVE  /\ ctl' \in Controllers /\ hold' \in Runs \cup {NoRun}
         /\ work' \in [Works -> WorkStates]
         /\ runs' \in [Runs -> RunStages] /\ incoming' \in [Runs -> BOOLEAN]
<1>1. ctl' \in Controllers
  BY FieldValues DEF Finishes, Controllers
<1>2. hold' \in Runs \cup {NoRun} /\ work' \in [Works -> WorkStates]
  BY ReleasedTyped DEF Finishes
<1>3. runs' \in [Runs -> RunStages] /\ incoming' \in [Runs -> BOOLEAN]
  BY DEF Finishes, TypeOK, RunStages
<1> QED
  BY <1>1, <1>2, <1>3

LEMMA EvaluatedTyped ==
  ASSUME NEW c \in Controllers PROVE Evaluated(c) \in Controllers
BY EvaluatedShape DEF Quiet, StartsCountdown

\* The controller that ConcludeWaits and Request start from.
LEMMA ConcludeShape ==
  ASSUME TypeOK, NEW r \in Runs, ctl.owner = r, Observed(ctl).owner = r
  PROVE  LET o == Observed(ctl)
             k == Collected(o)
         IN  /\ o \in Controllers /\ k \in Controllers
             /\ Keeps(ctl, o) /\ Quiet(o, k)
             /\ k.owner = r => Keeps(ctl, k)
<1>1. ctl \in Controllers /\ r # NoRun
  BY ShutdownAssumption DEF TypeOK
<1>2. Quiet(ctl, Observed(ctl))
  BY <1>1, ObservedQuiet
<1>3. Observed(ctl) \in Controllers /\ Keeps(ctl, Observed(ctl))
  BY <1>1, <1>2 DEF Quiet, Interrupts, Cancels
<1>4. Quiet(Observed(ctl), Collected(Observed(ctl)))
  BY <1>3, CollectedQuiet
<1> QED
  BY <1>1, <1>3, <1>4 DEF Quiet, Keeps, Interrupts, Cancels

LEMMA EvaluateKeepsIInv == ASSUME IInv, Evaluate PROVE IInv'
<1>1. ctl \in Controllers /\ TypeOK
  BY DEF IInv, TypeOK
<1>2. CASE Due(ctl)
  <2> DEFINE k == Collected(Observed(ctl))
  <2>1. /\ ~ctl.authorizing /\ k.phase = "countdown"
        /\ Quiet(ctl, k) /\ k.authorizing = ctl.authorizing
        /\ k.owner = ctl.owner /\ k.timer = ctl.timer /\ ctl.phase = "countdown"
    BY <1>1, <1>2, ObservedQuiet, CollectedQuiet, QuietTrans
    DEF Due, Quiet, Keeps, Interrupts, Cancels
  <2> HIDE DEF k
  <2>2. PICK r \in FreeRuns : Execute(r)
    BY <1>2 DEF Evaluate
  <2>3. r \in Runs /\ runs[r] = "idle" /\ r # NoRun
    BY ShutdownAssumption DEF FreeRuns
  <2>4. work' = work /\ consent' = consent
    BY <1>2 DEF Evaluate, history
  <2>5. hold = NoRun
    BY <2>1 DEF IInv, Core, GateOwned
  <2>6. /\ ctl' = [k EXCEPT !.phase = "preparing", !.owner = r, !.preparation = r]
        /\ runs' = [runs EXCEPT ![r] = "draining"]
        /\ hold' = r
        /\ incoming' = [incoming EXCEPT ![r] = FALSE]
    BY <2>2, <2>5 DEF Execute, k
  <2>7. ctl' \in Controllers
    BY <2>1, <2>3, <2>6, FieldValues DEF Quiet, Controllers
  <2>8. TypeOK'
    BY <1>1, <1>2, <2>3, <2>4, <2>6, <2>7
    DEF Evaluate, TypeOK, RunStages, history
  <2>9. /\ ctl'.phase = "preparing" /\ ctl'.owner = r /\ ctl'.preparation = r
        /\ ctl'.timer = ctl.timer /\ ctl'.authorizing = ctl.authorizing
    BY <2>1, <2>6 DEF Quiet, Controllers
  <2>10. Core'
    BY <1>1, <2>1, <2>3, <2>4, <2>6, <2>9, ShutdownAssumption
    DEF IInv, Core, TypeOK, TimerMatchesPhase, GateOwned, OwnerStage, AuthorizingIsOff,
        NothingInFlight, ConsentBacksPlan, Armed
  <2> QED
    BY <2>8, <2>10 DEF IInv
<1>3. CASE ~Due(ctl)
  <2>1. Becomes(Evaluated(ctl)) /\ UNCHANGED <<runs, incoming, consent>>
    BY <1>3 DEF Evaluate, history
  <2>2. TypeOK'
    BY <1>1, <1>3, <2>1, EvaluatedTyped, BecomesTyped DEF Evaluate, TypeOK, history
  <2>3. CASE Quiet(ctl, Evaluated(ctl))
    BY <2>1, <2>2, <2>3, QuietStep DEF IInv
  <2>4. CASE StartsCountdown(ctl, Evaluated(ctl))
    BY <2>1, <2>2, <2>4, StartsStep DEF IInv
  <2> QED
    BY <1>1, <2>3, <2>4, EvaluatedShape
<1> QED
  BY <1>2, <1>3

LEMMA EnableKeepsIInv == ASSUME IInv, NEW r \in Runs, Enable(r) PROVE IInv'
<1> DEFINE c == [ctl EXCEPT !.owner = r, !.participants = {}, !.historical = NoBaseline,
                            !.authorizing = TRUE]
<1>1. ctl \in Controllers /\ TypeOK /\ r # NoRun /\ runs[r] = "idle"
  BY ShutdownAssumption DEF IInv, TypeOK, Enable, FreeRuns
<1>2. /\ c \in Controllers
      /\ c.owner = r /\ c.authorizing /\ c.phase = ctl.phase /\ c.timer = ctl.timer
  BY <1>1, FieldValues DEF Controllers
<1> HIDE DEF c
<1>3. /\ ctl' = Collected(c) /\ runs' = [runs EXCEPT ![r] = "starting"]
      /\ consent' = TRUE /\ UNCHANGED <<hold, work, incoming>>
  BY DEF Enable, c, gate
<1>4. Quiet(c, ctl') /\ ctl.phase \in {"off", "failed"} /\ hold = NoRun
  BY <1>2, <1>3, CollectedQuiet DEF Enable, IInv, Core, GateOwned
<1>5. TypeOK'
  BY <1>1, <1>3, <1>4 DEF Enable, TypeOK, Quiet, RunStages, env, gate
<1>6. Core'
  BY <1>1, <1>2, <1>3, <1>4, ShutdownAssumption
  DEF IInv, Core, TypeOK, TimerMatchesPhase, GateOwned, OwnerStage, AuthorizingIsOff,
      NothingInFlight, ConsentBacksPlan, Armed, Quiet, Keeps, Interrupts, Cancels
<1> QED
  BY <1>5, <1>6 DEF IInv

LEMMA ProbeStartsKeepsIInv == ASSUME IInv, NEW r \in Runs, ProbeStarts(r) PROVE IInv'
<1> DEFINE c == IF open THEN Evaluated(ctl) ELSE ctl
<1>1. ctl \in Controllers /\ TypeOK /\ r # NoRun /\ runs[r] = "starting"
  BY ShutdownAssumption DEF IInv, TypeOK, ProbeStarts
<1>2. c \in Controllers /\ (Quiet(ctl, c) \/ StartsCountdown(ctl, c))
  BY <1>1, EvaluatedShape DEF Quiet, Keeps, StartsCountdown
<1>3. /\ Becomes(c) /\ runs' = [runs EXCEPT ![r] = "probing"]
      /\ UNCHANGED <<incoming, consent, calm, age, task, ready, open>>
  BY DEF ProbeStarts, history
<1> HIDE DEF c
<1>4. ctl' = c /\ hold # r
  BY <1>1, <1>3 DEF Becomes, IInv, Core, GateOwned
<1>5. hold' = IF c.preparation = NoRun /\ hold = ctl.preparation THEN NoRun ELSE hold
  BY <1>1, <1>3, ReleasedTyped DEF Becomes, TypeOK
<1>6. \A w \in Works : work[w] # "running" => work'[w] # "running"
  BY <1>1, <1>3, ReleasedTyped DEF Becomes
<1>7. TypeOK'
  BY <1>1, <1>2, <1>3, BecomesTyped DEF TypeOK, RunStages, ProbeStarts
<1>8. CASE StartsCountdown(ctl, c)
  <2>1. hold' = NoRun
    BY <1>5, <1>8 DEF IInv, Core, GateOwned, StartsCountdown
  <2> QED
    BY <1>1, <1>3, <1>4, <1>7, <1>8, <2>1, ShutdownAssumption
    DEF IInv, Core, TypeOK, TimerMatchesPhase, GateOwned, OwnerStage, AuthorizingIsOff,
        NothingInFlight, ConsentBacksPlan, Armed, StartsCountdown
<1>9. CASE Quiet(ctl, c)
  <2>1. TimerMatchesPhase' /\ AuthorizingIsOff' /\ ConsentBacksPlan'
    BY <1>3, <1>4, <1>9
    DEF IInv, Core, TimerMatchesPhase, AuthorizingIsOff, ConsentBacksPlan, Armed,
        Quiet, Keeps, Interrupts, Cancels
  <2>2. GateOwned'
    BY <1>1, <1>3, <1>4, <1>5, <1>9
    DEF IInv, Core, TypeOK, GateOwned, Quiet, Keeps, Interrupts, Cancels
  <2>3. OwnerStage'
    BY <1>1, <1>3, <1>4, <1>5, <1>9, ShutdownAssumption
    DEF IInv, Core, TypeOK, GateOwned, OwnerStage, Quiet, Keeps, Interrupts, Cancels
  <2>4. NothingInFlight'
    BY <1>1, <1>3, <1>4, <1>5, <1>6 DEF IInv, Core, TypeOK, NothingInFlight
  <2> QED
    BY <1>7, <2>1, <2>2, <2>3, <2>4 DEF IInv, Core
<1> QED
  BY <1>2, <1>8, <1>9

LEMMA ProbeSucceedsKeepsIInv == ASSUME IInv, NEW r \in Runs, ProbeSucceeds(r) PROVE IInv'
<1>1. ctl \in Controllers /\ TypeOK /\ r # NoRun /\ runs[r] = "probing"
  BY ShutdownAssumption DEF IInv, TypeOK, ProbeSucceeds
<1>2. /\ runs' = [runs EXCEPT ![r] = "idle"] /\ hold # r
      /\ UNCHANGED <<incoming, consent, calm, age, task, ready, open>>
  BY <1>1 DEF ProbeSucceeds, history, IInv, Core, GateOwned
<1>3. CASE ctl.owner = r
  <2> DEFINE armed == [ctl EXCEPT !.owner = NoRun, !.authorizing = FALSE,
                                  !.phase = "waiting", !.timer = TRUE]
             k     == Collected(armed)
             c     == IF AllDone(k) /\ k.phase = "waiting"
                      THEN [k EXCEPT !.phase = "countdown", !.left = Grace] ELSE k
  <2>1. /\ armed \in Controllers
        /\ armed.phase = "waiting" /\ ~armed.authorizing /\ armed.timer /\ armed.owner = NoRun
    BY <1>1, FieldValues DEF Controllers
  <2>2. hold = NoRun /\ consent
    BY <1>1, <1>2, <1>3 DEF IInv, Core, GateOwned, OwnerStage, ConsentBacksPlan
  <2>3. Quiet(armed, k)
    BY <2>1, CollectedQuiet
  <2> HIDE DEF armed, k
  <2>4. c \in Controllers /\ ~c.authorizing /\ c.owner = NoRun
        /\ (c.timer <=> c.phase \in Armed)
    BY <2>1, <2>3, FieldValues DEF Quiet, Keeps, Interrupts, Cancels, Controllers, Armed
  <2> HIDE DEF c
  <2>5. Becomes(c)
    BY <1>3 DEF ProbeSucceeds, armed, k, c
  <2>6. ctl' = c /\ hold' = NoRun
    BY <1>1, <2>2, <2>5, ReleasedTyped DEF Becomes
  <2>7. TypeOK'
    BY <1>1, <1>2, <1>3, <2>4, <2>5, BecomesTyped DEF TypeOK, RunStages, ProbeSucceeds
  <2> QED
    BY <1>2, <2>2, <2>4, <2>6, <2>7, ShutdownAssumption
    DEF IInv, Core, TimerMatchesPhase, GateOwned, OwnerStage, AuthorizingIsOff,
        NothingInFlight, ConsentBacksPlan
<1>4. CASE ctl.owner # r
  <2>1. UNCHANGED <<ctl, hold, work, skew>>
    BY <1>4 DEF ProbeSucceeds
  <2> QED
    BY <1>1, <1>2, <1>4, <2>1
    DEF IInv, Core, TypeOK, TimerMatchesPhase, GateOwned, OwnerStage, AuthorizingIsOff,
        NothingInFlight, ConsentBacksPlan, RunStages
<1> QED
  BY <1>3, <1>4

LEMMA ProbeFailsKeepsIInv == ASSUME IInv, NEW r \in Runs, ProbeFails(r) PROVE IInv'
<1>1. ctl \in Controllers /\ TypeOK /\ r # NoRun /\ runs[r] = "probing"
  BY ShutdownAssumption DEF IInv, TypeOK, ProbeFails
<1>2. /\ runs' = [runs EXCEPT ![r] = "idle"] /\ hold # r
      /\ UNCHANGED <<hold, work, incoming, consent, calm, age, task, ready, skew, open>>
  BY <1>1 DEF ProbeFails, env, gate, history, IInv, Core, GateOwned
<1>3. ctl' \in Controllers
  BY <1>1, FieldValues DEF ProbeFails, Controllers
<1>4. TypeOK'
  BY <1>1, <1>2, <1>3 DEF TypeOK, RunStages
<1>5. CASE ctl.owner = r
  <2>1. hold = NoRun /\ ~ctl.timer
    BY <1>1, <1>2, <1>5
    DEF IInv, Core, GateOwned, OwnerStage, TimerMatchesPhase, AuthorizingIsOff, Armed
  <2>2. ctl'.phase = "failed" /\ ~ctl'.authorizing /\ ctl'.owner = NoRun /\ ~ctl'.timer
    BY <1>1, <1>5, <2>1 DEF ProbeFails, Controllers
  <2> QED
    BY <1>2, <1>4, <2>1, <2>2, ShutdownAssumption
    DEF IInv, Core, TimerMatchesPhase, GateOwned, OwnerStage, AuthorizingIsOff,
        NothingInFlight, ConsentBacksPlan, Armed
<1>6. CASE ctl.owner # r
  BY <1>1, <1>2, <1>4, <1>6
  DEF ProbeFails, IInv, Core, TypeOK, TimerMatchesPhase, GateOwned, OwnerStage,
      AuthorizingIsOff, NothingInFlight, ConsentBacksPlan
<1> QED
  BY <1>5, <1>6

\* Cancel, Interrupt, Quit and EngineDown: the controller moves quietly.
LEMMA StopsKeepIInv ==
  ASSUME IInv, Cancel \/ Interrupt \/ Quit \/ EngineDown
  PROVE  IInv'
<1>1. ctl \in Controllers /\ TypeOK /\ 0 \in 0..Grace
  BY FieldValues DEF IInv, TypeOK
<1>2. ASSUME NEW c \in {Cancelled(ctl), Interrupted(ctl)}, Becomes(c), UNCHANGED <<runs, incoming>>,
             consent' = consent \/ (c = Cancelled(ctl) /\ consent' = FALSE)
      PROVE  Core' /\ ctl' \in Controllers /\ hold' \in Runs \cup {NoRun}
             /\ work' \in [Works -> WorkStates]
  <2>1. Quiet(ctl, c) /\ (c = Cancelled(ctl) => Cancels(c))
    BY <1>1, CancelledQuiet, InterruptedQuiet DEF Cancels, Cancelled, Controllers
  <2> QED
    BY <1>1, <1>2, <2>1, QuietStep, BecomesTyped DEF Quiet
<1>3. CASE Cancel
  BY <1>1, <1>2, <1>3 DEF Cancel, IInv, TypeOK, env
<1>4. CASE Interrupt
  BY <1>1, <1>2, <1>4 DEF Interrupt, IInv, TypeOK, env
<1>5. CASE EngineDown
  BY <1>1, <1>2, <1>5 DEF EngineDown, IInv, TypeOK
<1>6. CASE Quit
  <2>1. Cancels(ctl') /\ ctl' \in Controllers
    BY <1>1, <1>6, CancelledQuiet DEF Quit, Cancels, Cancelled, Controllers, Quiet
  <2>2. hold' = NoRun /\ work' \in [Works -> WorkStates]
    BY <1>1, <1>6, ReleasedTyped DEF Quit, Released
  <2>3. TypeOK'
    BY <1>1, <1>6, <2>1, <2>2 DEF Quit, TypeOK, env
  <2> QED
    BY <1>6, <2>1, <2>2, <2>3, ShutdownAssumption
    DEF Quit, IInv, Core, TimerMatchesPhase, GateOwned, OwnerStage, AuthorizingIsOff,
        NothingInFlight, ConsentBacksPlan, Armed, Cancels
<1> QED
  BY <1>3, <1>4, <1>5, <1>6

LEMMA DrainDoneKeepsIInv == ASSUME IInv, NEW r \in Runs, DrainDone(r) PROVE IInv'
<1>1. ctl \in Controllers /\ TypeOK /\ r # NoRun /\ runs[r] = "draining"
  BY ShutdownAssumption DEF IInv, TypeOK, DrainDone
<1>2. /\ UNCHANGED <<incoming, consent, calm, age, task, ready, skew, open>>
      /\ \A w \in Works : work[w] # "running"
  BY DEF DrainDone, env, history
<1>3. CASE ctl.owner # r \/ incoming[r]
  <2>1. runs' = [runs EXCEPT ![r] = "skipped"] /\ UNCHANGED <<ctl, hold, work>>
    BY <1>3 DEF DrainDone
  <2> QED
    BY <1>1, <1>2, <2>1
    DEF IInv, Core, TypeOK, TimerMatchesPhase, GateOwned, OwnerStage, AuthorizingIsOff,
        NothingInFlight, ConsentBacksPlan, RunStages
<1>4. CASE ~(ctl.owner # r \/ incoming[r])
  <2> DEFINE k == Collected(ctl)
             s == IF AllDone(k) /\ k.owner = r THEN "saving" ELSE "skipped"
  <2>1. Becomes(k) /\ runs' = [runs EXCEPT ![r] = s] /\ Quiet(ctl, k)
    BY <1>1, <1>4, CollectedQuiet DEF DrainDone
  <2>2. ctl.owner = r /\ hold = r
    BY <1>1, <1>4 DEF IInv, Core, OwnerStage
  <2>3. s \in {"saving", "skipped"} /\ (s = "saving" => k.owner = r)
    OBVIOUS
  <2> HIDE DEF k, s
  <2>4. ctl' = k
    BY <2>1 DEF Becomes
  <2>5. hold' = IF k.preparation = NoRun /\ hold = ctl.preparation THEN NoRun ELSE hold
    BY <1>1, <2>1, ReleasedTyped DEF Becomes, TypeOK
  <2>6. \A w \in Works : work'[w] # "running"
    BY <1>1, <1>2, <2>1, ReleasedTyped DEF Becomes
  <2>7. TypeOK'
    BY <1>1, <1>2, <2>1, <2>3, BecomesTyped DEF TypeOK, RunStages, Quiet
  <2>8. TimerMatchesPhase' /\ AuthorizingIsOff' /\ ConsentBacksPlan'
    BY <1>2, <2>1, <2>4
    DEF IInv, Core, TimerMatchesPhase, AuthorizingIsOff, ConsentBacksPlan, Armed,
        Quiet, Keeps, Interrupts, Cancels
  <2>9. GateOwned' /\ OwnerStage' /\ NothingInFlight'
    BY <1>1, <2>1, <2>2, <2>3, <2>4, <2>5, <2>6, ShutdownAssumption
    DEF IInv, Core, TypeOK, GateOwned, OwnerStage, NothingInFlight, Quiet, Keeps,
        Interrupts, Cancels
  <2> QED
    BY <2>7, <2>8, <2>9 DEF IInv, Core
<1> QED
  BY <1>3, <1>4

LEMMA SaveDoneKeepsIInv == ASSUME IInv, NEW r \in Runs, SaveDone(r) PROVE IInv'
BY DEF SaveDone, env, gate, history, IInv, Core, TypeOK, TimerMatchesPhase, GateOwned,
       OwnerStage, AuthorizingIsOff, NothingInFlight, ConsentBacksPlan, RunStages

LEMMA FailsKeepsIInv ==
  ASSUME IInv, NEW r \in Runs, runs[r] \in {"draining", "saving", "requesting"}, Fails(r)
  PROVE  IInv'
<1> DEFINE c == IF ctl.owner = r
                THEN [ctl EXCEPT !.owner = NoRun, !.timer = FALSE, !.phase = "failed", !.left = 0]
                ELSE ctl
<1>1. ctl \in Controllers /\ TypeOK /\ r # NoRun
  BY ShutdownAssumption DEF IInv, TypeOK
<1>2. /\ c \in Controllers
      /\ c.authorizing = ctl.authorizing
      /\ ctl.owner # r => c = ctl
      /\ ctl.owner = r => c.phase = "failed" /\ ~c.timer /\ c.owner = NoRun
  BY <1>1, FieldValues DEF Controllers
<1>3. Finishes(r, c) /\ consent' = consent
  BY DEF Fails, history
<1> HIDE DEF c
<1>4. Core'
  BY <1>1, <1>2, <1>3, FinishesStep
  DEF IInv, Core, TimerMatchesPhase, AuthorizingIsOff, Armed, Keeps
<1>5. TypeOK'
  BY <1>1, <1>2, <1>3, FinishesTyped DEF Fails, TypeOK, env, history
<1> QED
  BY <1>4, <1>5 DEF IInv

LEMMA RequestAcceptedKeepsIInv == ASSUME IInv, NEW r \in Runs, RequestAccepted(r) PROVE IInv'
<1>1. ctl \in Controllers /\ TypeOK /\ runs[r] = "requesting"
  BY DEF IInv, TypeOK, RequestAccepted
<1>2. Core'
  BY <1>1, FinishesStep
  DEF RequestAccepted, history, IInv, Core, TimerMatchesPhase, AuthorizingIsOff, Keeps
<1>3. TypeOK'
  BY <1>1, FinishesTyped DEF RequestAccepted, TypeOK, env, history
<1> QED
  BY <1>2, <1>3 DEF IInv

LEMMA ConcludeStaleKeepsIInv == ASSUME IInv, NEW r \in Runs, ConcludeStale(r) PROVE IInv'
<1> DEFINE c == IF ctl.owner = r THEN Observed(ctl) ELSE ctl
<1>1. ctl \in Controllers /\ TypeOK /\ r # NoRun /\ runs[r] \in {"skipped", "saved"}
  BY ShutdownAssumption DEF IInv, TypeOK, ConcludeStale
<1>2. Finishes(r, c) /\ consent' = consent /\ UNCHANGED <<task, ready, open, calm, age>>
      /\ skew' \in BOOLEAN
  BY <1>1 DEF ConcludeStale, history, TypeOK
<1>3. Quiet(ctl, c) /\ (ctl.owner # r => c = ctl) /\ (ctl.owner = r => c.owner # r)
  BY <1>1, ObservedQuiet DEF ConcludeStale, Quiet, Keeps
<1> HIDE DEF c
<1>4. TypeOK'
  BY <1>1, <1>2, <1>3, FinishesTyped DEF TypeOK, Quiet
<1>5. ctl.owner = r => hold = r
  BY <1>1 DEF IInv, Core, OwnerStage
<1>6. Core'
  BY <1>1, <1>2, <1>3, <1>5, FinishesStep
  DEF IInv, Core, TimerMatchesPhase, AuthorizingIsOff, Armed, Quiet, Keeps, Interrupts, Cancels
<1> QED
  BY <1>4, <1>6 DEF IInv

LEMMA ConcludeWaitsKeepsIInv == ASSUME IInv, NEW r \in Runs, ConcludeWaits(r) PROVE IInv'
<1> DEFINE o  == Observed(ctl)
           k  == Collected(o)
           c1 == [o EXCEPT !.phase = "waiting"]
           c2 == IF k.owner = r THEN [k EXCEPT !.phase = "waiting"] ELSE k
<1>1. /\ ctl \in Controllers /\ TypeOK /\ r # NoRun /\ runs[r] \in {"skipped", "saved"}
      /\ ctl.owner = r /\ o.owner = r
      /\ UNCHANGED <<consent, calm, age, task, ready, open>> /\ skew' \in BOOLEAN
  BY ShutdownAssumption DEF IInv, TypeOK, ConcludeWaits, history
<1>2. hold = r /\ ctl.phase = "preparing"
  BY <1>1 DEF IInv, Core, OwnerStage
<1>3. /\ o \in Controllers /\ k \in Controllers
      /\ Keeps(ctl, o) /\ Quiet(o, k)
  BY <1>1, ConcludeShape
<1>4. PICK c \in {c1, c2} : Finishes(r, c)
  BY DEF ConcludeWaits
<1> HIDE DEF o, k
<1>5. /\ c \in Controllers
      /\ c.phase \in {"waiting", "off"} /\ c.owner \in {ctl.owner, NoRun}
      /\ ~c.authorizing /\ (c.timer <=> c.phase \in Armed)
  <2>1. ~ctl.authorizing /\ ctl.timer
    BY <1>2 DEF IInv, Core, AuthorizingIsOff, TimerMatchesPhase, Armed
  <2>2. CASE c = c1
    BY <1>2, <1>3, <2>1, <2>2, FieldValues DEF Controllers, Keeps, Armed
  <2>3. CASE c = c2
    BY <1>1, <1>2, <1>3, <2>1, <2>3, FieldValues
    DEF Controllers, Keeps, Quiet, Interrupts, Cancels, Armed
  <2> QED
    BY <1>4, <2>2, <2>3
<1> HIDE DEF c1, c2
<1>6. Core'
  BY <1>1, <1>2, <1>4, <1>5, FinishesStep DEF Armed
<1>7. TypeOK'
  BY <1>1, <1>4, <1>5, FinishesTyped DEF TypeOK
<1> QED
  BY <1>6, <1>7 DEF IInv

LEMMA RequestKeepsIInv == ASSUME IInv, NEW r \in Runs, Request(r) PROVE IInv'
<1> DEFINE k == Collected(Observed(ctl))
<1>1. /\ ctl \in Controllers /\ TypeOK /\ r # NoRun /\ runs[r] = "saved"
      /\ ctl.owner = r /\ Observed(ctl).owner = r /\ k.owner = r
      /\ UNCHANGED <<gate, calm, age, task, ready, open>> /\ skew' \in BOOLEAN
      /\ ctl' = [k EXCEPT !.phase = "requested", !.timer = FALSE]
      /\ runs' = [runs EXCEPT ![r] = "requesting"] /\ consent' = FALSE
  BY ShutdownAssumption DEF IInv, TypeOK, Request
<1>2. hold = r /\ ctl.phase = "preparing" /\ ~ctl.authorizing
  BY <1>1 DEF IInv, Core, OwnerStage, AuthorizingIsOff
<1>3. k \in Controllers /\ Keeps(ctl, k)
  BY <1>1, ConcludeShape
<1> HIDE DEF k
<1>4. /\ ctl' \in Controllers /\ ctl'.phase = "requested" /\ ~ctl'.timer /\ ~ctl'.authorizing
      /\ ctl'.owner = r /\ ctl'.preparation = ctl.preparation
  BY <1>1, <1>2, <1>3, FieldValues DEF Controllers, Keeps
<1>5. TypeOK'
  BY <1>1, <1>4 DEF TypeOK, RunStages, gate
<1>6. Core'
  BY <1>1, <1>2, <1>4
  DEF IInv, Core, TypeOK, TimerMatchesPhase, GateOwned, OwnerStage, AuthorizingIsOff,
      NothingInFlight, ConsentBacksPlan, Armed, gate
<1> QED
  BY <1>5, <1>6 DEF IInv

\* The coordinator lets an operation run only when no lease is out.
LEMMA WorkKeepsIInv ==
  ASSUME IInv, NEW w \in Works, Submit(w) \/ Resubmit(w) \/ WorkDone(w)
  PROVE  IInv'
<1>1. CASE WorkDone(w)
  BY <1>1
  DEF WorkDone, env, history, IInv, Core, TypeOK, TimerMatchesPhase, GateOwned, OwnerStage,
      AuthorizingIsOff, NothingInFlight, ConsentBacksPlan, WorkStates
<1>2. CASE Submit(w) \/ Resubmit(w)
  <2>1. Admit(w) /\ UNCHANGED <<env, ctl, runs, hold, open, history>>
    BY <1>2 DEF Submit, Resubmit
  <2>2. TypeOK'
    BY <2>1 DEF Admit, IInv, TypeOK, env, history, WorkStates
  <2>3. NothingInFlight'
    BY <2>1 DEF Admit, IInv, Core, TypeOK, NothingInFlight
  <2> QED
    BY <2>1, <2>2, <2>3
    DEF IInv, Core, env, history, TimerMatchesPhase, GateOwned, OwnerStage,
        AuthorizingIsOff, ConsentBacksPlan
<1> QED
  BY <1>1, <1>2

LEMMA WorldKeepsIInv ==
  ASSUME IInv, (\E t \in Tasks : TaskChange(t)) \/ EngineUp \/ ClockJump \/ Tick
  PROVE  IInv'
<1>1. CASE \E t \in Tasks : TaskChange(t)
  <2>1. PICK t \in Tasks : TaskChange(t)
    BY <1>1
  <2>2. TypeOK'
    <3>1. task' \in [Tasks -> TaskStates]
      BY <2>1 DEF TaskChange, Successors, IInv, TypeOK, TaskStates
    <3>2. age' \in [Tasks -> 0..Grace]
      BY <2>1, FieldValues DEF TaskChange, IInv, TypeOK
    <3> QED
      BY <2>1, <3>1, <3>2 DEF TaskChange, IInv, TypeOK, gate
  <2> QED
    BY <2>1, <2>2
    DEF TaskChange, gate, IInv, Core, TimerMatchesPhase, GateOwned, OwnerStage,
        AuthorizingIsOff, NothingInFlight, ConsentBacksPlan
<1>2. CASE EngineUp \/ ClockJump
  BY <1>2, FieldValues
  DEF EngineUp, ClockJump, env, gate, history, IInv, Core, TypeOK, TimerMatchesPhase,
      GateOwned, OwnerStage, AuthorizingIsOff, NothingInFlight, ConsentBacksPlan
<1>3. CASE Tick
  <2>1. ctl \in Controllers /\ ctl.left \in 0..Grace /\ ctl.left > 0
    BY <1>3 DEF Tick, IInv, TypeOK, Controllers
  <2>2. ctl.left - 1 \in 0..Grace
    BY <2>1, ShutdownAssumption
  <2>3. ctl' \in Controllers /\ Keeps([ctl EXCEPT !.left = @ - 1], ctl')
    BY <1>3, <2>1, <2>2 DEF Tick, Controllers, Keeps
  <2>4. \A n \in 0..Grace : Older(n) \in 0..Grace
    BY ShutdownAssumption DEF Older
  <2>5. TypeOK'
    BY <1>3, <2>3, <2>4, FieldValues DEF Tick, IInv, TypeOK, env, gate
  <2>6. /\ ctl'.phase = ctl.phase /\ ctl'.authorizing = ctl.authorizing
        /\ ctl'.owner = ctl.owner /\ ctl'.timer = ctl.timer /\ ctl'.preparation = ctl.preparation
    BY <1>3, <2>1 DEF Tick, Controllers
  <2> QED
    BY <1>3, <2>5, <2>6
    DEF Tick, gate, IInv, Core, TimerMatchesPhase, GateOwned, OwnerStage,
        AuthorizingIsOff, NothingInFlight, ConsentBacksPlan
<1> QED
  BY <1>1, <1>2, <1>3

LEMMA NextKeepsIInv == IInv /\ [Next]_vars => IInv'
<1> SUFFICES ASSUME IInv, [Next]_vars PROVE IInv'
  OBVIOUS
<1>1. CASE Evaluate
  BY <1>1, EvaluateKeepsIInv
<1>2. CASE Tick \/ EngineUp
  BY <1>2, WorldKeepsIInv
<1>3. CASE Disturbance
  BY <1>3, WorldKeepsIInv, StopsKeepIInv, WorkKeepsIInv DEF Disturbance
<1>4. CASE \E r \in Runs : Enable(r) \/ RunStep(r)
  BY <1>4, EnableKeepsIInv, ProbeStartsKeepsIInv, ProbeSucceedsKeepsIInv, ProbeFailsKeepsIInv,
     DrainDoneKeepsIInv, SaveDoneKeepsIInv, FailsKeepsIInv, RequestAcceptedKeepsIInv,
     ConcludeStaleKeepsIInv, ConcludeWaitsKeepsIInv, RequestKeepsIInv
  DEF RunStep, SaveFails, PrepareTimesOut, RequestFails
<1>5. CASE \E w \in Works : Resubmit(w) \/ WorkDone(w)
  BY <1>5, WorkKeepsIInv
<1>6. CASE UNCHANGED vars
  BY <1>6
  DEF vars, IInv, Core, TypeOK, TimerMatchesPhase, GateOwned, OwnerStage,
      AuthorizingIsOff, NothingInFlight, ConsentBacksPlan
<1> QED
  BY <1>1, <1>2, <1>3, <1>4, <1>5, <1>6 DEF Next

-----------------------------------------------------------------------------
(* The theorems.                                                            *)

\* The strengthening holds in every reachable state.
THEOREM Invariance == Spec => []IInv
BY InitIInv, NextKeepsIInv, PTL DEF Spec

\* The variables keep their types in every step of the controller, of its
\* suspended activations and of the coordinator.
THEOREM TypeCorrect == Spec => []TypeOK
<1>1. IInv => TypeOK
  BY DEF IInv
<1> QED
  BY <1>1, Invariance, PTL

\* The one-second timer (startTimer, stopTimer) runs exactly while a plan is armed.
THEOREM TimerCorrect == Spec => []TimerMatchesPhase
<1>1. IInv => TimerMatchesPhase
  BY DEF IInv, Core
<1> QED
  BY <1>1, Invariance, PTL

\* Whatever interrupts, cancels, fails or is late, the coordinator's lease is
\* out only for the activation the controller still waits for.
THEOREM GateNeverLeaks == Spec => []GateOwned
<1>1. IInv => GateOwned
  BY DEF IInv, Core
<1> QED
  BY <1>1, Invariance, PTL

\* The controller moves to "requested" in no step but Request(r).
LEMMA OnlyRequest ==
  ASSUME IInv, [Next]_vars, Requesting
  PROVE  \E r \in Runs : Request(r)
<1>1. /\ ctl \in Controllers /\ ctl.phase # "requested" /\ ctl'.phase = "requested"
      /\ ctl' # ctl
  BY DEF IInv, TypeOK, Requesting
<1>2. ASSUME NEW c, Quiet(ctl, c) \/ StartsCountdown(ctl, c)
      PROVE  c.phase # "requested" /\ c # ctl'
  BY <1>1, <1>2 DEF Quiet, Keeps, Interrupts, Cancels, StartsCountdown
<1>3. /\ Quiet(ctl, Cancelled(ctl)) /\ Quiet(ctl, Interrupted(ctl)) /\ Quiet(ctl, Observed(ctl))
      /\ Quiet(ctl, Collected(ctl)) /\ Quiet(ctl, Collected(Observed(ctl)))
  BY <1>1, CancelledQuiet, InterruptedQuiet, ObservedQuiet, CollectedQuiet, QuietTrans DEF Quiet
<1>4. ASSUME NEW r, NEW c, Finishes(r, c), c.phase # "requested", c \in Controllers PROVE FALSE
  BY <1>1, <1>4 DEF Finishes, Controllers
<1>5. ~Evaluate
  <2>1. CASE Due(ctl)
    <3>1. ASSUME NEW r \in FreeRuns, Execute(r) PROVE FALSE
      <4>1. Collected(Observed(ctl)) \in Controllers
        BY <1>3 DEF Quiet
      <4>2. \/ ctl' = [Collected(Observed(ctl)) EXCEPT !.phase = "failed", !.owner = NoRun, !.timer = FALSE]
            \/ ctl' = [Collected(Observed(ctl)) EXCEPT !.phase = "preparing", !.owner = r, !.preparation = r]
        BY <3>1 DEF Execute
      <4> QED
        BY <1>1, <4>1, <4>2 DEF Controllers
    <3> QED
      BY <2>1, <3>1 DEF Evaluate
  <2>2. CASE ~Due(ctl)
    BY <1>1, <1>2, <2>2, EvaluatedShape DEF Evaluate, Becomes
  <2> QED
    BY <2>1, <2>2
<1>6. ~Tick /\ ~EngineUp
  BY <1>1 DEF Tick, EngineUp, Controllers
<1>7. ~Disturbance
  BY <1>1, <1>2, <1>3
  DEF Disturbance, TaskChange, Cancel, Interrupt, EngineDown, ClockJump, Quit, Submit, Becomes
<1>8. ASSUME NEW r \in Runs PROVE ~Enable(r)
  <2> SUFFICES ASSUME Enable(r) PROVE FALSE
    OBVIOUS
  <2> DEFINE c == [ctl EXCEPT !.owner = r, !.participants = {}, !.historical = NoBaseline,
                              !.authorizing = TRUE]
  <2>1. c \in Controllers /\ c.phase \in {"off", "failed"}
    BY <1>1, FieldValues DEF Enable, Controllers
  <2>2. ctl' = Collected(c)
    BY DEF Enable
  <2> HIDE DEF c
  <2> QED
    BY <1>1, <2>1, <2>2, CollectedQuiet DEF Quiet, Keeps, Interrupts, Cancels
<1>9. ASSUME NEW r \in Runs PROVE ~ProbeStarts(r) /\ ~ProbeFails(r) /\ ~DrainDone(r) /\ ~SaveDone(r)
  <2>1. ~ProbeStarts(r)
    BY <1>1, <1>2, EvaluatedShape DEF ProbeStarts, Becomes
  <2>2. ~ProbeFails(r)
    BY <1>1 DEF ProbeFails, Controllers
  <2>3. ~DrainDone(r) /\ ~SaveDone(r)
    BY <1>1, <1>2, <1>3 DEF DrainDone, SaveDone, Becomes
  <2> QED
    BY <2>1, <2>2, <2>3
<1>10. ASSUME NEW r \in Runs PROVE ~ProbeSucceeds(r)
  <2> SUFFICES ASSUME ProbeSucceeds(r), ctl.owner = r PROVE FALSE
    BY <1>1 DEF ProbeSucceeds
  <2> DEFINE armed == [ctl EXCEPT !.owner = NoRun, !.authorizing = FALSE,
                                  !.phase = "waiting", !.timer = TRUE]
             k     == Collected(armed)
  <2>1. armed \in Controllers /\ armed.phase = "waiting"
    BY <1>1, FieldValues DEF Controllers
  <2>2. Quiet(armed, k)
    BY <2>1, CollectedQuiet
  <2>3. \/ ctl' = [k EXCEPT !.phase = "countdown", !.left = Grace]
        \/ ctl' = k
    BY DEF ProbeSucceeds, Becomes
  <2> HIDE DEF armed, k
  <2> QED
    BY <1>1, <2>1, <2>2, <2>3 DEF Quiet, Keeps, Interrupts, Cancels, Controllers
<1>11. ASSUME NEW r \in Runs, Fails(r) PROVE FALSE
  <2> DEFINE c == IF ctl.owner = r
                  THEN [ctl EXCEPT !.owner = NoRun, !.timer = FALSE, !.phase = "failed", !.left = 0]
                  ELSE ctl
  <2>1. c \in Controllers /\ c.phase # "requested"
    BY <1>1, FieldValues DEF Controllers
  <2>2. Finishes(r, c)
    BY <1>11 DEF Fails
  <2> HIDE DEF c
  <2> QED
    BY <1>4, <2>1, <2>2
<1>12. ASSUME NEW r \in Runs PROVE ~RequestAccepted(r) /\ ~ConcludeStale(r)
  BY <1>1, <1>2, <1>3, <1>4 DEF RequestAccepted, ConcludeStale, Quiet
<1>13. ASSUME NEW r \in Runs PROVE ~ConcludeWaits(r)
  <2> DEFINE o == Observed(ctl)
             k == Collected(o)
  <2>1. o \in Controllers /\ k \in Controllers /\ k.phase # "requested"
    BY <1>2, <1>3 DEF Quiet
  <2> HIDE DEF o, k
  <2>2. ASSUME NEW c \in {[o EXCEPT !.phase = "waiting"], [k EXCEPT !.phase = "waiting"], k}
        PROVE  c \in Controllers /\ c.phase # "requested"
    BY <2>1, FieldValues DEF Controllers
  <2> QED
    BY <1>4, <2>2 DEF ConcludeWaits, o, k
<1> QED
  BY <1>1, <1>5, <1>6, <1>7, <1>8, <1>9, <1>10, <1>11, <1>12, <1>13
  DEF Next, RunStep, SaveFails, PrepareTimesOut, RequestFails, Resubmit, WorkDone, vars

\* What AllDone says of the task list when the controller was just collected.
LEMMA AllDoneMeans ==
  ASSUME NEW c \in Controllers, AllDone(Collected(c)), Collected(c).owner # NoRun
  PROVE  IsReady /\ Live # {} /\ Live \subseteq Finished
<1> DEFINE baseline == IF c.historical.known THEN c.historical
                       ELSE [known |-> TRUE, ids |-> Completed]
           added    == {t \in Live : t \notin baseline.ids \/ t \notin Completed}
           grown    == [c EXCEPT !.historical = baseline, !.participants = @ \cup added]
<1>1. IsReady /\ Live \subseteq Finished /\ Collected(c).participants # {}
  BY DEF AllDone
<1>2. c.participants \subseteq Live
  <2>1. Cancelled(c).participants = {}
    BY DEF Cancelled, Controllers
  <2> QED
    BY <1>1, <2>1 DEF Collected
<1>3. grown.participants \subseteq Live
  BY <1>2 DEF Controllers
<1>4. Interrupted(grown).participants = grown.participants
  BY DEF Interrupted
<1>5. Collected(c) \in {grown, Interrupted(grown)}
  BY <1>1, <1>2 DEF Collected
<1> HIDE DEF grown
<1> QED
  BY <1>1, <1>3, <1>4, <1>5

\* The platform is asked to shut down only by a run whose save succeeded, with
\* its lease still out, nothing in flight and every listed task finished.
THEOREM RequestSafety == Spec => RequestIsSafe
<1>1. IInv /\ [Next]_vars =>
        (Requesting => \E r \in Runs :
           /\ runs[r] = "saved" /\ hold = r /\ ~incoming[r]
           /\ IsReady /\ Live # {} /\ Live \subseteq Finished
           /\ \A w \in Works : work[w] # "running")
  <2> SUFFICES ASSUME IInv, [Next]_vars, Requesting
               PROVE  \E r \in Runs :
                        /\ runs[r] = "saved" /\ hold = r /\ ~incoming[r]
                        /\ IsReady /\ Live # {} /\ Live \subseteq Finished
                        /\ \A w \in Works : work[w] # "running"
    OBVIOUS
  <2>1. PICK r \in Runs : Request(r)
    BY OnlyRequest
  <2>2. runs[r] = "saved" /\ ctl.owner = r /\ ~incoming[r] /\ r # NoRun
    BY <2>1, ShutdownAssumption DEF Request
  <2>3. hold = r
    BY <2>2 DEF IInv, Core, OwnerStage
  <2>4. \A w \in Works : work[w] # "running"
    BY <2>2, <2>3 DEF IInv, Core, NothingInFlight
  <2>5. IsReady /\ Live # {} /\ Live \subseteq Finished
    BY <2>1, <2>2, ObservedQuiet, AllDoneMeans DEF Request, IInv, TypeOK, Quiet
  <2> QED
    BY <2>2, <2>3, <2>4, <2>5
<1> QED
  BY <1>1, Invariance, PTL DEF Spec, RequestIsSafe

\* A plan that was not cancelled since its setEnabled(true) pays for one request.
THEOREM OneRequestPerConsent == Spec => OneShot
<1>1. IInv /\ [Next]_vars => (Requesting => consent)
  <2> SUFFICES ASSUME IInv, [Next]_vars, Requesting PROVE consent
    OBVIOUS
  <2>1. PICK r \in Runs : Request(r)
    BY OnlyRequest
  <2> QED
    BY <2>1 DEF Request, IInv, Core, OwnerStage, ConsentBacksPlan, Armed
<1> QED
  BY <1>1, Invariance, PTL DEF Spec, OneShot

-----------------------------------------------------------------------------
(***************************************************************************)
(* The whole grace period.  What has passed of it since the last           *)
(* disturbance, and since a task the controller has seen was listed, is at *)
(* least what the countdown has used up.                                   *)
(***************************************************************************)

Closing(c) == c.phase \in {"countdown", "preparing"}

\* What is left of the countdown.
Left(c) == IF c.phase = "countdown" THEN c.left ELSE 0

\* The tasks of the baseline and the participants.
Seen(c) == c.historical.ids \cup c.participants

Waited ==
  /\ \A t \in Seen(ctl) : task[t] # "absent"
  /\ Closing(ctl) =>
       /\ open /\ ctl.historical.known
       /\ skew \/ calm + Left(ctl) >= Grace
       /\ \A t \in Live \cap Seen(ctl) : age[t] + Left(ctl) >= Grace

\* From c to k without a start of the countdown: if it goes on, it is where it
\* was, and no task was added to those the controller has seen.
Careful(c, k) ==
  /\ k \in Controllers
  /\ Seen(k) \subseteq Seen(c) \cup Live
  /\ Closing(k) =>
       /\ Closing(c) /\ Left(k) = Left(c)
       /\ c.historical.known => k.historical = c.historical /\ k.participants = c.participants

Starts(c, k) ==
  /\ k \in Controllers
  /\ Seen(k) \subseteq Seen(c) \cup Live
  /\ open /\ k.phase = "countdown" /\ k.left = Grace /\ k.historical.known

-----------------------------------------------------------------------------
(* The synchronous methods once more.                                       *)

LEMMA CarefulTrans ==
  ASSUME NEW c, NEW d, NEW e, Careful(c, d), Careful(d, e)
  PROVE  Careful(c, e)
BY DEF Careful, Seen

LEMMA CancelledCareful ==
  ASSUME NEW c \in Controllers
  PROVE  Careful(c, Cancelled(c)) /\ ~Closing(Cancelled(c))
<1>1. /\ Cancelled(c).phase = "off" /\ Cancelled(c).participants = {}
      /\ Cancelled(c).historical = NoBaseline
  BY DEF Cancelled, Controllers
<1> QED
  BY <1>1, CancelledQuiet DEF Quiet, Careful, Closing, Seen, NoBaseline

LEMMA InterruptedCareful ==
  ASSUME NEW c \in Controllers
  PROVE  Careful(c, Interrupted(c)) /\ ~Closing(Interrupted(c))
<1>1. CASE Closing(c)
  <2>1. /\ Interrupted(c).phase = "waiting" /\ Interrupted(c).participants = c.participants
        /\ Interrupted(c).historical = c.historical
    BY <1>1 DEF Interrupted, Controllers, Closing
  <2> QED
    BY <2>1, InterruptedQuiet DEF Quiet, Careful, Closing, Seen
<1>2. CASE ~Closing(c)
  BY <1>2 DEF Interrupted, Careful, Closing
<1> QED
  BY <1>1, <1>2

LEMMA ObservedCareful ==
  ASSUME NEW c \in Controllers
  PROVE  Careful(c, Observed(c)) /\ (skew => ~Closing(Observed(c)))
BY InterruptedCareful DEF Observed, Careful

LEMMA CollectedCareful ==
  ASSUME NEW c \in Controllers
  PROVE  /\ Careful(c, Collected(c))
         /\ AllDone(Collected(c)) => Collected(c).historical.known
<1> DEFINE baseline == IF c.historical.known THEN c.historical
                       ELSE [known |-> TRUE, ids |-> Completed]
           added    == {t \in Live : t \notin baseline.ids \/ t \notin Completed}
           grown    == [c EXCEPT !.historical = baseline, !.participants = @ \cup added]
<1>1. Completed \subseteq Live /\ Live \subseteq Tasks
  BY DEF Completed, Live
<1>2. /\ baseline \in [known : BOOLEAN, ids : SUBSET Tasks] /\ baseline.known
      /\ baseline.ids \subseteq c.historical.ids \cup Live
      /\ c.historical.known => baseline = c.historical
  BY <1>1 DEF Controllers
<1>3. added \subseteq Live
  OBVIOUS
<1> HIDE DEF baseline, added
<1>4. /\ grown \in Controllers /\ Keeps(c, grown)
      /\ grown.historical = baseline /\ grown.participants = c.participants \cup added
  BY <1>1, <1>2, <1>3 DEF Controllers, Keeps
<1> HIDE DEF grown
<1>5. Seen(grown) \subseteq Seen(c) \cup Live
  BY <1>2, <1>3, <1>4 DEF Seen
<1>6. CASE ~IsReady
  BY <1>6 DEF Collected, AllDone, Careful
<1>7. CASE IsReady /\ ~(c.participants \subseteq Live)
  <2>1. Collected(c) = Cancelled(c) /\ Cancelled(c).participants = {}
    BY <1>7 DEF Collected, Cancelled, Controllers
  <2> QED
    BY <2>1, CancelledCareful DEF AllDone
<1>8. CASE IsReady /\ c.participants \subseteq Live /\ added \subseteq c.participants
  <2>1. Collected(c) = grown
    BY <1>8 DEF Collected, baseline, added, grown
  <2> QED
    BY <1>2, <1>4, <1>5, <1>8, <2>1 DEF Careful, Closing, Left, Keeps
<1>9. CASE IsReady /\ c.participants \subseteq Live /\ ~(added \subseteq c.participants)
  <2>1. Collected(c) = Interrupted(grown)
    BY <1>9 DEF Collected, baseline, added, grown
  <2>2. Careful(grown, Interrupted(grown)) /\ ~Closing(Interrupted(grown))
    BY <1>4, InterruptedCareful
  <2>3. Interrupted(grown).historical = baseline /\ Seen(Interrupted(grown)) = Seen(grown)
    BY <1>4 DEF Interrupted, Controllers, Seen
  <2> QED
    BY <1>2, <1>5, <2>1, <2>2, <2>3 DEF Careful
<1> QED
  BY <1>6, <1>7, <1>8, <1>9

\* observeClock() and collectTasks(), one after the other.
LEMMA LookedCareful ==
  ASSUME NEW c \in Controllers
  PROVE  LET k == Collected(Observed(c))
         IN  /\ Careful(c, k) /\ (skew => ~Closing(k))
             /\ AllDone(k) => k.historical.known
BY ObservedCareful, CollectedCareful, CarefulTrans DEF Careful

LEMMA EvaluatedCareful ==
  ASSUME NEW c \in Controllers
  PROVE  \/ /\ Careful(c, Evaluated(c))
            /\ skew /\ ~c.authorizing /\ c.phase \in Armed => ~Closing(Evaluated(c))
         \/ Starts(c, Evaluated(c))
<1> DEFINE k == Collected(Observed(c))
<1>1. /\ Careful(c, k) /\ (skew => ~Closing(k)) /\ k \in Controllers
      /\ AllDone(k) => k.historical.known
  BY LookedCareful DEF Careful
<1>2. Careful(c, c) /\ Careful(c, Collected(c))
  BY CollectedCareful DEF Careful
<1>3. Careful(c, Interrupted(k)) /\ ~Closing(Interrupted(k))
  BY <1>1, InterruptedCareful, CarefulTrans
<1>4. CASE c.authorizing \/ c.phase \notin Armed
  BY <1>2, <1>4 DEF Evaluated
<1>5. CASE ~c.authorizing /\ c.phase \in Armed
  <2> HIDE DEF k
  <2>1. CASE ~AllDone(k)
    <3>1. Evaluated(c) = Interrupted(k)
      BY <1>5, <2>1 DEF Evaluated, k
    <3> QED
      BY <1>3, <3>1
  <2>2. CASE AllDone(k) /\ Observed(c).phase # "preparing" /\ k.phase = "waiting"
    <3>1. Evaluated(c) = [k EXCEPT !.phase = "countdown", !.left = Grace]
      BY <1>5, <2>2 DEF Evaluated, k
    <3> QED
      BY <1>1, <2>2, <3>1, FieldValues DEF Starts, Careful, Seen, Controllers, AllDone, IsReady
  <2>3. CASE AllDone(k) /\ ~(Observed(c).phase # "preparing" /\ k.phase = "waiting")
    <3>1. Evaluated(c) = k
      BY <1>5, <2>3 DEF Evaluated, k
    <3> QED
      BY <1>1, <3>1
  <2> QED
    BY <2>1, <2>2, <2>3
<1> QED
  BY <1>4, <1>5

-----------------------------------------------------------------------------
(* The steps.                                                               *)

LEMMA CarefulStep ==
  ASSUME IInv, Waited, Careful(ctl, ctl'), UNCHANGED <<task, age>>,
         Closing(ctl') => calm' = calm /\ open' = open /\ (skew => skew')
  PROVE  Waited'
<1>1. \A t \in Live : task[t] # "absent"
  BY DEF Live
<1>2. Live' = Live
  BY DEF Live
<1>3. \A t \in Seen(ctl') : task'[t] # "absent"
  BY <1>1 DEF Waited, Careful
<1>4. Closing(ctl') => Seen(ctl') = Seen(ctl) /\ ctl'.historical.known /\ Left(ctl') = Left(ctl)
  BY DEF Waited, Careful, Seen
<1>5. Closing(ctl') => open' /\ (skew' \/ calm' + Left(ctl') >= Grace)
  BY <1>4 DEF Waited, Careful
<1>6. Closing(ctl') => \A t \in Live' \cap Seen(ctl') : age'[t] + Left(ctl') >= Grace
  BY <1>2, <1>4 DEF Waited, Careful
<1> QED
  BY <1>3, <1>4, <1>5, <1>6 DEF Waited

LEMMA StartsStepWaited ==
  ASSUME IInv, Waited, Starts(ctl, ctl'), UNCHANGED <<task, age, calm, open>>
  PROVE  Waited'
<1>1. calm \in Nat /\ \A t \in Tasks : age[t] \in Nat
  BY DEF IInv, TypeOK
<1>2. Live \subseteq Tasks /\ Live' = Live /\ \A t \in Live : task[t] # "absent"
  BY DEF Live
<1>3. Left(ctl') = Grace /\ Closing(ctl')
  BY DEF Starts, Left, Closing
<1>4. \A t \in Seen(ctl') : task'[t] # "absent"
  BY <1>2 DEF Waited, Starts
<1>5. calm' + Left(ctl') >= Grace
  BY <1>1, <1>3, ShutdownAssumption
<1>6. \A t \in Live' \cap Seen(ctl') : age'[t] + Left(ctl') >= Grace
  BY <1>1, <1>2, <1>3, ShutdownAssumption
<1> QED
  BY <1>4, <1>5, <1>6 DEF Waited, Starts

\* The end of an activation keeps what the controller was told.
LEMMA FinishesCareful ==
  ASSUME NEW r, NEW c \in Controllers, Careful(ctl, c), Finishes(r, c)
  PROVE  Careful(ctl, ctl') /\ (Closing(ctl') <=> Closing(c))
<1>1. /\ ctl' \in Controllers /\ ctl'.phase = c.phase /\ ctl'.left = c.left
      /\ ctl'.historical = c.historical /\ ctl'.participants = c.participants
  BY FieldValues DEF Finishes, Controllers
<1> QED
  BY <1>1 DEF Careful, Closing, Left, Seen

LEMMA EvaluatedWaited ==
  ASSUME IInv, Waited, ctl' = Evaluated(ctl), UNCHANGED <<task, age, calm, open>>,
         skew' = IF ~ctl.authorizing /\ ctl.phase \in Armed THEN FALSE ELSE skew
  PROVE  Waited'
<1>1. ctl \in Controllers
  BY DEF IInv, TypeOK
<1>2. CASE Starts(ctl, ctl')
  BY <1>2, StartsStepWaited
<1>3. CASE /\ Careful(ctl, ctl')
           /\ skew /\ ~ctl.authorizing /\ ctl.phase \in Armed => ~Closing(ctl')
  BY <1>3, CarefulStep
<1> QED
  BY <1>1, <1>2, <1>3, EvaluatedCareful

LEMMA EvaluateWaited == ASSUME IInv, Waited, Evaluate PROVE Waited'
<1>1. /\ ctl \in Controllers /\ ctl' \in Controllers /\ UNCHANGED <<task, age, calm, open>>
      /\ skew' = IF ~ctl.authorizing /\ ctl.phase \in Armed THEN FALSE ELSE skew
  BY EvaluateKeepsIInv DEF IInv, TypeOK, Evaluate, history
<1>2. CASE Due(ctl)
  <2> DEFINE k == Collected(Observed(ctl))
  <2>1. /\ Careful(ctl, k) /\ (skew => ~Closing(k)) /\ k \in Controllers
        /\ k.phase = "countdown" /\ k.left = 0
    BY <1>1, <1>2, LookedCareful DEF Due, Careful
  <2> HIDE DEF k
  <2>2. PICK r \in FreeRuns : Execute(r)
    BY <1>2 DEF Evaluate
  <2>3. \/ ctl' = [k EXCEPT !.phase = "failed", !.owner = NoRun, !.timer = FALSE]
        \/ ctl' = [k EXCEPT !.phase = "preparing", !.owner = r, !.preparation = r]
    BY <2>2 DEF Execute, k
  <2>4. /\ ctl'.phase \in {"failed", "preparing"} /\ ctl'.left = 0
        /\ ctl'.historical = k.historical /\ ctl'.participants = k.participants
    <3>1. CASE ctl' = [k EXCEPT !.phase = "failed", !.owner = NoRun, !.timer = FALSE]
      BY <2>1, <3>1 DEF Controllers
    <3>2. CASE ctl' = [k EXCEPT !.phase = "preparing", !.owner = r, !.preparation = r]
      BY <2>1, <3>2 DEF Controllers
    <3> QED
      BY <2>3, <3>1, <3>2
  <2>5. Seen(ctl') = Seen(k) /\ Left(ctl') = Left(k) /\ Closing(k)
    BY <2>1, <2>4 DEF Seen, Left, Closing
  <2>6. Careful(ctl, ctl') /\ ~skew
    BY <1>1, <2>1, <2>4, <2>5 DEF Careful
  <2> QED
    BY <1>1, <2>6, CarefulStep
<1>3. CASE ~Due(ctl)
  BY <1>1, <1>3, EvaluatedWaited DEF Evaluate, Becomes
<1> QED
  BY <1>2, <1>3

LEMMA EnableWaited == ASSUME IInv, Waited, NEW r \in Runs, Enable(r) PROVE Waited'
<1> DEFINE c == [ctl EXCEPT !.owner = r, !.participants = {}, !.historical = NoBaseline,
                            !.authorizing = TRUE]
<1>1. ctl' = Collected(c) /\ UNCHANGED <<task, age, calm, skew, open>>
  BY DEF Enable, env
<1>2. /\ c \in Controllers /\ ~Closing(c) /\ Seen(c) = {}
  BY FieldValues DEF IInv, TypeOK, Enable, Controllers, Closing, Seen, NoBaseline
<1> HIDE DEF c
<1>3. Careful(ctl, c) /\ Careful(c, ctl')
  BY <1>1, <1>2, CollectedCareful DEF Careful
<1> QED
  BY <1>1, <1>3, CarefulTrans, CarefulStep

LEMMA ProbeStartsWaited == ASSUME IInv, Waited, NEW r \in Runs, ProbeStarts(r) PROVE Waited'
<1>1. /\ UNCHANGED <<task, age, calm, open>> /\ ctl' = IF open THEN Evaluated(ctl) ELSE ctl
      /\ skew' = IF ~ctl.authorizing /\ ctl.phase \in Armed THEN FALSE ELSE skew
  BY DEF ProbeStarts, Becomes, history
<1>2. CASE open
  BY <1>1, <1>2, EvaluatedWaited
<1>3. CASE ~open
  <2>1. Careful(ctl, ctl') /\ ~Closing(ctl')
    BY <1>1, <1>3 DEF Careful, Waited, IInv, TypeOK
  <2> QED
    BY <1>1, <2>1, CarefulStep
<1> QED
  BY <1>2, <1>3

LEMMA ProbeSucceedsWaited == ASSUME IInv, Waited, NEW r \in Runs, ProbeSucceeds(r) PROVE Waited'
<1>1. ctl \in Controllers /\ UNCHANGED <<task, age, calm, open>>
  BY DEF IInv, TypeOK, ProbeSucceeds, history
<1>2. CASE ctl.owner # r
  <2>1. ctl' = ctl /\ skew' = skew
    BY <1>2 DEF ProbeSucceeds
  <2> QED
    BY <1>1, <2>1, CarefulStep DEF Careful
<1>3. CASE ctl.owner = r
  <2> DEFINE armed == [ctl EXCEPT !.owner = NoRun, !.authorizing = FALSE,
                                  !.phase = "waiting", !.timer = TRUE]
             k     == Collected(armed)
  <2>1. /\ armed \in Controllers /\ ~Closing(armed) /\ Seen(armed) = Seen(ctl)
    BY <1>1, FieldValues DEF Controllers, Closing, Seen
  <2>2. /\ Careful(ctl, k) /\ ~Closing(k) /\ k \in Controllers
        /\ AllDone(k) => k.historical.known
    <3> HIDE DEF armed
    <3>1. Careful(ctl, armed) /\ Careful(armed, k)
      BY <2>1, CollectedCareful DEF Careful
    <3> QED
      BY <2>1, <3>1, CollectedCareful, CarefulTrans DEF Careful
  <2>3. ctl' = IF AllDone(k) /\ k.phase = "waiting"
               THEN [k EXCEPT !.phase = "countdown", !.left = Grace] ELSE k
    BY <1>3 DEF ProbeSucceeds, Becomes
  <2> HIDE DEF k
  <2>4. CASE AllDone(k) /\ k.phase = "waiting"
    <3>1. Starts(ctl, ctl')
      BY <2>2, <2>3, <2>4, FieldValues DEF Starts, Careful, Seen, Controllers, AllDone, IsReady
    <3> QED
      BY <1>1, <3>1, StartsStepWaited
  <2>5. CASE ~(AllDone(k) /\ k.phase = "waiting")
    BY <1>1, <2>2, <2>3, <2>5, CarefulStep
  <2> QED
    BY <2>4, <2>5
<1> QED
  BY <1>2, <1>3

LEMMA ProbeFailsWaited == ASSUME IInv, Waited, NEW r \in Runs, ProbeFails(r) PROVE Waited'
<1>1. /\ ctl \in Controllers /\ ctl' \in Controllers
      /\ UNCHANGED <<task, age, calm, skew, open>>
  BY ProbeFailsKeepsIInv DEF IInv, TypeOK, ProbeFails, env, history
<1>2. \/ ctl' = ctl
      \/ ctl'.phase = "failed" /\ Seen(ctl') = Seen(ctl)
  BY <1>1 DEF ProbeFails, Controllers, Seen
<1>3. Careful(ctl, ctl')
  BY <1>1, <1>2 DEF Careful, Closing
<1> QED
  BY <1>1, <1>3, CarefulStep

\* The user, the platform, the engine and quitting stop the countdown.
LEMMA StopsWaited ==
  ASSUME IInv, Waited, Cancel \/ Interrupt \/ EngineDown \/ Quit
  PROVE  Waited'
<1>1. /\ UNCHANGED <<task, age>>
      /\ ctl' = Cancelled(ctl) \/ ctl' = Interrupted(ctl)
  BY DEF Cancel, Interrupt, EngineDown, Quit, Becomes, env
<1>2. Careful(ctl, ctl') /\ ~Closing(ctl')
  BY <1>1, CancelledCareful, InterruptedCareful DEF IInv, TypeOK
<1> QED
  BY <1>1, <1>2, CarefulStep

LEMMA DrainDoneWaited == ASSUME IInv, Waited, NEW r \in Runs, DrainDone(r) PROVE Waited'
<1>1. /\ ctl \in Controllers /\ UNCHANGED <<task, age, calm, skew, open>>
      /\ ctl' = ctl \/ ctl' = Collected(ctl)
  BY DEF IInv, TypeOK, DrainDone, Becomes, env, history
<1>2. Careful(ctl, ctl) /\ Careful(ctl, Collected(ctl))
  BY <1>1, CollectedCareful DEF Careful
<1> QED
  BY <1>1, <1>2, CarefulStep

LEMMA FailsWaited == ASSUME IInv, Waited, NEW r \in Runs, Fails(r) PROVE Waited'
<1> DEFINE c == IF ctl.owner = r
                THEN [ctl EXCEPT !.owner = NoRun, !.timer = FALSE, !.phase = "failed", !.left = 0]
                ELSE ctl
<1>1. ctl \in Controllers /\ UNCHANGED <<task, age, calm, skew, open>> /\ Finishes(r, c)
  BY DEF IInv, TypeOK, Fails, env, history
<1>2. c \in Controllers /\ Seen(c) = Seen(ctl) /\ (c = ctl \/ ~Closing(c))
  BY <1>1, FieldValues DEF Controllers, Seen, Closing
<1> HIDE DEF c
<1>3. Careful(ctl, c)
  BY <1>2 DEF Careful
<1> QED
  BY <1>1, <1>2, <1>3, FinishesCareful, CarefulStep

LEMMA RequestAcceptedWaited ==
  ASSUME IInv, Waited, NEW r \in Runs, RequestAccepted(r) PROVE Waited'
<1>1. ctl \in Controllers /\ UNCHANGED <<task, age, calm, skew, open>> /\ Finishes(r, ctl)
  BY DEF IInv, TypeOK, RequestAccepted, env, history
<1> QED
  BY <1>1, FinishesCareful, CarefulStep DEF Careful

LEMMA ConcludeStaleWaited == ASSUME IInv, Waited, NEW r \in Runs, ConcludeStale(r) PROVE Waited'
<1> DEFINE c == IF ctl.owner = r THEN Observed(ctl) ELSE ctl
<1>1. /\ ctl \in Controllers /\ UNCHANGED <<task, age, calm, open>> /\ Finishes(r, c)
      /\ skew' = IF ctl.owner = r THEN FALSE ELSE skew
  BY DEF IInv, TypeOK, ConcludeStale, history
<1>2. c \in Controllers /\ Careful(ctl, c) /\ (skew /\ ctl.owner = r => ~Closing(c))
  BY <1>1, ObservedCareful DEF Careful
<1> HIDE DEF c
<1> QED
  BY <1>1, <1>2, FinishesCareful, CarefulStep

LEMMA ConcludeWaitsWaited == ASSUME IInv, Waited, NEW r \in Runs, ConcludeWaits(r) PROVE Waited'
<1> DEFINE o == Observed(ctl)
           k == Collected(o)
<1>1. /\ ctl \in Controllers /\ UNCHANGED <<task, age, calm, open>> /\ skew' = FALSE
      /\ \E c \in {[o EXCEPT !.phase = "waiting"], [k EXCEPT !.phase = "waiting"], k} :
           Finishes(r, c)
  BY DEF IInv, TypeOK, ConcludeWaits, history
<1>2. /\ Careful(ctl, o) /\ Careful(ctl, k) /\ (skew => ~Closing(k))
      /\ o \in Controllers /\ k \in Controllers
  BY <1>1, ObservedCareful, LookedCareful DEF Careful
<1> HIDE DEF o, k
<1>3. ASSUME NEW c \in {[o EXCEPT !.phase = "waiting"], [k EXCEPT !.phase = "waiting"], k}
      PROVE  c \in Controllers /\ Careful(ctl, c) /\ (skew => ~Closing(c))
  <2>1. ASSUME NEW d \in {o, k}, c = [d EXCEPT !.phase = "waiting"]
        PROVE  c \in Controllers /\ ~Closing(c) /\ Seen(c) = Seen(d)
    BY <1>2, <2>1, FieldValues DEF Controllers, Closing, Seen
  <2> QED
    BY <1>2, <2>1 DEF Careful
<1> QED
  BY <1>1, <1>3, FinishesCareful, CarefulStep

LEMMA RequestWaited == ASSUME IInv, Waited, NEW r \in Runs, Request(r) PROVE Waited'
<1> DEFINE k == Collected(Observed(ctl))
<1>1. /\ ctl \in Controllers /\ UNCHANGED <<task, age>>
      /\ ctl' = [k EXCEPT !.phase = "requested", !.timer = FALSE]
  BY DEF IInv, TypeOK, Request
<1>2. Careful(ctl, k) /\ k \in Controllers
  BY <1>1, LookedCareful DEF Careful
<1> HIDE DEF k
<1>3. ctl' \in Controllers /\ ~Closing(ctl') /\ Seen(ctl') = Seen(k)
  BY <1>1, <1>2, FieldValues DEF Controllers, Closing, Seen
<1>4. Careful(ctl, ctl')
  BY <1>2, <1>3 DEF Careful
<1> QED
  BY <1>1, <1>3, <1>4, CarefulStep

\* A task that is listed anew was not seen before; one that leaves the list is
\* not asked about any more.
LEMMA TaskChangeWaited == ASSUME IInv, Waited, NEW t \in Tasks, TaskChange(t) PROVE Waited'
<1>1. PICK s \in Successors(task[t]) : task' = [task EXCEPT ![t] = s]
  BY DEF TaskChange
<1>2. task \in [Tasks -> TaskStates] /\ age \in [Tasks -> 0..Grace] /\ Seen(ctl) \subseteq Tasks
  BY DEF IInv, TypeOK, Controllers, Seen
<1>3. s # "absent" /\ (task[t] = "gone" => FALSE)
  BY <1>1, <1>2 DEF Successors, TaskStates
<1>4. UNCHANGED <<ctl, skew, calm, open>> /\ age' = IF s = "gone" THEN [age EXCEPT ![t] = 0] ELSE age
  BY <1>1, <1>2 DEF TaskChange
<1>5. \A u \in Seen(ctl') : task'[u] # "absent"
  BY <1>1, <1>2, <1>3, <1>4 DEF Waited
<1>6. ASSUME NEW u \in Live' \cap Seen(ctl')
      PROVE  u \in Live \cap Seen(ctl) /\ age'[u] = age[u]
  <2>1. task[u] # "absent" /\ u \in Tasks /\ task'[u] # "gone"
    BY <1>4 DEF Waited, Live
  <2> QED
    BY <1>1, <1>2, <1>3, <1>4, <2>1 DEF Live
<1> QED
  BY <1>4, <1>5, <1>6 DEF Waited

LEMMA TickWaited == ASSUME IInv, Waited, Tick PROVE Waited'
<1>1. /\ ctl \in Controllers /\ calm \in 0..Grace /\ age \in [Tasks -> 0..Grace]
      /\ Grace \in Nat /\ ctl.phase = "countdown" /\ ctl.left > 0 /\ ctl.left \in Nat
  BY ShutdownAssumption DEF IInv, TypeOK, Controllers, Tick
<1>2. /\ UNCHANGED <<task, skew, open>> /\ calm' = Older(calm)
      /\ ctl' = [ctl EXCEPT !.left = @ - 1]
      /\ age' = [t \in Tasks |-> IF t \in Live THEN Older(age[t]) ELSE 0]
  BY DEF Tick, env
<1>3. /\ ctl'.phase = "countdown" /\ ctl'.left = ctl.left - 1
      /\ ctl'.historical = ctl.historical /\ Seen(ctl') = Seen(ctl)
  BY <1>1, <1>2 DEF Controllers, Seen
<1>4. Closing(ctl) /\ Closing(ctl') /\ Left(ctl) = ctl.left /\ Left(ctl') = ctl.left - 1
  BY <1>1, <1>3 DEF Closing, Left
<1>5. ASSUME NEW n \in 0..Grace, n + ctl.left >= Grace
      PROVE  Older(n) + (ctl.left - 1) >= Grace
  BY <1>1, <1>5 DEF Older
<1>6. skew' \/ calm' + Left(ctl') >= Grace
  BY <1>1, <1>2, <1>4, <1>5 DEF Waited
<1>7. \A t \in Live' \cap Seen(ctl') : age'[t] + Left(ctl') >= Grace
  <2>1. Live' = Live /\ Live \subseteq Tasks
    BY <1>2 DEF Live
  <2>2. ASSUME NEW t \in Live \cap Seen(ctl) PROVE age'[t] + Left(ctl') >= Grace
    <3>1. t \in Tasks /\ age[t] \in 0..Grace /\ age[t] + ctl.left >= Grace
      BY <1>1, <1>4, <2>1 DEF Waited
    <3>2. age'[t] = Older(age[t])
      BY <1>2, <3>1
    <3> QED
      BY <1>4, <1>5, <3>1, <3>2
  <2> QED
    BY <1>3, <2>1, <2>2
<1> QED
  BY <1>2, <1>3, <1>4, <1>6, <1>7 DEF Waited

\* What leaves the controller, the list and the countdown alone.
LEMMA IdleWaited ==
  ASSUME IInv, Waited, UNCHANGED <<task, ctl, age, open>>,
         UNCHANGED <<calm, skew>> \/ skew'
  PROVE  Waited'
BY DEF Waited, Live

LEMMA NextKeepsWaited == IInv /\ Waited /\ [Next]_vars => Waited'
<1> SUFFICES ASSUME IInv, Waited, [Next]_vars PROVE Waited'
  OBVIOUS
<1>1. CASE Evaluate
  BY <1>1, EvaluateWaited
<1>2. CASE Tick
  BY <1>2, TickWaited
<1>3. CASE Disturbance
  BY <1>3, TaskChangeWaited, StopsWaited, IdleWaited
  DEF Disturbance, ClockJump, Submit, env, history
<1>4. ASSUME NEW r \in Runs, Enable(r) PROVE Waited'
  BY <1>4, EnableWaited
<1>5. ASSUME NEW r \in Runs, RunStep(r) PROVE Waited'
  <2>1. CASE SaveDone(r)
    BY <2>1, IdleWaited DEF SaveDone, env, history
  <2>2. CASE SaveFails(r) \/ PrepareTimesOut(r) \/ RequestFails(r)
    BY <2>2, FailsWaited DEF SaveFails, PrepareTimesOut, RequestFails
  <2> QED
    BY <1>5, <2>1, <2>2, ProbeStartsWaited, ProbeSucceedsWaited, ProbeFailsWaited,
       DrainDoneWaited, ConcludeStaleWaited, ConcludeWaitsWaited, RequestWaited,
       RequestAcceptedWaited DEF RunStep
<1>6. CASE EngineUp \/ (\E w \in Works : Resubmit(w) \/ WorkDone(w)) \/ UNCHANGED vars
  BY <1>6, IdleWaited DEF EngineUp, Resubmit, WorkDone, vars, env, history
<1> QED
  BY <1>1, <1>2, <1>3, <1>4, <1>5, <1>6 DEF Next

\* A task that the run about to ask finds in the list was seen before: had it
\* been new, collectTasks() would have interrupted the run.
LEMMA SeenAll ==
  ASSUME IInv, Waited, NEW r \in Runs, Request(r)
  PROVE  ctl.phase = "preparing" /\ ~skew /\ Live \subseteq Seen(ctl)
<1>1. /\ ctl \in Controllers /\ ctl.owner = r /\ runs[r] = "saved" /\ r # NoRun
      /\ Observed(ctl).owner = r
      /\ AllDone(Collected(Observed(ctl))) /\ Collected(Observed(ctl)).owner = r
  BY ShutdownAssumption DEF IInv, TypeOK, Request
<1>2. ctl.phase = "preparing" /\ ctl.historical.known
  BY <1>1 DEF IInv, Core, OwnerStage, Waited, Closing
<1>3. ~skew
  <2>1. Interrupted(ctl).owner = NoRun
    BY <1>1, <1>2 DEF Interrupted, Controllers
  <2> QED
    BY <1>1, <2>1 DEF Observed
<1>4. IsReady /\ Collected(ctl).owner = r
  BY <1>1, <1>3 DEF Observed, AllDone
<1> DEFINE added == {t \in Live : t \notin ctl.historical.ids \/ t \notin Completed}
           grown == [ctl EXCEPT !.historical = ctl.historical, !.participants = @ \cup added]
<1>5. Cancelled(ctl).owner = NoRun /\ Interrupted(grown).owner = NoRun
  BY <1>1, <1>2 DEF Cancelled, Interrupted, Controllers
<1>6. added \subseteq ctl.participants
  BY <1>1, <1>2, <1>4, <1>5 DEF Collected
<1> QED
  BY <1>2, <1>3, <1>6 DEF Seen

\* The user had the whole grace period since the last disturbance, and since
\* every listed task appeared.
THEOREM WholeGrace == Spec => FullGrace
<1>1. Init => Waited
  BY DEF Init, Waited, Seen, Closing, NoBaseline
<1>2. IInv /\ Waited /\ [Next]_vars => (Requesting => calm = Grace /\ \A t \in Live : age[t] = Grace)
  <2> SUFFICES ASSUME IInv, Waited, [Next]_vars, Requesting
               PROVE  calm = Grace /\ \A t \in Live : age[t] = Grace
    OBVIOUS
  <2>1. PICK r \in Runs : Request(r)
    BY OnlyRequest
  <2>2. ctl.phase = "preparing" /\ ~skew /\ Live \subseteq Seen(ctl)
    BY <2>1, SeenAll
  <2>3. Grace \in Nat /\ calm \in 0..Grace /\ \A t \in Live : age[t] \in 0..Grace
    BY ShutdownAssumption DEF IInv, TypeOK, Live
  <2>4. calm >= Grace /\ \A t \in Live : age[t] >= Grace
    BY <2>2, <2>3 DEF Waited, Closing, Left
  <2> QED
    BY <2>3, <2>4
<1> QED
  BY <1>1, <1>2, NextKeepsWaited, Invariance, PTL DEF Spec, FullGrace

=============================================================================
