------------------------ MODULE EngineSupervisorProofs ------------------------
(***************************************************************************)
(* The safety properties of EngineSupervisor, for any number of processes, *)
(* activations, restarts, hangs and crashes.                               *)
(*                                                                         *)
(* First, a Ready engine is watched.  That argument looks at the           *)
(* supervisor's own fields only: whatever the other actors do, each step   *)
(* leaves them alone or changes them in one of a few ways, and only        *)
(* Watched makes the state Ready.                                          *)
(*                                                                         *)
(* Then, for as long as no two activations have crossed: there is one      *)
(* engine at a time, a quit is final, and an engine is torn down before    *)
(* the state is Failed.  The crossing itself is not excluded: the theorems *)
(* say of every behaviour that nothing else brings a second engine.        *)
(***************************************************************************)
EXTENDS EngineSupervisor, FiniteSetTheorems, TLAPS

Fields ==
  [state : States, stopping : BOOLEAN, suppress : BOOLEAN,
   attempts : 0..MaxAttempts, misses : 0..MaxMisses, beat : BOOLEAN,
   stray : BOOLEAN, timer : Runs \cup {NoRun}, tried : BOOLEAN]

FieldsTyped == sup \in Fields

IInv == FieldsTyped /\ ReadyIsWatched

-----------------------------------------------------------------------------

LEMMA Bounds == 0 \in 0..MaxAttempts /\ 0 \in 0..MaxMisses /\ MaxMisses \in 0..MaxMisses
  BY SupervisorAssumption

LEMMA InitFields == Init => IInv
  BY SupervisorAssumption DEF Init, IInv, FieldsTyped, Fields, States, ReadyIsWatched

\* doStart() and gracefulStop() announce nothing but Starting.
LEMMA BeginsFields ==
  ASSUME NEW r, NEW s \in Fields, s.state = "Ready" => s.beat \/ s.stopping, Begins(r, s)
  PROVE  IInv'
  BY DEF Begins, IInv, FieldsTyped, Fields, States, ReadyIsWatched

\* restartWithBackoff() leaves Ready.
LEMMA BackoffFields ==
  ASSUME NEW s \in Fields, Backoff(s)
  PROVE  IInv'
  <1>1. CASE s.attempts >= MaxAttempts
    <2>1. sup' = [s EXCEPT !.state = "Failed"]
      BY <1>1 DEF Backoff
    <2> QED BY <2>1 DEF IInv, FieldsTyped, Fields, States, ReadyIsWatched
  <1>2. CASE ~(s.attempts >= MaxAttempts)
    <2>1. PICK r \in Free :
            sup' = [s EXCEPT !.state = "Restarting", !.attempts = s.attempts + 1, !.timer = r]
      BY <1>2 DEF Backoff
    <2>2. s.attempts + 1 \in 0..MaxAttempts
      BY <1>2, SupervisorAssumption DEF Fields
    <2>3. r \in Runs \cup {NoRun}
      BY DEF Free
    <2>4. sup' \in Fields /\ sup'.state = "Restarting"
      BY <2>1, <2>2, <2>3 DEF Fields, States
    <2> QED BY <2>4 DEF IInv, FieldsTyped, ReadyIsWatched
  <1> QED BY <1>1, <1>2

\* The end of a failed start leaves Ready, or keeps the fields it was given.
LEMMA GivesUpFields ==
  ASSUME NEW r, NEW s \in Fields, s.state = "Ready" => s.beat \/ s.stopping, GivesUp(r, s)
  PROVE  IInv'
  BY DEF GivesUp, IInv, FieldsTyped, Fields, States, ReadyIsWatched

LEMMA FailsFields ==
  ASSUME NEW r, IInv, Fails(r)
  PROVE  IInv'
  <1>1. CASE running
    <2>1. sup \in Fields /\ sup' = [sup EXCEPT !.suppress = TRUE] /\ ReadyIsWatched
      BY <1>1 DEF Fails, IInv, FieldsTyped
    <2>2. sup' \in Fields
      BY <2>1 DEF Fields
    <2>3. sup'.state = sup.state /\ sup'.beat = sup.beat /\ sup'.stopping = sup.stopping
      BY <2>1 DEF Fields
    <2> QED
      BY <2>1, <2>2, <2>3 DEF IInv, FieldsTyped, ReadyIsWatched
  <1>2. CASE ~running
    BY <1>2, GivesUpFields DEF Fails, IInv, FieldsTyped, ReadyIsWatched
  <1> QED BY <1>1, <1>2

LEMMA FencedFields ==
  ASSUME IInv
  PROVE  Fenced \in Fields /\ Fenced.stopping /\ Fenced.state = sup.state
  BY DEF Fenced, IInv, FieldsTyped, Fields, States

-----------------------------------------------------------------------------

LEMMA StepFields ==
  ASSUME IInv, [Next]_vars
  PROVE  IInv'
  <1> USE DEF IInv, FieldsTyped, ReadyIsWatched
  <1>1. ASSUME NEW r \in Runs, RunStep(r)
        PROVE  IInv'
    <2>1. CASE Prepared(r)
      BY <2>1, FailsFields DEF Prepared
    <2>2. CASE PortChecked(r)
      BY <2>2 DEF PortChecked, Fields, States
    <2>3. CASE Guarded(r)
      BY <2>3, FailsFields DEF Guarded
    <2>4. CASE Recorded(r)
      BY <2>4 DEF Recorded
    <2>5. CASE Connected(r)
      BY <2>5, FailsFields DEF Connected, Halts
    <2>6. CASE SettledDown(r)
      BY <2>6, FailsFields DEF SettledDown, Halts
    <2>7. CASE Published(r)
      <3>1. CASE sup' = Watched([sup EXCEPT !.state = "Ready", !.attempts = 0])
        <4> DEFINE up == [sup EXCEPT !.state = "Ready", !.attempts = 0]
        <4>1. up \in Fields
          BY Bounds DEF Fields, States
        <4> HIDE DEF up
        <4>2. [up EXCEPT !.misses = 0, !.beat = TRUE, !.stray = up.stray \/ up.beat] \in Fields
          BY <4>1, Bounds DEF Fields
        <4>3. Watched(up) \in Fields /\ Watched(up).beat
          BY <4>1, <4>2 DEF Watched, Fields
        <4> QED
          BY <3>1, <4>3 DEF up
      <3> QED BY <2>7, <3>1, FailsFields DEF Published
    <2>8. CASE HaltDone(r)
      BY <2>8 DEF HaltDone
    <2>9. CASE CleaningDone(r)
      BY <2>9, GivesUpFields DEF CleaningDone, Fields
    <2>10. CASE FellBack(r)
      BY <2>10, BeginsFields DEF FellBack, Fields, States
    <2>11. CASE TimerFires(r)
      <3>1. CASE running
        <4>1. sup \in Fields /\ sup' = [sup EXCEPT !.suppress = TRUE]
          BY <2>11, <3>1 DEF TimerFires
        <4> QED
          BY <4>1 DEF Fields
      <3> QED BY <2>11, <3>1, BeginsFields DEF TimerFires
    <2>12. CASE ClearingDone(r)
      BY <2>12, BeginsFields DEF ClearingDone, Fields
    <2>13. CASE RestopDone(r)
      <3>1. Restarted(sup) \in Fields /\ Restarted(sup).state = "Stopped"
        BY Bounds DEF Restarted, Fields, States
      <3> QED BY <2>13, <3>1, BeginsFields DEF RestopDone
    <2> QED BY <1>1, <2>1, <2>2, <2>3, <2>4, <2>5, <2>6, <2>7, <2>8, <2>9, <2>10,
               <2>11, <2>12, <2>13 DEF RunStep
  <1>2. ASSUME NEW r \in Runs, Restart(r)
        PROVE  IInv'
    <2>1. CASE running
      BY <1>2, <2>1, FencedFields DEF Restart
    <2>2. CASE ~running
      <3>1. [Restarted(Fenced) EXCEPT !.state = "Starting"] \in Fields
        BY FencedFields, Bounds DEF Restarted, Fields, States
      <3>2. [Restarted(Fenced) EXCEPT !.state = "Starting"].state = "Starting"
        BY FencedFields DEF Restarted, Fields
      <3> QED BY <1>2, <2>2, <3>1, <3>2 DEF Restart
    <2> QED BY <2>1, <2>2
  <1>3. ASSUME Missed
        PROVE  IInv'
    <2>1. CASE sup.misses + 1 < MaxMisses
      BY <1>3, <2>1, SupervisorAssumption DEF Missed, Fields
    <2>2. CASE ~(sup.misses + 1 < MaxMisses)
      <3>1. [sup EXCEPT !.misses = MaxMisses, !.beat = FALSE] \in Fields
        BY Bounds DEF Fields
      <3> QED BY <1>3, <2>2, <3>1, BackoffFields DEF Missed
    <2> QED BY <2>1, <2>2
  <1>4. ASSUME NEW p \in Procs, Answered(p)
        PROVE  IInv'
    BY <1>3, <1>4, SupervisorAssumption DEF Answered, Fields
  <1>5. CASE HealthCheck
    BY <1>3, <1>5 DEF HealthCheck
  <1>6. ASSUME NEW p \in Procs, Exits(p)
        PROVE  IInv'
    <2>1. [sup EXCEPT !.beat = FALSE] \in Fields
      BY DEF Fields
    <2> QED BY <1>6, <2>1, BackoffFields DEF Exits, ExitHandled
  <1>7. ASSUME NEW p \in Procs, Serves(p) \/ Obeys(p) \/ Crashes(p)
        PROVE  IInv'
    BY <1>7 DEF Serves, Obeys, Crashes, Ended
  <1>8. ASSUME NEW a \in Actors, KillTimeout(a)
        PROVE  IInv'
    BY <1>8 DEF KillTimeout
  <1>9. CASE QuitBegins
    BY <1>9, FencedFields DEF QuitBegins
  <1>10. CASE QuitStep
    <2>1. CASE QuitStops
      BY <2>1, FencedFields DEF QuitStops, Fields, States
    <2>2. CASE QuitDone
      BY <2>2 DEF QuitDone, Fields, States
    <2> QED BY <1>10, <2>1, <2>2 DEF QuitStep
  <1>11. CASE UNCHANGED vars
    BY <1>11 DEF vars
  <1> QED BY <1>1, <1>2, <1>4, <1>5, <1>6, <1>7, <1>8, <1>9, <1>10, <1>11 DEF Next

\* A Ready engine has its health check until it is told to stop, whatever the
\* order of exits, late answers, restarts and timers (startHealthCheck,
\* stopHealthCheck).
THEOREM WatchedWhenReady == Spec => []ReadyIsWatched
  <1>1. Init => IInv
    BY InitFields
  <1>2. IInv /\ [Next]_vars => IInv'
    BY StepFields
  <1>3. IInv => ReadyIsWatched
    BY DEF IInv
  <1> QED BY <1>1, <1>2, <1>3, PTL DEF Spec

-----------------------------------------------------------------------------
(***************************************************************************)
(* The types of the other variables, and what the restart promise and a    *)
(* spawned child stand for, hold however the activations meet.             *)
(***************************************************************************)

Typed ==
  /\ stage \in [Actors -> Stages] /\ kid \in [Actors -> Procs \cup {NoProc}]
  /\ again \in Runs \cup {NoRun}
  /\ child \in Procs \cup {NoProc} /\ running \in BOOLEAN /\ heard \subseteq Procs
  /\ proc \in [Procs -> {"unborn", "starting", "serving", "dead", "reaped"}]
  /\ signal \in [Procs -> {"none", "term", "kill"}]
  /\ link \in Procs \cup {NoProc} /\ asked \subseteq Procs
  /\ count \in [restarts : 0..MaxRestarts, crashes : 0..MaxCrashes,
                hangs : 0..MaxHangs, crossed : BOOLEAN, undone : BOOLEAN]

\* The restart whose promise others share is neither over nor backing off.
Renewed == again # NoRun => stage[again] \notin {"idle", "backoff"}

\* Who has just spawned holds its child.
Spawned == \A r \in Runs : stage[r] = "spawn" => kid[r] \in Procs

Shaped == Typed /\ Renewed /\ Spawned

\* An activation goes on, and at most its own awaited child changes.
LEMMA GoesShaped ==
  ASSUME Shaped, NEW a \in Actors, NEW st \in Stages \ {"backoff", "spawn"},
         Goes(stage, a, st), kid' \in [Actors -> Procs \cup {NoProc}],
         \A b \in Actors \ {a} : kid'[b] = kid[b]
  PROVE  /\ stage' \in [Actors -> Stages] /\ again' \in Runs \cup {NoRun}
         /\ Renewed' /\ Spawned'
  BY SupervisorAssumption DEF Goes, Shaped, Typed, Renewed, Spawned, Actors

\* The restart timer is armed for an activation that was free.
LEMMA BackoffShaped ==
  ASSUME Shaped, NEW s, Backoff(s), UNCHANGED kid
  PROVE  /\ stage' \in [Actors -> Stages] /\ again' \in Runs \cup {NoRun}
         /\ Renewed' /\ Spawned'
  <1>1. CASE UNCHANGED <<stage, again>>
    BY <1>1 DEF Shaped, Typed, Renewed, Spawned
  <1>2. CASE \E r \in Free : Goes(stage, r, "backoff")
    BY <1>2, SupervisorAssumption DEF Free, Goes, Shaped, Typed, Renewed, Spawned, Actors, Stages
  <1> QED BY <1>1, <1>2 DEF Backoff

LEMMA MissedShaped ==
  ASSUME Shaped, Missed, UNCHANGED kid
  PROVE  /\ stage' \in [Actors -> Stages] /\ again' \in Runs \cup {NoRun}
         /\ Renewed' /\ Spawned'
  <1>1. CASE UNCHANGED <<stage, again>>
    BY <1>1 DEF Shaped, Typed, Renewed, Spawned
  <1> QED BY <1>1, BackoffShaped DEF Missed

\* gracefulStop(), from any activation or from the shutdown.
LEMMA TerminatesShaped ==
  ASSUME Shaped, NEW a \in Actors, Terminates(a)
  PROVE  /\ kid' \in [Actors -> Procs \cup {NoProc}]
         /\ \A b \in Actors \ {a} : kid'[b] = kid[b]
         /\ signal' \in [Procs -> {"none", "term", "kill"}]
  BY DEF Terminates, Shaped, Typed

LEMMA FailsShaped ==
  ASSUME Shaped, NEW r \in Runs, Fails(r), UNCHANGED <<manager, proc, asked, count>>
  PROVE  Shaped'
  <1>1. r \in Actors /\ {"idle", "cleaning", "fallback"} \subseteq Stages \ {"backoff", "spawn"}
    BY DEF Actors, Stages, Waiting
  <1>2. CASE running
    BY <1>1, <1>2, TerminatesShaped, GoesShaped
       DEF Fails, GracefulStop, Shaped, Typed, manager
  <1>3. CASE ~running
    BY <1>1, <1>3, GoesShaped DEF Fails, GivesUp, Shaped, Typed, manager
  <1> QED BY <1>2, <1>3

LEMMA HaltsShaped ==
  ASSUME Shaped, NEW r \in Runs, Halts(r), UNCHANGED <<manager, proc, asked, count>>
  PROVE  Shaped'
  <1>1. r \in Actors /\ "halting" \in Stages \ {"backoff", "spawn"}
    BY DEF Actors, Stages, Waiting
  <1> QED BY <1>1, TerminatesShaped, GoesShaped DEF Halts, GracefulStop, Shaped, Typed, manager

\* The cleared restart timer frees its activation.
LEMMA UnarmedShaped ==
  ASSUME Shaped
  PROVE  /\ Unarmed \in [Actors -> Stages]
         /\ \A a \in Actors : Unarmed[a] = stage[a] \/ (stage[a] = "backoff" /\ Unarmed[a] = "idle")
  BY DEF Unarmed, Shaped, Typed, Stages

LEMMA RunStepShaped ==
  ASSUME Shaped, NEW r \in Runs, RunStep(r)
  PROVE  Shaped'
  <1> DEFINE Calm == Stages \ {"backoff", "spawn"}
  <1>0. /\ r \in Actors
        /\ {"idle", "prepare", "port", "guard", "connect", "settle", "publish", "halting",
            "cleaning", "fallback", "clearing", "restop"} \subseteq Calm
    BY DEF Actors, Stages, Waiting
  <1> HIDE DEF Calm
  <1>1. ASSUME NEW st \in Calm, Goes(stage, r, st), UNCHANGED kid
        PROVE  /\ stage' \in [Actors -> Stages] /\ again' \in Runs \cup {NoRun}
               /\ Renewed' /\ Spawned'
    BY <1>0, <1>1, GoesShaped DEF Calm, Shaped, Typed
  <1>2. CASE Prepared(r)
    BY <1>0, <1>1, <1>2, FailsShaped DEF Prepared, Shaped, Typed, manager
  <1>3. CASE PortChecked(r)
    BY <1>0, <1>1, <1>3 DEF PortChecked, Shaped, Typed, manager, system
  <1>4. CASE Guarded(r)
    <2>1. ASSUME NEW p \in Fresh, Spawn(r, p), UNCHANGED <<link, asked, count>>
          PROVE  Shaped'
      <3>1. p \in Procs /\ "spawn" \in Stages /\ "starting" \in {"unborn", "starting", "serving", "dead", "reaped"}
        BY DEF Fresh, Stages
      <3> QED BY <1>0, <2>1, <3>1 DEF Spawn, Goes, Shaped, Typed, Renewed, Spawned, Actors
    <2>2. CASE SpawnFails(r) /\ UNCHANGED <<link, asked, count>>
      BY <1>0, <1>1, <2>2 DEF SpawnFails, Shaped, Typed, system
    <2>3. CASE Goes(stage, r, "idle") /\ UNCHANGED <<link, kid, manager, system, asked, count>>
      BY <1>0, <1>1, <2>3 DEF Shaped, Typed, manager, system
    <2> QED BY <1>4, <2>1, <2>2, <2>3, FailsShaped DEF Guarded
  <1>5. CASE Recorded(r)
    <2>1. kid[r] \in Procs /\ UNCHANGED <<sup, child, running, proc, link, asked, count>>
          /\ heard' = heard \cup {kid[r]}
      BY <1>5 DEF Recorded, Shaped, Spawned
    <2>2. CASE GracefulStop(r, "halting")
      BY <1>0, <2>1, <2>2, TerminatesShaped, GoesShaped DEF Calm, GracefulStop, Shaped, Typed
    <2>3. CASE kid' = [kid EXCEPT ![r] = NoProc] /\ Goes(stage, r, "connect") /\ UNCHANGED signal
      BY <1>0, <2>1, <2>3, GoesShaped DEF Calm, Shaped, Typed
    <2> QED BY <1>5, <2>2, <2>3 DEF Recorded
  <1>6. CASE Connected(r)
    BY <1>0, <1>1, <1>6, FailsShaped, HaltsShaped DEF Connected, Shaped, Typed, manager
  <1>7. CASE SettledDown(r)
    BY <1>0, <1>1, <1>7, FailsShaped, HaltsShaped DEF SettledDown, Shaped, Typed, manager
  <1>8. CASE Published(r)
    BY <1>0, <1>1, <1>8, FailsShaped DEF Published, Shaped, Typed, manager
  <1>9. CASE HaltDone(r)
    BY <1>0, <1>1, <1>9 DEF HaltDone, Shaped, Typed, manager, system
  <1>10. CASE CleaningDone(r)
    BY <1>0, <1>1, <1>10 DEF CleaningDone, GivesUp, Shaped, Typed, manager, system
  <1>11. CASE FellBack(r)
    BY <1>0, <1>1, <1>11 DEF FellBack, Begins, Shaped, Typed, manager, system
  <1>12. CASE TimerFires(r)
    <2>1. CASE running
      BY <1>0, <1>12, <2>1, TerminatesShaped, GoesShaped
         DEF Calm, TimerFires, GracefulStop, Shaped, Typed, manager
    <2>2. CASE ~running
      BY <1>0, <1>1, <1>12, <2>2 DEF TimerFires, Begins, Shaped, Typed, manager
    <2> QED BY <2>1, <2>2
  <1>13. CASE ClearingDone(r)
    BY <1>0, <1>1, <1>13 DEF ClearingDone, Begins, Shaped, Typed, manager, system
  <1>14. CASE RestopDone(r)
    BY <1>0, <1>1, <1>14 DEF RestopDone, Begins, Shaped, Typed, manager, system
  <1> QED BY <1>2, <1>3, <1>4, <1>5, <1>6, <1>7, <1>8, <1>9, <1>10, <1>11, <1>12, <1>13,
             <1>14 DEF RunStep

\* The counters and the two history fields.
LEMMA CountShaped ==
  ASSUME NEW B, NEW c \in B, NEW n \in 0..MaxRestarts, NEW h \in 0..MaxHangs,
         NEW k \in [restarts : 0..MaxRestarts, crashes : 0..MaxCrashes, hangs : 0..MaxHangs,
                    crossed : B, undone : B]
  PROVE  \A j \in {[k EXCEPT !.crossed = c], [k EXCEPT !.restarts = n, !.crossed = c],
                   [k EXCEPT !.hangs = h, !.crossed = c], [k EXCEPT !.undone = c]} :
           j \in [restarts : 0..MaxRestarts, crashes : 0..MaxCrashes, hangs : 0..MaxHangs,
                 crossed : B, undone : B]
  OBVIOUS

LEMMA StepShaped ==
  ASSUME Shaped, [Next]_vars
  PROVE  Shaped'
  <1>1. ASSUME NEW r \in Runs, Restart(r)
        PROVE  Shaped'
    <2> DEFINE to == IF running THEN "restop" ELSE "prepare"
    <2>1. /\ stage' = [Unarmed EXCEPT ![r] = to] /\ again' = r
          /\ (kid' = kid /\ signal' = signal) \/ Terminates(r)
          /\ link' \in {link, NoProc} /\ UNCHANGED <<manager, proc, asked>>
          /\ count.restarts < MaxRestarts
          /\ count' = [count EXCEPT !.restarts = count.restarts + 1,
                                    !.crossed = count.crossed \/ \E q \in Runs : Unarmed[q] # "idle"]
      BY <1>1 DEF Restart
    <2>2. to \in Stages \ {"idle", "backoff", "spawn"} /\ r \in Actors
      BY DEF Stages, Waiting, Actors
    <2> HIDE DEF to
    <2>3. /\ kid' \in [Actors -> Procs \cup {NoProc}]
          /\ \A b \in Actors \ {r} : kid'[b] = kid[b]
          /\ signal' \in [Procs -> {"none", "term", "kill"}]
      BY <2>1, <2>2, TerminatesShaped DEF Shaped, Typed
    <2>4. stage' \in [Actors -> Stages] /\ Renewed' /\ Spawned'
      BY <2>1, <2>2, <2>3, UnarmedShaped DEF Shaped, Typed, Renewed, Spawned, Actors
    <2>5. count' \in [restarts : 0..MaxRestarts, crashes : 0..MaxCrashes,
                      hangs : 0..MaxHangs, crossed : BOOLEAN, undone : BOOLEAN]
      <3>1. (count.crossed \/ \E q \in Runs : Unarmed[q] # "idle") \in BOOLEAN
        BY DEF Shaped, Typed
      <3>2. count.restarts + 1 \in 0..MaxRestarts /\ count.hangs \in 0..MaxHangs
        BY <2>1, SupervisorAssumption DEF Shaped, Typed
      <3> QED BY <2>1, <3>1, <3>2, CountShaped, Zenon DEF Shaped, Typed
    <2> QED BY <2>1, <2>3, <2>4, <2>5 DEF Shaped, Typed, manager
  <1>2. ASSUME NEW p \in Procs, Answered(p)
        PROVE  Shaped'
    <2>1. CASE UNCHANGED <<stage, again, count>>
      BY <1>2, <2>1 DEF Answered, Shaped, Typed, Renewed, Spawned, manager, system
    <2>2. CASE Missed /\ (\/ count' = [count EXCEPT !.crossed = count.crossed \/ Astray]
                          \/ /\ count.hangs < MaxHangs
                             /\ count' = [count EXCEPT !.hangs = count.hangs + 1,
                                                       !.crossed = count.crossed \/ Astray])
      <3>1. (count.crossed \/ Astray) \in BOOLEAN
        BY DEF Shaped, Typed, Astray
      <3>2. /\ count.restarts \in 0..MaxRestarts /\ count.hangs \in 0..MaxHangs
            /\ count.hangs < MaxHangs => count.hangs + 1 \in 0..MaxHangs
        BY SupervisorAssumption DEF Shaped, Typed
      <3>3. count' \in [restarts : 0..MaxRestarts, crashes : 0..MaxCrashes,
                        hangs : 0..MaxHangs, crossed : BOOLEAN, undone : BOOLEAN]
        <4>1. CASE count' = [count EXCEPT !.crossed = count.crossed \/ Astray]
          BY <3>1, <3>2, <4>1, CountShaped, Zenon DEF Shaped, Typed
        <4>2. CASE /\ count.hangs < MaxHangs
                   /\ count' = [count EXCEPT !.hangs = count.hangs + 1,
                                             !.crossed = count.crossed \/ Astray]
          BY <3>1, <3>2, <4>2, CountShaped, Zenon DEF Shaped, Typed
        <4> QED BY <2>2, <4>1, <4>2, Zenon
      <3> QED BY <1>2, <2>2, <3>3, MissedShaped DEF Answered, Shaped, Typed, manager, system
    <2> QED BY <1>2, <2>1, <2>2 DEF Answered
  <1>3. CASE HealthCheck
    <2>1. CASE UNCHANGED <<stage, again>>
      BY <1>3, <2>1 DEF HealthCheck, Shaped, Typed, Renewed, Spawned, manager, system
    <2>2. CASE Missed /\ UNCHANGED asked
      BY <1>3, <2>2, MissedShaped DEF HealthCheck, Shaped, Typed, manager, system
    <2> QED BY <1>3, <2>1, <2>2 DEF HealthCheck
  <1>4. ASSUME NEW p \in Procs, Exits(p)
        PROVE  Shaped'
    <2>1. /\ proc' \in [Procs -> {"unborn", "starting", "serving", "dead", "reaped"}]
          /\ UNCHANGED <<signal, link, asked, count>>
      BY <1>4 DEF Exits, Shaped, Typed
    <2>2. CASE UNCHANGED <<manager, kid, sup, stage, again>>
      BY <2>1, <2>2 DEF Shaped, Typed, Renewed, Spawned, manager
    <2>3. CASE /\ child' = NoProc /\ running' = FALSE /\ heard' = heard \ {p}
               /\ kid' = [a \in Actors |-> IF stage[a] \in Waiting THEN NoProc ELSE kid[a]]
               /\ ExitHandled
      <3>1. kid' \in [Actors -> Procs \cup {NoProc}]
        BY <2>3 DEF Shaped, Typed
      <3>2. \A r \in Runs : stage[r] \notin Waiting => kid'[r] = kid[r]
        BY <2>3 DEF Actors
      <3>3. CASE UNCHANGED <<stage, again>>
        BY <2>1, <2>3, <3>1, <3>2, <3>3 DEF Shaped, Typed, Renewed, Spawned, Waiting
      <3>4. CASE \E r \in Free : Goes(stage, r, "backoff")
        <4>1. PICK r \in Runs : /\ stage[r] = "idle" /\ again' = again
                               /\ stage' = [stage EXCEPT ![r] = "backoff"]
          BY <3>4 DEF Free, Goes
        <4>2. stage' \in [Actors -> Stages] /\ Renewed'
          BY <4>1, SupervisorAssumption DEF Shaped, Typed, Renewed, Actors, Stages
        <4>3. Spawned'
          BY <3>1, <3>2, <4>1 DEF Shaped, Typed, Spawned, Actors, Waiting
        <4> QED BY <2>1, <2>3, <3>1, <4>1, <4>2, <4>3 DEF Shaped, Typed
      <3> QED BY <2>3, <3>3, <3>4 DEF ExitHandled, Backoff
    <2> QED BY <1>4, <2>2, <2>3 DEF Exits
  <1>5. ASSUME NEW p \in Procs, Serves(p) \/ Obeys(p) \/ Crashes(p)
        PROVE  Shaped'
    BY <1>5, SupervisorAssumption
       DEF Serves, Obeys, Crashes, Ended, Shaped, Typed, Renewed, Spawned, manager
  <1>6. ASSUME NEW a \in Actors, KillTimeout(a)
        PROVE  Shaped'
    BY <1>6 DEF KillTimeout, Shaped, Typed, Renewed, Spawned, manager
  <1>7. CASE QuitBegins
    BY <1>7, UnarmedShaped, SupervisorAssumption
       DEF QuitBegins, Shaped, Typed, Renewed, Spawned, Actors, Stages, manager, system
  <1>8. CASE QuitStops
    <2>1. /\ \E st \in {"halting", "done"} : stage' = [Unarmed EXCEPT ![Quit] = st]
          /\ (kid' = kid /\ signal' = signal) \/ Terminates(Quit)
          /\ link' \in {link, NoProc} /\ UNCHANGED <<again, manager, proc, asked, count>>
      BY <1>8 DEF QuitStops
    <2>2. Quit \in Actors /\ Quit \notin Runs /\ {"halting", "done"} \subseteq Stages
      BY SupervisorAssumption DEF Actors, Stages, Waiting
    <2>3. /\ kid' \in [Actors -> Procs \cup {NoProc}]
          /\ \A b \in Actors \ {Quit} : kid'[b] = kid[b]
          /\ signal' \in [Procs -> {"none", "term", "kill"}]
      BY <2>1, <2>2, TerminatesShaped DEF Shaped, Typed
    <2>4. stage' \in [Actors -> Stages] /\ Renewed' /\ Spawned'
      BY <2>1, <2>2, <2>3, UnarmedShaped DEF Shaped, Typed, Renewed, Spawned, Actors
    <2> QED BY <2>1, <2>3, <2>4 DEF Shaped, Typed, manager
  <1>9. CASE QuitDone
    <2>1. Quit \in Actors /\ "done" \in Stages \ {"backoff", "spawn"}
      BY DEF Actors, Stages
    <2> QED BY <1>9, <2>1, GoesShaped DEF QuitDone, Shaped, Typed, manager, system
  <1>10. CASE UNCHANGED vars
    BY <1>10 DEF vars, manager, system, Shaped, Typed, Renewed, Spawned
  <1> QED BY <1>1, <1>2, <1>3, <1>4, <1>5, <1>6, <1>7, <1>8, <1>9, <1>10, RunStepShaped
          DEF Next, QuitStep

LEMMA InitShaped == Init => Shaped
  <1> SUFFICES ASSUME Init
               PROVE  Shaped
    OBVIOUS
  <1>1. PICK r \in Runs : stage = [a \in Actors |-> IF a = r THEN "prepare" ELSE "idle"]
    BY DEF Init
  <1>2. stage \in [Actors -> Stages] /\ \A q \in Runs : stage[q] # "spawn"
    BY <1>1 DEF Stages, Actors
  <1>3. 0 \in 0..MaxRestarts /\ 0 \in 0..MaxCrashes /\ 0 \in 0..MaxHangs
    BY SupervisorAssumption
  <1> QED BY <1>2, <1>3 DEF Init, Shaped, Typed, Renewed, Spawned

\* The variables have their types, and a restart under way is not idle.
THEOREM TypeCorrect == Spec => []TypeOK
  <1>1. Init => IInv /\ Shaped
    BY InitFields, InitShaped
  <1>2. IInv /\ Shaped /\ [Next]_vars => IInv' /\ Shaped'
    BY StepFields, StepShaped
  <1>3. IInv /\ Shaped => TypeOK
    BY DEF IInv, FieldsTyped, Fields, Shaped, Typed, Renewed, TypeOK
  <1> QED BY <1>1, <1>2, <1>3, PTL DEF Spec

-----------------------------------------------------------------------------
(***************************************************************************)
(* One engine at a time, until activations cross.  Each activation and the *)
(* quit rely at each of their stages on what the others left behind, so    *)
(* the invariant (Held) is about all of them.                              *)
(***************************************************************************)

\* One activation at most is suspended.
Sole == \A q, r \in Runs : stage[q] # "idle" /\ stage[r] # "idle" => q = r

\* The one that backs off holds the restart timer.
Armed == \A r \in Runs : stage[r] = "backoff" => sup.timer = r

\* Nobody starts an engine that is Ready or watched, but the user's restart.
Alone ==
  /\ sup.state = "Ready" => sup.attempts = 0
  /\ ~sup.stray /\ (sup.beat => ~sup.stopping)
  /\ \A r \in Runs : stage[r] # "idle" =>
       ~sup.beat /\ (sup.state = "Ready" => stage[r] = "restop")

Places == Sole /\ Armed /\ Alone

\* A process that lives, or whose exit is still to be delivered, is the child
\* the manager tracks.
Tracked ==
  /\ running => child \in Procs
  /\ \A p \in Procs : proc[p] \in {"starting", "serving", "dead"} => running /\ child = p
  /\ heard \subseteq {child} /\ (heard # {} => running)
  /\ link # NoProc => proc[link] = "serving"

\* What a suspended activation finds when it goes on: no child before the spawn,
\* its own behind it; who waits for an exit waits for the child.
Suspended ==
  /\ \A r \in Runs :
       /\ stage[r] \in {"prepare", "port", "guard", "fallback"} => ~running
       /\ stage[r] = "spawn" => running /\ kid[r] = child /\ heard = {}
       /\ stage[r] = "restop" => sup.stopping
  /\ \A a \in Actors : stage[a] \in Waiting => kid[a] = IF running THEN child ELSE NoProc

\* Unless a restart undoes it, the quit keeps the supervisor stopping, and ends
\* without a child.
Fence ==
  ~count.undone =>
    /\ stage[Quit] # "idle" => sup.stopping
    /\ stage[Quit] = "done" => ~running

Held == Places /\ Tracked /\ Suspended /\ Fence

Sound == IInv /\ Shaped /\ Held

Safe == IInv /\ Shaped /\ (count.crossed \/ Held)

-----------------------------------------------------------------------------

(* What the supervisor's fields become in the ways of the code that several  *)
(* actions share: the fields of s are carried over, or some of them change.  *)

\* All fields of s but the state, suppress and tried.
Carries(s) ==
  /\ sup'.beat = s.beat /\ sup'.stray = s.stray /\ sup'.stopping = s.stopping
  /\ sup'.misses = s.misses /\ sup'.attempts = s.attempts /\ sup'.timer = s.timer


LEMMA BeginsStep ==
  ASSUME NEW r, NEW s \in Fields, Begins(r, s)
  PROVE  /\ Carries(s)
         /\ sup'.state = IF s.stopping THEN s.state ELSE "Starting"
         /\ Goes(stage, r, IF s.stopping THEN "idle" ELSE "prepare")
  BY DEF Begins, Carries, Fields

LEMMA GivesUpStep ==
  ASSUME NEW r, NEW s \in Fields, GivesUp(r, s), s = sup \/ s = [sup EXCEPT !.suppress = FALSE],
         sup \in Fields
  PROVE  /\ Carries(sup) /\ link' = NoProc
         /\ sup'.state \in {sup.state, "Failed"}
         /\ Goes(stage, r, "idle") \/ Goes(stage, r, "fallback")
  BY DEF GivesUp, Carries, Fields

\* restartWithBackoff() arms its timer: an engine that was Ready has no attempts
\* behind it.
BacksOff(m) ==
  \E r \in Free :
    /\ Goes(stage, r, "backoff")
    /\ sup'.state = "Restarting" /\ sup'.timer = r /\ sup'.misses = m
    /\ ~sup'.beat /\ sup'.stray = sup.stray /\ sup'.stopping = sup.stopping

LEMMA BackoffStep ==
  ASSUME sup \in Fields, NEW s \in Fields, ~s.beat, Backoff(s), s.attempts = 0,
         s.stray = sup.stray, s.stopping = sup.stopping, s.timer = sup.timer
  PROVE  BacksOff(s.misses)
  <1>1. ~(s.attempts >= MaxAttempts)
    BY SupervisorAssumption
  <1>2. PICK r \in Free :
          /\ sup' = [s EXCEPT !.state = "Restarting", !.attempts = s.attempts + 1, !.timer = r]
          /\ Goes(stage, r, "backoff")
    BY <1>1 DEF Backoff
  <1> QED BY <1>2 DEF BacksOff, Fields

\* A failed check is one miss more, or one too many.
Misses ==
  /\ UNCHANGED <<stage, again>>
  /\ sup'.misses = sup.misses + 1 /\ sup'.state = sup.state /\ sup'.attempts = sup.attempts
  /\ sup'.beat = sup.beat /\ sup'.stray = sup.stray /\ sup'.stopping = sup.stopping
  /\ sup'.timer = sup.timer

LEMMA MissedStep ==
  ASSUME Sound, Missed, Astray => FALSE
  PROVE  Misses \/ (sup.state = "Ready" /\ ~sup.stopping /\ BacksOff(MaxMisses))
  <1>0. sup \in Fields
    BY DEF Sound, IInv, FieldsTyped
  <1>1. CASE sup.misses + 1 < MaxMisses
    BY <1>0, <1>1 DEF Missed, Misses, Fields
  <1>2. CASE ~(sup.misses + 1 < MaxMisses)
    <2> DEFINE s == [sup EXCEPT !.misses = MaxMisses, !.beat = FALSE]
    <2>1. sup.state = "Ready" /\ ~sup.stopping
      BY <1>0, <1>2, SupervisorAssumption DEF Astray, Fields
    <2>2. sup.attempts = 0
      BY <2>1 DEF Sound, Held, Places, Alone
    <2>3. s \in Fields /\ ~s.beat /\ s.stray = sup.stray /\ s.stopping = sup.stopping
          /\ s.timer = sup.timer /\ s.attempts = 0 /\ s.misses = MaxMisses
      BY <1>0, <2>2, Bounds DEF Fields
    <2>4. Backoff(s)
      BY <1>2 DEF Missed
    <2> HIDE DEF s
    <2>5. BacksOff(MaxMisses)
      BY <1>0, <2>3, <2>4, BackoffStep
    <2> QED BY <2>1, <2>5
  <1> QED BY <1>1, <1>2

\* At most the restart timer is armed: what the invariant says of the stages is
\* untouched.
Arms ==
  /\ stage' \in [Actors -> Stages]
  /\ \A a \in Actors :
       stage'[a] = stage[a] \/ (a \in Runs /\ stage[a] = "idle" /\ stage'[a] = "backoff")

LEMMA BackoffPlaces ==
  ASSUME Sound, \A r \in Runs : stage[r] = "idle", NEW m, BacksOff(m)
  PROVE  Arms /\ Places'
  <1>1. Typed
    BY DEF Sound, Shaped
  <1>2. PICK r \in Runs :
          /\ stage' = [stage EXCEPT ![r] = "backoff"] /\ stage[r] = "idle"
          /\ sup'.state = "Restarting" /\ sup'.timer = r
          /\ ~sup'.beat /\ sup'.stray = sup.stray
    BY DEF BacksOff, Free, Goes
  <1>3. Arms
    BY <1>1, <1>2 DEF Arms, Typed, Stages, Waiting, Actors
  <1>4. Sole' /\ Armed'
    BY <1>1, <1>2 DEF Sole, Armed, Typed, Actors
  <1>5. Alone'
    BY <1>2 DEF Sound, Held, Places, Alone
  <1> QED BY <1>3, <1>4, <1>5 DEF Places

LEMMA MissesPlaces ==
  ASSUME Sound, Misses
  PROVE  Arms /\ Places'
  BY DEF Misses, Arms, Sound, IInv, FieldsTyped, Shaped, Held, Places, Sole, Armed, Alone, Typed

LEMMA ArmsKeeps ==
  ASSUME Sound, Arms, UNCHANGED <<kid, manager, system, link>>, sup'.stopping = sup.stopping,
         count'.undone = count.undone
  PROVE  Tracked' /\ Suspended' /\ Fence'
  <1>1. Typed /\ Tracked /\ Suspended /\ Fence
    BY DEF Sound, Shaped, Held
  <1>2. Tracked'
    BY <1>1 DEF Tracked, manager, system
  <1>3. Suspended'
    BY <1>1 DEF Suspended, Arms, Actors, Waiting, manager
  <1>4. Fence'
    BY <1>1, SupervisorAssumption DEF Fence, Arms, Actors, manager
  <1> QED BY <1>2, <1>3, <1>4

-----------------------------------------------------------------------------
(* The actions, one by one.                                                 *)


LEMMA PreparedSafe ==
  ASSUME Sound, NEW r \in Runs, Prepared(r), Settled
  PROVE  Held'
  <1> USE DEF Sound, Shaped, Held, Typed, Prepared, Fails, Goes, GivesUp
  <1>1. Places'
    BY SupervisorAssumption DEF Places, Sole, Armed, Alone, Actors, IInv,
       FieldsTyped, Fields, GracefulStop
  <1>2. Tracked' /\ Suspended'
    BY DEF Tracked, Suspended, Actors, Waiting, Resolved, Settled, manager
  <1>3. Fence'
    BY SupervisorAssumption DEF Fence, Actors, IInv, FieldsTyped,
       Fields, GracefulStop, manager
  <1> QED BY <1>1, <1>2, <1>3 DEF Held

LEMMA PortCheckedSafe ==
  ASSUME Sound, NEW r \in Runs, PortChecked(r), Settled
  PROVE  Held'
  <1> USE DEF Sound, Shaped, Held, Typed, PortChecked, Goes
  <1>1. Places'
    BY DEF Places, Sole, Armed, Alone, Actors, IInv, FieldsTyped, Fields
  <1>2. Tracked' /\ Suspended'
    BY DEF Tracked, Suspended, Actors, Waiting, Resolved, Settled, manager,
       system
  <1>3. Fence'
    BY DEF Fence, Actors, IInv, FieldsTyped, Fields, manager
  <1> QED BY <1>1, <1>2, <1>3 DEF Held

LEMMA GuardedSafe ==
  ASSUME Sound, NEW r \in Runs, Guarded(r), Settled
  PROVE  Held'
  <1> USE SupervisorAssumption DEF Sound, Shaped, Held, Typed, Actors, Guarded, Fails, Goes, Spawn,
          SpawnFails, GivesUp
  <1>1. Places'
    BY DEF Places, Sole, Armed, Alone, IInv, FieldsTyped, Fields, GracefulStop
  <1>2. Tracked' /\ Suspended'
    BY DEF Tracked, Suspended, Waiting, Places, Sole, Fresh, Resolved, Settled,
       manager, system
  <1>3. Fence'
    BY DEF Fence, IInv, FieldsTyped, Fields, GracefulStop, manager
  <1> QED BY <1>1, <1>2, <1>3 DEF Held

LEMMA RecordedSafe ==
  ASSUME Sound, NEW r \in Runs, Recorded(r), Settled
  PROVE  Held'
  <1> USE DEF Sound, Shaped, Held, Typed, Recorded, GracefulStop, Goes
  <1>1. Places'
    BY DEF Places, Sole, Armed, Alone, Actors
  <1>2. Tracked' /\ Suspended'
    BY DEF Tracked, Suspended, Actors, Waiting, Places, Sole, Terminates
  <1>3. Fence'
    BY DEF Fence, Actors
  <1> QED BY <1>1, <1>2, <1>3 DEF Held

LEMMA ConnectedSafe ==
  ASSUME Sound, NEW r \in Runs, Connected(r), Settled
  PROVE  Held'
  <1> USE DEF Sound, Shaped, Held, Typed, Connected, Halts, Fails, GracefulStop, Goes, GivesUp
  <1>1. Places'
    BY SupervisorAssumption DEF Places, Sole, Armed, Alone, Actors, IInv,
       FieldsTyped, Fields
  <1>2. Tracked' /\ Suspended'
    BY SupervisorAssumption DEF Tracked, Suspended, Actors, Waiting, Places,
       Sole, Terminates, manager
  <1>3. Fence'
    BY SupervisorAssumption DEF Fence, Actors, IInv, FieldsTyped,
       Fields, Places, Alone, manager
  <1> QED BY <1>1, <1>2, <1>3 DEF Held

LEMMA SettledDownSafe ==
  ASSUME Sound, NEW r \in Runs, SettledDown(r), Settled
  PROVE  Held'
  <1> USE DEF Sound, Shaped, Held, Typed, SettledDown, Halts, Fails, GracefulStop, Goes, GivesUp
  <1>1. Places'
    BY SupervisorAssumption DEF Places, Sole, Armed, Alone, Actors, IInv,
       FieldsTyped, Fields
  <1>2. Tracked' /\ Suspended'
    BY SupervisorAssumption DEF Tracked, Suspended, Actors, Waiting, Places,
       Sole, Terminates, manager
  <1>3. Fence'
    BY SupervisorAssumption DEF Fence, Actors, IInv, FieldsTyped,
       Fields, manager
  <1> QED BY <1>1, <1>2, <1>3 DEF Held

LEMMA HaltDoneSafe ==
  ASSUME Sound, NEW r \in Runs, HaltDone(r)
  PROVE  Held'
  <1> USE DEF Sound, Held, HaltDone, Goes
  <1>1. Places'
    BY DEF Places, Sole, Armed, Alone
  <1>2. Tracked' /\ Suspended'
    BY SupervisorAssumption DEF Tracked, Suspended, Resolved, manager, system
  <1>3. Fence'
    BY DEF Fence, manager
  <1> QED BY <1>1, <1>2, <1>3 DEF Held

LEMMA TimerFiresSafe ==
  ASSUME Sound, NEW r \in Runs, TimerFires(r), Settled
  PROVE  Held'
  <1> USE DEF Sound, Shaped, Held, Typed, TimerFires, Begins, GracefulStop, Goes
  <1>1. Places'
    BY SupervisorAssumption DEF Places, Sole, Armed, Alone, Actors, IInv,
       FieldsTyped, Fields
  <1>2. Tracked' /\ Suspended'
    BY DEF Tracked, Suspended, Actors, Waiting, Places, Sole, Terminates,
       manager
  <1>3. Fence'
    BY SupervisorAssumption DEF Fence, Actors, IInv, FieldsTyped,
       Fields, manager
  <1> QED BY <1>1, <1>2, <1>3 DEF Held

LEMMA KillTimeoutSafe ==
  ASSUME Sound, NEW a \in Actors, KillTimeout(a)
  PROVE  Held'
  <1> USE DEF Sound, Held, KillTimeout
  <1>1. Places'
    BY DEF Places, Sole, Armed, Alone
  <1>2. Tracked' /\ Suspended'
    BY DEF Tracked, Suspended, manager
  <1>3. Fence'
    BY DEF Fence, Alive, manager
  <1> QED BY <1>1, <1>2, <1>3 DEF Held

LEMMA QuitBeginsSafe ==
  ASSUME Sound, QuitBegins
  PROVE  Held'
  <1> USE DEF Sound, Shaped, Held, Typed, Actors, QuitBegins, Unarmed
  <1>1. Places'
    BY SupervisorAssumption DEF Places, Sole, Armed, Alone, Fenced
  <1>2. Tracked' /\ Suspended'
    BY DEF Tracked, Suspended, Waiting, Fenced, manager, system
  <1>3. Fence'
    BY SupervisorAssumption DEF Fence, Alive, Fenced, system
  <1> QED BY <1>1, <1>2, <1>3 DEF Held

LEMMA QuitDoneSafe ==
  ASSUME Sound, QuitDone
  PROVE  Held'
  <1> USE DEF Sound, Held, QuitDone, Goes
  <1>1. Places'
    BY DEF Places, Sole, Armed, Alone
  <1>2. Tracked' /\ Suspended'
    BY SupervisorAssumption DEF Tracked, Suspended, Resolved, manager, system
  <1>3. Fence'
    BY SupervisorAssumption DEF Fence, Actors, Alive, Suspended,
       Tracked, Resolved, manager, system
  <1> QED BY <1>1, <1>2, <1>3 DEF Held

LEMMA ServesSafe ==
  ASSUME Sound, NEW p \in Procs, Serves(p)
  PROVE  Held'
  <1> USE DEF Sound, Held, Serves
  <1>1. Places'
    BY DEF Places, Sole, Armed, Alone
  <1>2. Tracked' /\ Suspended'
    BY DEF Tracked, Suspended, manager
  <1>3. Fence'
    BY DEF Fence, Alive, manager
  <1> QED BY <1>1, <1>2, <1>3 DEF Held

LEMMA ObeysSafe ==
  ASSUME Sound, NEW p \in Procs, Obeys(p)
  PROVE  Held'
  <1> USE DEF Sound, Held, Obeys, Ended
  <1>1. Places'
    BY DEF Places, Sole, Armed, Alone
  <1>2. Tracked' /\ Suspended'
    BY SupervisorAssumption DEF IInv, FieldsTyped, Fields, Typed, Places, Sole,
       Tracked, Suspended, manager, Alive
  <1>3. Fence'
    BY SupervisorAssumption DEF Fence, Typed, Alive, Tracked
  <1> QED BY <1>1, <1>2, <1>3 DEF Held

LEMMA CrashesSafe ==
  ASSUME Sound, NEW p \in Procs, Crashes(p)
  PROVE  Held'
  <1> USE DEF Sound, Held, Crashes, Ended
  <1>1. Places'
    BY DEF Places, Sole, Armed, Alone
  <1>2. Tracked' /\ Suspended'
    BY SupervisorAssumption DEF IInv, FieldsTyped, Fields, Typed, Places, Sole,
       Armed, Tracked, Suspended, manager, Alive
  <1>3. Fence'
    BY SupervisorAssumption DEF Fence, Alive, Tracked
  <1> QED BY <1>1, <1>2, <1>3 DEF Held

LEMMA CleaningDoneSafe ==
  ASSUME Sound, NEW r \in Runs, CleaningDone(r)
  PROVE  Held'
  <1>1. sup \in Fields /\ [sup EXCEPT !.suppress = FALSE] \in Fields
    BY DEF Sound, IInv, FieldsTyped, Fields
  <1>2. /\ Carries(sup) /\ link' = NoProc
        /\ sup'.state \in {sup.state, "Failed"}
        /\ (Goes(stage, r, "idle") \/ Goes(stage, r, "fallback"))
    BY <1>1, GivesUpStep DEF CleaningDone
  <1>3. /\ stage[r] = "cleaning" /\ Resolved(r)
        /\ UNCHANGED <<kid, manager, system, asked, count>>
    BY DEF CleaningDone
  <1>4. Places'
    BY <1>1, <1>2, <1>3 DEF Sound, Shaped, Held, Places, Sole, Armed, Alone, Typed,
       Actors, Carries, Goes
  <1>5. Tracked' /\ Suspended'
    BY <1>1, <1>2, <1>3, SupervisorAssumption DEF Sound, Shaped, Held, Tracked, Suspended,
       Typed, Actors, Carries, Goes, Resolved, manager, system
  <1>6. Fence'
    BY <1>1, <1>2, <1>3 DEF Sound, Shaped, Held, Fence, Typed, Actors, Carries,
       Goes, manager
  <1> QED BY <1>4, <1>5, <1>6 DEF Held

LEMMA FellBackSafe ==
  ASSUME Sound, NEW r \in Runs, FellBack(r), Settled
  PROVE  Held'
  <1>1. sup \in Fields /\ [sup EXCEPT !.state = "Restarting"] \in Fields
    BY DEF Sound, IInv, FieldsTyped, Fields, States
  <1>2. /\ Carries(sup) /\ sup'.state # "Ready"
        /\ Goes(stage, r, IF sup.stopping THEN "idle" ELSE "prepare")
    BY <1>1, BeginsStep DEF FellBack, Carries, Fields, Sound, Held, Places, Alone
  <1>3. /\ stage[r] = "fallback" /\ UNCHANGED link
        /\ UNCHANGED <<kid, manager, system, asked, count>>
    BY DEF FellBack
  <1>4. Places'
    BY <1>1, <1>2, <1>3 DEF Sound, Held, Places, Sole, Armed, Alone, Carries, Goes
  <1>5. Tracked' /\ Suspended'
    BY <1>1, <1>2, <1>3 DEF Sound, Held, Tracked, Suspended, Waiting, Carries,
       Goes, manager, system
  <1>6. Fence'
    BY <1>1, <1>2, <1>3 DEF Sound, Held, Fence, Carries, Goes, manager
  <1> QED BY <1>4, <1>5, <1>6 DEF Held

LEMMA ClearingDoneSafe ==
  ASSUME Sound, NEW r \in Runs, ClearingDone(r)
  PROVE  Held'
  <1>1. sup \in Fields /\ [sup EXCEPT !.suppress = FALSE] \in Fields
    BY DEF Sound, IInv, FieldsTyped, Fields, States
  <1>2. /\ Carries(sup) /\ sup'.state # "Ready"
        /\ Goes(stage, r, IF sup.stopping THEN "idle" ELSE "prepare")
    BY <1>1, BeginsStep DEF ClearingDone, Carries, Fields, Sound, Held, Places, Alone
  <1>3. /\ stage[r] = "clearing" /\ Resolved(r) /\ link' = NoProc
        /\ UNCHANGED <<kid, manager, system, asked, count>>
    BY DEF ClearingDone
  <1>4. Places'
    BY <1>1, <1>2, <1>3 DEF Sound, Held, Places, Sole, Armed, Alone, Carries, Goes
  <1>5. Tracked' /\ Suspended'
    BY <1>1, <1>2, <1>3, SupervisorAssumption DEF Sound, Shaped, Held, Tracked, Suspended,
       Typed, Carries, Goes, Resolved, manager, system
  <1>6. Fence'
    BY <1>1, <1>2, <1>3 DEF Sound, Held, Fence, Carries, Goes, manager
  <1> QED BY <1>4, <1>5, <1>6 DEF Held

LEMMA RestopDoneSafe ==
  ASSUME Sound, NEW r \in Runs, RestopDone(r)
  PROVE  Held'
  <1>1. sup \in Fields /\ Restarted(sup) \in Fields
    BY Bounds DEF Sound, IInv, FieldsTyped, Fields, States, Restarted
  <1>2. /\ Restarted(sup).beat = sup.beat /\ Restarted(sup).stray = sup.stray
        /\ Restarted(sup).misses = sup.misses /\ Restarted(sup).timer = sup.timer
        /\ Restarted(sup).attempts = 0 /\ ~Restarted(sup).stopping
    BY <1>1 DEF Restarted, Fields
  <1>3. /\ sup'.beat = sup.beat /\ sup'.stray = sup.stray /\ sup'.misses = sup.misses
        /\ sup'.timer = sup.timer /\ sup'.state = "Starting"
        /\ Goes(stage, r, "prepare")
    BY <1>1, <1>2, BeginsStep DEF RestopDone, Carries
  <1>4. /\ stage[r] = "restop" /\ Resolved(r) /\ link' = NoProc
        /\ UNCHANGED <<kid, manager, system, asked>>
        /\ ~count'.undone => ~count.undone /\ stage[Quit] = "idle"
    BY DEF RestopDone, Sound, Shaped, Typed
  <1>5. Places'
    BY <1>1, <1>2, <1>3, <1>4 DEF Sound, Held, Places, Sole, Armed, Alone, Goes
  <1>6. Tracked' /\ Suspended'
    BY <1>1, <1>2, <1>3, <1>4, SupervisorAssumption DEF Sound, Shaped, Held, Tracked, Suspended,
       Typed, Actors, Places, Sole, Goes, Resolved, manager, system
  <1>7. Fence'
    BY <1>1, <1>2, <1>3, <1>4, SupervisorAssumption DEF Sound, Shaped, Held, Fence,
       Typed, Actors, Suspended, Goes
  <1> QED BY <1>5, <1>6, <1>7 DEF Held

LEMMA PublishedSafe ==
  ASSUME Sound, NEW r \in Runs, Published(r), Settled
  PROVE  Held'
  <1>1. sup \in Fields
    BY DEF Sound, IInv, FieldsTyped, Fields
  <1>2. \/ Fails(r)
        \/ sup.stopping /\ Goes(stage, r, "idle") /\ UNCHANGED <<sup, kid, signal, link>>
        \/ /\ ~sup.stopping /\ Goes(stage, r, "idle") /\ UNCHANGED <<kid, signal, link>>
           /\ sup'.state = "Ready" /\ sup'.attempts = 0 /\ sup'.misses = 0
           /\ sup'.stray = (sup.stray \/ sup.beat) /\ sup'.timer = sup.timer
           /\ sup'.stopping = sup.stopping
    BY <1>1, Bounds DEF Published, Watched, Fields, States
  <1>3. stage[r] = "publish" /\ UNCHANGED <<manager, proc, asked, count>>
    BY DEF Published
  <1>4. Places'
    BY <1>1, <1>2, <1>3 DEF Sound, Shaped, Held, Places, Sole, Armed, Alone, Typed,
       Actors, Fields, Fails, GracefulStop, Goes, GivesUp
  <1>5. Tracked' /\ Suspended'
    BY <1>1, <1>2, <1>3 DEF Sound, Shaped, Held, Tracked, Suspended, Typed, Actors,
       Waiting, Places, Sole, Fails, GracefulStop, Terminates, Goes, GivesUp, manager
  <1>6. Fence'
    BY <1>1, <1>2, <1>3, SupervisorAssumption DEF Sound, Shaped, Held, Fence,
       Typed, Actors, Fields, Fails, GracefulStop, Goes, GivesUp, manager
  <1> QED BY <1>4, <1>5, <1>6 DEF Held

LEMMA QuitStopsSafe ==
  ASSUME Sound, QuitStops
  PROVE  Held'
  <1>1. sup \in Fields
    BY DEF Sound, IInv, FieldsTyped, Fields
  <1>2. /\ sup'.beat = FALSE /\ sup'.stray = sup.stray /\ sup'.misses = sup.misses
        /\ sup'.stopping = TRUE /\ sup'.attempts = sup.attempts /\ sup'.timer = NoRun
        /\ IF running THEN sup'.state = sup.state ELSE sup'.state = "Stopped"
    BY <1>1 DEF QuitStops, Fenced, Fields, States
  <1>3. /\ stage[Quit] = "fenced" /\ UNCHANGED <<again, manager, proc, asked, count>>
        /\ IF running
           THEN stage' = [Unarmed EXCEPT ![Quit] = "halting"] /\ Terminates(Quit) /\ UNCHANGED link
           ELSE stage' = [Unarmed EXCEPT ![Quit] = "done"] /\ link' = NoProc /\ UNCHANGED <<kid, signal>>
    BY DEF QuitStops
  <1>4. Places'
    BY <1>1, <1>2, <1>3 DEF Sound, Shaped, Held, Places, Sole, Armed, Alone, Typed,
       Actors, Unarmed
  <1>5. Tracked' /\ Suspended'
    BY <1>1, <1>2, <1>3 DEF Sound, Shaped, Held, Tracked, Suspended, Typed, Actors,
       Waiting, Unarmed, Terminates, manager
  <1>6. Fence'
    BY <1>1, <1>2, <1>3, SupervisorAssumption DEF Sound, Shaped, Held, Fence,
       Typed, Actors, Alive, Tracked, Unarmed, manager
  <1> QED BY <1>4, <1>5, <1>6 DEF Held

LEMMA RestartSafe ==
  ASSUME Sound, NEW r \in Runs, Restart(r), ~count'.crossed
  PROVE  Held'
  <1>1. sup \in Fields
    BY DEF Sound, IInv, FieldsTyped
  <1>2. /\ sup'.beat = FALSE /\ sup'.stray = sup.stray /\ sup'.timer = NoRun
        /\ IF running THEN sup'.state = sup.state /\ sup'.stopping = TRUE /\ sup'.attempts = sup.attempts
           ELSE sup'.state = "Starting" /\ sup'.stopping = FALSE /\ sup'.attempts = 0
    BY <1>1, Bounds DEF Restart, Restarted, Fenced, Fields, States
  <1>3. /\ r \in Free /\ stage[Quit] = "idle"
        /\ \A q \in Runs : Unarmed[q] = "idle"
        /\ count'.undone = count.undone
        /\ UNCHANGED <<manager, proc, asked>>
        /\ IF running
           THEN stage' = [Unarmed EXCEPT ![r] = "restop"] /\ Terminates(r) /\ UNCHANGED link
           ELSE stage' = [Unarmed EXCEPT ![r] = "prepare"] /\ link' = NoProc /\ UNCHANGED <<kid, signal>>
    BY DEF Restart, Sound, Shaped, Typed
  <1>4. Places'
    BY <1>1, <1>2, <1>3, SupervisorAssumption DEF Sound, Shaped, Held, Places, Sole, Armed,
       Alone, Typed, Actors, Unarmed
  <1>5. Tracked' /\ Suspended'
    BY <1>1, <1>2, <1>3, SupervisorAssumption DEF Sound, Shaped, Held, Tracked, Suspended,
       Typed, Actors, Waiting, Unarmed, Terminates, manager
  <1>6. Fence'
    BY <1>1, <1>2, <1>3, SupervisorAssumption DEF Sound, Shaped, Held, Fence, Typed, Actors,
       Unarmed, manager
  <1> QED BY <1>4, <1>5, <1>6 DEF Held

\* A check that failed arms the timer only when nobody is suspended.
LEMMA MissedSafe ==
  ASSUME Sound, Missed, ~Astray, UNCHANGED <<kid, manager, system, link>>,
         count'.undone = count.undone
  PROVE  Held'
  <1>1. CASE Misses
    <2>1. Arms /\ Places' /\ sup'.stopping = sup.stopping
      BY <1>1, MissesPlaces DEF Misses
    <2> QED BY <2>1, ArmsKeeps DEF Held
  <1>2. CASE sup.state = "Ready" /\ ~sup.stopping /\ BacksOff(MaxMisses)
    <2>1. \A r \in Runs : stage[r] = "idle"
      BY <1>2 DEF Sound, Held, Places, Alone, Suspended
    <2>2. Arms /\ Places' /\ sup'.stopping = sup.stopping
      BY <1>2, <2>1, BackoffPlaces DEF BacksOff
    <2> QED BY <2>2, ArmsKeeps DEF Held
  <1> QED BY <1>1, <1>2, MissedStep

LEMMA HealthCheckSafe ==
  ASSUME Sound, HealthCheck
  PROVE  Held'
  <1>1. /\ sup.state = "Ready" /\ ~sup.stopping
        /\ UNCHANGED <<kid, manager, system, link, count>>
    BY DEF HealthCheck, Sound, Held, Places, Alone
  <1>2. CASE UNCHANGED <<sup, stage, again>>
    <2>1. Arms /\ Places'
      BY <1>2 DEF Sound, Shaped, Held, Places, Sole, Armed, Alone, Arms, Typed
    <2> QED BY <1>1, <1>2, <2>1, ArmsKeeps DEF Held
  <1>3. CASE Missed
    BY <1>1, <1>3, MissedSafe DEF Astray
  <1> QED BY <1>2, <1>3 DEF HealthCheck

LEMMA AnsweredSafe ==
  ASSUME Sound, NEW p \in Procs, Answered(p), ~count'.crossed
  PROVE  Held'
  <1>1. /\ sup \in Fields /\ UNCHANGED <<kid, manager, system, link>>
        /\ count'.undone = count.undone
    BY DEF Answered, Sound, IInv, FieldsTyped, Shaped, Typed
  <1>2. CASE sup' = [sup EXCEPT !.misses = 0] /\ UNCHANGED <<stage, again, count>>
    <2>1. /\ sup'.state = sup.state /\ sup'.attempts = sup.attempts
          /\ sup'.beat = sup.beat /\ sup'.stray = sup.stray /\ sup'.stopping = sup.stopping
          /\ sup'.timer = sup.timer
      BY <1>1, <1>2 DEF Fields
    <2>2. Arms /\ Places'
      BY <1>2, <2>1 DEF Sound, Shaped, Held, Places, Sole, Armed, Alone, Arms, Typed
    <2> QED BY <1>1, <2>1, <2>2, ArmsKeeps DEF Held
  <1>3. CASE Missed /\ ~Astray
    BY <1>1, <1>3, MissedSafe
  <1>4. Astray => count'.crossed \/ (sup' = [sup EXCEPT !.misses = 0] /\ UNCHANGED <<stage, again, count>>)
    BY DEF Answered, Sound, Shaped, Typed
  <1> QED BY <1>2, <1>3, <1>4 DEF Answered

LEMMA ExitsSafe ==
  ASSUME Sound, NEW p \in Procs, Exits(p)
  PROVE  Held'
  <1>1. /\ proc[p] = "dead" /\ proc' = [proc EXCEPT ![p] = "reaped"]
        /\ UNCHANGED <<signal, link, asked, count>>
    BY DEF Exits
  <1>2. Typed /\ sup \in Fields /\ Tracked /\ Suspended /\ Fence /\ Places
    BY DEF Sound, IInv, FieldsTyped, Shaped, Held
  <1>3. CASE p \notin heard
    <2>1. UNCHANGED <<manager, kid, sup, stage, again>>
      BY <1>3 DEF Exits
    <2>2. Places' /\ Fence'
      BY <1>1, <1>2, <2>1 DEF Places, Sole, Armed, Alone, Fence, manager
    <2>3. Tracked' /\ Suspended'
      BY <1>1, <1>2, <2>1 DEF Typed, Tracked, Suspended, manager
    <2> QED BY <2>2, <2>3 DEF Held
  <1>4. CASE p \in heard
    <2>1. /\ child' = NoProc /\ running' = FALSE /\ heard' = {}
          /\ kid' = [a \in Actors |-> IF stage[a] \in Waiting THEN NoProc ELSE kid[a]]
      BY <1>2, <1>4 DEF Exits, Tracked
    <2>2. Arms /\ Places' /\ sup'.stopping = sup.stopping
      <3>1. CASE UNCHANGED <<sup, stage, again>>
        BY <1>2, <3>1 DEF Arms, Places, Sole, Armed, Alone, Typed
      <3>2. CASE ~sup.stopping /\ sup.state = "Ready" /\ Backoff([sup EXCEPT !.beat = FALSE])
        <4> DEFINE s == [sup EXCEPT !.beat = FALSE]
        <4>1. s \in Fields /\ ~s.beat /\ s.stray = sup.stray /\ s.stopping = sup.stopping
              /\ s.timer = sup.timer /\ s.attempts = 0 /\ s.misses = sup.misses
          BY <1>2, <3>2 DEF Fields, Places, Alone
        <4>2. Backoff(s)
          BY <3>2
        <4> HIDE DEF s
        <4>3. BacksOff(sup.misses)
          BY <1>2, <4>1, <4>2, BackoffStep
        <4>4. \A r \in Runs : stage[r] = "idle"
          BY <1>2, <3>2 DEF Places, Alone, Suspended
        <4> QED BY <4>3, <4>4, BackoffPlaces DEF BacksOff
      <3> QED BY <1>4, <3>1, <3>2 DEF Exits, ExitHandled
    <2>3. Tracked'
      BY <1>1, <1>2, <1>4, <2>1 DEF Tracked, Typed
    <2>4. Suspended'
      BY <1>1, <1>2, <1>4, <2>1, <2>2 DEF Suspended, Arms, Actors, Waiting
    <2>5. Fence'
      BY <1>1, <1>2, <2>1, <2>2, SupervisorAssumption DEF Fence, Arms, Actors, Typed
    <2> QED BY <2>2, <2>3, <2>4, <2>5 DEF Held
  <1> QED BY <1>3, <1>4

-----------------------------------------------------------------------------

LEMMA InitSafe ==
  ASSUME Init
  PROVE  Safe
  <1>1. IInv /\ Shaped
    BY InitFields, InitShaped
  <1>2. PICK r \in Runs : stage = [a \in Actors |-> IF a = r THEN "prepare" ELSE "idle"]
    BY DEF Init
  <1>3. Places
    BY <1>2, SupervisorAssumption DEF Init, Places, Sole, Armed, Alone, Actors
  <1>4. Tracked /\ Suspended
    BY <1>2, SupervisorAssumption DEF Init, Tracked, Suspended, Waiting, Actors
  <1>5. Fence
    BY <1>2, SupervisorAssumption DEF Init, Fence, Actors
  <1> QED BY <1>1, <1>3, <1>4, <1>5 DEF Safe, Held

\* Activations that have crossed have crossed for good.
LEMMA CrossedStays ==
  ASSUME Shaped, [Next]_vars, count.crossed
  PROVE  count'.crossed
  <1>1. CASE UNCHANGED count
    BY <1>1
  <1>2. ASSUME NEW r \in Runs, Restart(r) \/ RestopDone(r)
        PROVE  count'.crossed
    BY <1>2 DEF Restart, RestopDone, Shaped, Typed
  <1>3. ASSUME NEW p \in Procs, Answered(p) \/ Crashes(p)
        PROVE  count'.crossed
    BY <1>3 DEF Answered, Crashes, Shaped, Typed
  <1>4. ASSUME NEW r \in Runs, RunStep(r), ~RestopDone(r)
        PROVE  UNCHANGED count
    BY <1>4 DEF RunStep, Prepared, PortChecked, Guarded, Recorded, Connected, SettledDown,
       Published, FellBack, TimerFires, HaltDone, CleaningDone, ClearingDone
  <1> QED BY <1>1, <1>2, <1>3, <1>4 DEF Next, vars, KillTimeout, Exits, Serves, Obeys,
          HealthCheck, QuitBegins, QuitStep, QuitStops, QuitDone

LEMMA StepHeld ==
  ASSUME Sound, [Next]_vars, ~count'.crossed
  PROVE  Held'
  <1>1. ASSUME NEW r \in Runs, RunStep(r) \/ Restart(r)
        PROVE  Held'
    BY <1>1, PreparedSafe, PortCheckedSafe, GuardedSafe, RecordedSafe, ConnectedSafe,
       SettledDownSafe, PublishedSafe, FellBackSafe, TimerFiresSafe, HaltDoneSafe,
       CleaningDoneSafe, ClearingDoneSafe, RestopDoneSafe, RestartSafe DEF RunStep
  <1>2. ASSUME NEW a \in Actors, KillTimeout(a)
        PROVE  Held'
    BY <1>2, KillTimeoutSafe
  <1>3. ASSUME NEW p \in Procs, Answered(p) \/ Exits(p) \/ Serves(p) \/ Obeys(p) \/ Crashes(p)
        PROVE  Held'
    BY <1>3, AnsweredSafe, ExitsSafe, ServesSafe, ObeysSafe, CrashesSafe
  <1>4. ASSUME HealthCheck \/ QuitBegins \/ QuitStep
        PROVE  Held'
    BY <1>4, HealthCheckSafe, QuitBeginsSafe, QuitStopsSafe, QuitDoneSafe DEF QuitStep
  <1>5. ASSUME UNCHANGED vars
        PROVE  Held'
    <2>1. Arms /\ Places'
      BY <1>5 DEF vars, Arms, Sound, Shaped, Held, Typed, Places, Sole, Armed, Alone
    <2> QED BY <1>5, <2>1, ArmsKeeps DEF vars, manager, system, Held
  <1> QED BY <1>1, <1>2, <1>3, <1>4, <1>5 DEF Next

\* Everything the supervisor, its process manager and its health check rely on
\* holds until activations cross.
THEOREM Invariance == Spec => []Safe
  <1>1. Init => Safe
    BY InitSafe
  <1>2. ASSUME Safe, [Next]_vars
        PROVE  Safe'
    <2>1. IInv' /\ Shaped'
      BY <1>2, StepFields, StepShaped DEF Safe
    <2>2. ~count'.crossed => ~count.crossed
      BY <1>2, CrossedStays DEF Safe
    <2>3. ~count'.crossed => Held'
      BY <1>2, <2>2, StepHeld DEF Safe, Sound
    <2> QED BY <2>1, <2>3 DEF Safe
  <1> QED BY <1>1, <1>2, PTL DEF Spec

LEMMA AliveIsChild ==
  ASSUME Sound
  PROVE  Alive \subseteq {child} /\ (~running => Alive = {})
  BY DEF Sound, Held, Tracked, Alive

\* A second aria2 process has a cause: unless a restart() came in during a
\* suspended start, or a health check was answered after its engine, start()
\* spawns only when the child of before is gone, whoever stopped it.
THEOREM SecondEngineHasCause == Spec => []SecondEngineExplained
  <1>1. Safe => SecondEngineExplained
    <2> SUFFICES ASSUME Safe, ~count.crossed
                 PROVE  OneEngine
      BY DEF SecondEngineExplained
    <2>1. Alive = {} \/ Alive = {child}
      BY AliveIsChild DEF Safe, Sound
    <2>2. Cardinality({}) = 0 /\ Cardinality({child}) = 1
      BY FS_EmptySet, FS_Singleton
    <2>3. Cardinality(Alive) = 0 \/ Cardinality(Alive) = 1
      BY <2>1, <2>2
    <2> QED BY <2>3 DEF OneEngine
  <1> QED BY <1>1, Invariance, PTL

\* No process is alive once the shutdown's stop() has returned, unless a restart
\* that was stopping the old process undid the fence, or activations crossed.
THEOREM QuitHolds == Spec => []QuitSticks
  <1>1. Safe => QuitSticks
    BY AliveIsChild DEF Safe, Sound, Held, Fence, QuitSticks, QuitIsFinal
  <1> QED BY <1>1, Invariance, PTL

LEMMA FailedStep ==
  ASSUME Sound, [Next]_vars, sup.state # "Failed", sup'.state = "Failed", ~count'.crossed
  PROVE  Alive' = {}
  <1>1. sup \in Fields /\ Typed /\ Suspended
    BY DEF Sound, IInv, FieldsTyped, Shaped, Held
  <1>2. ~running /\ UNCHANGED proc => Alive' = {}
    BY AliveIsChild DEF Alive
  <1>3. ASSUME NEW r \in Runs, Fails(r)
        PROVE  ~running
    BY <1>1, <1>3 DEF Fails, Fields
  <1>4. ASSUME NEW r \in Runs, RunStep(r)
        PROVE  Alive' = {}
    <2>1. CASE Prepared(r) \/ Guarded(r) \/ Connected(r) \/ SettledDown(r)
      BY <1>2, <1>3, <2>1 DEF Prepared, Guarded, Connected, SettledDown, Halts, system
    <2>2. CASE Published(r)
      <3>1. ~Fails(r) => sup'.state # "Failed"
        BY <1>1, <2>2 DEF Published, Watched, Fields
      <3> QED BY <1>2, <1>3, <2>2, <3>1 DEF Published
    <2>3. CASE PortChecked(r)
      BY <1>1, <1>2, <2>3 DEF PortChecked, Suspended, system
    <2>4. CASE CleaningDone(r)
      <3>1. r \in Actors /\ ~running
        BY <1>1, <2>4, SupervisorAssumption DEF CleaningDone, Resolved, Suspended, Actors,
           Sound, Held, Tracked
      <3> QED BY <1>2, <2>4, <3>1 DEF CleaningDone, system
    <2>5. CASE FellBack(r) \/ TimerFires(r) \/ ClearingDone(r)
      BY <1>1, <2>5 DEF FellBack, TimerFires, ClearingDone, Begins, Fields
    <2>6. CASE RestopDone(r)
      <3>1. Restarted(sup) \in Fields /\ Restarted(sup).state = "Stopped"
        BY <1>1, Bounds DEF Restarted, Fields, States
      <3> QED BY <2>6, <3>1 DEF RestopDone, Begins, Fields
    <2>7. CASE Recorded(r) \/ HaltDone(r)
      BY <2>7 DEF Recorded, HaltDone
    <2> QED BY <1>4, <2>1, <2>2, <2>3, <2>4, <2>5, <2>6, <2>7 DEF RunStep
  <1>5. ASSUME NEW r \in Runs, Restart(r)
        PROVE  FALSE
    BY <1>1, <1>5 DEF Restart, Restarted, Fenced, Fields
  <1>6. ASSUME Missed, ~Astray
        PROVE  FALSE
    BY <1>6, MissedStep DEF Misses, BacksOff
  <1>7. ASSUME NEW p \in Procs, Answered(p)
        PROVE  FALSE
    <2>1. CASE sup' = [sup EXCEPT !.misses = 0]
      BY <1>1, <2>1 DEF Fields
    <2>2. CASE Missed /\ Astray
      BY <1>1, <1>7, <2>2 DEF Answered, Typed, Fields
    <2> QED BY <1>6, <1>7, <2>1, <2>2 DEF Answered
  <1>8. CASE HealthCheck
    <2>1. ~Astray
      <3>1. sup.state = "Ready" /\ ~sup.stopping
        BY <1>8 DEF HealthCheck, Sound, Held, Places, Alone
      <3> QED BY <3>1 DEF Astray
    <2> QED BY <1>6, <1>8, <2>1 DEF HealthCheck
  <1>9. ASSUME NEW p \in Procs, Exits(p)
        PROVE  FALSE
    <2>1. sup.state = "Ready" /\ Backoff([sup EXCEPT !.beat = FALSE])
      BY <1>9 DEF Exits, ExitHandled
    <2>2. ~([sup EXCEPT !.beat = FALSE].attempts >= MaxAttempts)
      BY <1>1, <2>1, SupervisorAssumption DEF Sound, Held, Places, Alone, Fields
    <2> QED BY <1>1, <2>1, <2>2 DEF Backoff, Fields
  <1>10. CASE QuitBegins \/ QuitStep
    BY <1>1, <1>10 DEF QuitBegins, QuitStep, QuitStops, QuitDone, Fenced, Fields
  <1>11. ASSUME NEW p \in Procs, Serves(p) \/ Obeys(p) \/ Crashes(p)
         PROVE  FALSE
    BY <1>11 DEF Serves, Obeys, Crashes, Ended
  <1>12. ASSUME NEW a \in Actors, KillTimeout(a)
         PROVE  FALSE
    BY <1>12 DEF KillTimeout
  <1> QED BY <1>4, <1>5, <1>7, <1>8, <1>9, <1>10, <1>11, <1>12 DEF Next, vars

\* "Always tear down a process spawned by this supervisor before entering
\* Failed": when the state becomes Failed, no process is alive, whether a start
\* failed, the port was taken or the restarts are used up, unless activations
\* crossed.
THEOREM TornDown == Spec => FailedIsTornDown
  <1>1. Safe /\ [Next]_vars
        => [sup.state # "Failed" /\ sup'.state = "Failed" => Alive' = {} \/ count'.crossed]_vars
    BY FailedStep, CrossedStays DEF Safe, Sound
  <1> QED BY <1>1, Invariance, PTL DEF Spec, FailedIsTornDown

=============================================================================
