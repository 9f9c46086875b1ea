------------------------- MODULE CompletionShutdown -------------------------
(***************************************************************************)
(* "Shut the computer down when the downloads are done."  The controller   *)
(* (core/task/completion-shutdown-controller.ts), the platform glue that   *)
(* feeds it (main/platform/completion-shutdown.ts) and the coordinator     *)
(* that gates and drains main-process work while it prepares               *)
(* (main/main-process-work-coordinator.ts, core/inspector-activity/        *)
(* async-work-tracker.ts).                                                 *)
(*                                                                         *)
(* The source compares its `generation` counter only with values captured  *)
(* by the activations that are still suspended: the probe of setEnabled    *)
(* and the bodies of execute().  The model keeps the activation, if any,   *)
(* that captured the present generation (ctl.owner); ++generation makes it *)
(* NoRun.  No bound on the counter is then needed, only one on the number  *)
(* of activations suspended at the same time (Runs).                       *)
(***************************************************************************)
EXTENDS Naturals, FiniteSets

CONSTANTS
  Tasks,      \* identities of download tasks
  Works,      \* main-process operations that pass through the coordinator
  Runs,       \* slots for suspended activations of setEnabled and execute
  NoRun,      \* no activation
  Grace       \* the countdown, in ticks (COUNTDOWN_MS)

ASSUME ShutdownAssumption == NoRun \notin Runs /\ Grace \in Nat \ {0}

VARIABLES
  task,       \* what taskManager.getAll() shows of each task
  ready,      \* deps.isReady(): startup settled, engine Ready, RPC connected
  skew,       \* a clock discontinuity not yet seen by observeClock
  ctl,        \* the fields of CompletionShutdownController
  runs,       \* where each activation is suspended
  hold,       \* admissionHold: the activation whose lease gates new work
  incoming,   \* hold.incoming, per lease
  work,       \* where each coordinated operation is
  open,       \* tracker.accepting (and the controller is not disposed)
  calm,       \* history: ticks since the last disturbance, up to Grace
  age,        \* history: ticks since each listed task appeared, up to Grace
  consent     \* history: the user armed the plan and it is not spent

env  == <<task, ready, skew>>
history == <<calm, age, consent>>
gate == <<hold, incoming, work>>
vars == <<task, ready, skew, ctl, runs, hold, incoming, work, open, calm, age, consent>>

TaskStates == {"absent", "busy", "relocating", "completed", "seeding", "gone"}
Phases     == {"off", "waiting", "countdown", "preparing", "requested", "failed"}
Armed      == {"waiting", "countdown", "preparing"}
RunStages  == {"idle", "starting", "probing", "draining", "skipped", "saving", "saved", "requesting"}
WorkStates == {"idle", "queued", "released", "running"}
NoBaseline == [known |-> FALSE, ids |-> {}]

Live       == {t \in Tasks : task[t] \notin {"absent", "gone"}}
Completed  == {t \in Tasks : task[t] \in {"completed", "relocating"}}
Finished   == {t \in Tasks : task[t] \in {"completed", "seeding"}}
FreeRuns   == {r \in Runs : runs[r] = "idle"}

Controllers ==
  [phase : Phases, authorizing : BOOLEAN, owner : Runs \cup {NoRun},
   participants : SUBSET Tasks, historical : [known : BOOLEAN, ids : SUBSET Tasks],
   timer : BOOLEAN, left : 0..Grace, preparation : Runs \cup {NoRun}]

TypeOK ==
  /\ task \in [Tasks -> TaskStates]
  /\ ready \in BOOLEAN /\ skew \in BOOLEAN
  /\ ctl \in Controllers
  /\ runs \in [Runs -> RunStages]
  /\ hold \in Runs \cup {NoRun}
  /\ incoming \in [Runs -> BOOLEAN]
  /\ work \in [Works -> WorkStates]
  /\ open \in BOOLEAN /\ calm \in 0..Grace /\ age \in [Tasks -> 0..Grace] /\ consent \in BOOLEAN

Init ==
  /\ task \in [Tasks -> {"absent", "busy", "completed"}]
  /\ ready = FALSE /\ skew = FALSE
  /\ ctl = [phase |-> "off", authorizing |-> FALSE, owner |-> NoRun,
            participants |-> {}, historical |-> NoBaseline,
            timer |-> FALSE, left |-> 0, preparation |-> NoRun]
  /\ runs = [r \in Runs |-> "idle"]
  /\ hold = NoRun
  /\ incoming = [r \in Runs |-> FALSE]
  /\ work = [w \in Works |-> "idle"]
  /\ open = TRUE /\ calm = 0 /\ age = [t \in Tasks |-> 0] /\ consent = FALSE

-----------------------------------------------------------------------------
(* The controller's synchronous methods, as functions of its fields.        *)

\* Mutant: cancel() leaves the interval running.
Cancelled_KeepsTimer(c) ==
  [c EXCEPT !.phase = "off", !.authorizing = FALSE, !.owner = NoRun,
            !.participants = {}, !.historical = NoBaseline,
            !.left = 0, !.preparation = NoRun]

\* Mutant: cancel() forgets ++generation.
Cancelled_KeepsGeneration(c) ==
  [c EXCEPT !.phase = "off", !.authorizing = FALSE,
            !.participants = {}, !.historical = NoBaseline,
            !.timer = FALSE, !.left = 0, !.preparation = NoRun]

Cancelled(c) ==
  [c EXCEPT !.phase = "off", !.authorizing = FALSE, !.owner = NoRun,
            !.participants = {}, !.historical = NoBaseline,
            !.timer = FALSE, !.left = 0, !.preparation = NoRun]

\* Mutant: interrupt() does not release the preparation.
Interrupted_KeepsLease(c) ==
  IF c.phase \in {"countdown", "preparing"}
  THEN [c EXCEPT !.phase = "waiting", !.owner = NoRun, !.left = 0]
  ELSE c

Interrupted(c) ==
  IF c.phase \in {"countdown", "preparing"}
  THEN [c EXCEPT !.phase = "waiting", !.owner = NoRun, !.left = 0, !.preparation = NoRun]
  ELSE c

\* isReady() goes down when work is no longer accepted.
IsReady == ready /\ open

\* collectTasks: the baseline is taken once; a participant that left the list
\* cancels the plan; a task seen for the first time interrupts the countdown.
Collected(c) ==
  LET baseline == IF c.historical.known THEN c.historical
                  ELSE [known |-> TRUE, ids |-> Completed]
      added    == {t \in Live : t \notin baseline.ids \/ t \notin Completed}
      grown    == [c EXCEPT !.historical = baseline,
                            !.participants = @ \cup added]
  IN  IF ~IsReady THEN c
      ELSE IF ~(c.participants \subseteq Live) THEN Cancelled(c)
      ELSE IF added \subseteq c.participants THEN grown
      ELSE Interrupted(grown)

\* Mutant: a seeding task is not finished.
AllDone_NotSeeding(k) == IsReady /\ k.participants # {} /\ Live \subseteq Completed

\* ready(), read after collectTasks has produced k: a cancelled plan has no
\* participants left.
AllDone(k) == IsReady /\ k.participants # {} /\ Live \subseteq Finished

\* Mutant: observeClock() only records the clocks.
Observed_NoInterrupt(c) == c

Observed(c) == IF skew THEN Interrupted(c) ELSE c

\* evaluate(), up to the call of execute().
Evaluated(c) ==
  IF c.authorizing THEN Collected(c)
  ELSE IF c.phase \notin Armed THEN c
  ELSE LET k == Collected(Observed(c))
       IN  IF ~AllDone(k) THEN Interrupted(k)
           ELSE IF Observed(c).phase # "preparing" /\ k.phase = "waiting"
                THEN [k EXCEPT !.phase = "countdown", !.left = Grace]
           ELSE k

\* evaluate() goes on to execute() when the deadline has passed.
Due(c) ==
  LET k == Collected(Observed(c))
  IN  /\ ~c.authorizing
      /\ Observed(c).phase = "countdown"
      /\ AllDone(k) /\ k.phase = "countdown" /\ k.left = 0

\* release() of the lease of r: the gate opens and what waited goes on.
Released(r) ==
  IF hold = r /\ r # NoRun
  THEN /\ hold' = NoRun
       /\ work' = [w \in Works |-> IF work[w] = "queued" THEN "released" ELSE work[w]]
  ELSE UNCHANGED <<hold, work>>

\* The controller moves to c, and releases its preparation when c has none.
Becomes(c) ==
  /\ ctl' = c
  /\ IF c.preparation = NoRun THEN Released(ctl.preparation) ELSE UNCHANGED <<hold, work>>

-----------------------------------------------------------------------------
(* The controller's entry points and the continuations of its awaits.       *)

\* execute(), up to the await of drain(): prepare() throws when a lease is out.
Execute(r) ==
  LET k == Collected(Observed(ctl))
  IN  IF hold # NoRun
      THEN /\ ctl' = [k EXCEPT !.phase = "failed", !.owner = NoRun, !.timer = FALSE]
           /\ UNCHANGED <<runs, hold, incoming>>
      ELSE /\ ctl' = [k EXCEPT !.phase = "preparing", !.owner = r, !.preparation = r]
           /\ runs' = [runs EXCEPT ![r] = "draining"]
           /\ hold' = r
           /\ incoming' = [incoming EXCEPT ![r] = FALSE]

\* evaluate(): the one-second timer, TaskUpdated, EngineStateChanged.
Evaluate ==
  /\ skew' = IF ~ctl.authorizing /\ ctl.phase \in Armed THEN FALSE ELSE skew
  /\ IF Due(ctl)
     THEN /\ \E r \in FreeRuns : Execute(r)
          /\ UNCHANGED work
     ELSE Becomes(Evaluated(ctl)) /\ UNCHANGED <<runs, incoming>>
  /\ UNCHANGED <<task, ready, open, history>>

\* setEnabled(true), up to the await of probe().
Enable(r) ==
  /\ open
  /\ ~ctl.authorizing /\ ctl.phase \in {"off", "failed"}
  /\ r \in FreeRuns
  /\ ctl' = Collected([ctl EXCEPT !.owner = r, !.participants = {},
                                  !.historical = NoBaseline, !.authorizing = TRUE])
  /\ runs' = [runs EXCEPT ![r] = "starting"]
  /\ consent' = TRUE
  /\ UNCHANGED <<env, gate, open, calm, age>>

\* Startup has settled: the probe evaluates the plan, then asks the platform.
\* (Where that evaluation would execute(), it is the Evaluate above.)
ProbeStarts(r) ==
  /\ runs[r] = "starting"
  /\ runs' = [runs EXCEPT ![r] = "probing"]
  /\ skew' = IF ~ctl.authorizing /\ ctl.phase \in Armed THEN FALSE ELSE skew
  /\ ~Due(ctl)
  /\ Becomes(IF open THEN Evaluated(ctl) ELSE ctl)
  /\ UNCHANGED <<task, ready, incoming, open, history>>

\* probe() resolves: the plan is armed and evaluated at once, unless the
\* generation moved on.
ProbeSucceeds(r) ==
  /\ runs[r] = "probing"
  /\ runs' = [runs EXCEPT ![r] = "idle"]
  /\ IF ctl.owner = r
     THEN LET armed == [ctl EXCEPT !.owner = NoRun, !.authorizing = FALSE, !.phase = "waiting", !.timer = TRUE]
              k     == Collected(armed)
          IN  /\ skew' = FALSE
              /\ Becomes(IF AllDone(k) /\ k.phase = "waiting"
                         THEN [k EXCEPT !.phase = "countdown", !.left = Grace] ELSE k)
     ELSE UNCHANGED <<ctl, hold, work, skew>>
  /\ UNCHANGED <<task, ready, incoming, open, history>>

ProbeFails(r) ==
  /\ runs[r] = "probing"
  /\ runs' = [runs EXCEPT ![r] = "idle"]
  /\ ctl' = IF ctl.owner = r
            THEN [ctl EXCEPT !.owner = NoRun, !.authorizing = FALSE, !.phase = "failed"]
            ELSE ctl
  /\ UNCHANGED <<env, gate, open, history>>

\* setEnabled(false), the Cancel button of the countdown dialog, or that
\* dialog failing to open.
Cancel ==
  /\ open
  /\ Becomes(Cancelled(ctl))
  /\ consent' = FALSE /\ calm' = 0
  /\ UNCHANGED <<age, env, runs, incoming, open>>

\* interrupt(): the machine suspends or resumes.
Interrupt ==
  /\ open
  /\ Becomes(Interrupted(ctl))
  /\ calm' = 0
  /\ UNCHANGED <<env, runs, incoming, open, age, consent>>

\* drain() resolves once nothing accepted is in flight; then the save starts,
\* or is skipped because the checks fail.
DrainDone(r) ==
  LET k == Collected(ctl)
  IN  /\ runs[r] = "draining"
      /\ \A w \in Works : work[w] # "running"
      /\ IF ctl.owner # r \/ incoming[r]
         THEN /\ runs' = [runs EXCEPT ![r] = "skipped"]
              /\ UNCHANGED <<ctl, hold, work>>
         ELSE /\ Becomes(k)
              /\ runs' = [runs EXCEPT ![r] =
                            IF AllDone(k) /\ k.owner = r THEN "saving" ELSE "skipped"]
      /\ UNCHANGED <<env, incoming, open, history>>

SaveDone(r) ==
  /\ runs[r] = "saving"
  /\ runs' = [runs EXCEPT ![r] = "saved"]
  /\ UNCHANGED <<env, ctl, gate, open, history>>

\* Mutant: the finally block does not release the lease.
Finishes_KeepsLease(r, c) ==
  /\ runs' = [runs EXCEPT ![r] = "idle"]
  /\ incoming' = [incoming EXCEPT ![r] = FALSE]
  /\ ctl' = [c EXCEPT !.preparation = IF @ = r THEN NoRun ELSE @,
                      !.owner = IF @ = r THEN NoRun ELSE @]
  /\ UNCHANGED <<hold, work>>

\* The finally block of execute(), with the controller at c before it.  Nothing
\* compares the generation with the one of r from now on.
Finishes(r, c) ==
  /\ runs' = [runs EXCEPT ![r] = "idle"]
  /\ incoming' = [incoming EXCEPT ![r] = FALSE]
  /\ ctl' = [c EXCEPT !.preparation = IF @ = r THEN NoRun ELSE @,
                      !.owner = IF @ = r THEN NoRun ELSE @]
  /\ Released(r)

\* The last checks of execute(), in one turn with what follows.  The generation
\* moved on, before or by observeClock(): only the finally block runs.
ConcludeStale(r) ==
  LET o == Observed(ctl)
  IN  /\ runs[r] \in {"skipped", "saved"}
      /\ o.owner # r
      /\ skew' = IF ctl.owner = r THEN FALSE ELSE skew
      /\ Finishes(r, IF ctl.owner = r THEN o ELSE ctl)
      /\ UNCHANGED <<task, ready, open, history>>

\* New work came in, or a check failed: back to waiting.
ConcludeWaits(r) ==
  LET o == Observed(ctl)
      k == Collected(o)
  IN  /\ ctl.owner = r /\ o.owner = r
      /\ skew' = FALSE
      /\ \/ /\ runs[r] = "skipped" \/ (runs[r] = "saved" /\ incoming[r])
            /\ Finishes(r, [o EXCEPT !.phase = "waiting"])
         \/ /\ runs[r] = "saved" /\ ~incoming[r]
            /\ ~(AllDone(k) /\ k.owner = r)
            /\ Finishes(r, IF k.owner = r THEN [k EXCEPT !.phase = "waiting"] ELSE k)
      /\ UNCHANGED <<task, ready, open, history>>

\* Everything still holds: the platform is asked to shut down.
Request(r) ==
  LET o == Observed(ctl)
      k == Collected(o)
  IN  /\ ctl.owner = r /\ o.owner = r
      /\ runs[r] = "saved" /\ ~incoming[r]
      /\ AllDone(k) /\ k.owner = r
      /\ skew' = FALSE
      /\ ctl' = [k EXCEPT !.phase = "requested", !.timer = FALSE]
      /\ runs' = [runs EXCEPT ![r] = "requesting"]
      /\ consent' = FALSE
      /\ UNCHANGED <<task, ready, open, gate, calm, age>>

\* save() or requestShutdown() throws, or the preparation timed out: only the
\* current run reports it.  A run that timed out leaves nothing behind that
\* acts: its late continuation finds the generation moved on.
Fails(r) ==
  /\ Finishes(r, IF ctl.owner = r
                 THEN [ctl EXCEPT !.owner = NoRun, !.timer = FALSE, !.phase = "failed", !.left = 0]
                 ELSE ctl)
  /\ UNCHANGED <<env, open, history>>

SaveFails(r)       == runs[r] = "saving" /\ Fails(r)
PrepareTimesOut(r) == runs[r] \in {"draining", "saving"} /\ Fails(r)
RequestFails(r)    == runs[r] = "requesting" /\ Fails(r)

RequestAccepted(r) ==
  /\ runs[r] = "requesting"
  /\ Finishes(r, ctl)
  /\ UNCHANGED <<env, open, history>>

-----------------------------------------------------------------------------
(* The coordinator.                                                         *)

\* Mutant: run() ignores the admission hold.
Admit_Ungated(w) ==
  /\ work' = [work EXCEPT ![w] = IF open THEN "running" ELSE "idle"]
  /\ UNCHANGED incoming

\* run(): an operation is gated by a lease, accepted, or rejected after
\* stopAndDrain; some (queries) do not block the power action.
Admit(w) ==
  IF hold # NoRun
  THEN /\ work' = [work EXCEPT ![w] = "queued"]
       /\ \E blocks \in BOOLEAN :
            incoming' = [incoming EXCEPT ![hold] = @ \/ blocks]
  ELSE /\ work' = [work EXCEPT ![w] = IF open THEN "running" ELSE "idle"]
       /\ UNCHANGED incoming

Submit(w) ==
  /\ work[w] = "idle" /\ Admit(w)
  /\ UNCHANGED <<env, ctl, runs, hold, open, history>>

Resubmit(w) ==
  /\ work[w] = "released" /\ Admit(w)
  /\ UNCHANGED <<env, ctl, runs, hold, open, history>>

WorkDone(w) ==
  /\ work[w] = "running"
  /\ work' = [work EXCEPT ![w] = "idle"]
  /\ UNCHANGED <<env, ctl, runs, hold, incoming, open, history>>

\* Quit: the ingress is disposed (controller.dispose()), then stopAndDrain()
\* opens the gate for good and stops accepting.
Quit ==
  /\ open
  /\ open' = FALSE
  /\ ctl' = Cancelled(ctl)
  /\ Released(hold)
  /\ consent' = FALSE /\ calm' = 0
  /\ UNCHANGED <<age, env, runs, incoming>>

-----------------------------------------------------------------------------
(* What the controller watches.                                             *)

\* A task list entry changes; the event that follows is an Evaluate.
Successors(s) ==
  CASE s = "absent"     -> {"busy", "completed", "seeding"}
    [] s = "busy"       -> {"relocating", "completed", "seeding", "gone"}
    [] s = "relocating" -> {"completed"}
    [] s = "completed"  -> {"relocating", "busy", "gone"}
    [] s = "seeding"    -> {"busy", "completed", "gone"}
    [] s = "gone"       -> {}

TaskChange(t) ==
  /\ \E s \in Successors(task[t]) : task' = [task EXCEPT ![t] = s]
  /\ age' = IF task'[t] = "gone" THEN [age EXCEPT ![t] = 0] ELSE age
  /\ UNCHANGED <<ready, skew, ctl, runs, gate, open, calm, consent>>

EngineUp ==
  /\ ~ready /\ ready' = TRUE
  /\ UNCHANGED <<task, skew, ctl, runs, gate, open, history>>

\* EngineDisconnected calls interrupt().
EngineDown ==
  /\ ready /\ ready' = FALSE
  /\ Becomes(Interrupted(ctl))
  /\ calm' = 0
  /\ UNCHANGED <<task, skew, runs, incoming, open, age, consent>>

ClockJump ==
  /\ ~skew /\ skew' = TRUE /\ calm' = 0
  /\ UNCHANGED <<task, ready, ctl, runs, gate, open, age, consent>>

\* A second of the countdown; what waits in the microtask queue goes first.
Older(n) == IF n < Grace THEN n + 1 ELSE n

\* Mutant: the countdown does not stop at its deadline.
Tick_PastDeadline ==
  /\ ctl.phase = "countdown"
  /\ ctl' = [ctl EXCEPT !.left = @ - 1]
  /\ UNCHANGED <<env, runs, gate, open, history>>

Tick ==
  /\ ctl.phase = "countdown" /\ ctl.left > 0
  /\ \A w \in Works : work[w] # "released"
  /\ ctl' = [ctl EXCEPT !.left = @ - 1]
  /\ calm' = Older(calm)
  /\ age' = [t \in Tasks |-> IF t \in Live THEN Older(age[t]) ELSE 0]
  /\ UNCHANGED <<env, runs, gate, open, consent>>

RunStep(r) ==
  \/ ProbeStarts(r) \/ ProbeSucceeds(r) \/ ProbeFails(r)
  \/ DrainDone(r) \/ SaveDone(r) \/ SaveFails(r) \/ PrepareTimesOut(r)
  \/ ConcludeStale(r) \/ ConcludeWaits(r) \/ Request(r) \/ RequestAccepted(r) \/ RequestFails(r)

Disturbance ==
  \/ \E t \in Tasks : TaskChange(t)
  \/ Cancel \/ Interrupt \/ EngineDown \/ ClockJump \/ Quit
  \/ \E w \in Works : Submit(w)

Next ==
  \/ Evaluate \/ Tick \/ EngineUp \/ Disturbance
  \/ \E r \in Runs : Enable(r) \/ RunStep(r)
  \/ \E w \in Works : Resubmit(w) \/ WorkDone(w)

\* The timer fires, time passes, promises settle: preparation within ten
\* seconds, platform commands within fifteen.
Fairness ==
  /\ WF_vars(ctl.timer /\ Evaluate) /\ WF_vars(Tick)
  /\ \A r \in Runs : WF_vars(RunStep(r))
  /\ \A w \in Works : WF_vars(Resubmit(w)) /\ WF_vars(WorkDone(w))

Spec == Init /\ [][Next]_vars /\ Fairness

-----------------------------------------------------------------------------
(* Properties.                                                              *)

Requesting == ctl.phase # "requested" /\ ctl'.phase = "requested"

\* The platform shutdown is requested only by a run whose save succeeded, with
\* the engine ready, work accepted but none in flight, the gate still closed on
\* that run's lease, and every listed task finished, whatever happened while
\* the drain and the save were awaited (execute, prepareForPowerAction).
RequestIsSafe ==
  [][Requesting => \E r \in Runs :
       /\ runs[r] = "saved" /\ hold = r /\ ~incoming[r]
       /\ IsReady /\ Live # {} /\ Live \subseteq Finished
       /\ \A w \in Works : work[w] # "running"]_vars

\* Between the last disturbance (a cancellation, a suspend or resume, an engine
\* disconnect, a clock jump) and the request, and between the appearance of
\* any listed task and the request, the user had the whole grace period (interrupt, observeClock, collectTasks).
FullGrace ==
  [][Requesting => calm = Grace /\ \A t \in Live : age[t] = Grace]_vars

\* One setEnabled(true) that was not cancelled since pays for one request: no
\* late continuation of a cancelled plan asks again, nothing is retried.
OneShot == [][Requesting => consent]_vars

\* New work is gated only for an activation that is still preparing or
\* requesting, and that the controller still knows: no lease leaks.
GateOwned ==
  hold # NoRun =>
    /\ hold = ctl.preparation /\ ctl.owner = hold
    /\ runs[hold] \in {"draining", "skipped", "saving", "saved", "requesting"}
    /\ ctl.phase \in {"preparing", "requested"}

\* The one-second timer runs exactly while a plan is armed: an armed plan is
\* looked at again, and no timer outlives its plan.
TimerMatchesPhase == ctl.timer <=> ctl.phase \in Armed

\* What the gate made wait goes on: every lease is released, by the run's end,
\* by an interruption, by a cancellation or by quitting.
GateOpensAgain ==
  \A w \in Works : work[w] = "queued" ~> work[w] # "queued"

\* Once nothing disturbs it and all work is finished, an armed plan with
\* participants does not stay armed forever: it requests, fails or is off.
PlanConcludes ==
  (/\ <>[][~Disturbance]_vars
   /\ <>[](IsReady /\ Live \subseteq Finished))
    => []<>(ctl.phase \notin Armed \/ ctl.participants = {})

=============================================================================
