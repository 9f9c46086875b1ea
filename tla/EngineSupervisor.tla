-------------------------- MODULE EngineSupervisor --------------------------
(***************************************************************************)
(* The life of the aria2 process: EngineSupervisor                         *)
(* (core/engine/engine-supervisor.ts) over Aria2ProcessManager             *)
(* (core/engine/aria2/aria2-process-manager.ts).                           *)
(*                                                                         *)
(* doStart(), the restart timer's callback and restart() are sequential    *)
(* code between awaits; an activation of them is suspended at a stage, and *)
(* several can be suspended at the same time.  Stages without a decision   *)
(* between their awaits are one stage.  The foreign programs that may hold *)
(* the RPC port, the RPC client's transport and the settings are outside.  *)
(***************************************************************************)
EXTENDS Naturals, FiniteSets

CONSTANTS
  Procs,       \* aria2 processes that exist at the same time
  NoProc,      \* no process
  Runs,        \* suspended activations of doStart, of a restart timer, of restart()
  NoRun,       \* no activation
  Quit,        \* the shutdown of the application
  MaxAttempts, \* MAX_RESTARTS
  MaxMisses,   \* MAX_CONSECUTIVE_FAILURES
  MaxRestarts, \* how often the user restarts the engine
  MaxCrashes,  \* how often a process dies by itself
  MaxHangs     \* how many health checks a living process leaves unanswered

ASSUME SupervisorAssumption ==
  /\ NoProc \notin Procs /\ NoRun \notin Runs /\ Quit \notin Runs
  /\ MaxAttempts \in Nat \ {0} /\ MaxMisses \in Nat \ {0}
  /\ MaxRestarts \in Nat /\ MaxCrashes \in Nat /\ MaxHangs \in Nat

VARIABLES
  sup,      \* the fields of EngineSupervisor
  stage,    \* where each activation, and the shutdown, is suspended
  kid,      \* the child process it is suspended on
  again,    \* restartPromise: the activation of the restart under way
  child,    \* Aria2ProcessManager.process
  running,  \* Aria2ProcessManager.running
  heard,    \* the children whose exit listener is attached
  proc,     \* the processes as the operating system knows them
  signal,   \* the strongest signal sent to each
  link,     \* the process the RPC connection is open to
  asked,    \* the processes whose answer to a health check is awaited
  count     \* restarts, crashes and unanswered checks so far; did two activations
            \* cross, was the fence of a quit undone (only properties read these two)

manager == <<child, running, heard>>
system  == <<proc, signal>>
vars    == <<sup, stage, kid, again, child, running, heard, proc, signal, link, asked, count>>

Actors == Runs \cup {Quit}
States == {"Stopped", "Starting", "Ready", "Restarting", "Failed"}

\* prepare..publish: doStart; halting: its gracefulStop when it was told to
\* stop; cleaning, fallback: its catch; backoff, clearing: the restart timer;
\* restop: the stop() of a restart; fenced, halting, done: the shutdown.
Waiting == {"halting", "cleaning", "clearing", "restop"}
Stages  == {"idle", "prepare", "port", "guard", "spawn", "connect", "settle", "publish",
            "fallback", "backoff", "fenced", "done"} \cup Waiting

Alive == {p \in Procs : proc[p] \in {"starting", "serving"}}
Free  == {r \in Runs : stage[r] = "idle"}

\* The child of this identity is no longer referred to by anyone.
Fresh == {p \in Procs : /\ proc[p] \in {"unborn", "reaped"}
                        /\ p \notin {child, link} \cup asked
                        /\ \A a \in Actors : kid[a] # p}

TypeOK ==
  /\ sup \in [state : States, stopping : BOOLEAN, suppress : BOOLEAN,
              attempts : 0..MaxAttempts, misses : 0..MaxMisses, beat : BOOLEAN,
              stray : BOOLEAN, timer : Runs \cup {NoRun}, tried : BOOLEAN]
  /\ stage \in [Actors -> Stages] /\ kid \in [Actors -> Procs \cup {NoProc}]
  /\ again \in Runs \cup {NoRun}
  /\ (again # NoRun => stage[again] # "idle")
  /\ child \in Procs \cup {NoProc} /\ running \in BOOLEAN /\ heard \subseteq Procs
  /\ proc \in [Procs -> {"unborn", "starting", "serving", "dead", "reaped"}]
  /\ signal \in [Procs -> {"none", "term", "kill"}]
  /\ link \in Procs \cup {NoProc} /\ asked \subseteq Procs
  /\ count \in [restarts : 0..MaxRestarts, crashes : 0..MaxCrashes,
                hangs : 0..MaxHangs, crossed : BOOLEAN, undone : BOOLEAN]

\* The shell has called start(): its doStart is suspended for the first time.
Init ==
  /\ sup = [state |-> "Starting", stopping |-> FALSE, suppress |-> FALSE, attempts |-> 0,
            misses |-> 0, beat |-> FALSE, stray |-> FALSE, timer |-> NoRun,
            tried |-> FALSE]
  /\ \E r \in Runs : stage = [a \in Actors |-> IF a = r THEN "prepare" ELSE "idle"]
  /\ kid = [a \in Actors |-> NoProc]
  /\ again = NoRun /\ child = NoProc /\ running = FALSE /\ heard = {}
  /\ proc = [p \in Procs |-> "unborn"] /\ signal = [p \in Procs |-> "none"]
  /\ link = NoProc /\ asked = {}
  /\ count = [restarts |-> 0, crashes |-> 0, hangs |-> 0, crossed |-> FALSE, undone |-> FALSE]

-----------------------------------------------------------------------------
(* Building blocks.                                                         *)

\* Mutant: restart() keeps its promise when it is over.
Goes_KeepsPromise(stages, a, st) == stage' = [stages EXCEPT ![a] = st] /\ again' = again

\* Activation a goes on to stage st; stages are a function of the actors.
Goes(stages, a, st) ==
  /\ stage' = [stages EXCEPT ![a] = st]
  /\ again' = IF a = again /\ st = "idle" THEN NoRun ELSE again

\* Mutant: Starting is announced before the fence is looked at.
Begins_Announced(r, s) ==
  /\ sup' = [s EXCEPT !.state = "Starting"]
  /\ Goes(stage, r, IF s.stopping THEN "idle" ELSE "prepare")

\* doStart(), called by r with the fields s.
Begins(r, s) ==
  IF s.stopping
  THEN sup' = s /\ Goes(stage, r, "idle")
  ELSE sup' = [s EXCEPT !.state = "Starting"] /\ Goes(stage, r, "prepare")

\* Mutant: the exit is not awaited.
Terminates_Unawaited(a) ==
  /\ UNCHANGED kid
  /\ signal' = IF running /\ signal[child] = "none" THEN [signal EXCEPT ![child] = "term"] ELSE signal

\* gracefulStop(), called by a: SIGTERM now, SIGKILL on a timeout.
Terminates(a) ==
  /\ kid' = [kid EXCEPT ![a] = IF running THEN child ELSE NoProc]
  /\ signal' = IF running /\ signal[child] = "none" THEN [signal EXCEPT ![child] = "term"] ELSE signal

\* And awaited at stage st.
GracefulStop(a, st) == Goes(stage, a, st) /\ Terminates(a)

\* It was awaited and is over.
Resolved(a) == stage[a] \in Waiting /\ kid[a] = NoProc

\* What waited for an exit goes on at once, before any other event is handled.
Settled == \A a \in Actors : ~Resolved(a)

\* prepareForShutdown(): the fields, and the stages without the cleared timer.
Fenced == [sup EXCEPT !.stopping = TRUE, !.beat = FALSE, !.timer = NoRun]
Unarmed ==
  IF sup.timer # NoRun /\ stage[sup.timer] = "backoff"
  THEN [stage EXCEPT ![sup.timer] = "idle"] ELSE stage

\* restartWithBackoff(), with the fields s.
Backoff(s) ==
  IF s.attempts >= MaxAttempts
  THEN sup' = [s EXCEPT !.state = "Failed"] /\ UNCHANGED <<stage, again>>
  ELSE \E r \in Free :
         /\ sup' = [s EXCEPT !.state = "Restarting", !.attempts = @ + 1, !.timer = r]
         /\ Goes(stage, r, "backoff")

-----------------------------------------------------------------------------
(* doStart().                                                               *)

\* The end of its catch: the connection is closed, and either the corrupt
\* SQLite store is set aside for a second try or the failure is reported.
GivesUp(r, s) ==
  /\ link' = NoProc
  /\ \/ /\ ~s.tried
        /\ sup' = [s EXCEPT !.tried = TRUE]
        /\ Goes(stage, r, "fallback")
     \/ sup' = [s EXCEPT !.state = "Failed"] /\ Goes(stage, r, "idle")

\* Mutant: a process that did start is left alone.
Fails_LeavesProcess(r) ==
  GivesUp(r, sup) /\ UNCHANGED <<kid, signal>>

\* Its catch: the process is torn down first.
Fails(r) ==
  IF running
  THEN /\ sup' = [sup EXCEPT !.suppress = TRUE]
       /\ GracefulStop(r, "cleaning")
       /\ UNCHANGED link
  ELSE GivesUp(r, sup) /\ UNCHANGED <<kid, signal>>

\* Told to stop between two awaits: disconnect, gracefulStop, return.
Halts(r) ==
  /\ link' = NoProc
  /\ GracefulStop(r, "halting")
  /\ UNCHANGED sup

\* The probe of the binary, the configuration, the settings and the proxy.
Prepared(r) ==
  /\ stage[r] = "prepare"
  /\ \/ /\ Goes(stage, r, IF sup.stopping THEN "idle" ELSE "port")
        /\ UNCHANGED <<sup, kid, signal, link>>
     \/ Fails(r)
  /\ UNCHANGED <<manager, proc, asked, count>>

\* checkPort(): taken by a process of ours or by a foreign one, or free.
PortChecked(r) ==
  /\ stage[r] = "port"
  /\ \/ /\ sup' = [sup EXCEPT !.state = "Failed"]
        /\ Goes(stage, r, "idle")
     \/ /\ \A p \in Procs : proc[p] # "serving"
        /\ Goes(stage, r, "guard")
        /\ UNCHANGED sup
  /\ UNCHANGED <<kid, manager, system, link, asked, count>>

Spawn(r, p) ==
  /\ proc' = [proc EXCEPT ![p] = "starting"] /\ signal' = [signal EXCEPT ![p] = "none"]
  /\ child' = p /\ running' = TRUE /\ heard' = heard \ {p}
  /\ kid' = [kid EXCEPT ![r] = p] /\ Goes(stage, r, "spawn")

\* A child without a pid: its error event arrives before anything else.
SpawnFails(r) ==
  /\ child' = NoProc /\ running' = FALSE
  /\ Goes(stage, r, "connect")
  /\ UNCHANGED <<heard, system, kid>>

\* Mutant: the process is spawned although stop() was called meanwhile.
Guarded_Unfenced(r) ==
  /\ stage[r] = "guard"
  /\ \/ (\E p \in Fresh : Spawn(r, p)) /\ UNCHANGED <<sup, link>>
     \/ SpawnFails(r) /\ UNCHANGED <<sup, link>>
     \/ Fails(r) /\ UNCHANGED <<manager, proc>>
  /\ UNCHANGED <<asked, count>>

\* The session repair and the startup guard, then the spawn.
Guarded(r) ==
  /\ stage[r] = "guard"
  /\ \/ sup.stopping /\ Goes(stage, r, "idle") /\ UNCHANGED <<sup, link, kid, manager, system>>
     \/ ~sup.stopping /\ (\E p \in Fresh : Spawn(r, p)) /\ UNCHANGED <<sup, link>>
     \/ ~sup.stopping /\ SpawnFails(r) /\ UNCHANGED <<sup, link>>
     \/ Fails(r) /\ UNCHANGED <<manager, proc>>
  /\ UNCHANGED <<asked, count>>

\* The ownership record is written: only now the exit listener is attached.
Recorded(r) ==
  LET done == [kid EXCEPT ![r] = NoProc]
  IN  /\ stage[r] = "spawn"
      /\ heard' = heard \cup {kid[r]}
      /\ IF sup.stopping
         THEN GracefulStop(r, "halting")
         ELSE kid' = done /\ Goes(stage, r, "connect") /\ UNCHANGED signal
      /\ UNCHANGED <<sup, child, running, proc, link, asked, count>>

\* rpcClient.connect() reaches whatever serves the port, beside another connect()
\* under way or not, or gives up after ten tries.
Connected(r) ==
  /\ stage[r] = "connect"
  /\ \/ \E p \in Procs :
          /\ proc[p] = "serving"
          /\ IF sup.stopping THEN Halts(r)
             ELSE link' = p /\ Goes(stage, r, "settle") /\ UNCHANGED <<sup, kid, signal>>
     \/ Fails(r)
  /\ UNCHANGED <<manager, proc, asked, count>>

\* Reconciliation, maintenance and the global options go over the connection.
SettledDown(r) ==
  /\ stage[r] = "settle"
  /\ \/ /\ link # NoProc
        /\ IF sup.stopping THEN Halts(r)
           ELSE Goes(stage, r, "publish") /\ UNCHANGED <<sup, kid, signal, link>>
     \/ Fails(r)
  /\ UNCHANGED <<manager, proc, asked, count>>

\* Mutant: no health check watches the new process.
Watched_Unwatched(s) == [s EXCEPT !.misses = 0]

\* startHealthCheck(): a previous interval, if any, is forgotten, not cleared.
Watched(s) == [s EXCEPT !.misses = 0, !.beat = TRUE, !.stray = s.stray \/ s.beat]

\* publishStartupRoute(), then Ready; told to stop, it just returns.
Published(r) ==
  /\ stage[r] = "publish"
  /\ \/ sup.stopping /\ Goes(stage, r, "idle") /\ UNCHANGED <<sup, kid, signal, link>>
     \/ /\ ~sup.stopping
        /\ sup' = Watched([sup EXCEPT !.state = "Ready", !.attempts = 0])
        /\ Goes(stage, r, "idle")
        /\ UNCHANGED <<kid, signal, link>>
     \/ Fails(r)
  /\ UNCHANGED <<manager, proc, asked, count>>

HaltDone(r) ==
  /\ stage[r] = "halting" /\ Resolved(r)
  /\ Goes(stage, r, "idle")
  /\ UNCHANGED <<sup, kid, manager, system, link, asked, count>>

CleaningDone(r) ==
  /\ stage[r] = "cleaning" /\ Resolved(r)
  /\ GivesUp(r, [sup EXCEPT !.suppress = FALSE])
  /\ UNCHANGED <<kid, manager, system, asked, count>>

\* tryActivateSqliteFallback() has set the store aside.
FellBack(r) ==
  /\ stage[r] = "fallback"
  /\ Begins(r, [sup EXCEPT !.state = "Restarting"])
  /\ UNCHANGED <<kid, manager, system, link, asked, count>>

-----------------------------------------------------------------------------
(* Restart timer, restart(), health check, exit, shutdown.                  *)

TimerFires(r) ==
  /\ stage[r] = "backoff"
  /\ IF running
     THEN /\ sup' = [sup EXCEPT !.suppress = TRUE]
          /\ GracefulStop(r, "clearing")
          /\ UNCHANGED link
     ELSE link' = NoProc /\ Begins(r, sup) /\ UNCHANGED <<kid, signal>>
  /\ UNCHANGED <<manager, proc, asked, count>>

ClearingDone(r) ==
  /\ stage[r] = "clearing" /\ Resolved(r)
  /\ link' = NoProc
  /\ Begins(r, [sup EXCEPT !.suppress = FALSE])
  /\ UNCHANGED <<kid, manager, system, asked, count>>

\* The fields once stop() is through, and start() has reset its own.
Restarted(s) ==
  [s EXCEPT !.state = "Stopped", !.stopping = FALSE, !.attempts = 0, !.tried = FALSE]

\* The user's restart: concurrent requests share one promise, but a start that
\* is suspended goes on beside it.  A stop() with nothing to wait for runs into
\* start() without a pause.
Restart(r) ==
  /\ Settled /\ again = NoRun /\ count.restarts < MaxRestarts /\ stage[Quit] = "idle"
  /\ r \in Free
  /\ again' = r
  /\ count' = [count EXCEPT !.restarts = @ + 1,
                            !.crossed = @ \/ \E q \in Runs : Unarmed[q] # "idle"]
  /\ IF running
     THEN /\ sup' = Fenced
          /\ stage' = [Unarmed EXCEPT ![r] = "restop"]
          /\ Terminates(r)
          /\ UNCHANGED link
     ELSE /\ sup' = [Restarted(Fenced) EXCEPT !.state = "Starting"]
          /\ stage' = [Unarmed EXCEPT ![r] = "prepare"]
          /\ link' = NoProc
          /\ UNCHANGED <<kid, signal>>
  /\ UNCHANGED <<manager, proc, asked>>

\* The child is gone: stop() ends, start() begins.
RestopDone(r) ==
  /\ stage[r] = "restop" /\ Resolved(r)
  /\ link' = NoProc
  /\ Begins(r, Restarted(sup))
  /\ count' = [count EXCEPT !.undone = @ \/ stage[Quit] # "idle"]
  /\ UNCHANGED <<kid, manager, system, asked>>

\* A health check that failed.
Missed ==
  IF sup.misses + 1 < MaxMisses
  THEN sup' = [sup EXCEPT !.misses = @ + 1] /\ UNCHANGED <<stage, again>>
  ELSE Backoff([sup EXCEPT !.misses = MaxMisses, !.beat = FALSE])

\* The last miss of a series, when the engine is no longer Ready or is being
\* stopped: the callback does not look again, and arms the restart timer.
Astray == sup.misses + 1 >= MaxMisses /\ (sup.state # "Ready" \/ sup.stopping)

\* node delivers an exit long before a call times out or an interval elapses.
ExitsDelivered == \A p \in Procs : proc[p] # "dead"

\* The interval fires; without a connection the request is refused at once.  A
\* call times out within the interval: only a forgotten interval adds a second.
HealthCheck ==
  /\ Settled
  /\ sup.stray \/ (sup.beat /\ asked = {})
  /\ ExitsDelivered
  /\ sup.state = "Ready"
  /\ \/ link # NoProc /\ link \notin asked /\ asked' = asked \cup {link}
        /\ UNCHANGED <<sup, stage, again>>
     \/ link = NoProc /\ Missed /\ UNCHANGED asked
  /\ UNCHANGED <<kid, manager, system, link, count>>

\* The answer, or its timeout, arrives in whatever state the supervisor is now.
Answered(p) ==
  /\ Settled /\ p \in asked
  /\ asked' = asked \ {p}
  /\ \/ p = link /\ sup' = [sup EXCEPT !.misses = 0] /\ UNCHANGED <<stage, again, count>>
     \/ /\ p # link /\ ExitsDelivered /\ Missed
        /\ count' = [count EXCEPT !.crossed = @ \/ Astray]
     \/ /\ p = link /\ count.hangs < MaxHangs /\ ExitsDelivered /\ Missed
        /\ count' = [count EXCEPT !.hangs = @ + 1, !.crossed = @ \/ Astray]
  /\ UNCHANGED <<kid, manager, system, link>>

\* onExit of the supervisor.
ExitHandled ==
  IF sup.stopping \/ sup.suppress \/ sup.state # "Ready"
  THEN UNCHANGED <<sup, stage, again>>
  ELSE Backoff([sup EXCEPT !.beat = FALSE])

\* The exit event of p: whichever child it was, the manager forgets the one it
\* tracks and every gracefulStop under way is resolved.  Without a listener the
\* event is lost.
Exits(p) ==
  /\ Settled /\ proc[p] = "dead"
  /\ proc' = [proc EXCEPT ![p] = "reaped"]
  /\ IF p \in heard
     THEN /\ child' = NoProc /\ running' = FALSE /\ heard' = heard \ {p}
          /\ kid' = [a \in Actors |-> IF stage[a] \in Waiting THEN NoProc ELSE kid[a]]
          /\ ExitHandled
     ELSE UNCHANGED <<manager, kid, sup, stage, again>>
  /\ UNCHANGED <<signal, link, asked, count>>

\* The timeout of a gracefulStop.
KillTimeout(a) ==
  /\ stage[a] \in Waiting /\ kid[a] # NoProc /\ signal[kid[a]] # "kill"
  /\ signal' = [signal EXCEPT ![kid[a]] = "kill"]
  /\ UNCHANGED <<sup, stage, kid, again, manager, proc, link, asked, count>>

\* prepareForShutdown(), and later in the same shutdown stop().
QuitBegins ==
  /\ Settled /\ stage[Quit] = "idle"
  /\ sup' = Fenced
  /\ stage' = [Unarmed EXCEPT ![Quit] = "fenced"]
  /\ UNCHANGED <<kid, again, manager, system, link, asked, count>>

QuitStops ==
  /\ Settled /\ stage[Quit] = "fenced"
  /\ IF running
     THEN /\ sup' = Fenced
          /\ stage' = [Unarmed EXCEPT ![Quit] = "halting"]
          /\ Terminates(Quit)
          /\ UNCHANGED link
     ELSE /\ sup' = [Fenced EXCEPT !.state = "Stopped"]
          /\ stage' = [Unarmed EXCEPT ![Quit] = "done"]
          /\ link' = NoProc
          /\ UNCHANGED <<kid, signal>>
  /\ UNCHANGED <<again, manager, proc, asked, count>>

QuitDone ==
  /\ stage[Quit] = "halting" /\ Resolved(Quit)
  /\ link' = NoProc
  /\ sup' = [sup EXCEPT !.state = "Stopped"]
  /\ Goes(stage, Quit, "done")
  /\ UNCHANGED <<kid, manager, system, asked, count>>

-----------------------------------------------------------------------------
(* The processes.                                                           *)

Serves(p) ==
  /\ proc[p] = "starting" /\ \A q \in Procs : proc[q] # "serving"
  /\ proc' = [proc EXCEPT ![p] = "serving"]
  /\ UNCHANGED <<sup, stage, kid, again, manager, signal, link, asked, count>>

Ended(p) ==
  /\ proc' = [proc EXCEPT ![p] = "dead"]
  /\ link' = IF link = p THEN NoProc ELSE link
  /\ UNCHANGED <<sup, stage, kid, again, manager, signal, asked>>

\* A signalled process, or one that finds its port taken, ends.
Obeys(p) ==
  /\ p \in Alive
  /\ signal[p] # "none" \/ (proc[p] = "starting" /\ \E q \in Procs : proc[q] = "serving")
  /\ Ended(p) /\ UNCHANGED count

Crashes(p) ==
  /\ p \in Alive /\ count.crashes < MaxCrashes
  /\ Ended(p) /\ count' = [count EXCEPT !.crashes = @ + 1]

-----------------------------------------------------------------------------

RunStep(r) ==
  \/ /\ Settled
     /\ \/ Prepared(r) \/ PortChecked(r) \/ Guarded(r) \/ Recorded(r) \/ Connected(r)
        \/ SettledDown(r) \/ Published(r) \/ FellBack(r) \/ TimerFires(r)
  \/ HaltDone(r) \/ CleaningDone(r) \/ ClearingDone(r) \/ RestopDone(r)

QuitStep == QuitStops \/ QuitDone

Next ==
  \/ \E r \in Runs : RunStep(r) \/ Restart(r)
  \/ \E a \in Actors : KillTimeout(a)
  \/ \E p \in Procs : Answered(p) \/ Exits(p) \/ Serves(p) \/ Obeys(p) \/ Crashes(p)
  \/ HealthCheck \/ QuitBegins \/ QuitStep

\* Every await of doStart has a timeout or ends by itself; a killed process
\* dies; node delivers exits; intervals fire and calls time out.  A SIGTERM, a
\* user and a crash promise nothing.
Fairness ==
  /\ \A r \in Runs : WF_vars(RunStep(r))
  /\ \A a \in Actors : WF_vars(KillTimeout(a))
  /\ \A p \in Procs : /\ WF_vars(Exits(p)) /\ WF_vars(Answered(p))
                      /\ WF_vars(signal[p] = "kill" /\ Obeys(p))
  /\ WF_vars(HealthCheck) /\ WF_vars(QuitStep)

Spec == Init /\ [][Next]_vars /\ Fairness

-----------------------------------------------------------------------------
(* Properties.                                                              *)

\* "Spawn process (abort if stop() was called during earlier awaits)" (doStart):
\* a restart stops first, so a start that was under way aborts, and there is one
\* aria2 process at a time; two would share the session and the port.
OneEngine == Cardinality(Alive) <= 1

\* Two engines have a cause: a restart() during a suspended start, or a health
\* check that was answered after its engine.  Exits, restart timers, fallbacks,
\* failing starts and quits never bring two starts together, however they meet.
SecondEngineExplained == ~OneEngine => count.crossed

\* "Always tear down a process spawned by this supervisor before entering
\* Failed" (doStart): no failed start leaves aria2 holding the port, but for
\* activations that crossed.
FailedIsTornDown ==
  [][sup.state # "Failed" /\ sup'.state = "Failed" => Alive' = {} \/ count'.crossed]_vars

\* A Ready engine is watched by a health check until it is told to stop, in
\* whatever order exits, restarts and late answers arrive.
ReadyIsWatched == sup.state = "Ready" => sup.beat \/ sup.stopping

\* The exit of the tracked child was missed because no listener was attached.
Unheard == running /\ proc[child] = "reaped"

\* A start comes to an end: Ready, Failed or stopped.  Only a child whose exit
\* nobody heard can keep it waiting (gracefulStop resolves on an exit event).
StartSettles == sup.state = "Starting" ~> sup.state # "Starting" \/ Unheard

\* "transitions to Failed when RPC connect rejects" (engine-supervisor.test.ts):
\* every start ends, the one whose process died before it was listened to included.
StartEnds == sup.state = "Starting" ~> sup.state # "Starting"

\* An engine that died is noticed, even when it died just before Ready, when
\* exits are not looked at.
DeadEngineNoticed ==
  (sup.state = "Ready" /\ Alive = {}) ~> (sup.state # "Ready" \/ sup.stopping \/ Alive # {})

\* "prevents doStart() from spawning a new process after stop() returns but
\* before the Electron process exits" (stop): nothing runs after the shutdown's
\* stop() has returned.
QuitIsFinal == stage[Quit] = "done" => Alive = {}

\* The same, unless a restart that was still stopping the old process took the
\* fence of the quit away, or activations crossed.
QuitSticks == ~count.undone /\ ~count.crossed => QuitIsFinal

=============================================================================
