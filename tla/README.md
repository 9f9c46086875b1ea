# Motrix in TLA+

Motrix is a desktop and server download manager around an `aria2` process. This
directory holds TLA+ models of the parts of it whose correctness depends on the
order in which independent things happen, the TLC configurations that check them
and proofs that TLAPS checks. Every definition is translated from the TypeScript
(or Rust) source; `PROJECT.json` maps each one to its lines. Paths below are
relative to the repository, and `core/` stands for `src/core/`.

## Inventory

### What the system is made of

| Part | State it keeps | Operations | Talks to |
| --- | --- | --- | --- |
| **Engine supervisor** (`core/engine/engine-supervisor.ts`, `aria2/aria2-process-manager.ts`) | state, restart counter, timers, `stopping`, the one tracked child process | `start`, `stop`, `restart`, `recover`, unexpected exit, health check, back-off restart | spawns `aria2`, owns the RPC client, publishes Ready through the proxy policy |
| **aria2 adapter and polling** (`core/engine/aria2`) | WebSocket, pending calls, pause intents, caches keyed by GID | RPC calls, notifications, polling rounds | task manager, supervisor |
| **Tasks** (`core/task`, `core/task/actions`) | the in-memory task table; per task a status, a transition phase, engine instances | create, pause, resume, remove, re-add, finalize | engine adapter, session manager, finalize runtime, plugin hooks |
| **Session** (`core/session`) | one SQLite database: tasks, instances, journals, deliveries | autosave, durable transactions, migrations, restore | every component that must survive a crash |
| **Finalize** (`core/plugin/finalize`, `core/session/finalize-journal-repository.ts`) | a journal row per publication, files under five names | commit, compensate, recover, tracked removal | native filesystem helper, session manager's terminal transaction |
| **Post delivery** (`core/plugin/post`) | delivery rows with claims, attempts, circuit breakers | claim, run, acknowledge, retry, abandon | plugin host |
| **Plugin runtime** (`core/plugin/host`, `hooks`, `install`) | workers, invocations, leases on files | invoke hooks, install, update, remove | finalize (hook plans), post delivery |
| **Bridge** (`core/bridge`, `core/bridge-receiver`) | paired credentials, open sessions, prompts | pair (MBP1), reconnect, submit a download | create-task handler |
| **Bridge data directory** (`core/bridge/bridge-data-dir-lock.ts`, `server/shutdown.ts`) | a lock file, a recovery guard and quarantined locks on disk; per process a claim and the acquisition under way | acquire, recover a stale lock, resume an interrupted recovery, release | the shells, which own a port, a socket or Electron's instance lock |
| **Magnet and torrent** (`core/torrent`) | metadata tasks and their swap journal | track, select files, swap, clean up | engine adapter, tasks |
| **Media** (`core/media`, `core/download`) | segment pool of an HLS or DASH download | plan, fetch, retry, assemble | FFmpeg, tasks |
| **Trackers, proxy, settings, speed limits** | settings file, tracker lists, applied proxy route | update, apply, roll back | supervisor, adapter |
| **Completion shutdown** (`core/task/completion-shutdown-controller.ts`, `main/main-process-work-coordinator.ts`) | one-shot intent, generation, countdown, the gate's lease | arm, cancel, interrupt, tick, prepare, request | task table, engine, work gate, operating system |
| **Shells** (`main`, `server`, `renderer`) | windows, IPC and HTTP routes | wire the above together | |

### What is hard in it

All of it runs on one event loop, so nothing is preempted; what is hard is what
happens at the awaits. A handler reads a state, awaits a drain, an RPC answer, a
child process or a disk, and continues in a world that may have changed: a newer
plan is armed, the engine restarted, the user quit, another program replaced a
file. The second source of difficulty is durability: the process may die at any
point between a change of the file system and the journal write that records it,
and the next start has to tell from a phase and a directory what had happened.
`PROJECT.json` lists these hazards, each at its line.

### What makes each part correct

| Part | Properties worth stating |
| --- | --- |
| Completion shutdown | the computer is asked to shut down once per consent, after a full undisturbed grace period, with everything saved and nothing in flight; the work gate opens again; an armed plan concludes |
| Finalize | the target shows a whole artifact or none; the download is never lost; what the database calls finished stays; recovery closes every journal it can understand; foreign files are left alone |
| Engine supervisor | one process at a time (which a restart during a start breaks); none left behind by a failed start or by a quit; a Ready engine is watched; starts end |
| Tasks, session | a transition never runs twice; polling never resurrects a removed task; an autosave never overwrites a newer durable transaction |
| Post delivery | each delivery is settled once and retried until it is, and not executed twice at a time; only installed code runs; an open breaker pauses its plugin; counters and rows agree |
| Bridge data directory | one session holds the directory; what a crash leaves can be recovered; nobody's live lock is removed |
| Bridge | no message is accepted before authentication; one session per credential; a pairing prompt is answered once |
| Magnet swap | exactly one of the metadata task and its successor survives a crash |
| Media | bounded parallelism, every segment once, cancellation leaves no writer |
| Proxy policy | a Ready engine runs with the route that is configured |

## The modules

| Module | What it is |
| --- | --- |
| `CompletionShutdown` | the plan's controller, the platform glue and the work gate, composed |
| `CompletionShutdownProofs` | its inductive invariant and the theorems that follow |
| `Finalize` | commit, compensation, removal and recovery of one finalization journal |
| `FinalizeProofs` | its inductive invariant, the theorems, the refinement of `AtomicPublish` |
| `FinalizeRecoveryProofs` | why a recovery gives up a journal that nobody interfered with, and why a publication fails |
| `AtomicPublish` | what finalization promises, as a specification of four variables |
| `EngineSupervisor` | the supervisor and the process manager over processes the system may kill |
| `EngineSupervisorProofs` | a Ready engine is watched; what a second engine, or one that outlives a quit or a failed start, must have been caused by |
| `TaskOwnership` | the task table, its locks and shields, the persistence lane, polls and notifications, and the actions Remove, Retry and Clear stopped |
| `TaskOwnershipProofs` | its inductive invariant; nothing returns, and what runs is owned on disk |
| `PostDelivery` | the delivery scheduler, its database and the plugins' policy barrier |
| `AtLeastOnce` | what post delivery promises for each delivery |
| `PostDeliveryProofs` | one execution per row, current code only, the refinement of `AtLeastOnce` |
| `PostDeliveryLedgerProofs` | the types of `PostDelivery`, its counters, its orphans and its breakers |
| `BridgeDataDirLock` | sessions that acquire, recover and release the lock of the bridge directory |
| `BridgeDataDirLockProofs` | types, exclusion and the shape of the directory with any I/O errors; what crashes alone can leave, and that it can be recovered |
| `MC_...` | the instances TLC checks |

Every definition that models code is listed in `PROJECT.json` under `map`. A
definition named `X_Something` before `X` is a mutant: the form `X` would have
with a plausible mistake in that code; each property is violated by one of them.

### CompletionShutdown

The controller's fields are the record `ctl`; its synchronous methods (`cancel`,
`interrupt`, `observeClock`, `collectTasks`) are functions on that record, and an
action is one run of the event loop between two awaits. `runs` says where each
suspended activation of `setEnabled` and `execute` waits: for the permission
probe, the drain, the save or the power request. `hold`, `incoming` and `work`
are the coordinator: the lease that gates new work, whether work arrived under
it, and where each coordinated operation is. The `generation` counter of the
source is only ever compared with values held by suspended activations, so the
model keeps the activation that holds the current one (`ctl.owner`).

`calm`, `age` and `consent` are history variables: they record the undisturbed
ticks, the ticks a task has been listed and the user's consent, and no guard
reads them. Tasks change, the engine comes and goes, the clock jumps and the user
cancels, re-arms or quits at any moment.

### Finalize

Names stand for paths (`src`, `tgt`, the rollback, the private and the staged
one) and artifacts for the content identities the code compares. `plan` is the
frozen plan of the hook (a move, a copy, in place, a replacement) and the kind of
file system under it (one that renames, one that cannot, two of them). The code
is straight-line between awaits, so the running commit or recovery is a sequence
`todo` of operations; before each of them a crash, an I/O error or another
program may come. `jrnl` is the durable row and `rec` the live record, which is
ahead of it between a change and the write. The phase table of the journal
(`transitionAllowed`) is the operator `TransitionAllowed`; a refused transition
fails like any other operation.

`AtomicPublish` has four variables: does the original exist, what does the
target show, is the decision taken, and has another program disturbed a name in
use. `Finalize` implements it (the refinement mapping is `Abstract`): until a
disturbance every step is an abstract step or a stutter; from one on (`Anything`)
the abstract specification promises nothing, and the other properties speak.

### EngineSupervisor

`sup` holds the supervisor's fields, `child`, `running` and `heard` those of the
process manager, `proc` and `signal` what the operating system knows. An
activation of `doStart`, of the restart timer's callback or of `restart()` is
suspended at a `stage` and, when it waits for an exit, on a process (`kid`). The
exit event of any child clears the tracked one and resolves every `gracefulStop`
that waits, as in the source; a child whose listener is not attached yet loses
its exit. Continuations of a promise run before any other event (`Settled`).
Outside the module: the settings, the binary and its arguments, which only
decide whether a stage fails, and the transport below the RPC client, which is
`link` (the process the connection is open to).

`Restart` waits for nothing but an earlier restart, as in the source: a start that
is suspended goes on beside it, and finds `stopping` reset when the restart's
`stop()` had no child to wait for. Two fields of `count` are history that no action
reads: `crossed` is set when a restart comes in while an activation is suspended
(an armed restart timer is cleared, and does not count), and when the last miss of
a series arrives in a state in which the health check's callback should have
looked again (`Astray`: it arms a restart timer beside whatever runs); `undone`,
when a restart's `start()` resets the fence of a quit. What such a crossing breaks
in the code is stated up to it, and `engine_overlap` shows the break.

Two facts of timing are built in: an exit event is delivered before a call times
out (10 s) or an interval elapses (30 s), and a call times out within its
interval, so that one interval has one check under way.

### TaskOwnership

What must agree is spread over four places: the engine's rows (`row`), the task
table (`mem`), its index and shields (`index`, `reserved`, `retired`) and the
database (`db`). `watch` has one record for a poll and one for a notification:
both run `handlePolledTasks` over the rows they read (`todo`, `st`), and neither
waits for the other. A stop that is to be recorded takes the task's lock
(`lock`, the tails of `runTaskMutation`), writes and publishes; `stale` marks a
watcher that waits for a lock while its task is replaced, which is what `isCurrent`
finds out by comparing objects. `op` is the Remove or the Retry under way (one at
a time), `clear` is Clear stopped, which purges the engine's rows before it takes
the locks and looks again at its candidates.

The persistence lane serves one operation at a time. Only a save keeps the lane
over several steps (`save`, with the snapshot it took when it reached the front);
the short writes are one step that needs a free lane. A persist that is called
through an asynchronous wrapper resumes its caller one turn of the microtask
queue after the next operation of the lane has begun. So the write and the
publication that follows it are two steps, and between them nothing but the lane
goes on (`InGap`). `"req"` is the save an eviction asked for and waits for,
`"auto"` the periodic save and every other that no eviction waits for.

`home` and `gone` are history: the task each engine id was minted for and the
tasks that were deleted. Left out are start notifications (they read a live row
as a poll does), completion (which is the finalizer's), pausing, magnets,
imported tasks and restarts; a task already shown as failed is not published again
when only its message changes; one notification is handled at a time; Clear
stopped filters and deletes its candidates in one step; `retired` is a set, where the code forgets the
oldest of 4096 ids.

### PostDelivery

`rows`, `ledger` and `breakers` are the three tables of the repository; each of
its transactions is one action, which changes row and ledger together the way the
statements do (`Bump`, `Terminalizes`, the pruning of `Excess` receipts). `loop`
is the program counter of `runBatch` and the plugins it has still to try; `slots`
are the executions it started, from the permit of the breaker over the claim and
the policy lease to the end of the guest. An execution outlives the batch when a
storage error ends `runBatch`: it is then no longer `mine`, which is what the
next batch does not know. `policy` and `mutation` are the registry and the
barrier of `applyPolicyMutation`: leases aborted, executions drained, the change
published, the rows settled, or all of it rolled back.

Instants are not numbers: whether a retry is due, a lease has run out, a pause is
over and a delivery is too old are flags which time may set. A slot stands for
the token of the breaker's probe, a row's attempt for its lease token. Byte
quotas and the buckets of tombstones are left out, and so is which permission was
revoked or which input is invalid: an invocation may fail for good (`Reject`, a
dead letter at once) as well as for now (`Retry`); uninstalling a plugin is, for its deliveries, disabling it.

`AtLeastOnce` says what a delivery may count on: its guest may run any number of
times while it is open, it is acknowledged only after a run that ended well, and
it is settled once. `DeliversAtLeastOnce` is the refinement, with `ran` as the
history of runs that ended well.

### BridgeDataDirLock

A session is one run of the program. It creates at most one lock and one guard in
an attempt, so a file is `[kind, by, try]`: that is its inode, its nonce and its
epoch at once. `entry` is the directory (the lock, the guard, and one quarantine
name for each guard's nonce), `whole` the files whose document was written. Every
system call on the directory is an action of its own (`CreateFile`, `WriteFile`,
`LinkStale`, `CheckFile` then `UnlinkFile` for lstat and unlink, `Sync`) and a
session's `at` names the step of `acquire`, `recoverExistingLock`,
`resumeInterruptedRecovery`, the catch blocks or `release` it is about to make;
`Following` and `Failing` say where a step and an error in it lead. Three reads
of a resumption that change nothing are one step.

`resource` is the kind of exclusivity the shell has before it opens the bridge: a
kernel's resource that lasts until the process ends, or the control plane's port,
which `closeIngress` gives up while `closeBridge` is still draining
(`server/shutdown.ts`). Sessions start one after the other as they get the
resource; a crash may end one between any two system calls. The documents'
syntax, symbolic links and the mode in which Windows refuses every recovery are
left out.

## The runs

| Run | Expectation | Properties |
| --- | --- | --- |
| `shutdown` | pass | requests are justified (`RequestIsSafe`), come after a full grace period (`FullGrace`) and once per consent (`OneShot`); the gate is closed only for the known activation (`GateOwned`); held-back work goes on (`GateOpensAgain`), undisturbed plans conclude (`PlanConcludes`) |
| `finalize` | pass | whole targets, stable commits, tidy closes, recoveries and failures that have a cause (`QuarantineExplained`, `FailureExplained`), foreign files untouched, no loss, every journal settled, and the refinement `PublishesAtomically` |
| `tasks` | pass | no removed task and no minted id comes back elsewhere (`NeverReturns`); what runs is on disk under its task, and visible to the polls (`LiveIsOwned`); every handler and action ends, whichever call fails (`EverythingEnds`) |
| `engine` | pass | restarts, exits, late answers and a quit at any point of a start: a second process (`SecondEngineExplained`), one that a quit (`QuitSticks`) or a failed start (`FailedIsTornDown`) leaves behind occur only when activations crossed, or a restart undid the quit; a Ready engine has its health check (`ReadyIsWatched`); starts end (`StartSettles`); dead engines are noticed (`DeadEngineNoticed`) |
| `post_delivery` | pass | rows and counters agree, no row is executed twice, only current code runs, the breaker pauses, `DeliversAtLeastOnce` |
| `post_batch` | pass | two plugins in one batch: every admitted delivery settles or is orphaned by a failure (`AdmittedSettles`, `OrphanHasCause`) |
| `data_dir_lock` | pass | one holder, whose lock it is (`OneHolder`, `HolderNamed`); what a crash leaves is one recovery's residue (`StaleHasGuard`) and can be recovered (`RefusalHasCause`) |
| `finalize_in_place` | violation | an in-place publication is refused by the phase table |
| `finalize_rollback_twice` | violation | a rollback interrupted half-way is quarantined when repeated |
| `engine_overlap` | violation | a restart during a suspended start: both spawn an aria2 (`OneEngine`) |
| `engine_unheard` | violation | a process that exits at once is waited for without end |
| `post_stranded` | violation | a row whose lease outlived a quick restart is not taken up by that process |

The five violations are findings: each quotes the line of the repository that
says otherwise.

### Bounds, and why they are enough

- `CompletionShutdown`: one task that comes, ends and is replaced at any moment;
  two activations let a stale continuation meet a new plan (a third would only
  repeat the second: an activation compares itself with the current generation,
  never with another activation); one coordinated operation fills or blocks the
  drain; a grace of one tick separates "at once" from "after the countdown". The
  proofs have none of these bounds.
- `Finalize`: one task, as journals of different tasks share no name. Two faults
  and two crashes cover an error in the commit, a second one in its compensation
  and a crash in each; two tamperings let another program remove a name and put
  something else there. The proofs have none of these bounds.
- `EngineSupervisor`: two processes, as a third could only be started by a third
  activation; two activations, which may cross; one restart by the user, at any
  moment; one crash; three checks that an engine leaves unanswered, one full series
  (`MaxMisses` is the source's 3); one automatic restart instead of 5. Once
  activations crossed, the manager's child is not the only process and the state
  space grows tenfold, so the run follows only the behaviours in which nothing else
  goes wrong from then on (the constraint `Followed`): a crossing is taken at
  every point and checked in its first state, with a quit, a crash or a hung check
  it is not followed further. Of the safety properties only `TypeOK` and
  `ReadyIsWatched` say anything then, and both are proved without a bound; of the
  liveness behind such a crossing nothing is shown. The proofs have none of these
  bounds.
- `TaskOwnership`: two public ids, so that one task can be removed and another
  adopt its row; one id the application mints, for a Retry; one row of another
  RPC client, which becomes the first task; one failing call, which is at any of
  the calls. The proofs have none of these bounds.
- `PostDelivery`: two deliveries. With one plugin (`post_delivery`) they compete
  for its lane, its receipts (one is kept) and its breaker, which opens at the
  second failure, and an upgrade or a disable comes at any point; with two
  plugins (`post_batch`) the batch rotates and races two executions, and the
  breaker opens at once. Three executions, as two of a batch and one that
  outlived an earlier batch; two attempts, so that there is a retry and a last
  one; two faults, so that a failed transaction is followed by a restart. The proofs
  have none of these bounds. The quotas of active rows are as large as the number of
  deliveries, so admission is never refused in the runs: that the counters they
  look at are exact is `Exact`, which is proved for any quota.
- `BridgeDataDirLock`: four generations of a kernel's resource, so that a
  recovery of a recovery of a recovery occurs, and three of a listener, two of
  which may drain beside the third; two attempts in a process, one that fails and
  one after it; one I/O error. The proofs have none of these bounds.
- Exceptions are part of properties, not of bounds. `StartSettles` excludes the
  child nobody listened to and `AdmittedSettles` the orphan (the violations show
  why). `QuarantineExplained` and `FailureExplained` except the two kinds of
  plan whose violations are shown; the causes they accept are interference, an
  interrupted private copy and an unconfirmed hard link. `OneHolder` excepts a
  listener that was given up in a shutdown that still drains. `BreakerPauses` and
  `OrphanHasCause` say nothing once a transaction failed or the application was
  restarted: a row may then be orphaned, which `post_stranded` shows, or leased
  under a permit that is no longer current. `SecondEngineExplained`, `QuitSticks`
  and `FailedIsTornDown` say nothing once activations crossed, which
  `engine_overlap` shows; nor does `QuitSticks` when a restart that was waiting for
  the old process reset the fence of the quit (`QuitIsFinal` fails there, in the
  configuration of `engine_overlap` with one activation: the reset of `stopping`
  is the same line). `StaleHasGuard` and
  `RefusalHasCause` speak of crashes; an I/O error may leave more.

`CHECK_DEADLOCK` is off for Finalize (a settled journal has nothing left to do),
EngineSupervisor (the application has quit), TaskOwnership (nothing runs and
the ids are used up), PostDelivery (everything is settled
and the failures are used up) and BridgeDataDirLock (the last session is gone).

### Fairness

Weak fairness is assumed only where the code or its runtime provides it:
continuations of promises, timers and intervals, calls that have a timeout, the
delivery of exit events, and the death of a process after SIGKILL. In Finalize
the running operation sequence goes on and the task or application is started
again until the journal is settled. In PostDelivery the scheduler polls
(`Batch`), and whatever is under way goes on: executions, which a timeout ends,
delays, policy changes, the end of a process and the recovery of the next
(`Underway`, one assumption for all of them, which is weaker than one for each).
In TaskOwnership each watcher, the action under way and Clear stopped have strong
fairness: calls of the engine answer or time out, and the lane and the locks are
chains of promises, which serve in the order of arrival, so that whoever waits has
its turn although others use the lane in between. A save that has begun ends.
Nothing is assumed of users, tasks, the engine, its other clients, saves, admissions, crashes, SIGTERM, a port becoming
free or other programs. BridgeDataDirLock states safety only.

## What is proved

All theorems are for every value of the constants under the named assumptions of
the modules (`ShutdownAssumption`, `FinalizeAssumption`, `SupervisorAssumption`,
`OwnershipAssumption`, `DeliveryAssumption`, `LockAssumption`, `NoFileAssumption`): the null values are not members of their
sets, bounds are natural numbers, and limits that would be meaningless at zero
are positive.

**CompletionShutdown.** The invariants are not inductive by themselves: that the
gate is only closed for the known activation depends on where that activation
stands, and that on what the controller knows. `IInv` is `TypeOK` and

- `TimerMatchesPhase` and `GateOwned`, the two properties of interest;
- `OwnerStage`: the activation holding the current generation is at a stage that
  fits the phase;
- `AuthorizingIsOff`: while the permission probe is pending, nothing is armed;
- `NothingInFlight`: past the drain, no coordinated operation runs;
- `ConsentBacksPlan`: an armed plan has the user's consent.

Most actions change the controller through `Observed`, `Collected` and
`Evaluated`; lemmas state once that these are *quiet* (they keep the owner, or
drop it together with the preparation, and never arm) and each action cites
them. `Invariance` then gives `TypeCorrect`, `TimerCorrect` and `GateNeverLeaks`,
and, as step properties, `RequestSafety` and `OneRequestPerConsent`.

`FullGrace` speaks of the history variables, so `Waited` relates them to the
controller: every task of the baseline and every participant has been listed, and
while the countdown or the preparation goes on, the tracker accepts events, the
baseline is known, a jump of the clock is still to be seen or the undisturbed ticks
and what is left of the countdown reach the grace period, and so do the age of each
of those tasks that is still there and what is left. The methods that do not start
a countdown keep this (`Careful`), the start of one makes it true anew, a tick moves
one unit from what is left to the calm, and a request is only made when nothing is
left. `WholeGrace` follows.

**Finalize.** The running commit, compensation or recovery is the sequence `todo`,
so the invariant speaks of that program:

- `Placed`: what can be under each name;
- `Staged`: each operation of the program is one of its stage, and the durable row
  and the live record agree during a commit;
- `Durable`: a copy under the source's or the target's name is on stable storage,
  and a copy is only published by an operation behind the one that makes it so;
- `Ready`: the terminal transaction is the last operation, names what was installed
  and comes after the target was made durable and looked at;
- `Kept`: once the publication is decided, the row names what the target shows, and
  what remains to be done spares the target and closes the journal last.

Without them no property is inductive: that the transaction finds the target whole
is a matter of the operations that stand before it. A step does the first
operation, puts a few in front of the rest or starts a new program, and each of
these is one family of lemmas about sequences. `TypeCorrect`, `TargetWhole`,
`CommitLasts`, `ForeignStays` and `DownloadStays` follow, for every plan and any
number of errors, crashes and interferences.

The refinement needs four facts more (`Undecided`): until another program
interferes, no name holds anything foreign; a row that says `db_committed` is
behind a decision; before the decision every prepared deletion leaves the
original; and the original is then somewhere. With them each step is a step of
`AtomicPublish` or a stutter (`Implements`): the target changes by one rename or
link, the decision is the terminal transaction, and the original goes only after
it.

That a closed journal is tidy (`Tidy`) depends on every operation that ran and not
only on those that are left, so it needs a third invariant, which holds until
another program interferes (`Neat`):

- `Tidying`: a program that closes the journal takes away whatever is under a name
  other than the final one, and before the decision leaves the original or moves it
  back for good;
- `Located`, `Noted`, `Moded`: nothing is where no publication puts it; the row and
  the live record know of the rollback, of the private copy and of the hard link
  before they are there; a move has neither of the first two and shows the source
  under two names only as a hard link, and a private copy lies beside a target that
  shows a copy only as its second link;
- `Committing`: a commit notes each of these before the operation that does it
  (`Ordered`), and keeps to the operations of its kind (`Line`);
- `Announcing`: what was isolated from a name is the artifact whose removal the row
  announces, and the program is at that removal or about to resume it;
- `Closed`: before the first commit and after the last operation nothing runs and
  nothing else is there.

A recovery reads the names only as far as its record knows of them, so the three
about the record are what makes each branch of `Recovery` clean
(`RecoveryClean`); the clean-up of a commit takes less away than a recovery, and
`Moded` says that the rest is not there (`CleanupLiveClean`, `CommitTurns`). TLC
checked each part before it was proved.

`QuarantinesExplained` (in `FinalizeRecoveryProofs`) is about every check that a
recovery makes: one that fails ends in a quarantine, so it takes an invariant that
says which checks succeed. It holds for every plan but the replacement in place,
until another program interferes (`Steady`):

- `Telling`: what the record can say; there is no rollback, and the phase a running
  program believes in is the one on disk;
- `Sited`: what each phase implies for the five names: a copy whose row says
  `target_staged` is no longer partial, a link that was confirmed shows one artifact
  under both names, a copy leaves the original where it is until the decision;
- `Pending`: the removal that the row announces finds what it names, and something
  else survives it; of a copy that was linked, the link goes first;
- `Calming`: so does each removal that is still to run (`Harmless`), and the program
  gives up only when the private copy is partial or a link unconfirmed;
- `Met`: what an operation relies on (an identity under a name) is there, or an
  operation before it in the program provides it, and none in between takes it away;
- `Due`: a commit publishes by a rename or by a link and not by both, and the phase
  it has reached fits what it still has to do;
- `Behind`: a private copy is withdrawn behind the link that was made from it.

A step that goes on with a program starts one, puts operations in front of one or
finishes its first (`SteadyPrograms`), and each of the parts is shown for these
three forms. With `Steady`, a step that writes the phase `quarantined` finds one of
the two reasons (`Reasoned`), and both last: nothing runs after it.

`FailuresExplained` goes the other way: without an error, a crash or an
interference a commit has one course for each plan. `OnTrack` names the operations
that are left and what the journal and the names show at each of them: the moved
original (`OnMove`), its hard link (`OnMoveLink`), the turn to a copy on another
device (`OnCross`), the copy (`OnCopy`) and its hard link (`OnCopyLink`), and the
rollback that is made first when a file is replaced in place (`OnPreserve`). Each
operation finds what it expects (`MoveOn`, `CopyOn`, ...), so the commit gets to its
terminal transaction. The theorem has the one hypothesis that the property needs:
a replacement in place takes a rename that refuses to replace, without which the
move to the rollback fails and nothing is published. The instances TLC checks
replace in place on plain file systems only; publication in place is excepted by
the property itself. TLC checked `QuarantinesExplained`'s and `FailuresExplained`'s
invariants on every pair of a plan and a file system before they were proved.

**EngineSupervisor.** `WatchedWhenReady` follows from the fields of the
supervisor alone (`IInv`: their types and the property): whatever the processes
and the other activations do, a step leaves the fields alone, goes through
`prepareForShutdown` (which sets `stopping`), through `restartWithBackoff` (which
leaves Ready) or through `startHealthCheck`. It therefore holds with any number
of crossing starts and late answers.

The other properties rest on what the suspended activations, the manager, the quit
and the health check can still do, so `Held` is one invariant about all of them:

- `Places`: one activation at most is suspended (`Sole`), the one that backs off
  holds the timer (`Armed`), and the engine is Ready and watched only while nobody
  but a restart under way is suspended, with one interval (`Alone`);
- `Tracked`: a process that lives, or whose exit is not delivered, is the child of
  the manager, which runs;
- `Suspended`: what an activation relies on when it goes on at its stage: before
  the spawn no child runs, at the spawn the child is the one it waits for, and
  whoever waits for an exit waits for the child;
- `Fence`: unless a restart undid it, nothing starts again once the quit has begun,
  and when it is done no child runs.

`Held` cannot be an invariant of the code, since a restart may cross a start; no
hypothesis excludes that. The invariant is `Safe`: the fields and shapes, always,
and `Held` until `crossed` is set. The inductive step is that every action but the
two which set `crossed` keeps `Held`, so the theorems name the only ways in which a
second engine can come about. `Invariance` gives `TypeCorrect`,
`SecondEngineHasCause`, `QuitHolds` and, as a step property, `TornDown`, for any
number of processes, activations, restarts, hangs and crashes, and no theorem has a
hypothesis about the scenario.

**TaskOwnership.** `LiveIsOwned` is about every step of every actor, so its
invariant is about what each of them may still do with what it has seen:

- `Told` and `Locked`: who is at a step knows its task and row, and who holds
  which lock;
- `Indexed`: the index points at tasks that carry the id;
- `Minted` and `Secret`: a minted id is carried by its task only, it is shielded,
  indexed, or nobody can have seen it, and before the engine is told of it nobody
  has;
- `Given`: public ids are given away once, and a deleted task is in no table, no
  row and no snapshot of a save under way;
- `Current`: who holds a lock holds the task it saw; the retry's owner is the
  reserved one until it publishes, and the reservation is exactly its id;
- `Halted`: what is shown as stopped, or was seen to have stopped, does not run:
  the engine never starts a stopped row again;
- `Owned`: of a minted id that runs, or that a retry is about to start, the index,
  the database and the snapshot of a save under way name the same task.

The snapshot in `Owned` is what makes a late save harmless, `Halted` what makes a
late poll harmless, and `Current` what makes a commit that waited for the lock
harmless. A step is taken apart once, into what it does to the rows, the task
table, the disk, the watchers and the action under way; each part of the
invariant is then one lemma over these. `Invariance` gives `TypeCorrect`,
`NothingReturns` and `OwnersOnDisk`, for any number of tasks, ids and faults.

**PostDelivery.** The invariant is about one execution at a time: `Sound(w)` says
that past its claim it holds a row that was claimed for its plugin and is not
claimable again (`Holds`, `Claim`), that a live lease means the plugin is enabled,
the row's version installed and no change under way (`LiveLease`), that a running
guest's change is not yet published (`Guest`), and that a guest which ended well
is in the history (`Exit`). A step moves one execution, or changes rows or a
policy in a way the other executions cannot notice (`Unaffected`), so the proof
has one lemma per kind of change. `HeldOnce`, `CurrentCodeRuns` and `Implements`
(every step is a step of `AtLeastOnce` or a stutter) follow.

`PostDeliveryLedgerProofs` continues from that invariant. `LedgerExact` is about
all rows together, so the ledger is stated as the cardinalities of two sets, the
open rows and the receipts, in each scope (`Counts`): a step adds some rows of one
plugin to one of them or takes some away, and the eviction of receipts takes
exactly what exceeds the quota. `Exact` follows, and with it the types
(`TypeCorrect`: the counters are naturals because they count). `OrphanHasCause` and
`BreakerPauses` rest on what is true as long as no transaction fails and the
application goes on (`Calm`): a plugin has one execution at most, it has the permit
of the breaker, and its attempt is the row's. Without it a row could lose its
execution unnoticed, or be leased under a permit that is no longer the current one.

**BridgeDataDirLock.** A session that acts is alive, and one that is alive
without the resource drains beside a listener that it closed (`Fenced`); hence
with a kernel's resource sessions act one at a time, and when one acts, the
directory contains files of earlier attempts (`Past`) and its own (`Disk`: its
lock is absent, in place, or in place and whole, as its step says). `Exclusive`
and `Named` follow, with any number of I/O errors.
`Residue` and `Shape` say what no error can have disturbed: a
quarantined lock is whole and under the nonce of the guard that is there, which
is whole too (`Residue`), and at each step the directory has the shape which that
step expects (`Shape`, by the families of steps `Guarded`, `Locked`,
`Quarantined`, `Foreign` and `Torn`). `Expected` is this invariant; `Quarantine`
and `Recoverable` follow from it: no check of the code can fail but over a
document that a crash cut off, for any number of generations.

Only model-checked: liveness, as the prover has no ENABLED (`EverythingEnds`,
`AdmittedSettles`, `JournalSettles`, `StartSettles`, `DeadEngineNoticed`,
`GateOpensAgain`, `PlanConcludes`). Every safety invariant and every action property
of the passing runs is stated by a theorem.

## What is not modelled

`PROJECT.json` lists every component with its reason. In the modelled ones:
journals of the kinds `rename-file` and `reserved_rename`, offline volumes and
the loss of unflushed data (Finalize); `diagnose()`, `recover()` and option
updates (engine); byte quotas, tombstone buckets and single permissions
(PostDelivery); what the section on TaskOwnership leaves out; Windows' refusal of every recovery (BridgeDataDirLock), and of
the same component the credentials, the projection of pairings and the prompts.

Noticed while reading, and stated here because no run is kept for it:

- An automatic restart whose start fails ends in Failed with attempts left:
  `doStart` never calls `restartWithBackoff` again (the test "transitions to
  Failed after MAX_RESTARTS" passes because the first failed start is already
  Failed).
- A start suspended while `stop()` is called may still report a failure: neither
  the port check nor the catch looks at `stopping`.
- A health check that times out after the process was replaced counts against
  the new one, and may schedule a second restart.
- A crash in the middle of the private copy of a publication makes recovery
  quarantine the journal.
- With the port as the proof of exclusivity, a server that starts while the old
  one is still draining takes over its lock, and the old one's release, which
  checks by lstat and removes by unlink, may remove the new lock in between. The
  comment at `server/bridge/server-process-ownership-authority.ts:297` says a successor cannot
  own the port while the first process is alive; `OneHolder` excepts exactly this
  case.
- A crash between the exclusive creation of a lock or guard and the write of its
  document (`bridge-data-dir-lock.ts:566`) leaves an empty file every later
  recovery refuses, until someone removes it.
- Polls and notifications run the same `handlePolledTasks` and do not wait for each
  other: both can find an engine row without an owner and give it a public id each.
- A save that stands in the lane right behind a polled terminal commit takes its
  snapshot before the commit is published and writes the old status over the
  terminal row, while the engine's row is evicted meanwhile (`main/index.ts:1022`
  takes the terminal row to be durable by then). The next save repairs it, a crash
  before that does not.
- A poll that read its rows before an Error was published finds the task in Error
  and its row running, and reopens it as Downloading.
- `'persist-failed'` leaves the task alone "so the next poll observes the same delta
  and retries" (`actions/shared.ts:282`), but a poll lists active and waiting rows
  only (`polling-scheduler.ts:229`), and the stopped one is in neither list.
- `requestSave()` called while the requested save already runs joins it
  (`session-manager.ts:1287`), although its snapshot may be older than the caller's
  change; the comment at `session-manager.ts:259` promises a save that covers it.
- While a Retry has a reserved id, a notification for it is skipped like a poll's
  row, although `re-add-task.ts:690` says that the silent owner gives notifications
  an owner.
- A Retry of a task in Removed whose compensation succeeds leaves the candidate on
  disk: the write of the original returns early for a Removed task
  (`session-manager.ts:429`).

## Plan

In this order, by what a mistake would cost and how hard it is to test:

1. What `TaskOwnership` leaves out of tasks: completion (handed to the finalizer),
   pause and resume, and the restore after a restart.
2. The MBP1 bridge session: authentication before any message, one session for
   each credential, each prompt answered once.
3. The magnet's metadata task and its successor across a crash.
4. The proxy policy composed with the engine supervisor: a Ready engine runs with
   the route that is configured.
5. The segment pool of media tasks, and the journals of Finalize that are not
   modelled.

Worth proving next: the invariants of the components above, as they are modelled.
Of those modelled now only liveness is left to TLC.
