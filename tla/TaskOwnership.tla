--------------------------- MODULE TaskOwnership ---------------------------
(***************************************************************************)
(* Who owns an engine row, and what of a task is on disk: the desktop      *)
(* shell's handler of polls and notifications (main/index.ts), TaskManager *)
(* and its shields, the task mutation lock, the persistence lane of        *)
(* SessionManager, and the actions Remove, Retry and Clear stopped, for    *)
(* torrent tasks whose metadata is on disk.                                *)
(*                                                                         *)
(* Steps are what runs between two macrotasks: an RPC, a database write    *)
(* and a wait for the lock or the lane end a step.  One more gap is real:  *)
(* a persist called through an asynchronous wrapper resumes its caller     *)
(* after the next operation of the lane has started, so the write and the  *)
(* publication that follows it are two steps, and a save may begin between *)
(* them.  Completion (the finalizer's), pausing, magnets, imported tasks   *)
(* and restarts are left out; what a crash would find is in db and row.    *)
(***************************************************************************)
EXTENDS Integers

CONSTANTS
  NTasks,   \* bound: public task ids
  Fresh,    \* bound: engine ids the application may still mint
  Foreign,  \* bound: engine ids of rows other RPC clients add
  MaxFaults \* bound: failing RPCs and writes

Ids      == 1..NTasks
Gids     == Fresh \cup Foreign
Nobody   == 0
Watchers == {"poll", "note"}

ASSUME OwnershipAssumption ==
  /\ NTasks \in Nat /\ MaxFaults \in Nat
  /\ Gids \subseteq Nat \ {0} /\ Fresh \cap Foreign = {}

VARIABLES
  row,      \* the engine: what it lists under each id
  bell,     \* stop notifications that have not been handled
  mem,      \* TaskManager.tasks
  index,    \* TaskManager.engineIndex; indexedGids is its inverse
  reserved, \* TaskManager.reservedEngineGids
  retired,  \* TaskManager.retiredEngineGids
  db,       \* the rows of motrix.db
  lock,     \* taskTails: who holds the mutation lock of a task
  watch,    \* handlePolledTasks, for a poll and for a notification
  stale,    \* watchers whose captured task is no longer the current object
  op,       \* Remove or Retry
  clear,    \* Clear stopped
  save,     \* saveNow: who runs it and its snapshot
  req,      \* requestedSave, from the request to the end of the save
  evict,    \* the evictions of failed rows
  home,     \* history: the task each engine id was minted for
  used,     \* public ids given away
  gone,     \* history: the tasks Remove and Clear stopped deleted
  faults

engine  == <<row, bell>>
manager == <<mem, index, reserved, retired, stale, gone>>
savers  == <<save, req>>
acts    == <<op, clear>>
vars    == <<row, bell, mem, index, reserved, retired, db, lock, watch, stale,
             op, clear, save, req, evict, home, used, gone, faults>>

NoTask    == [gid |-> 0, st |-> "none"]
Tasks     == [gid : Gids, st : {"active", "error", "removed"}]
Stopped   == {"error", "removed"}
Quiet     == [at |-> "idle", todo |-> {}, st |-> "none", gid |-> 0, id |-> Nobody]
NoOp      == [at |-> "idle", id |-> Nobody, old |-> NoTask, new |-> 0]
NoClear   == [at |-> "idle", picked |-> [i \in Ids |-> 0], locked |-> {}]
NotSaving == [by |-> "none", snap |-> [i \in Ids |-> NoTask]]

Retrying  == {"halt", "reserve", "add", "unhalt", "unpurge", "undo", "write", "publish"}

TypeOK ==
  /\ row \in [Gids -> {"none", "live", "error", "removed"}] /\ bell \subseteq Gids
  /\ mem \in [Ids -> Tasks \cup {NoTask}] /\ db \in [Ids -> Tasks \cup {NoTask}]
  /\ index \in [Gids -> Ids \cup {Nobody}] /\ home \in [Gids -> Ids \cup {Nobody}]
  /\ reserved \subseteq Gids /\ retired \subseteq Gids
  /\ used \subseteq Ids /\ gone \subseteq Ids
  /\ lock \in [Ids -> {"free", "op", "clear"} \cup Watchers]
  /\ stale \subseteq Watchers
  /\ watch \in [Watchers -> [at : {"idle", "look", "lock", "write", "publish", "adopt", "adopted"},
                             todo : SUBSET Gids, st : {"none", "live", "error", "removed"},
                             gid : Gids \cup {0}, id : Ids \cup {Nobody}]]
  /\ op \in [at : {"idle", "force", "purge", "delete"} \cup Retrying, id : Ids \cup {Nobody},
             old : Tasks \cup {NoTask}, new : Gids \cup {0}]
  /\ clear \in [at : {"idle", "purge", "lock", "delete"}, picked : [Ids -> Gids \cup {0}],
                locked : SUBSET Ids]
  /\ save \in [by : {"none", "auto", "req"}, snap : [Ids -> Tasks \cup {NoTask}]]
  /\ req \in BOOLEAN
  /\ evict \in [Gids -> {"none", "saving", "purge"}]
  /\ faults \in 0..MaxFaults

Init ==
  /\ row = [g \in Gids |-> "none"] /\ bell = {}
  /\ mem = [i \in Ids |-> NoTask] /\ db = [i \in Ids |-> NoTask]
  /\ index = [g \in Gids |-> Nobody] /\ home = [g \in Gids |-> Nobody]
  /\ reserved = {} /\ retired = {} /\ stale = {}
  /\ lock = [i \in Ids |-> "free"]
  /\ watch = [w \in Watchers |-> Quiet]
  /\ op = NoOp /\ clear = NoClear
  /\ save = NotSaving /\ req = FALSE /\ evict = [g \in Gids |-> "none"]
  /\ used = {} /\ gone = {} /\ faults = 0

-----------------------------------------------------------------------------
(* TaskManager, the lane and the engine's calls.                           *)

Held(i)    == {g \in Gids : index[g] = i}
Outdate(i) == stale' = stale \cup {w \in Watchers : watch[w].at = "lock" /\ watch[w].id = i}

\* store: the task's ids move to it, and those it no longer carries retire.
Store(i, task, kept) ==
  /\ mem' = [mem EXCEPT ![i] = task]
  /\ index' = [g \in Gids |-> IF g = task.gid THEN i
                              ELSE IF index[g] = i THEN Nobody ELSE index[g]]
  /\ retired' = (retired \cup Held(i)) \ {task.gid}
  /\ reserved' = kept
  /\ Outdate(i) /\ UNCHANGED gone

Publish_Unclaimed(i, task) == Store(i, task, reserved)

Publish(i, task) == Store(i, task, reserved \ {task.gid})

Forget(S) ==
  /\ mem' = [i \in Ids |-> IF i \in S THEN NoTask ELSE mem[i]]
  /\ index' = [g \in Gids |-> IF index[g] \in S THEN Nobody ELSE index[g]]
  /\ retired' = retired \cup UNION {Held(i) : i \in S}
  /\ stale' = stale \cup {w \in Watchers : watch[w].at = "lock" /\ watch[w].id \in S}
  /\ gone' = gone \cup S
  /\ UNCHANGED reserved

IsShielded(g) == g \in reserved \cup retired

LaneFree == save.by = "none"
Fault    == faults < MaxFaults /\ faults' = faults + 1
Fine     == UNCHANGED faults

\* What persistTask leaves on disk: a task shown as removed is not written.
Written(i, task) == IF task.st = "removed" THEN db ELSE [db EXCEPT ![i] = task]

\* forceRemoveTask. Every caller goes on when it fails.
ForceRemove(g) ==
  \/ /\ row' = IF row[g] = "live" THEN [row EXCEPT ![g] = "removed"] ELSE row
     /\ bell' = IF row[g] = "live" THEN bell \cup {g} ELSE bell
     /\ Fine
  \/ Fault /\ UNCHANGED engine

\* removeDownloadResult. A live row is refused; an absent one is a success; a
\* lost answer may follow a purge that was done.
Purges(g, ok) ==
  LET Gone == IF row[g] = "live" THEN row ELSE [row EXCEPT ![g] = "none"]
  IN IF ok THEN row[g] # "live" /\ row' = Gone /\ Fine
     ELSE \/ row[g] = "live" /\ Fine /\ UNCHANGED row
          \/ Fault /\ row' \in {row, Gone}

Release(i) == lock' = [lock EXCEPT ![i] = "free"]

-----------------------------------------------------------------------------
(* The engine and the other RPC clients.                                   *)

Fail(g) ==
  /\ row[g] = "live"
  /\ row' = [row EXCEPT ![g] = "error"] /\ bell' = bell \cup {g}
  /\ UNCHANGED <<manager, db, lock, watch, acts, savers, evict, home, used, faults>>

Appear(g) ==
  /\ g \in Foreign /\ row[g] = "none" /\ g \notin bell \cup retired /\ index[g] = Nobody
  /\ row' = [row EXCEPT ![g] = "live"]
  /\ UNCHANGED <<bell, manager, db, lock, watch, acts, savers, evict, home, used, faults>>

-----------------------------------------------------------------------------
(* handlePolledTasks. Polls list active and waiting rows only; a stop      *)
(* notification reads one row, whatever it has become.  One notification   *)
(* is handled at a time, beside the poll; those of a start, which read a   *)
(* live row as the poll does, are left out.                                *)

PollReads ==
  /\ watch["poll"].at = "idle"
  /\ \E g \in Gids : row[g] = "live"
  /\ watch' = [watch EXCEPT !["poll"] =
       [Quiet EXCEPT !.at = "look", !.todo = {g \in Gids : row[g] = "live"}, !.st = "live"]]
  /\ UNCHANGED <<engine, manager, db, lock, acts, savers, evict, home, used, faults>>

NoteReads(g) ==
  /\ g \in bell /\ watch["note"].at = "idle"
  /\ bell' = bell \ {g}
  /\ watch' = IF row[g] = "none" THEN watch
              ELSE [watch EXCEPT !["note"] =
                     [Quiet EXCEPT !.at = "look", !.todo = {g}, !.st = row[g]]]
  /\ UNCHANGED <<row, manager, db, lock, acts, savers, evict, home, used, faults>>

Looks(w, g) == watch[w].at = "look" /\ g \in watch[w].todo

\* On to the next row of the list.
Done(w, g) ==
  LET left == watch[w].todo \ {g}
  IN watch' = [watch EXCEPT ![w] = IF left = {} THEN Quiet
                 ELSE [Quiet EXCEPT !.at = "look", !.todo = left, !.st = watch[w].st]]

Turns(w, g, at, i) ==
  watch' = [watch EXCEPT ![w] = [@ EXCEPT !.at = at, !.gid = g, !.id = i]]

Owner(g) == IF index[g] = Nobody THEN NoTask ELSE mem[index[g]]

\* The row is shielded, or shows nothing new.
Skip(w, g) ==
  /\ Looks(w, g)
  /\ \/ IsShielded(g)
     \/ Owner(g) # NoTask /\ watch[w].st = Owner(g).st
     \/ Owner(g).st = "active" /\ watch[w].st = "live"
     \/ Owner(g) = NoTask /\ used = Ids \* bound: no id is left to adopt it
  /\ Done(w, g)
  /\ UNCHANGED <<engine, manager, db, lock, acts, savers, evict, home, used, faults>>

\* A status that is not terminal, or the same one with other figures: the
\* merged object is published at once and saved with the next batch.
Refresh(w, g) ==
  LET i  == index[g]
      st == IF watch[w].st = "live" THEN "active" ELSE watch[w].st
  IN /\ Looks(w, g) /\ ~IsShielded(g) /\ i # Nobody /\ mem[i] # NoTask
     /\ watch[w].st # "error"
     /\ Publish(i, [mem[i] EXCEPT !.st = st]) /\ Done(w, g)
     /\ UNCHANGED <<engine, db, lock, acts, savers, evict, home, used, faults>>

\* commitPolledTerminalTransition takes the task's lock, at once if it is free.
Capture(w, g) ==
  LET i == index[g]
  IN /\ Looks(w, g) /\ ~IsShielded(g) /\ i # Nobody /\ mem[i] # NoTask
     /\ watch[w].st = "error" /\ mem[i].st # "error"
     /\ IF lock[i] = "free"
          THEN lock' = [lock EXCEPT ![i] = w] /\ Turns(w, g, "write", i)
          ELSE UNCHANGED lock /\ Turns(w, g, "lock", i)
     /\ UNCHANGED <<engine, manager, db, acts, savers, evict, home, used, faults>>

TakeLock_Unchecked(w) ==
  LET i == watch[w].id
  IN /\ watch[w].at = "lock" /\ lock[i] = "free"
     /\ lock' = [lock EXCEPT ![i] = w] /\ Turns(w, watch[w].gid, "write", i)
     /\ stale' = stale \ {w}
     /\ UNCHANGED <<engine, mem, index, reserved, retired, gone, db, acts, savers,
                    evict, home, used, faults>>

\* isCurrent, once the lock is there: a stale observation is given up.
TakeLock(w) ==
  LET i == watch[w].id
  IN /\ watch[w].at = "lock" /\ lock[i] = "free"
     /\ IF w \in stale
          THEN UNCHANGED lock /\ Done(w, watch[w].gid)
          ELSE lock' = [lock EXCEPT ![i] = w] /\ Turns(w, watch[w].gid, "write", i)
     /\ stale' = stale \ {w}
     /\ UNCHANGED <<engine, mem, index, reserved, retired, gone, db, acts, savers,
                    evict, home, used, faults>>

CommitWrite(w) ==
  LET i == watch[w].id
      g == watch[w].gid
  IN /\ watch[w].at = "write" /\ LaneFree
     /\ \/ /\ db' = [db EXCEPT ![i] = [gid |-> g, st |-> "error"]] /\ Fine
           /\ Turns(w, g, "publish", i) /\ UNCHANGED lock
        \/ Fault /\ UNCHANGED db /\ Release(i) /\ Done(w, g)
     /\ UNCHANGED <<engine, manager, acts, savers, evict, home, used>>

\* publish, and the eviction that asks for a save before it purges the row.
CommitPublish(w) ==
  LET i == watch[w].id
      g == watch[w].gid
  IN /\ watch[w].at = "publish"
     /\ Publish(i, [gid |-> g, st |-> "error"])
     /\ Release(i) /\ Done(w, g)
     /\ req' = TRUE
     /\ evict' = [evict EXCEPT ![g] = "saving"]
     /\ UNCHANGED <<engine, db, acts, save, home, used, faults>>

\* A row nobody owns is taken for an orphan of the engine.
Adopt(w, g) ==
  /\ Looks(w, g) /\ ~IsShielded(g) /\ Owner(g) = NoTask
  /\ \E i \in Ids \ used :
       /\ \A j \in Ids \ used : i <= j
       /\ used' = used \cup {i} /\ Turns(w, g, "adopt", i)
  /\ UNCHANGED <<engine, manager, db, lock, acts, savers, evict, home, faults>>

Discovered_Raw(w) == [gid |-> watch[w].gid, st |-> watch[w].st]

Discovered(w) ==
  [gid |-> watch[w].gid, st |-> IF watch[w].st = "live" THEN "active" ELSE watch[w].st]

AdoptWrite(w) ==
  LET i == watch[w].id
      g == watch[w].gid
  IN /\ watch[w].at = "adopt" /\ LaneFree
     /\ \/ db' = Written(i, Discovered(w)) /\ Fine /\ Turns(w, g, "adopted", i)
        \/ Fault /\ UNCHANGED db /\ Done(w, g)
     /\ UNCHANGED <<engine, manager, lock, acts, savers, evict, home, used>>

AdoptPublish(w) ==
  /\ watch[w].at = "adopted"
  /\ Publish(watch[w].id, Discovered(w)) /\ Done(w, watch[w].gid)
  /\ UNCHANGED <<engine, db, lock, acts, savers, evict, home, used, faults>>

-----------------------------------------------------------------------------
(* SessionManager: the saves, and the evictions that wait for one.         *)

\* saveNow reads the tasks when it reaches the front of the lane. "auto" is
\* the periodic save and any other that no eviction waits for.
SaveBegins(by) ==
  /\ LaneFree /\ (by = "req" => req)
  /\ save' = [by |-> by,
              snap |-> [i \in Ids |-> IF mem[i].st = "removed" THEN NoTask ELSE mem[i]]]
  /\ UNCHANGED <<engine, manager, db, lock, watch, acts, req, evict, home, used, faults>>

\* A requested save answers its callers, whether it was written or not.
SaveEnds ==
  /\ save.by # "none"
  /\ \/ /\ db' = [i \in Ids |-> IF save.snap[i] = NoTask THEN db[i] ELSE save.snap[i]]
        /\ Fine
     \/ Fault /\ UNCHANGED db
  /\ save' = NotSaving
  /\ IF save.by = "req"
       THEN /\ req' = FALSE
            /\ evict' = [g \in Gids |-> IF evict[g] = "saving" THEN "purge" ELSE evict[g]]
       ELSE UNCHANGED <<req, evict>>
  /\ UNCHANGED <<engine, manager, lock, watch, acts, home, used>>

Evict(g) ==
  /\ evict[g] = "purge" /\ evict' = [evict EXCEPT ![g] = "none"]
  /\ \E ok \in BOOLEAN : Purges(g, ok)
  /\ UNCHANGED <<bell, manager, db, lock, watch, acts, savers, home, used>>

-----------------------------------------------------------------------------
(* removeTask.                                                             *)

Begins(i, at) ==
  /\ op.at = "idle" /\ lock[i] = "free" /\ mem[i] # NoTask
  /\ lock' = [lock EXCEPT ![i] = "op"]
  /\ op' = [NoOp EXCEPT !.at = at, !.id = i, !.old = mem[i]]
  /\ UNCHANGED <<engine, manager, db, watch, clear, savers, evict, home, used, faults>>

Goes(at) == op' = [op EXCEPT !.at = at]
Ends     == op' = NoOp /\ Release(op.id)

Remove(i) == Begins(i, IF mem[i].st \in Stopped THEN "purge" ELSE "force")

RemoveForces ==
  /\ op.at = "force" /\ ForceRemove(op.old.gid) /\ Goes("purge")
  /\ UNCHANGED <<manager, db, lock, watch, clear, savers, evict, home, used>>

RemovePurges_Leaks ==
  /\ op.at = "purge"
  /\ \E ok \in BOOLEAN :
       /\ Purges(op.old.gid, ok)
       /\ IF ok THEN Goes("delete") ELSE op' = NoOp
  /\ UNCHANGED <<bell, manager, db, lock, watch, clear, savers, evict, home, used>>

\* Without a confirmed purge the owner stays.
RemovePurges ==
  /\ op.at = "purge"
  /\ \E ok \in BOOLEAN :
       /\ Purges(op.old.gid, ok)
       /\ IF ok THEN Goes("delete") /\ UNCHANGED lock ELSE Ends
  /\ UNCHANGED <<bell, manager, db, watch, clear, savers, evict, home, used>>

\* One operation of the lane deletes the row and the task.
RemoveDeletes ==
  /\ op.at = "delete" /\ LaneFree
  /\ \/ db' = [db EXCEPT ![op.id] = NoTask] /\ Forget({op.id}) /\ Fine
     \/ Fault /\ UNCHANGED <<db, manager>>
  /\ Ends
  /\ UNCHANGED <<engine, watch, clear, savers, evict, home, used>>

-----------------------------------------------------------------------------
(* reAddTask: the replacement id is shielded, durable and owned before the *)
(* engine hears of it.                                                     *)

Retry(i) ==
  /\ mem[i].st \in Stopped
  /\ \E g \in Fresh : home[g] = Nobody \* bound
  /\ Begins(i, "halt")

Candidate     == [gid |-> op.new, st |-> "active"]
ReservedOwner == [gid |-> op.new, st |-> op.old.st]

RetryHalts ==
  /\ op.at = "halt" /\ ForceRemove(op.old.gid) /\ Goes("reserve")
  /\ UNCHANGED <<manager, db, lock, watch, clear, savers, evict, home, used>>

\* No wait between the write and the installation of the silent owner.
RetryReserves ==
  /\ op.at = "reserve" /\ LaneFree
  /\ \E g \in Fresh :
       /\ home[g] = Nobody /\ home' = [home EXCEPT ![g] = op.id]
       /\ \/ /\ db' = [db EXCEPT ![op.id] = [gid |-> g, st |-> "active"]] /\ Fine
             /\ Store(op.id, [gid |-> g, st |-> op.old.st], reserved \cup {g})
             /\ op' = [op EXCEPT !.at = "add", !.new = g] /\ UNCHANGED lock
          \/ Fault /\ UNCHANGED <<db, manager>> /\ Ends
  /\ UNCHANGED <<engine, watch, clear, savers, evict, used>>

\* commitTaskUpdate goes on unless the owner it started from was replaced.
Commits ==
  IF mem[op.id] \in {ReservedOwner, Candidate} THEN Goes("write") /\ UNCHANGED lock ELSE Ends

RetryAdds ==
  /\ op.at = "add"
  /\ \/ row' = [row EXCEPT ![op.new] = "live"] /\ Fine /\ Commits
     \/ /\ Fault /\ row' \in {row, [row EXCEPT ![op.new] = "live"]}
        /\ Goes("unhalt") /\ UNCHANGED lock
  /\ UNCHANGED <<bell, manager, db, watch, clear, savers, evict, home, used>>

\* compensateFailedReAdd and handleFailedEngineAdd.
UndoHalts ==
  /\ op.at = "unhalt" /\ ForceRemove(op.new) /\ Goes("unpurge")
  /\ UNCHANGED <<manager, db, lock, watch, clear, savers, evict, home, used>>

UndoPurges ==
  /\ op.at = "unpurge"
  /\ \E ok \in BOOLEAN :
       /\ Purges(op.new, ok)
       /\ IF ok THEN Store(op.id, op.old, reserved \ {op.new}) /\ Goes("undo") /\ UNCHANGED lock
                ELSE UNCHANGED manager /\ Commits
  /\ UNCHANGED <<bell, db, watch, clear, savers, evict, home, used>>

UndoWrites ==
  /\ op.at = "undo" /\ LaneFree
  /\ \/ db' = Written(op.id, op.old) /\ Fine
     \/ Fault /\ UNCHANGED db
  /\ Ends
  /\ UNCHANGED <<engine, manager, watch, clear, savers, evict, home, used>>

\* The second write may fail: the candidate is on disk already.
RetryWrites ==
  /\ op.at = "write" /\ LaneFree
  /\ \/ db' = [db EXCEPT ![op.id] = Candidate] /\ Fine
     \/ Fault /\ UNCHANGED db
  /\ Goes("publish")
  /\ UNCHANGED <<engine, manager, lock, watch, clear, savers, evict, home, used>>

RetryPublishes ==
  /\ op.at = "publish"
  /\ Publish(op.id, Candidate) /\ Ends
  /\ UNCHANGED <<engine, db, watch, clear, savers, evict, home, used, faults>>

-----------------------------------------------------------------------------
(* clearStoppedTasks: candidates and purge first, the locks afterwards.    *)

Picked == {i \in Ids : clear.picked[i] # 0}

ClearPicks ==
  /\ clear.at = "idle" /\ \E i \in Ids : mem[i].st \in Stopped
  /\ clear' = [NoClear EXCEPT !.at = "purge",
       !.picked = [i \in Ids |-> IF mem[i].st \in Stopped THEN mem[i].gid ELSE 0]]
  /\ UNCHANGED <<engine, manager, db, lock, watch, op, savers, evict, home, used, faults>>

\* One multicall. The rows it could not purge keep their tasks; when its
\* answer is lost, all of them do.
ClearPurges ==
  LET asked == {clear.picked[i] : i \in Picked}
      idle  == {g \in asked : row[g] # "live"}
      After == [g \in Gids |-> IF g \in idle THEN "none" ELSE row[g]]
      kept  == [i \in Ids |-> IF clear.picked[i] \in idle THEN clear.picked[i] ELSE 0]
  IN /\ clear.at = "purge"
     /\ \/ /\ row' = After /\ Fine
           /\ clear' = IF idle = {} THEN NoClear
                       ELSE [clear EXCEPT !.at = "lock", !.picked = kept]
        \/ Fault /\ row' \in {row, After} /\ clear' = NoClear
     /\ UNCHANGED <<bell, manager, db, lock, watch, op, savers, evict, home, used>>

\* runTaskMutation takes the locks in the order of the ids.
ClearLocks ==
  /\ clear.at = "lock"
  /\ \E i \in Picked \ clear.locked :
       /\ \A j \in Picked \ clear.locked : i <= j
       /\ lock[i] = "free" /\ lock' = [lock EXCEPT ![i] = "clear"]
       /\ clear' = [clear EXCEPT !.locked = @ \cup {i},
                                 !.at = IF Picked = clear.locked \cup {i} THEN "delete" ELSE "lock"]
  /\ UNCHANGED <<engine, manager, db, watch, op, savers, evict, home, used, faults>>

\* Candidates that changed meanwhile are left alone.
Clearable == {i \in Picked : mem[i].st \in Stopped /\ mem[i].gid = clear.picked[i]}

ClearDeletes ==
  /\ clear.at = "delete" /\ LaneFree
  /\ \/ /\ db' = [i \in Ids |-> IF i \in Clearable THEN NoTask ELSE db[i]]
        /\ Forget(Clearable) /\ Fine
     \/ Fault /\ UNCHANGED <<db, manager>>
  /\ lock' = [i \in Ids |-> IF i \in clear.locked THEN "free" ELSE lock[i]]
  /\ clear' = NoClear
  /\ UNCHANGED <<engine, watch, op, savers, evict, home, used>>

-----------------------------------------------------------------------------
\* Promise continuations run before anything else: between a write and its
\* publication nothing comes but the next operations of the lane.
InGap ==
  \/ \E w \in Watchers : watch[w].at \in {"publish", "adopted"}
  \/ op.at = "publish"

Looking(w) == \E g \in Gids : Skip(w, g) \/ Refresh(w, g) \/ Capture(w, g) \/ Adopt(w, g)
Laned(w)   == CommitWrite(w) \/ CommitPublish(w) \/ AdoptWrite(w) \/ AdoptPublish(w)

OpCalls ==
  \/ RemoveForces \/ RemovePurges \/ RetryHalts \/ RetryAdds \/ UndoHalts \/ UndoPurges
OpLaned ==
  \/ RemoveDeletes \/ RetryReserves \/ UndoWrites \/ RetryWrites \/ RetryPublishes

Next ==
  \/ \E w \in Watchers : Laned(w)
  \/ OpLaned \/ ClearDeletes
  \/ \E by \in {"auto", "req"} : SaveBegins(by)
  \/ /\ ~InGap
     /\ \/ \E g \in Gids : Fail(g) \/ Appear(g) \/ NoteReads(g) \/ Evict(g)
        \/ PollReads
        \/ \E w \in Watchers : Looking(w) \/ TakeLock(w)
        \/ SaveEnds
        \/ \E i \in Ids : Remove(i) \/ Retry(i)
        \/ OpCalls
        \/ ClearPicks \/ ClearPurges \/ ClearLocks

\* What has begun goes on: every call of the engine answers or times out, and
\* the lane and the locks are promise chains, which serve in the order of
\* arrival. Users, the engine and other clients owe nothing.
Fairness ==
  /\ \A w \in Watchers : SF_vars(Looking(w) \/ TakeLock(w) \/ Laned(w))
  /\ SF_vars(OpCalls \/ OpLaned)
  /\ SF_vars(ClearPurges \/ ClearLocks \/ ClearDeletes)
  /\ WF_vars(SaveEnds)

Spec == Init /\ [][Next]_vars /\ Fairness

-----------------------------------------------------------------------------
(* Properties.                                                             *)

\* A removed task comes back nowhere, and an engine id the application minted
\* is carried only by the task it was minted for: no late poll, late save,
\* commit that waited or compensation brings it back under any public id.
NeverReturns ==
  /\ \A i \in gone : mem[i] = NoTask /\ db[i] = NoTask
  /\ \A i \in Ids : \A t \in {mem[i], db[i]} :
       t # NoTask => home[t.gid] \in {Nobody, i}

\* Durable intent precedes the engine side effect, and outlives it: at any
\* moment a crash would find each download the application started on disk,
\* under the task it belongs to; and no shield hides its row from the polls for
\* longer than the retry that reserved its id.
LiveIsOwned ==
  \A g \in Gids : row[g] = "live" /\ home[g] # Nobody =>
    /\ db[home[g]].gid = g
    /\ IsShielded(g) => op.at \in Retrying /\ op.new = g

\* Nobody waits for ever, whichever call fails: each handler of a poll or of a
\* notification, and each action, comes to its end.
EverythingEnds ==
  /\ \A w \in Watchers : []<>(watch[w].at = "idle")
  /\ []<>(op.at = "idle") /\ []<>(clear.at = "idle")

=============================================================================
