------------------------ MODULE TaskOwnershipProofs ------------------------
(***************************************************************************)
(* Proofs about TaskOwnership: types, NeverReturns and LiveIsOwned, for    *)
(* any numbers of public ids, minted ids, foreign rows and faults.         *)
(*                                                                         *)
(* The invariant says in its last part what is wanted: the index, the disk *)
(* and a save under way name one task for every minted id that may run.    *)
(* The other parts are why no step breaks that: the locks, what the holder *)
(* of a lock saw, which rows are stopped for good, and which ids nobody    *)
(* can have seen yet.                                                      *)
(*                                                                         *)
(* A step is taken apart once: what it does to the engine's rows (RowStep, *)
(* UnseenStep), to TaskManager (ManagerStep), to the disk and to saves     *)
(* (DbStep, SnapStep), to the watchers (WatchStep) and to the action under *)
(* way (OpStep). Each part of the invariant is then one lemma over these.  *)
(***************************************************************************)
EXTENDS TaskOwnership, TLAPS

Late == {"add", "unhalt", "unpurge", "write", "publish"}

\* Who is at a step knows its task and its row.
Told ==
  /\ \A w \in Watchers :
       /\ watch[w].at # "idle" => watch[w].st # "none"
       /\ watch[w].at \notin {"idle", "look"} => watch[w].gid \in watch[w].todo /\ watch[w].id \in Ids
  /\ op.at # "idle" => op.id \in Ids /\ op.old \in Tasks
  /\ op.at \in Retrying => op.old.st \in Stopped
  /\ op.at \in Late => op.new \in Fresh
  /\ save.by = "none" => save = NotSaving

\* The locks and those who hold them.
Locked ==
  /\ \A i \in Ids : lock[i] = "op" <=> op.at # "idle" /\ op.id = i
  /\ \A i \in Ids : lock[i] = "clear" <=> i \in clear.locked
  /\ \A i \in Ids, w \in Watchers :
       lock[i] = w <=> watch[w].at \in {"write", "publish"} /\ watch[w].id = i
  /\ clear.at = "delete" => clear.locked = Picked
  /\ clear.at \in {"idle", "purge"} => clear.locked = {}

\* The index points at tasks that carry the id.
Indexed == \A g \in Gids : index[g] # Nobody => mem[index[g]] # NoTask /\ mem[index[g]].gid = g

\* A fresh id is carried by its task only.
Carried(i, t) == t # NoTask /\ t.gid \in Fresh => home[t.gid] = i

\* Nobody has seen an id before it is minted.
Unseen(g) == row[g] = "none" /\ g \notin bell /\ \A w \in Watchers : g \notin watch[w].todo

Minted ==
  /\ \A i \in Ids : Carried(i, mem[i]) /\ Carried(i, db[i]) /\ Carried(i, save.snap[i])
  /\ op.at # "idle" => Carried(op.id, op.old)
  /\ \A g \in Gids : home[g] # Nobody => g \in Fresh
  /\ \A g \in Fresh : home[g] # Nobody => IsShielded(g) \/ index[g] = home[g] \/ Unseen(g)

Secret ==
  /\ \A g \in Fresh : home[g] = Nobody => Unseen(g)
  /\ op.at = "add" => Unseen(op.new)

\* Public ids are given away once; a deleted task stays deleted.
Adopting(w) == watch[w].at \in {"adopt", "adopted"}

Given ==
  /\ gone \subseteq used
  /\ \A i \in Ids : mem[i] # NoTask => i \in used \ gone
  /\ \A i \in gone : db[i] = NoTask /\ save.snap[i] = NoTask
  /\ \A w \in Watchers : Adopting(w) =>
       /\ watch[w].id \in used \ gone /\ mem[watch[w].id] = NoTask
       /\ watch[w].gid \in Foreign
       /\ \A v \in Watchers \ {w} : Adopting(v) => watch[v].id # watch[w].id

\* Who holds the lock holds a task that is still the one it saw.
Current ==
  /\ \A w \in Watchers :
       watch[w].at \in {"write", "publish"} \/ (watch[w].at = "lock" /\ w \notin stale) =>
         mem[watch[w].id] # NoTask /\ mem[watch[w].id].gid = watch[w].gid
  /\ op.at \in Late => mem[op.id] = ReservedOwner /\ home[op.new] = op.id /\ op.new # op.old.gid
  /\ op.at \notin Late \cup {"idle"} => mem[op.id] # NoTask /\ mem[op.id].gid = op.old.gid
  /\ reserved = IF op.at \in Late THEN {op.new} ELSE {}

\* What is shown as stopped does not run.
Down(g) == g \in Fresh => row[g] # "live"

Halted ==
  /\ \A w \in Watchers : watch[w].at # "idle" /\ watch[w].st # "live" => \A g \in watch[w].todo : Down(g)
  /\ \A w \in Watchers : watch[w].at \in {"lock", "write", "publish"} => watch[w].st = "error"
  /\ \A i \in Ids : mem[i].st \in Stopped /\ ~(op.at \in Late /\ op.id = i) => Down(mem[i].gid)
  /\ op.at \in Retrying \cup {"delete"} => Down(op.old.gid)

\* What may run is owned.
Kept(g) ==
  /\ index[g] = home[g] /\ g \notin retired
  /\ db[home[g]].gid = g
  /\ \/ save.snap[home[g]] = NoTask
     \/ save.snap[home[g]].gid = g

Owned ==
  \A g \in Fresh : row[g] = "live" \/ (op.at \in Late /\ op.new = g) => Kept(g)

IInv == TypeOK /\ Told /\ Locked /\ Indexed /\ Minted /\ Secret /\ Given /\ Current /\ Halted /\ Owned

-----------------------------------------------------------------------------
(* Types.                                                                   *)

\* The null values are outside their sets; a record of an id and a status is a task.
LEMMA Constants ==
  /\ 0 \notin Gids /\ Fresh \subseteq Gids /\ Foreign \subseteq Gids
  /\ Nobody \notin Ids /\ NoTask \notin Tasks /\ NoTask.st = "none" /\ NoTask.gid = 0
  /\ \A t \in Tasks : t.gid \in Gids /\ t.st \in {"active", "error", "removed"}
  /\ \A g \in Gids, st \in {"active", "error", "removed"} :
       /\ [gid |-> g, st |-> st] \in Tasks
       /\ [gid |-> g, st |-> st].gid = g /\ [gid |-> g, st |-> st].st = st
BY OwnershipAssumption DEF Gids, Ids, Nobody, NoTask, Tasks

\* Where a watcher stands.
Watch == [at : {"idle", "look", "lock", "write", "publish", "adopt", "adopted"},
          todo : SUBSET Gids, st : {"none", "live", "error", "removed"},
          gid : Gids \cup {0}, id : Ids \cup {Nobody}]

\* The idle watcher.
LEMMA QuietTyped == Quiet \in Watch /\ Quiet.at = "idle" /\ Quiet.todo = {} /\ Quiet.st = "none"
BY Constants DEF Quiet, Watch

\* TypeOK says where each watcher stands.
LEMMA WatchTyped == ASSUME TypeOK PROVE watch \in [Watchers -> Watch]
BY DEF TypeOK, Watch

\* The loop of handlePolledTasks goes on: nothing is kept of the row it handled.
LEMMA DoneEffect ==
  ASSUME TypeOK, NEW w \in Watchers, NEW g \in Gids, Done(w, g)
  PROVE  /\ watch' \in [Watchers -> Watch]
         /\ \A v \in Watchers \ {w} : watch'[v] = watch[v]
         /\ \/ watch'[w].at = "idle"
            \/ watch'[w].at = "look" /\ watch'[w].st = watch[w].st
         /\ watch'[w].todo \subseteq watch[w].todo
<1> DEFINE left == watch[w].todo \ {g}
           next == [Quiet EXCEPT !.at = "look", !.todo = left, !.st = watch[w].st]
<1>1. watch \in [Watchers -> Watch]
  BY WatchTyped
<1>2. next \in Watch /\ next.at = "look" /\ next.todo = left /\ next.st = watch[w].st
  BY <1>1, QuietTyped DEF Watch
<1>3. watch' = [watch EXCEPT ![w] = IF left = {} THEN Quiet ELSE next]
  BY DEF Done
<1> HIDE DEF next
<1> QED
  BY <1>1, <1>2, <1>3, QuietTyped

\* A watcher goes on with a row.
LEMMA TurnsEffect ==
  ASSUME TypeOK, NEW w \in Watchers, NEW g \in Gids,
         NEW at \in {"lock", "write", "publish", "adopt", "adopted"}, NEW i \in Ids, Turns(w, g, at, i)
  PROVE  /\ watch' \in [Watchers -> Watch]
         /\ \A v \in Watchers \ {w} : watch'[v] = watch[v]
         /\ watch'[w].at = at /\ watch'[w].gid = g /\ watch'[w].id = i
         /\ watch'[w].st = watch[w].st /\ watch'[w].todo = watch[w].todo
<1>1. watch \in [Watchers -> Watch]
  BY WatchTyped
<1> QED
  BY <1>1 DEF Turns, Watch

\* The rows that stop, and nothing else.
Sinks ==
  /\ row' \in [Gids -> {"none", "live", "error", "removed"}] /\ bell' \subseteq Gids
  /\ \A g \in Gids : row'[g] = row[g] \/ (row[g] # "none" /\ row'[g] # "live")
  /\ \A g \in bell' : g \in bell \/ row[g] # "none"
  /\ faults' \in 0..MaxFaults

\* The bound on faults is kept.
LEMMA FaultsTyped ==
  ASSUME TypeOK, Fault \/ Fine
  PROVE  faults' \in 0..MaxFaults
BY OwnershipAssumption DEF TypeOK, Fault, Fine

\* A read takes the rows as they are now.
LEMMA ReadsEffect ==
  ASSUME TypeOK, PollReads \/ \E g \in Gids : NoteReads(g)
  PROVE  \E w \in Watchers :
           /\ watch[w].at = "idle" /\ \A v \in Watchers \ {w} : watch'[v] = watch[v]
           /\ \/ watch'[w] = watch[w]
              \/ /\ watch'[w].at = "look" /\ watch'[w].st # "none"
                 /\ \A h \in watch'[w].todo : row[h] = watch'[w].st
<1> DEFINE Saw(S, st) == [Quiet EXCEPT !.at = "look", !.todo = S, !.st = st]
<1>1. "poll" \in Watchers /\ "note" \in Watchers
  BY DEF Watchers
<1>2. \A S \in SUBSET Gids, st \in {"none", "live", "error", "removed"} :
        Saw(S, st).at = "look" /\ Saw(S, st).todo = S /\ Saw(S, st).st = st
  BY QuietTyped DEF Watch
<1>3. CASE PollReads
  <2> DEFINE S == {g \in Gids : row[g] = "live"}
  <2>1. /\ watch["poll"].at = "idle"
        /\ watch' = [watch EXCEPT !["poll"] = Saw(S, "live")]
    BY <1>3 DEF PollReads
  <2>2. Saw(S, "live").at = "look" /\ Saw(S, "live").todo = S /\ Saw(S, "live").st = "live"
    BY <1>2
  <2>3. \A h \in S : row[h] = "live"
    OBVIOUS
  <2> HIDE DEF Saw, S
  <2>4. watch'["poll"] = Saw(S, "live") /\ \A v \in Watchers \ {"poll"} : watch'[v] = watch[v]
    BY <1>1, <2>1, WatchTyped
  <2> QED
    BY <1>1, <2>1, <2>2, <2>3, <2>4
<1>4. ASSUME NEW g \in Gids, NoteReads(g)
      PROVE  /\ watch["note"].at = "idle" /\ \A v \in Watchers \ {"note"} : watch'[v] = watch[v]
             /\ \/ watch'["note"] = watch["note"]
                \/ /\ watch'["note"].at = "look" /\ watch'["note"].st # "none"
                   /\ \A h \in watch'["note"].todo : row[h] = watch'["note"].st
  <2>1. watch["note"].at = "idle"
    BY <1>4 DEF NoteReads
  <2>2. \/ watch' = watch
        \/ row[g] # "none" /\ watch' = [watch EXCEPT !["note"] = Saw({g}, row[g])]
    BY <1>4 DEF NoteReads
  <2>3. Saw({g}, row[g]).at = "look" /\ Saw({g}, row[g]).todo = {g} /\ Saw({g}, row[g]).st = row[g]
    BY <1>2 DEF TypeOK
  <2> HIDE DEF Saw
  <2>4. CASE watch' = watch
    BY <1>1, <2>1, <2>4
  <2>5. CASE row[g] # "none" /\ watch' = [watch EXCEPT !["note"] = Saw({g}, row[g])]
    <3>1. watch'["note"] = Saw({g}, row[g]) /\ \A v \in Watchers \ {"note"} : watch'[v] = watch[v]
      BY <1>1, <2>5, WatchTyped
    <3> QED
      BY <2>1, <2>3, <2>5, <3>1
  <2> QED
    BY <2>2, <2>4, <2>5
<1> QED
  BY <1>1, <1>3, <1>4

\* The multicall of Clear stopped: it keeps some of the candidates, or gives up.
LEMMA ClearPurgesEffect ==
  ASSUME TypeOK, ClearPurges
  PROVE  /\ \/ clear'.at = "idle" /\ clear'.locked = {}
            \/ clear'.at = "lock" /\ clear'.locked = clear.locked
         /\ UNCHANGED <<bell, manager, db, lock, watch, op, savers, evict, home, used>>
         /\ Sinks
<1> DEFINE kept  == [i \in Ids |-> IF clear.picked[i] \in {g \in {clear.picked[j] : j \in Picked} : row[g] # "live"}
                                    THEN clear.picked[i] ELSE 0]
           After == [g \in Gids |-> IF g \in {h \in {clear.picked[j] : j \in Picked} : row[h] # "live"}
                                    THEN "none" ELSE row[g]]
<1>1. clear' = NoClear \/ clear' = [clear EXCEPT !.at = "lock", !.picked = kept]
  BY DEF ClearPurges
<1>2. row' = row \/ row' = After
  BY DEF ClearPurges
<1>3. faults' \in 0..MaxFaults
  BY FaultsTyped DEF ClearPurges
<1>4. After \in [Gids -> {"none", "live", "error", "removed"}]
      /\ \A g \in Gids : After[g] = row[g] \/ (row[g] # "none" /\ After[g] # "live") \/ (row[g] = "none" /\ After[g] = "none")
  BY DEF TypeOK
<1>8. kept \in [Ids -> Gids \cup {0}]
  BY DEF TypeOK
<1> HIDE DEF kept, After
<1>5. UNCHANGED <<bell, manager, db, lock, watch, op, savers, evict, home, used>>
  BY DEF ClearPurges
<1>6. Sinks
  BY <1>2, <1>3, <1>4, <1>5 DEF TypeOK, Sinks
<1>7. \/ clear'.at = "idle" /\ clear'.locked = {}
      \/ clear'.at = "lock" /\ clear'.locked = clear.locked
  <2>1. CASE clear' = NoClear
    BY <2>1 DEF NoClear
  <2>2. CASE clear' = [clear EXCEPT !.at = "lock", !.picked = kept]
    BY <1>8, <2>2 DEF TypeOK
  <2> QED
    BY <1>1, <2>1, <2>2
<1> QED
  BY <1>5, <1>6, <1>7

\* TaskManager.store: what becomes of the task, the index, the shields and the watchers.
LEMMA StoreEffect ==
  ASSUME TypeOK, NEW i \in Ids, NEW t \in Tasks, NEW kept \in SUBSET Gids, Store(i, t, kept)
  PROVE  /\ mem' \in [Ids -> Tasks \cup {NoTask}] /\ index' \in [Gids -> Ids \cup {Nobody}]
         /\ mem'[i] = t /\ \A j \in Ids \ {i} : mem'[j] = mem[j]
         /\ index'[t.gid] = i
         /\ \A g \in Gids \ {t.gid} : index'[g] = IF index[g] = i THEN Nobody ELSE index[g]
         /\ retired' \subseteq Gids /\ t.gid \notin retired'
         /\ \A g \in Gids \ {t.gid} : g \in retired' <=> g \in retired \/ index[g] = i
         /\ reserved' = kept /\ reserved' \subseteq Gids
         /\ stale' \subseteq Watchers /\ stale \subseteq stale'
         /\ \A w \in Watchers : watch[w].at = "lock" /\ watch[w].id = i => w \in stale'
         /\ gone' = gone
<1>1. t.gid \in Gids
  BY Constants
<1> QED
  BY <1>1 DEF TypeOK, Store, Held, Outdate

\* Deleting tasks from TaskManager retires their engine ids.
LEMMA ForgetEffect ==
  ASSUME TypeOK, NEW S \in SUBSET Ids, Forget(S)
  PROVE  /\ mem' \in [Ids -> Tasks \cup {NoTask}] /\ index' \in [Gids -> Ids \cup {Nobody}]
         /\ \A j \in Ids : mem'[j] = IF j \in S THEN NoTask ELSE mem[j]
         /\ \A g \in Gids : index'[g] = IF index[g] \in S THEN Nobody ELSE index[g]
         /\ retired' \subseteq Gids
         /\ \A g \in Gids : g \in retired' <=> g \in retired \/ index[g] \in S
         /\ reserved' = reserved
         /\ stale' \subseteq Watchers /\ stale \subseteq stale'
         /\ \A w \in Watchers : watch[w].at = "lock" /\ watch[w].id \in S => w \in stale'
         /\ gone' = gone \cup S
BY DEF TypeOK, Forget, Held

\* forceRemoveTask only stops rows.
LEMMA ForceRemoveEffect ==
  ASSUME TypeOK, NEW g \in Gids, ForceRemove(g)
  PROVE  Sinks
<1>1. faults' \in 0..MaxFaults
  BY FaultsTyped DEF ForceRemove
<1>2. CASE UNCHANGED engine
  BY <1>1, <1>2 DEF TypeOK, Sinks, engine
<1>3. CASE /\ row' = IF row[g] = "live" THEN [row EXCEPT ![g] = "removed"] ELSE row
           /\ bell' = IF row[g] = "live" THEN bell \cup {g} ELSE bell
  BY <1>1, <1>3 DEF TypeOK, Sinks
<1> QED
  BY <1>2, <1>3 DEF ForceRemove

\* removeDownloadResult only takes stopped rows away; a success leaves none.
LEMMA PurgesEffect ==
  ASSUME TypeOK, NEW g \in Gids, NEW ok \in BOOLEAN, Purges(g, ok), UNCHANGED bell
  PROVE  Sinks /\ (ok => row[g] # "live" /\ row'[g] # "live")
<1>1. faults' \in 0..MaxFaults
  BY FaultsTyped DEF Purges
<1>2. \/ row[g] # "live" /\ row' = [row EXCEPT ![g] = "none"]
      \/ ~ok /\ UNCHANGED row
  BY DEF Purges
<1>3. CASE ~ok /\ UNCHANGED row
  BY <1>1, <1>3 DEF TypeOK, Sinks
<1>4. CASE row[g] # "live" /\ row' = [row EXCEPT ![g] = "none"]
  BY <1>1, <1>4 DEF TypeOK, Sinks
<1> QED
  BY <1>1, <1>2, <1>3, <1>4

-----------------------------------------------------------------------------
\* The types hold initially.
LEMMA TypeInit == Init => TypeOK
<1> SUFFICES ASSUME Init PROVE TypeOK
  OBVIOUS
<1>1. op \in [at : {"idle", "force", "purge", "delete"} \cup Retrying, id : Ids \cup {Nobody},
              old : Tasks \cup {NoTask}, new : Gids \cup {0}]
  BY DEF Init, NoOp
<1>2. clear \in [at : {"idle", "purge", "lock", "delete"}, picked : [Ids -> Gids \cup {0}],
                 locked : SUBSET Ids]
  BY DEF Init, NoClear
<1>3. save \in [by : {"none", "auto", "req"}, snap : [Ids -> Tasks \cup {NoTask}]]
  BY DEF Init, NotSaving
<1>4. watch \in [Watchers -> Watch]
  BY QuietTyped DEF Init
<1>5. faults \in 0..MaxFaults
  BY OwnershipAssumption DEF Init
<1> QED
  BY <1>1, <1>2, <1>3, <1>4, <1>5 DEF Init, TypeOK, Watch

\* An action under way knows its task.
LEMMA OpTyped ==
  ASSUME TypeOK, Told, op.at # "idle"
  PROVE  /\ op.id \in Ids /\ op.old \in Tasks /\ op.old.gid \in Gids
         /\ op.at \in Late => op.new \in Gids
BY Constants DEF TypeOK, Told

\* A watcher past its look knows its task and its row.
LEMMA WatchingTyped ==
  ASSUME TypeOK, Told, NEW w \in Watchers, watch[w].at \notin {"idle", "look"}
  PROVE  watch[w].id \in Ids /\ watch[w].gid \in Gids
BY DEF TypeOK, Told

\* The engine and its other clients keep the types.
LEMMA TypeSurroundings ==
  ASSUME IInv, NEW g \in Gids, Fail(g) \/ Appear(g) \/ Evict(g)
  PROVE  TypeOK'
<1> USE DEF IInv
<1>1. CASE Fail(g)
  BY <1>1 DEF TypeOK, Fail, manager, acts, savers
<1>2. CASE Appear(g)
  BY <1>2 DEF TypeOK, Appear, manager, acts, savers
<1>3. CASE Evict(g)
  BY <1>3, PurgesEffect DEF TypeOK, Evict, Sinks, manager, acts, savers
<1> QED
  BY <1>1, <1>2, <1>3

\* A poll or notification that is read keeps the types.
LEMMA TypeReads ==
  ASSUME IInv, PollReads \/ \E g \in Gids : NoteReads(g)
  PROVE  TypeOK'
<1>1. watch' \in [Watchers -> Watch] /\ bell' \subseteq Gids
  <2>1. \A S \in SUBSET Gids, st \in {"live", "none", "error", "removed"} :
          [Quiet EXCEPT !.at = "look", !.todo = S, !.st = st] \in Watch
    BY QuietTyped DEF Watch
  <2>2. CASE PollReads
    BY <2>1, <2>2, WatchTyped DEF IInv, TypeOK, PollReads, engine
  <2>3. ASSUME NEW g \in Gids, NoteReads(g)
        PROVE  watch' \in [Watchers -> Watch] /\ bell' \subseteq Gids
    <3> DEFINE q == [Quiet EXCEPT !.at = "look", !.todo = {g}, !.st = row[g]]
    <3>1. row[g] \in {"live", "none", "error", "removed"} /\ bell \subseteq Gids
      BY DEF IInv, TypeOK
    <3>2. q \in Watch
      BY <2>1, <3>1
    <3>3. /\ bell' = bell \ {g}
          /\ UNCHANGED watch \/ watch' = [watch EXCEPT !["note"] = q]
      BY <2>3 DEF NoteReads
    <3> HIDE DEF q
    <3>4. watch \in [Watchers -> Watch]
      BY WatchTyped DEF IInv
    <3> QED
      BY <3>1, <3>2, <3>3, <3>4
  <2> QED
    BY <2>2, <2>3
<1>2. UNCHANGED <<row, mem, db, index, home, reserved, retired, used, gone, lock, stale, op, clear,
                  save, req, evict, faults>>
  BY DEF PollReads, NoteReads, engine, manager, acts, savers
<1> QED
  BY <1>1, <1>2 DEF IInv, TypeOK, Watch

\* Looking at a row keeps the types.
LEMMA TypeLooks ==
  ASSUME IInv, NEW w \in Watchers, NEW g \in Gids,
         Skip(w, g) \/ Refresh(w, g) \/ Capture(w, g) \/ Adopt(w, g)
  PROVE  TypeOK'
<1> USE DEF IInv
<1>1. CASE Skip(w, g)
  BY <1>1, DoneEffect DEF Skip, TypeOK, Watch, engine, manager, acts, savers
<1>2. CASE Refresh(w, g)
  <2> DEFINE t == [mem[index[g]] EXCEPT !.st = IF watch[w].st = "live" THEN "active" ELSE watch[w].st]
  <2>1. t \in Tasks /\ t.gid = mem[index[g]].gid /\ index[g] \in Ids
    BY <1>2 DEF Refresh, TypeOK, Told, Looks, Tasks
  <2>2. Store(index[g], t, reserved \ {t.gid}) /\ reserved \ {t.gid} \in SUBSET Gids
    BY <1>2 DEF Refresh, Publish, TypeOK
  <2>3. Done(w, g) /\ UNCHANGED <<engine, db, lock, acts, savers, evict, home, used, faults>>
    BY <1>2 DEF Refresh
  <2> HIDE DEF t
  <2> QED
    BY <2>1, <2>2, <2>3, DoneEffect, StoreEffect DEF TypeOK, Watch, engine, acts, savers
<1>3. CASE Capture(w, g)
  <2>1. watch' \in [Watchers -> Watch] /\ lock' \in [Ids -> {"free", "op", "clear"} \cup Watchers]
    <3>1. index[g] \in Ids
      BY <1>3 DEF Capture, TypeOK
    <3>2. CASE lock[index[g]] = "free"
      <4>1. lock' = [lock EXCEPT ![index[g]] = w] /\ Turns(w, g, "write", index[g])
        BY <1>3, <3>2 DEF Capture
      <4> QED
        BY <3>1, <4>1, TurnsEffect DEF TypeOK
    <3>3. CASE lock[index[g]] # "free"
      <4>1. lock' = lock /\ Turns(w, g, "lock", index[g])
        BY <1>3, <3>3 DEF Capture
      <4> QED
        BY <3>1, <4>1, TurnsEffect DEF TypeOK
    <3> QED
      BY <3>2, <3>3
  <2> QED
    BY <1>3, <2>1 DEF Capture, TypeOK, Watch, engine, manager, acts, savers
<1>4. CASE Adopt(w, g)
  BY <1>4, TurnsEffect DEF Adopt, TypeOK, Watch, engine, manager, acts, savers
<1> QED
  BY <1>1, <1>2, <1>3, <1>4

\* Committing and adopting a row keep the types.
LEMMA TypeWatches ==
  ASSUME IInv, NEW w \in Watchers,
         TakeLock(w) \/ CommitWrite(w) \/ CommitPublish(w) \/ AdoptWrite(w) \/ AdoptPublish(w)
  PROVE  TypeOK'
<1> DEFINE i == watch[w].id
           g == watch[w].gid
<1> USE DEF IInv
<1>1. i \in Ids /\ g \in Gids
  BY WatchingTyped DEF TakeLock, CommitWrite, CommitPublish, AdoptWrite, AdoptPublish
<1>2. Discovered(w) \in Tasks /\ Discovered(w).gid = g /\ [gid |-> g, st |-> "error"] \in Tasks
  <2>1. watch[w].st # "none"
    BY DEF Told, TakeLock, CommitWrite, CommitPublish, AdoptWrite, AdoptPublish
  <2>2. (IF watch[w].st = "live" THEN "active" ELSE watch[w].st) \in {"active", "error", "removed"}
    BY <2>1 DEF TypeOK
  <2> QED
    BY <1>1, <2>2, Constants DEF Discovered
<1>3. CASE TakeLock(w)
  <2>1. lock' \in [Ids -> {"free", "op", "clear"} \cup Watchers]
    BY <1>1, <1>3 DEF TakeLock, TypeOK
  <2>2. watch' \in [Watchers -> Watch] /\ stale' \subseteq Watchers
    BY <1>1, <1>3, DoneEffect, TurnsEffect DEF TakeLock, TypeOK
  <2> QED
    BY <1>3, <2>1, <2>2 DEF TakeLock, TypeOK, Watch, engine, acts, savers
<1>4. CASE CommitWrite(w)
  <2>1. lock' \in [Ids -> {"free", "op", "clear"} \cup Watchers]
    BY <1>1, <1>4 DEF CommitWrite, Release, TypeOK
  <2>2. watch' \in [Watchers -> Watch] /\ faults' \in 0..MaxFaults
    BY <1>1, <1>4, DoneEffect, TurnsEffect, FaultsTyped DEF CommitWrite
  <2>3. db' \in [Ids -> Tasks \cup {NoTask}]
    BY <1>1, <1>2, <1>4 DEF CommitWrite, TypeOK
  <2> QED
    BY <1>4, <2>1, <2>2, <2>3 DEF CommitWrite, TypeOK, Watch, engine, manager, acts, savers
<1>5. CASE CommitPublish(w)
  <2>1. lock' \in [Ids -> {"free", "op", "clear"} \cup Watchers]
    BY <1>1, <1>5 DEF CommitPublish, Release, TypeOK
  <2>2. watch' \in [Watchers -> Watch]
    BY <1>1, <1>5, DoneEffect DEF CommitPublish
  <2>3. Store(i, [gid |-> g, st |-> "error"], reserved \ {g})
    BY <1>5 DEF CommitPublish, Publish
  <2> QED
    BY <1>1, <1>2, <1>5, <2>1, <2>2, <2>3, StoreEffect
       DEF CommitPublish, TypeOK, Watch, engine, acts
<1>6. CASE AdoptWrite(w)
  <2>1. watch' \in [Watchers -> Watch] /\ faults' \in 0..MaxFaults
    BY <1>1, <1>6, DoneEffect, TurnsEffect, FaultsTyped DEF AdoptWrite
  <2>2. db' \in [Ids -> Tasks \cup {NoTask}]
    BY <1>1, <1>2, <1>6 DEF AdoptWrite, Written, TypeOK
  <2> QED
    BY <1>6, <2>1, <2>2 DEF AdoptWrite, TypeOK, Watch, engine, manager, acts, savers
<1>7. CASE AdoptPublish(w)
  <2>1. watch' \in [Watchers -> Watch]
    BY <1>1, <1>7, DoneEffect DEF AdoptPublish
  <2>2. Store(i, Discovered(w), reserved \ {g})
    BY <1>2, <1>7 DEF AdoptPublish, Publish
  <2> QED
    BY <1>1, <1>2, <1>7, <2>1, <2>2, StoreEffect
       DEF AdoptPublish, TypeOK, Watch, engine, acts, savers
<1> QED
  BY <1>3, <1>4, <1>5, <1>6, <1>7

\* Saves keep the types.
LEMMA TypeSaves ==
  ASSUME IInv, SaveEnds \/ \E by \in {"auto", "req"} : SaveBegins(by)
  PROVE  TypeOK'
<1> USE DEF IInv
<1>1. ASSUME NEW by \in {"auto", "req"}, SaveBegins(by)
      PROVE  TypeOK'
  <2>1. \A i \in Ids : mem[i] \in Tasks \cup {NoTask}
    BY DEF TypeOK
  <2>2. save' \in [by : {"none", "auto", "req"}, snap : [Ids -> Tasks \cup {NoTask}]]
    BY <1>1, <2>1 DEF SaveBegins
  <2> QED
    BY <1>1, <2>2 DEF SaveBegins, TypeOK, engine, manager, acts
<1>2. CASE SaveEnds
  <2>1. db' \in [Ids -> Tasks \cup {NoTask}] /\ faults' \in 0..MaxFaults
    BY <1>2, FaultsTyped DEF SaveEnds, TypeOK
  <2>2. save' \in [by : {"none", "auto", "req"}, snap : [Ids -> Tasks \cup {NoTask}]]
    BY <1>2 DEF SaveEnds, NotSaving
  <2>3. req' \in BOOLEAN /\ evict' \in [Gids -> {"none", "saving", "purge"}]
    <3>1. CASE save.by = "req"
      <4>1. req' = FALSE /\ evict' = [g \in Gids |-> IF evict[g] = "saving" THEN "purge" ELSE evict[g]]
        BY <1>2, <3>1 DEF SaveEnds
      <4> QED
        BY <4>1 DEF TypeOK
    <3>2. CASE save.by # "req"
      BY <1>2, <3>2 DEF SaveEnds, TypeOK
    <3> QED
      BY <3>1, <3>2
  <2>4. UNCHANGED <<engine, manager, lock, watch, acts, home, used>>
    BY <1>2 DEF SaveEnds
  <2> QED
    BY <2>1, <2>2, <2>3, <2>4 DEF TypeOK, engine, manager, acts
<1> QED
  BY <1>1, <1>2

\* Where Remove and Retry stand.
Op == [at : {"idle", "force", "purge", "delete"} \cup Retrying, id : Ids \cup {Nobody},
       old : Tasks \cup {NoTask}, new : Gids \cup {0}]

\* No action is under way.
LEMMA NoOpTyped == NoOp \in Op /\ NoOp.at = "idle"
BY DEF NoOp, Op

\* An action goes on.
LEMMA GoesEffect ==
  ASSUME TypeOK, NEW at \in {"idle", "force", "purge", "delete"} \cup Retrying, Goes(at)
  PROVE  op' \in Op /\ op'.at = at /\ op'.id = op.id /\ op'.old = op.old /\ op'.new = op.new
BY DEF TypeOK, Goes, Op

\* The lock of the task is given back.
Unlocks(i) ==
  /\ lock' \in [Ids -> {"free", "op", "clear"} \cup Watchers]
  /\ lock'[i] = "free" /\ \A j \in Ids \ {i} : lock'[j] = lock[j]

\* A released lock is free; the others are as before.
LEMMA ReleaseEffect ==
  ASSUME TypeOK, NEW i \in Ids, Release(i)
  PROVE  Unlocks(i)
BY DEF TypeOK, Release, Unlocks

\* An action that ends gives its lock back.
LEMMA EndsEffect ==
  ASSUME TypeOK, Told, op.at # "idle", Ends
  PROVE  op' \in Op /\ op'.at = "idle" /\ Unlocks(op.id)
BY NoOpTyped, OpTyped, ReleaseEffect DEF Ends

\* An action that begins has the lock of its task.
LEMMA BeginsEffect ==
  ASSUME TypeOK, NEW i \in Ids, NEW at \in {"force", "purge", "halt"}, Begins(i, at)
  PROVE  /\ op' \in Op /\ op'.at = at /\ op'.id = i /\ op'.old = mem[i]
         /\ mem[i] \in Tasks
         /\ lock' \in [Ids -> {"free", "op", "clear"} \cup Watchers]
         /\ lock'[i] = "op" /\ \A j \in Ids \ {i} : lock'[j] = lock[j]
<1>1. mem[i] \in Tasks
  BY DEF Begins, TypeOK
<1>2. op' \in Op /\ op'.at = at /\ op'.id = i /\ op'.old = mem[i]
  <2>1. at \in {"idle", "force", "purge", "delete"} \cup Retrying
    BY DEF Retrying
  <2> QED
    BY <1>1, <2>1, NoOpTyped DEF Begins, Op
<1> QED
  BY <1>1, <1>2 DEF Begins, TypeOK

\* commitTaskUpdate goes on, or ends the action.
LEMMA CommitsEffect ==
  ASSUME TypeOK, Told, op.at # "idle", Commits
  PROVE  /\ op' \in Op /\ lock' \in [Ids -> {"free", "op", "clear"} \cup Watchers]
         /\ \/ op'.at = "write" /\ op'.id = op.id /\ op'.old = op.old /\ op'.new = op.new /\ lock' = lock
            \/ op'.at = "idle" /\ Unlocks(op.id)
<1>1. CASE mem[op.id] \in {ReservedOwner, Candidate}
  <2>1. Goes("write") /\ UNCHANGED lock /\ "write" \in Retrying
    BY <1>1 DEF Commits, Retrying
  <2> QED
    BY <2>1, GoesEffect DEF TypeOK
<1>2. CASE mem[op.id] \notin {ReservedOwner, Candidate}
  BY <1>2, EndsEffect DEF Commits, Unlocks
<1> QED
  BY <1>1, <1>2

\* removeTask keeps the types.
LEMMA TypeRemoves ==
  ASSUME IInv,
         (\E i \in Ids : Remove(i)) \/ RemoveForces \/ RemovePurges \/ RemoveDeletes
  PROVE  TypeOK'
<1> USE DEF IInv
<1>1. ASSUME NEW i \in Ids, Remove(i)
      PROVE  TypeOK'
  <2>1. PICK at \in {"force", "purge", "halt"} : Begins(i, at)
    BY <1>1 DEF Remove
  <2> QED
    BY <2>1, BeginsEffect DEF Begins, TypeOK, Op, engine, manager, savers
<1>2. CASE RemoveForces
  <2>1. op.at # "idle"
    BY <1>2 DEF RemoveForces
  <2> QED
    BY <1>2, <2>1, OpTyped, ForceRemoveEffect, GoesEffect
       DEF RemoveForces, Sinks, TypeOK, Op, manager, savers
<1>3. CASE RemovePurges
  <2>1. op.at # "idle" /\ op.old.gid \in Gids
    BY <1>3, OpTyped DEF RemovePurges
  <2>2. Sinks
    BY <1>3, <2>1, PurgesEffect DEF RemovePurges
  <2>3. op' \in Op /\ lock' \in [Ids -> {"free", "op", "clear"} \cup Watchers]
    BY <1>3, <2>1, GoesEffect, EndsEffect DEF RemovePurges, Unlocks, TypeOK
  <2> QED
    BY <1>3, <2>2, <2>3 DEF RemovePurges, Sinks, TypeOK, Op, manager, savers
<1>4. CASE RemoveDeletes
  <2>1. op.at # "idle" /\ op.id \in Ids
    BY <1>4, OpTyped DEF RemoveDeletes
  <2>2. op' \in Op /\ lock' \in [Ids -> {"free", "op", "clear"} \cup Watchers]
    BY <1>4, <2>1, EndsEffect DEF RemoveDeletes, Unlocks
  <2>3. faults' \in 0..MaxFaults
    BY <1>4, FaultsTyped DEF RemoveDeletes
  <2>4. CASE db' = [db EXCEPT ![op.id] = NoTask] /\ Forget({op.id})
    <3>1. db' \in [Ids -> Tasks \cup {NoTask}] /\ {op.id} \in SUBSET Ids
      BY <2>1, <2>4 DEF TypeOK
    <3>2. UNCHANGED <<engine, watch, clear, savers, evict, home, used>>
      BY <1>4 DEF RemoveDeletes
    <3>3. gone' \subseteq Ids /\ reserved' \subseteq Gids
      BY <2>4, <3>1, ForgetEffect DEF TypeOK
    <3> QED
      BY <2>2, <2>3, <2>4, <3>1, <3>2, <3>3, ForgetEffect DEF TypeOK, Op, engine, savers
  <2>5. CASE UNCHANGED <<db, manager>>
    BY <1>4, <2>2, <2>3, <2>5 DEF RemoveDeletes, TypeOK, Op, engine, manager, savers
  <2> QED
    BY <1>4, <2>4, <2>5 DEF RemoveDeletes
<1> QED
  BY <1>1, <1>2, <1>3, <1>4

\* reAddTask keeps the types up to the add.
LEMMA TypeRetries ==
  ASSUME IInv, (\E i \in Ids : Retry(i)) \/ RetryHalts \/ RetryReserves \/ RetryAdds
  PROVE  TypeOK'
<1> USE DEF IInv
<1>1. ASSUME NEW i \in Ids, Retry(i)
      PROVE  TypeOK'
  <2>1. PICK at \in {"force", "purge", "halt"} : Begins(i, at)
    BY <1>1 DEF Retry
  <2> QED
    BY <2>1, BeginsEffect DEF Begins, TypeOK, Op, engine, manager, savers
<1>2. CASE RetryHalts
  <2>1. op.at # "idle" /\ "reserve" \in Retrying
    BY <1>2 DEF RetryHalts, Retrying
  <2> QED
    BY <1>2, <2>1, OpTyped, ForceRemoveEffect, GoesEffect
       DEF RetryHalts, Sinks, TypeOK, Op, manager, savers
<1>3. CASE RetryReserves
  <2>1. op.at # "idle" /\ op.id \in Ids /\ op.old \in Tasks
    BY <1>3, OpTyped DEF RetryReserves
  <2>2. PICK g \in Fresh :
          /\ home' = [home EXCEPT ![g] = op.id]
          /\ \/ /\ db' = [db EXCEPT ![op.id] = [gid |-> g, st |-> "active"]]
                /\ Store(op.id, [gid |-> g, st |-> op.old.st], reserved \cup {g})
                /\ op' = [op EXCEPT !.at = "add", !.new = g] /\ UNCHANGED lock
             \/ UNCHANGED <<db, manager>> /\ Ends
    BY <1>3 DEF RetryReserves
  <2>3. /\ g \in Gids /\ reserved \cup {g} \in SUBSET Gids
        /\ [gid |-> g, st |-> "active"] \in Tasks /\ [gid |-> g, st |-> op.old.st] \in Tasks
    <3>1. g \in Gids /\ "active" \in {"active", "error", "removed"}
      BY Constants
    <3>2. op.old.st \in {"active", "error", "removed"}
      BY <2>1, Constants
    <3>3. reserved \cup {g} \in SUBSET Gids
      BY <3>1 DEF TypeOK
    <3> QED
      BY <3>1, <3>2, <3>3, Constants
  <2>4. faults' \in 0..MaxFaults
    BY <1>3, FaultsTyped DEF RetryReserves
  <2>5. home' \in [Gids -> Ids \cup {Nobody}]
    BY <2>1, <2>2, <2>3 DEF TypeOK
  <2>6. UNCHANGED <<engine, watch, clear, savers, evict, used>>
    BY <1>3 DEF RetryReserves
  <2>7. CASE UNCHANGED <<db, manager>> /\ Ends
    BY <2>1, <2>4, <2>5, <2>6, <2>7, EndsEffect DEF TypeOK, Op, Unlocks, engine, manager, savers
  <2>8. CASE /\ db' = [db EXCEPT ![op.id] = [gid |-> g, st |-> "active"]]
             /\ Store(op.id, [gid |-> g, st |-> op.old.st], reserved \cup {g})
             /\ op' = [op EXCEPT !.at = "add", !.new = g] /\ UNCHANGED lock
    <3>1. op' \in Op
      BY <2>3, <2>8 DEF TypeOK, Op, Retrying
    <3>2. db' \in [Ids -> Tasks \cup {NoTask}]
      BY <2>1, <2>3, <2>8 DEF TypeOK
    <3> QED
      BY <2>1, <2>3, <2>4, <2>5, <2>6, <2>8, <3>1, <3>2, StoreEffect DEF TypeOK, Op, engine, savers
  <2> QED
    BY <2>2, <2>7, <2>8
<1>4. CASE RetryAdds
  <2>1. op.at # "idle" /\ op.new \in Gids
    BY <1>4, OpTyped DEF RetryAdds, Late
  <2>2. op' \in Op /\ lock' \in [Ids -> {"free", "op", "clear"} \cup Watchers]
    <3>1. CASE Commits
      BY <2>1, <3>1, CommitsEffect
    <3>2. CASE Goes("unhalt") /\ UNCHANGED lock
      <4>1. "unhalt" \in Retrying
        BY DEF Retrying
      <4> QED
        BY <3>2, <4>1, GoesEffect DEF TypeOK
    <3> QED
      BY <1>4, <3>1, <3>2 DEF RetryAdds
  <2>3. row' \in [Gids -> {"none", "live", "error", "removed"}] /\ faults' \in 0..MaxFaults
    BY <1>4, <2>1, FaultsTyped DEF RetryAdds, TypeOK
  <2> QED
    BY <1>4, <2>2, <2>3 DEF RetryAdds, TypeOK, Op, manager, savers
<1> QED
  BY <1>1, <1>2, <1>3, <1>4

\* The rest of reAddTask and its compensation keep the types.
LEMMA TypeUndoes ==
  ASSUME IInv, UndoHalts \/ UndoPurges \/ UndoWrites \/ RetryWrites \/ RetryPublishes
  PROVE  TypeOK'
<1> USE DEF IInv
<1>1. /\ op.at # "idle" /\ op.id \in Ids /\ op.old \in Tasks
      /\ ~UndoWrites => op.new \in Gids /\ Candidate \in Tasks /\ Candidate.gid = op.new
  <2>1. op.at # "idle" /\ (~UndoWrites => op.at \in Late)
    BY DEF UndoHalts, UndoPurges, UndoWrites, RetryWrites, RetryPublishes, Late
  <2> QED
    BY <2>1, OpTyped, Constants DEF Candidate
<1>2. {"unpurge", "undo", "publish"} \subseteq Retrying
  BY DEF Retrying
<1>3. CASE UndoHalts
  <2>1. op.new \in Gids
    BY <1>1, <1>3 DEF UndoHalts, UndoWrites
  <2> QED
    BY <1>2, <1>3, <2>1, ForceRemoveEffect, GoesEffect
       DEF UndoHalts, Sinks, TypeOK, Op, manager, savers
<1>4. CASE UndoPurges
  <2>1. op.new \in Gids
    BY <1>1, <1>4 DEF UndoPurges, UndoWrites
  <2>2. Sinks
    BY <1>4, <2>1, PurgesEffect DEF UndoPurges
  <2>3. UNCHANGED <<bell, db, watch, clear, savers, evict, home, used>>
    BY <1>4 DEF UndoPurges
  <2>4. CASE Store(op.id, op.old, reserved \ {op.new}) /\ Goes("undo") /\ UNCHANGED lock
    <3>1. reserved \ {op.new} \in SUBSET Gids
      BY DEF TypeOK
    <3> QED
      BY <1>1, <1>2, <2>2, <2>3, <2>4, <3>1, StoreEffect, GoesEffect DEF Sinks, TypeOK, Op, savers
  <2>5. CASE UNCHANGED manager /\ Commits
    BY <1>1, <2>2, <2>3, <2>5, CommitsEffect DEF Sinks, TypeOK, Op, manager, savers
  <2> QED
    BY <1>4, <2>4, <2>5 DEF UndoPurges
<1>5. CASE UndoWrites
  <2>1. db' \in [Ids -> Tasks \cup {NoTask}] /\ faults' \in 0..MaxFaults
    BY <1>1, <1>5, FaultsTyped DEF UndoWrites, Written, TypeOK
  <2> QED
    BY <1>1, <1>5, <2>1, EndsEffect DEF UndoWrites, Unlocks, TypeOK, Op, engine, manager, savers
<1>6. CASE RetryWrites
  <2>1. Candidate \in Tasks
    BY <1>1, <1>6 DEF RetryWrites, UndoWrites
  <2>2. db' \in [Ids -> Tasks \cup {NoTask}] /\ faults' \in 0..MaxFaults
    BY <1>1, <1>6, <2>1, FaultsTyped DEF RetryWrites, TypeOK
  <2> QED
    BY <1>2, <1>6, <2>2, GoesEffect DEF RetryWrites, TypeOK, Op, engine, manager, savers
<1>7. CASE RetryPublishes
  <2>1. Candidate \in Tasks /\ Candidate.gid = op.new
    BY <1>1, <1>7 DEF RetryPublishes, UndoWrites
  <2>2. Store(op.id, Candidate, reserved \ {op.new}) /\ reserved \ {op.new} \in SUBSET Gids
    BY <1>7, <2>1 DEF RetryPublishes, Publish, TypeOK
  <2> QED
    BY <1>1, <1>7, <2>1, <2>2, StoreEffect, EndsEffect
       DEF RetryPublishes, Unlocks, TypeOK, Op, engine, savers
<1> QED
  BY <1>3, <1>4, <1>5, <1>6, <1>7

\* clearStoppedTasks keeps the types.
LEMMA TypeClears ==
  ASSUME IInv, ClearPicks \/ ClearPurges \/ ClearLocks \/ ClearDeletes
  PROVE  TypeOK'
<1> DEFINE Clear == [at : {"idle", "purge", "lock", "delete"}, picked : [Ids -> Gids \cup {0}],
                     locked : SUBSET Ids]
<1> USE DEF IInv
<1>1. NoClear \in Clear
  BY DEF NoClear
<1>2. CASE ClearPicks
  <2>1. \A i \in Ids : (IF mem[i].st \in Stopped THEN mem[i].gid ELSE 0) \in Gids \cup {0}
    BY Constants DEF TypeOK
  <2>2. clear' \in Clear
    BY <1>2, <2>1 DEF ClearPicks, NoClear
  <2> QED
    BY <1>2, <2>2 DEF ClearPicks, TypeOK, engine, manager, savers
<1>3. CASE ClearPurges
  <2>1. faults' \in 0..MaxFaults
    BY <1>3, FaultsTyped DEF ClearPurges
  <2>2. row' \in [Gids -> {"none", "live", "error", "removed"}]
    BY <1>3 DEF ClearPurges, TypeOK
  <2>3. clear' \in Clear
    <3>1. \A S : [i \in Ids |-> IF clear.picked[i] \in S THEN clear.picked[i] ELSE 0]
                   \in [Ids -> Gids \cup {0}]
      BY DEF TypeOK
    <3>2. \A p \in [Ids -> Gids \cup {0}] : [clear EXCEPT !.at = "lock", !.picked = p] \in Clear
      BY DEF TypeOK
    <3>3. \/ clear' = NoClear
          \/ \E S : clear' = [clear EXCEPT !.at = "lock",
               !.picked = [i \in Ids |-> IF clear.picked[i] \in S THEN clear.picked[i] ELSE 0]]
      BY <1>3, Zenon DEF ClearPurges
    <3> HIDE DEF Clear
    <3> QED
      BY <1>1, <3>1, <3>2, <3>3
  <2> QED
    BY <1>3, <2>1, <2>2, <2>3 DEF ClearPurges, TypeOK, manager, savers
<1>4. CASE ClearLocks
  <2>1. PICK i \in Ids :
          /\ lock' = [lock EXCEPT ![i] = "clear"]
          /\ clear' = [clear EXCEPT !.locked = @ \cup {i},
                         !.at = IF Picked = clear.locked \cup {i} THEN "delete" ELSE "lock"]
    BY <1>4 DEF ClearLocks, Picked
  <2>2. clear' \in Clear
    BY <2>1 DEF TypeOK
  <2> QED
    BY <1>4, <2>1, <2>2 DEF ClearLocks, TypeOK, engine, manager, savers
<1>5. CASE ClearDeletes
  <2>1. lock' \in [Ids -> {"free", "op", "clear"} \cup Watchers] /\ faults' \in 0..MaxFaults
    BY <1>5, FaultsTyped DEF ClearDeletes, TypeOK
  <2>2. UNCHANGED <<engine, watch, op, savers, evict, home, used>> /\ clear' \in Clear
    BY <1>1, <1>5 DEF ClearDeletes
  <2>3. CASE Forget(Clearable) /\ db' = [i \in Ids |-> IF i \in Clearable THEN NoTask ELSE db[i]]
    <3>1. Clearable \in SUBSET Ids /\ db' \in [Ids -> Tasks \cup {NoTask}]
      BY <2>3 DEF Clearable, Picked, TypeOK
    <3>2. gone' \subseteq Ids /\ reserved' \subseteq Gids
      BY <2>3, <3>1, ForgetEffect DEF TypeOK
    <3> QED
      BY <2>1, <2>2, <2>3, <3>1, <3>2, ForgetEffect DEF TypeOK, engine, savers
  <2>4. CASE UNCHANGED <<db, manager>>
    BY <2>1, <2>2, <2>4 DEF TypeOK, engine, manager, savers
  <2> QED
    BY <1>5, <2>3, <2>4 DEF ClearDeletes
<1> QED
  BY <1>2, <1>3, <1>4, <1>5

\* Every step keeps the types.
LEMMA TypeStep ==
  ASSUME IInv, [Next]_vars
  PROVE  TypeOK'
<1>1. CASE UNCHANGED vars
  BY <1>1 DEF IInv, TypeOK, vars
<1>2. CASE Next
  BY <1>2, TypeSurroundings, TypeReads, TypeLooks, TypeWatches, TypeSaves, TypeRemoves,
     TypeRetries, TypeUndoes, TypeClears DEF Next, Laned, OpLaned, Looking, OpCalls
<1> QED
  BY <1>1, <1>2

-----------------------------------------------------------------------------
(* Told: who is at a step knows its task and its row.                      *)

WatchTold(w) ==
  /\ watch[w].at # "idle" => watch[w].st # "none"
  /\ watch[w].at \notin {"idle", "look"} => watch[w].gid \in watch[w].todo /\ watch[w].id \in Ids

OpTold ==
  /\ op.at # "idle" => op.id \in Ids /\ op.old \in Tasks
  /\ op.at \in Retrying => op.old.st \in Stopped
  /\ op.at \in Late => op.new \in Fresh

\* Told, by whom it is about.
LEMMA ToldParts ==
  Told <=> (\A w \in Watchers : WatchTold(w)) /\ OpTold /\ (save.by = "none" => save = NotSaving)
BY DEF Told, WatchTold, OpTold

\* The next row of the list, or none.
LEMMA DoneTold ==
  ASSUME TypeOK, Told, NEW w \in Watchers, NEW g \in Gids, Done(w, g), watch[w].at # "idle"
  PROVE  \A v \in Watchers : WatchTold(v)'
BY DoneEffect DEF Told, WatchTold

\* Who turns to a row of its list knows it.
LEMMA TurnsTold ==
  ASSUME TypeOK, Told, NEW w \in Watchers, NEW g \in watch[w].todo,
         NEW at \in {"lock", "write", "publish", "adopt", "adopted"}, NEW i \in Ids,
         Turns(w, g, at, i), watch[w].at # "idle"
  PROVE  \A v \in Watchers : WatchTold(v)'
<1>1. g \in Gids
  BY DEF TypeOK
<1> QED
  BY <1>1, TurnsEffect DEF Told, WatchTold

\* Every step leaves the watchers told.
LEMMA WatchToldStep ==
  ASSUME IInv, Next
  PROVE  \A v \in Watchers : WatchTold(v)'
<1> USE DEF IInv
<1>1. CASE UNCHANGED watch
  BY <1>1 DEF Told, WatchTold
<1>2. CASE PollReads
  BY <1>2 DEF PollReads, Told, WatchTold, Quiet, TypeOK
<1>3. ASSUME NEW g \in Gids, NoteReads(g)
      PROVE  \A v \in Watchers : WatchTold(v)'
  BY <1>3 DEF NoteReads, Told, WatchTold, Quiet, TypeOK
<1>4. ASSUME NEW w \in Watchers, NEW g \in Gids,
             Skip(w, g) \/ Refresh(w, g) \/ Capture(w, g) \/ Adopt(w, g)
      PROVE  \A v \in Watchers : WatchTold(v)'
  <2>1. watch[w].at = "look" /\ g \in watch[w].todo
    BY <1>4 DEF Skip, Refresh, Capture, Adopt, Looks
  <2>2. CASE Skip(w, g) \/ Refresh(w, g)
    BY <2>1, <2>2, DoneTold DEF Skip, Refresh
  <2>3. CASE Capture(w, g)
    <3>1. index[g] \in Ids
      BY <2>3 DEF Capture, TypeOK
    <3> QED
      BY <2>1, <2>3, <3>1, TurnsTold DEF Capture
  <2>4. CASE Adopt(w, g)
    BY <2>1, <2>4, TurnsTold DEF Adopt
  <2> QED
    BY <1>4, <2>2, <2>3, <2>4
<1>5. ASSUME NEW w \in Watchers,
             TakeLock(w) \/ CommitWrite(w) \/ CommitPublish(w) \/ AdoptWrite(w) \/ AdoptPublish(w)
      PROVE  \A v \in Watchers : WatchTold(v)'
  <2>1. /\ watch[w].at \notin {"idle", "look"} /\ watch[w].id \in Ids
        /\ watch[w].gid \in Gids /\ watch[w].gid \in watch[w].todo
    BY <1>5, WatchingTyped DEF TakeLock, CommitWrite, CommitPublish, AdoptWrite, AdoptPublish, Told
  <2>2. \/ Done(w, watch[w].gid)
        \/ \E at \in {"write", "publish", "adopted"} : Turns(w, watch[w].gid, at, watch[w].id)
    BY <1>5 DEF TakeLock, CommitWrite, CommitPublish, AdoptWrite, AdoptPublish
  <2> QED
    BY <2>1, <2>2, DoneTold, TurnsTold
<1> QED
  BY <1>1, <1>2, <1>3, <1>4, <1>5
     DEF Next, Laned, OpLaned, Looking, OpCalls, Fail, Appear, Evict, SaveBegins, SaveEnds,
         Begins, Remove, RemoveForces, RemovePurges, RemoveDeletes, Retry, RetryHalts,
         RetryReserves, RetryAdds, UndoHalts, UndoPurges, UndoWrites, RetryWrites, RetryPublishes,
         ClearPicks, ClearPurges, ClearLocks, ClearDeletes

\* Every step leaves the action told.
LEMMA OpToldStep ==
  ASSUME IInv, Next
  PROVE  OpTold'
<1> USE DEF IInv
<1>1. CASE UNCHANGED op
  BY <1>1 DEF Told, OpTold
<1>2. ASSUME NEW i \in Ids, Remove(i) \/ Retry(i)
      PROVE  OpTold'
  <2>1. CASE Remove(i)
    <3>1. PICK at \in {"force", "purge"} : Begins(i, at)
      BY <2>1 DEF Remove
    <3> QED
      BY <3>1, BeginsEffect DEF OpTold, Retrying, Late
  <2>2. CASE Retry(i)
    <3>1. Begins(i, "halt") /\ mem[i].st \in Stopped
      BY <2>2 DEF Retry
    <3> QED
      BY <3>1, BeginsEffect DEF OpTold, Late
  <2> QED
    BY <1>2, <2>1, <2>2
<1>3. ASSUME op.at # "idle", op'.at = "idle" \/ (op'.id = op.id /\ op'.old = op.old),
             op'.at \in Retrying => op.at \in Retrying,
             op'.at \in Late => op'.new \in Fresh
      PROVE  OpTold'
  BY <1>3 DEF OpTold, Told, Retrying, Late
<1>4. CASE RemoveForces \/ RemovePurges \/ RemoveDeletes
  <2>1. op.at # "idle" /\ ((\E at \in {"purge", "delete"} : Goes(at)) \/ Ends \/ op' = NoOp)
    BY <1>4 DEF RemoveForces, RemovePurges, RemoveDeletes
  <2> QED
    BY <1>3, <2>1, GoesEffect, EndsEffect, NoOpTyped DEF Retrying, Late
<1>5. CASE RetryHalts \/ UndoHalts \/ UndoPurges \/ RetryWrites
  <2>1. /\ op.at \in Retrying /\ op.at # "idle"
        /\ (\E at \in Retrying : Goes(at) /\ (at \in Late => op.at \in Late)) \/ (Commits /\ op.at \in Late)
    BY <1>5 DEF RetryHalts, UndoHalts, UndoPurges, RetryWrites, Retrying, Late
  <2>2. CASE \E at \in Retrying : Goes(at) /\ (at \in Late => op.at \in Late)
    BY <1>3, <2>1, <2>2, GoesEffect DEF Told
  <2>3. CASE Commits /\ op.at \in Late
    BY <1>3, <2>1, <2>3, CommitsEffect DEF Told, Late, Retrying
  <2> QED
    BY <2>1, <2>2, <2>3
<1>6. CASE RetryReserves
  <2>1. op.at \in Retrying /\ op.at # "idle"
    BY <1>6 DEF RetryReserves, Retrying
  <2>2. Ends \/ \E g \in Fresh : op' = [op EXCEPT !.at = "add", !.new = g]
    BY <1>6 DEF RetryReserves
  <2>3. CASE Ends
    BY <1>3, <2>1, <2>3, EndsEffect DEF Late, Retrying
  <2>4. ASSUME NEW g \in Fresh, op' = [op EXCEPT !.at = "add", !.new = g]
        PROVE  op'.at = "add" /\ op'.new \in Fresh /\ op'.id = op.id /\ op'.old = op.old
    BY <2>4 DEF TypeOK
  <2>5. CASE \E g \in Fresh : op' = [op EXCEPT !.at = "add", !.new = g]
    BY <1>3, <2>1, <2>4, <2>5 DEF Late, Retrying
  <2> QED
    BY <2>2, <2>3, <2>5
<1>7. CASE RetryAdds
  <2>1. op.at \in Retrying /\ op.at # "idle" /\ op.at \in Late
    BY <1>7 DEF RetryAdds, Retrying, Late
  <2>2. Commits \/ Goes("unhalt")
    BY <1>7 DEF RetryAdds
  <2>3. "unhalt" \in Retrying
    BY DEF Retrying
  <2> QED
    BY <1>3, <2>1, <2>2, <2>3, CommitsEffect, GoesEffect DEF Told, Late, Retrying
<1>8. CASE UndoWrites \/ RetryPublishes
  <2>1. op.at # "idle" /\ Ends
    BY <1>8 DEF UndoWrites, RetryPublishes
  <2> QED
    BY <1>3, <2>1, EndsEffect DEF Retrying, Late
<1> QED
  BY <1>1, <1>2, <1>4, <1>5, <1>6, <1>7, <1>8, ZenonT(60)
     DEF Next, Laned, OpLaned, Looking, OpCalls, Fail, Appear, NoteReads, Evict, PollReads,
         Skip, Refresh, Capture, Adopt, TakeLock, CommitWrite, CommitPublish, AdoptWrite,
         AdoptPublish, SaveBegins, SaveEnds, ClearPicks, ClearPurges, ClearLocks, ClearDeletes, acts

\* Told is kept.
LEMMA ToldStep ==
  ASSUME IInv, [Next]_vars
  PROVE  Told'
<1>1. CASE UNCHANGED vars
  BY <1>1 DEF IInv, Told, vars
<1>2. CASE Next
  <2>1. (save.by = "none" => save = NotSaving)'
    <3>1. CASE UNCHANGED save
      BY <3>1 DEF IInv, Told
    <3>2. CASE SaveEnds \/ \E by \in {"auto", "req"} : SaveBegins(by)
      BY <3>2 DEF SaveEnds, SaveBegins
    <3> QED
      BY <1>2, <3>1, <3>2, ZenonT(60) DEF Next, Laned, OpLaned, Looking, OpCalls, Fail, Appear, NoteReads, Evict,
         PollReads, Skip, Refresh, Capture, Adopt, TakeLock, CommitWrite, CommitPublish, AdoptWrite,
         AdoptPublish, Begins, Remove, RemoveForces, RemovePurges,
         RemoveDeletes, Retry, RetryHalts, RetryReserves, RetryAdds, UndoHalts, UndoPurges,
         UndoWrites, RetryWrites, RetryPublishes, ClearPicks, ClearPurges, ClearLocks,
         ClearDeletes, savers
  <2> QED
    BY <1>2, <2>1, WatchToldStep, OpToldStep, ToldParts DEF Told, WatchTold, OpTold
<1> QED
  BY <1>1, <1>2

-----------------------------------------------------------------------------
(* Locked: each lock has one holder, and each holder its lock.             *)

Holding(w, i) == watch[w].at \in {"write", "publish"} /\ watch[w].id = i

ClearLocked ==
  /\ \A i \in Ids : lock[i] = "clear" <=> i \in clear.locked
  /\ clear.at = "delete" => clear.locked = Picked
  /\ clear.at \in {"idle", "purge"} => clear.locked = {}

\* Of the three kinds of holders one changes.
LEMMA WatchLocks ==
  ASSUME TypeOK, Locked, UNCHANGED <<op, clear>>, NEW w \in Watchers, NEW i \in Ids,
         \A v \in Watchers \ {w} : watch'[v] = watch[v],
         \/ UNCHANGED lock /\ \A j \in Ids : Holding(w, j)' <=> Holding(w, j)
         \/ /\ lock[i] = "free" /\ lock' = [lock EXCEPT ![i] = w]
            /\ watch[w].at \in {"look", "lock"} /\ \A j \in Ids : Holding(w, j)' <=> j = i
         \/ lock[i] = w /\ Release(i) /\ \A j \in Ids : ~Holding(w, j)'
  PROVE  Locked'
<1>1. \A j \in Ids : Holding(w, j) <=> lock[j] = w
  BY DEF Locked, Holding
<1>2. w \in {"poll", "note"}
  BY DEF Watchers
<1>3. ClearLocked'
  BY <1>2 DEF TypeOK, Locked, ClearLocked, Release, Picked
<1>4. \A j \in Ids : (lock[j] = "op" <=> op.at # "idle" /\ op.id = j)'
  BY <1>2 DEF TypeOK, Locked, Release
<1>5. \A j \in Ids, v \in Watchers : (lock[j] = v <=> Holding(v, j))'
  BY <1>1, <1>2 DEF TypeOK, Locked, Release, Holding, Watchers
<1> QED
  BY <1>3, <1>4, <1>5 DEF Locked, ClearLocked, Holding

\* An action begins with the lock it took, and ends when it gives it back.
LEMMA OpLocks ==
  ASSUME TypeOK, Locked, UNCHANGED <<watch, clear>>,
         \/ UNCHANGED lock /\ op.at # "idle" /\ op'.at # "idle" /\ op'.id = op.id
         \/ op.at # "idle" /\ op'.at = "idle" /\ Unlocks(op.id)
         \/ /\ op.at = "idle" /\ op'.at # "idle" /\ op'.id \in Ids /\ lock[op'.id] = "free"
            /\ lock'[op'.id] = "op" /\ \A j \in Ids \ {op'.id} : lock'[j] = lock[j]
  PROVE  Locked'
<1>1. ClearLocked'
  BY DEF TypeOK, Locked, ClearLocked, Unlocks, Picked
<1>2. \A j \in Ids : (lock[j] = "op" <=> op.at # "idle" /\ op.id = j)'
  BY DEF TypeOK, Locked, Unlocks
<1>3. \A j \in Ids, v \in Watchers : (lock[j] = v <=> Holding(v, j))'
  <2> SUFFICES ASSUME NEW j \in Ids, NEW v \in Watchers PROVE lock'[j] = v <=> Holding(v, j)'
    OBVIOUS
  <2>1. (Holding(v, j)' <=> Holding(v, j)) /\ (lock[j] = v <=> Holding(v, j)) /\ v \notin {"op", "free"}
    BY DEF Locked, Holding, Watchers
  <2>2. lock'[j] = lock[j] \/ (lock[j] \in {"op", "free"} /\ lock'[j] \in {"op", "free"})
    <3>1. CASE UNCHANGED lock
      BY <3>1
    <3>2. CASE op.at # "idle" /\ Unlocks(op.id)
      <4>1. op.id \in Ids => lock[op.id] = "op"
        BY <3>2 DEF Locked
      <4> QED
        BY <3>2, <4>1 DEF Unlocks
    <3>3. CASE op'.id \in Ids /\ lock[op'.id] = "free" /\ lock'[op'.id] = "op"
                 /\ \A k \in Ids \ {op'.id} : lock'[k] = lock[k]
      BY <3>3
    <3> QED
      BY <3>1, <3>2, <3>3
  <2> QED
    BY <2>1, <2>2
<1> QED
  BY <1>1, <1>2, <1>3 DEF Locked, ClearLocked, Holding

\* The watchers take and give back locks as they should.
LEMMA LockedWatches ==
  ASSUME IInv,
         \/ PollReads \/ \E g \in Gids : NoteReads(g)
         \/ \E w \in Watchers : Looking(w) \/ TakeLock(w) \/ Laned(w)
  PROVE  Locked'
<1> USE DEF IInv
<1>0. UNCHANGED <<op, clear>>
  <2>1. CASE PollReads \/ \E g \in Gids : NoteReads(g)
    BY <2>1, ZenonT(60) DEF PollReads, NoteReads, acts
  <2>2. CASE \E w \in Watchers : Looking(w)
    BY <2>2, ZenonT(60) DEF Looking, Skip, Refresh, Capture, Adopt, acts
  <2>3. CASE \E w \in Watchers : TakeLock(w)
    BY <2>3, ZenonT(60) DEF TakeLock, acts
  <2>4. CASE \E w \in Watchers : Laned(w)
    BY <2>4, ZenonT(60) DEF Laned, CommitWrite, CommitPublish, AdoptWrite, AdoptPublish, acts
  <2> QED
    BY <2>1, <2>2, <2>3, <2>4
<1>1. CASE PollReads \/ \E g \in Gids : NoteReads(g)
  <2>1. UNCHANGED lock /\ \A w \in Watchers, j \in Ids : Holding(w, j)' <=> Holding(w, j)
    BY <1>1, ReadsEffect DEF PollReads, NoteReads, Holding
  <2> QED
    BY <1>0, <2>1 DEF Locked, Holding, Picked
<1>2. ASSUME NEW w \in Watchers, NEW g \in Gids,
             Skip(w, g) \/ Refresh(w, g) \/ Capture(w, g) \/ Adopt(w, g)
      PROVE  Locked'
  <2>1. watch[w].at = "look"
    BY <1>2 DEF Skip, Refresh, Capture, Adopt, Looks
  <2>2. CASE Capture(w, g)
    <3>1. index[g] \in Ids
      BY <2>2 DEF Capture, TypeOK
    <3>2. CASE lock[index[g]] = "free"
      <4>1. lock' = [lock EXCEPT ![index[g]] = w] /\ Turns(w, g, "write", index[g])
        BY <2>2, <3>2 DEF Capture
      <4> QED
        <5>1. /\ \A v \in Watchers \ {w} : watch'[v] = watch[v]
              /\ \A j \in Ids : Holding(w, j)' <=> j = index[g]
          BY <3>1, <4>1, TurnsEffect DEF Holding
        <5> QED
          BY <1>0, <2>1, <3>1, <3>2, <4>1, <5>1, WatchLocks
    <3>3. CASE lock[index[g]] # "free"
      <4>1. lock' = lock /\ Turns(w, g, "lock", index[g])
        BY <2>2, <3>3 DEF Capture
      <4> QED
        BY <1>0, <2>1, <3>1, <4>1, WatchLocks, TurnsEffect DEF Holding
    <3> QED
      BY <3>2, <3>3
  <2>3. CASE Skip(w, g) \/ Refresh(w, g)
    <3>2. UNCHANGED lock /\ Done(w, g)
      BY <2>3 DEF Skip, Refresh
    <3>3. /\ \A v \in Watchers \ {w} : watch'[v] = watch[v]
          /\ \A j \in Ids : Holding(w, j)' <=> Holding(w, j)
      BY <2>1, <3>2, DoneEffect DEF Holding
    <3> QED
      BY <1>0, <3>2, <3>3 DEF Locked, Holding, Picked
  <2>4. CASE Adopt(w, g)
    <3>1. PICK i \in Ids : UNCHANGED lock /\ Turns(w, g, "adopt", i)
      BY <2>4 DEF Adopt
    <3> QED
      BY <1>0, <2>1, <3>1, WatchLocks, TurnsEffect DEF Holding
  <2> QED
    BY <1>2, <2>2, <2>3, <2>4
<1>3. ASSUME NEW w \in Watchers,
             TakeLock(w) \/ CommitWrite(w) \/ CommitPublish(w) \/ AdoptWrite(w) \/ AdoptPublish(w)
      PROVE  Locked'
  <2> DEFINE i == watch[w].id
             g == watch[w].gid
  <2>1. i \in Ids /\ g \in Gids
    BY <1>3, WatchingTyped DEF TakeLock, CommitWrite, CommitPublish, AdoptWrite, AdoptPublish
  <2>2. CASE TakeLock(w)
    <3>1. watch[w].at = "lock" /\ lock[i] = "free"
      BY <2>2 DEF TakeLock
    <3>2. \/ UNCHANGED lock /\ Done(w, g)
          \/ lock' = [lock EXCEPT ![i] = w] /\ Turns(w, g, "write", i)
      BY <2>2 DEF TakeLock
    <3>3. CASE UNCHANGED lock /\ Done(w, g)
      BY <1>0, <2>1, <3>1, <3>3, WatchLocks, DoneEffect DEF Holding
    <3>4. CASE lock' = [lock EXCEPT ![i] = w] /\ Turns(w, g, "write", i)
      <4>1. /\ \A v \in Watchers \ {w} : watch'[v] = watch[v]
            /\ \A j \in Ids : Holding(w, j)' <=> j = i
        BY <2>1, <3>4, TurnsEffect DEF Holding
      <4> QED
        BY <1>0, <2>1, <3>1, <3>4, <4>1, WatchLocks
    <3> QED
      BY <3>2, <3>3, <3>4
  <2>3. CASE CommitWrite(w) \/ CommitPublish(w)
    <3>1. lock[i] = w
      BY <2>1, <2>3 DEF Locked, CommitWrite, CommitPublish
    <3>2. \/ watch[w].at = "write" /\ UNCHANGED lock /\ Turns(w, g, "publish", i)
          \/ Release(i) /\ Done(w, g)
      BY <2>3 DEF CommitWrite, CommitPublish
    <3>3. CASE watch[w].at = "write" /\ UNCHANGED lock /\ Turns(w, g, "publish", i)
      BY <1>0, <2>1, <3>3, WatchLocks, TurnsEffect DEF Holding
    <3>4. CASE Release(i) /\ Done(w, g)
      BY <1>0, <2>1, <3>1, <3>4, WatchLocks, DoneEffect DEF Holding
    <3> QED
      BY <3>2, <3>3, <3>4
  <2>4. CASE AdoptWrite(w) \/ AdoptPublish(w)
    <3>1. /\ UNCHANGED lock /\ watch[w].at \in {"adopt", "adopted"}
          /\ Done(w, g) \/ Turns(w, g, "adopted", i)
      BY <2>4 DEF AdoptWrite, AdoptPublish
    <3> QED
      BY <1>0, <2>1, <3>1, WatchLocks, DoneEffect, TurnsEffect DEF Holding
  <2> QED
    BY <1>3, <2>2, <2>3, <2>4
<1> QED
  BY <1>1, <1>2, <1>3 DEF Looking, Laned

\* Remove and Retry take and give back locks as they should.
LEMMA LockedOp ==
  ASSUME IInv, OpCalls \/ OpLaned \/ \E i \in Ids : Remove(i) \/ Retry(i)
  PROVE  Locked'
<1> USE DEF IInv
<1>0. UNCHANGED <<watch, clear>>
  BY DEF OpCalls, OpLaned, Remove, Retry, Begins, RemoveForces, RemovePurges, RemoveDeletes,
         RetryHalts, RetryReserves, RetryAdds, UndoHalts, UndoPurges, UndoWrites, RetryWrites,
         RetryPublishes
<1>1. ASSUME NEW i \in Ids, Remove(i) \/ Retry(i)
      PROVE  Locked'
  <2>1. PICK at \in {"force", "purge", "halt"} : Begins(i, at)
    BY <1>1 DEF Remove, Retry
  <2>2. op.at = "idle" /\ lock[i] = "free"
    BY <2>1 DEF Begins
  <2> QED
    BY <1>0, <2>1, <2>2, BeginsEffect, OpLocks
<1>2. CASE OpCalls \/ OpLaned
  <2>1. op.at # "idle" /\ op.id \in Ids
    BY <1>2, OpTyped DEF OpCalls, OpLaned, RemoveForces, RemovePurges, RemoveDeletes,
         RetryHalts, RetryReserves, RetryAdds, UndoHalts, UndoPurges, UndoWrites, RetryWrites,
         RetryPublishes
  <2>2. \/ Ends \/ Commits
        \/ UNCHANGED lock /\ \E at \in {"purge", "delete", "reserve", "unhalt", "unpurge", "undo",
                                       "publish"} : Goes(at)
        \/ UNCHANGED lock /\ \E g \in Fresh : op' = [op EXCEPT !.at = "add", !.new = g]
    BY <1>2 DEF OpCalls, OpLaned, RemoveForces, RemovePurges, RemoveDeletes,
         RetryHalts, RetryReserves, RetryAdds, UndoHalts, UndoPurges, UndoWrites, RetryWrites,
         RetryPublishes
  <2>3. CASE Ends \/ Commits
    BY <1>0, <2>1, <2>3, EndsEffect, CommitsEffect, OpLocks
  <2>4. CASE UNCHANGED lock /\ \E at \in {"purge", "delete", "reserve", "unhalt", "unpurge", "undo",
                                         "publish"} : Goes(at)
    <3>1. PICK at \in {"purge", "delete", "reserve", "unhalt", "unpurge", "undo", "publish"} : Goes(at)
      BY <2>4
    <3>2. at \in {"idle", "force", "purge", "delete"} \cup Retrying /\ at # "idle"
      BY DEF Retrying
    <3> QED
      BY <1>0, <2>1, <2>4, <3>1, <3>2, GoesEffect, OpLocks
  <2>5. CASE UNCHANGED lock /\ \E g \in Fresh : op' = [op EXCEPT !.at = "add", !.new = g]
    <3>1. op'.at = "add" /\ op'.id = op.id
      BY <2>5 DEF TypeOK
    <3> QED
      BY <1>0, <2>1, <2>5, <3>1, OpLocks
  <2> QED
    BY <2>2, <2>3, <2>4, <2>5
<1> QED
  BY <1>1, <1>2

\* Clear stopped takes and gives back locks as it should.
LEMMA LockedClear ==
  ASSUME IInv, ClearPicks \/ ClearPurges \/ ClearLocks \/ ClearDeletes
  PROVE  Locked'
<1> USE DEF IInv
<1>0. UNCHANGED <<watch, op>>
  BY DEF ClearPicks, ClearPurges, ClearLocks, ClearDeletes
<1>1. ASSUME ClearLocked',
             \A i \in Ids : \/ lock'[i] = lock[i]
                            \/ lock[i] = "free" /\ lock'[i] = "clear"
                            \/ lock[i] = "clear" /\ lock'[i] = "free"
      PROVE  Locked'
  BY <1>0, <1>1 DEF Locked, ClearLocked, Watchers
<1>2. CASE ClearPicks \/ ClearPurges
  <2>1. clear'.locked = {} /\ clear'.at # "delete"
    <3>1. CASE ClearPicks
      <4>1. NoClear \in [at : {"idle"}, picked : [Ids -> {0}], locked : {{}}]
        BY DEF NoClear
      <4>2. PICK p : clear' = [NoClear EXCEPT !.at = "purge", !.picked = p]
        BY <3>1 DEF ClearPicks
      <4> QED
        BY <4>1, <4>2
    <3>2. CASE ClearPurges
      <4>1. clear.locked = {}
        BY <3>2 DEF ClearPurges, Locked
      <4> QED
        BY <3>2, <4>1, ClearPurgesEffect
    <3> QED
      BY <1>2, <3>1, <3>2
  <2>2. UNCHANGED lock /\ clear.locked = {}
    BY <1>2 DEF ClearPicks, ClearPurges, Locked
  <2> QED
    BY <1>1, <2>1, <2>2 DEF Locked, ClearLocked
<1>3. CASE ClearLocks
  <2>1. PICK i \in Ids :
          /\ i \in Picked \ clear.locked /\ lock[i] = "free" /\ lock' = [lock EXCEPT ![i] = "clear"]
          /\ clear' = [clear EXCEPT !.locked = @ \cup {i},
                         !.at = IF Picked = clear.locked \cup {i} THEN "delete" ELSE "lock"]
    BY <1>3 DEF ClearLocks, Picked
  <2>2. clear'.locked = clear.locked \cup {i} /\ clear'.picked = clear.picked
    BY <2>1 DEF TypeOK
  <2>3. clear'.at \in {"delete", "lock"} /\ (clear'.at = "delete" => Picked = clear.locked \cup {i})
    BY <2>1 DEF TypeOK
  <2>4. Picked' = Picked
    BY <2>2 DEF Picked
  <2>5. \A j \in Ids : lock'[j] = IF j = i THEN "clear" ELSE lock[j]
    BY <2>1 DEF TypeOK
  <2>6. ClearLocked'
    BY <2>2, <2>3, <2>4, <2>5 DEF Locked, ClearLocked
  <2> QED
    BY <1>1, <2>1, <2>5, <2>6
<1>4. CASE ClearDeletes
  <2>1. clear'.locked = {} /\ clear'.at = "idle"
    BY <1>4 DEF ClearDeletes, NoClear
  <2>2. \A i \in Ids : lock'[i] = IF i \in clear.locked THEN "free" ELSE lock[i]
    BY <1>4 DEF ClearDeletes
  <2> QED
    BY <1>1, <2>1, <2>2 DEF Locked, ClearLocked
<1> QED
  BY <1>2, <1>3, <1>4

\* Locked is kept.
LEMMA LockedStep ==
  ASSUME IInv, [Next]_vars
  PROVE  Locked'
<1>1. CASE UNCHANGED <<lock, op, clear, watch>>
  BY <1>1 DEF IInv, Locked, Picked
<1>2. CASE Next
  BY <1>1, <1>2, LockedWatches, LockedOp, LockedClear
     DEF Next, Fail, Appear, Evict, SaveBegins, SaveEnds, acts
<1> QED
  BY <1>1, <1>2 DEF vars

-----------------------------------------------------------------------------
(* What a step does to the engine's rows and to the tasks.                  *)

\* The add of a retry goes on: the silent owner is still there.
LEMMA CommitsGoes ==
  ASSUME IInv, op.at \in Late, Commits
  PROVE  Goes("write") /\ UNCHANGED lock
BY DEF IInv, Current, Commits

\* The removals of the engine's rows, whoever asks for them.
LEMMA SinkSteps ==
  ASSUME IInv,
         \/ ClearPurges \/ RemoveForces \/ RemovePurges \/ RetryHalts \/ UndoHalts \/ UndoPurges
         \/ \E g \in Gids : Evict(g)
  PROVE  Sinks /\ UNCHANGED watch
<1> USE DEF IInv
<1>1. CASE ClearPurges
  BY <1>1, ClearPurgesEffect
<1>2. CASE RemoveForces \/ RetryHalts
  BY <1>2, OpTyped, ForceRemoveEffect DEF RemoveForces, RetryHalts
<1>3. CASE UndoHalts
  BY <1>3, OpTyped, ForceRemoveEffect DEF UndoHalts, Late
<1>4. CASE RemovePurges
  BY <1>4, OpTyped, PurgesEffect DEF RemovePurges
<1>5. CASE UndoPurges
  BY <1>5, OpTyped, PurgesEffect DEF UndoPurges, Late
<1>6. ASSUME NEW g \in Gids, Evict(g)
      PROVE  Sinks /\ UNCHANGED watch
  BY <1>6, PurgesEffect DEF Evict
<1> QED
  BY <1>1, <1>2, <1>3, <1>4, <1>5, <1>6

\* Only the add of a retry brings a minted id to life.
LEMMA AddsEffect ==
  ASSUME IInv, RetryAdds
  PROVE  /\ op.at = "add" /\ op'.at \in Late \ {"add"} /\ op'.new = op.new
         /\ op'.id = op.id /\ op'.old = op.old
         /\ \A g \in Gids : row'[g] = row[g] \/ g = op.new
         /\ UNCHANGED <<bell, manager, db, watch, save, home, used, lock>>
<1> USE DEF IInv
<1>1. op.at = "add" /\ op.at \in Late
  BY DEF RetryAdds, Late
<1>2. Goes("write") \/ Goes("unhalt")
  BY <1>1, CommitsGoes DEF RetryAdds
<1>3. UNCHANGED lock
  BY <1>1, CommitsGoes DEF RetryAdds
<1>4. op'.at \in Late \ {"add"} /\ op'.new = op.new /\ op'.id = op.id /\ op'.old = op.old
  <2>1. "write" \in Retrying /\ "unhalt" \in Retrying
    BY DEF Retrying
  <2> QED
    BY <1>2, <2>1, GoesEffect DEF Late
<1>5. \A g \in Gids : row'[g] = row[g] \/ g = op.new
  BY DEF RetryAdds, TypeOK
<1> QED
  BY <1>1, <1>3, <1>4, <1>5 DEF RetryAdds, savers

\* A minted id comes to life only by the add of its retry.
LEMMA RowStep ==
  ASSUME IInv, Next, NEW g \in Fresh, row'[g] = "live"
  PROVE  \/ row[g] = "live"
         \/ g = op.new /\ op.at = "add" /\ RetryAdds
<1> USE DEF IInv
<1>1. CASE UNCHANGED row
  BY <1>1
<1>2. ASSUME Sinks
      PROVE  row[g] = "live"
  BY <1>2, Constants DEF Sinks
<1>3. ASSUME NEW h \in Gids, Fail(h) \/ Appear(h)
      PROVE  row[g] = "live"
  BY <1>3, OwnershipAssumption, Constants DEF Fail, Appear, TypeOK
<1>4. CASE RetryAdds
  BY <1>4, AddsEffect, Constants
<1> QED
  BY <1>1, <1>2, <1>3, <1>4, SinkSteps, ZenonT(60)
     DEF Next, Laned, OpLaned, Looking, OpCalls, NoteReads, PollReads,
         Skip, Refresh, Capture, Adopt, TakeLock, CommitWrite, CommitPublish, AdoptWrite,
         AdoptPublish, Remove, Retry, Begins, RemoveDeletes, RetryReserves, UndoWrites, RetryWrites,
         RetryPublishes, SaveBegins, SaveEnds, ClearPicks, ClearLocks, ClearDeletes, engine

\* Nobody sees an id before the engine is told of it.
LEMMA UnseenStep ==
  ASSUME IInv, Next, NEW g \in Fresh, Unseen(g)
  PROVE  Unseen(g)' \/ (RetryAdds /\ g = op.new)
<1> USE DEF IInv
<1>0. g \in Gids
  BY Constants
<1>1. CASE UNCHANGED <<row, bell, watch>>
  BY <1>1 DEF Unseen
<1>2. ASSUME Sinks, UNCHANGED watch
      PROVE  Unseen(g)'
  BY <1>0, <1>2 DEF Sinks, Unseen
<1>3. ASSUME NEW h \in Gids, Fail(h) \/ Appear(h)
      PROVE  Unseen(g)'
  BY <1>0, <1>3, OwnershipAssumption DEF Fail, Appear, TypeOK, Unseen
<1>4. CASE RetryAdds
  BY <1>0, <1>4, AddsEffect DEF Unseen
<1>5. CASE PollReads \/ \E h \in Gids : NoteReads(h)
  <2>1. UNCHANGED row /\ bell' \subseteq bell
    BY <1>5 DEF PollReads, NoteReads, engine
  <2>2. \A w \in Watchers : g \notin watch'[w].todo
    BY <1>0, <1>5, ReadsEffect DEF Unseen
  <2> QED
    BY <2>1, <2>2 DEF Unseen
<1>6. ASSUME NEW w \in Watchers, Looking(w) \/ TakeLock(w) \/ Laned(w)
      PROVE  Unseen(g)'
  <2>1. UNCHANGED <<row, bell>>
    BY <1>6 DEF Looking, Laned, Skip, Refresh, Capture, Adopt, TakeLock, CommitWrite, CommitPublish,
                AdoptWrite, AdoptPublish, engine
  <2>2. \/ \E h \in Gids : Done(w, h)
        \/ \E h \in Gids, i \in Ids, at \in {"lock", "write", "publish", "adopt", "adopted"} :
             Turns(w, h, at, i)
    <3>1. ASSUME NEW h \in Gids, Skip(w, h) \/ Refresh(w, h) \/ Adopt(w, h) \/ Capture(w, h)
          PROVE  \/ Done(w, h)
                 \/ \E i \in Ids, at \in {"lock", "write", "adopt"} : Turns(w, h, at, i)
      BY <3>1 DEF Skip, Refresh, Adopt, Capture, TypeOK
    <3>2. CASE TakeLock(w) \/ Laned(w)
      <4>1. watch[w].gid \in Gids /\ watch[w].id \in Ids
        BY <3>2, WatchingTyped DEF TakeLock, Laned, CommitWrite, CommitPublish, AdoptWrite, AdoptPublish
      <4> QED
        BY <3>2, <4>1 DEF TakeLock, Laned, CommitWrite, CommitPublish, AdoptWrite, AdoptPublish
    <3> QED
      BY <1>6, <3>1, <3>2 DEF Looking
  <2>3. \A v \in Watchers : watch'[v].todo \subseteq watch[v].todo
    BY <2>2, DoneEffect, TurnsEffect
  <2> QED
    BY <2>1, <2>3 DEF Unseen
<1> QED
  BY <1>1, <1>2, <1>3, <1>4, <1>5, <1>6, SinkSteps
     DEF Next, OpLaned, OpCalls, Remove, Retry, Begins, RemoveDeletes, RetryReserves, UndoWrites,
         RetryWrites, RetryPublishes, SaveBegins, SaveEnds, ClearPicks, ClearLocks, ClearDeletes, engine

-----------------------------------------------------------------------------
(* The ways a step changes the tasks TaskManager holds.                     *)

Stays == UNCHANGED <<mem, index, reserved, retired, gone>>

\* A poll or a notification updates a task whose id stays.
Rewrites(i, t) ==
  /\ Store(i, t, reserved) /\ mem[i] # NoTask /\ mem[i].gid = t.gid
  /\ ~(op.at \in Late /\ op.id = i)
  /\ t.st \in Stopped => Down(t.gid)
  /\ UNCHANGED <<row, op, home, db, save, used>>

\* The published orphan.
Adopts(w) ==
  /\ watch[w].at = "adopted" /\ Discovered(w) \in Tasks
  /\ Store(watch[w].id, Discovered(w), reserved) /\ Done(w, watch[w].gid)
  /\ UNCHANGED <<row, op, home, db, save, used>>

\* The silent owner of a retry.
Reserves(g) ==
  /\ op.at = "reserve" /\ home[g] = Nobody /\ save.by = "none"
  /\ home' = [home EXCEPT ![g] = op.id]
  /\ db' = [db EXCEPT ![op.id] = [gid |-> g, st |-> "active"]]
  /\ Store(op.id, [gid |-> g, st |-> op.old.st], reserved \cup {g})
  /\ op'.at = "add" /\ op'.id = op.id /\ op'.old = op.old /\ op'.new = g
  /\ UNCHANGED <<row, bell, watch, save, used>>

\* The retry is given up, or done.
Undoes ==
  /\ op.at = "unpurge" /\ op'.at = "undo" /\ op'.id = op.id /\ op'.old = op.old
  /\ Store(op.id, op.old, reserved \ {op.new})
  /\ Sinks /\ row'[op.new] # "live"
  /\ UNCHANGED <<home, db, save, used, watch>>

Publishes ==
  /\ op.at = "publish" /\ op'.at = "idle"
  /\ Store(op.id, Candidate, reserved \ {op.new})
  /\ UNCHANGED <<row, home, db, save, used, watch>>

\* Remove and Clear stopped delete tasks that do not run.
Forgets(S) ==
  /\ Forget(S) /\ save.by = "none"
  /\ \A i \in S : /\ mem[i] # NoTask /\ Down(mem[i].gid) /\ lock[i] \in {"op", "clear"}
                  /\ ~(op.at \in Late /\ op.id = i)
                  /\ db'[i] = NoTask
  /\ \A i \in Ids \ S : db'[i] = db[i]
  /\ \/ op' = op /\ \A i \in S : lock[i] = "clear"
     \/ op.at = "delete" /\ op'.at = "idle" /\ S = {op.id}
  /\ UNCHANGED <<row, home, save, watch, used>>

\* Refresh and commitPolledTerminalTransition's publish rewrite a task.
LEMMA RewritesStep ==
  ASSUME IInv, NEW w \in Watchers, (\E g \in Gids : Refresh(w, g)) \/ CommitPublish(w)
  PROVE  \E i \in Ids, t \in Tasks : Rewrites(i, t)
<1> USE DEF IInv
<1>1. ASSUME NEW g \in Gids, Refresh(w, g)
      PROVE  \E i \in Ids, t \in Tasks : Rewrites(i, t)
  <2> DEFINE i == index[g]
             t == [mem[i] EXCEPT !.st = IF watch[w].st = "live" THEN "active" ELSE watch[w].st]
  <2>1. i \in Ids /\ mem[i] # NoTask /\ mem[i].gid = g /\ mem[i] \in Tasks
    BY <1>1 DEF Refresh, TypeOK, Indexed
  <2>2. /\ g \in watch[w].todo /\ watch[w].at = "look" /\ watch[w].st \in {"live", "removed"}
        /\ g \notin reserved
    BY <1>1 DEF Refresh, Looks, IsShielded, TypeOK, Told
  <2>3. t \in Tasks /\ t.gid = g /\ (t.st \in Stopped => watch[w].st # "live")
    BY <2>1, <2>2 DEF Tasks, Stopped
  <2>4. Store(i, t, reserved \ {t.gid})
    BY <1>1 DEF Refresh, Publish
  <2>5. UNCHANGED <<row, op, home, db, save, used>>
    BY <1>1 DEF Refresh, engine, acts, savers
  <2> HIDE DEF t
  <2>6. t.st \in Stopped => Down(t.gid)
    BY <2>2, <2>3 DEF Halted
  <2>7. reserved \ {t.gid} = reserved
    BY <2>2, <2>3
  <2>8. ~(op.at \in Late /\ op.id = i)
    <3>1. ASSUME op.at \in Late, op.id = i
          PROVE  mem[i].gid \in reserved
      BY <3>1 DEF Current, ReservedOwner
    <3> QED
      BY <2>1, <2>2, <3>1
  <2> QED
    BY <2>1, <2>3, <2>4, <2>5, <2>6, <2>7, <2>8 DEF Rewrites
<1>2. CASE CommitPublish(w)
  <2> DEFINE i == watch[w].id
             g == watch[w].gid
             t == [gid |-> g, st |-> "error"]
  <2>1. watch[w].at = "publish" /\ i \in Ids /\ g \in Gids /\ watch[w].st = "error"
    BY <1>2, WatchingTyped DEF CommitPublish, Halted
  <2>2. mem[i] # NoTask /\ mem[i].gid = g /\ lock[i] = w
    BY <2>1 DEF Current, Locked
  <2>3. t \in Tasks /\ t.gid = g
    BY <2>1, Constants
  <2>4. Store(i, t, reserved \ {t.gid})
    BY <1>2 DEF CommitPublish, Publish
  <2>5. UNCHANGED <<row, op, home, db, save, used>>
    BY <1>2 DEF CommitPublish, engine, acts
  <2>6. Down(g)
    BY <2>1 DEF Told, Halted
  <2>7. ~(op.at \in Late /\ op.id = i)
    BY <2>1, <2>2 DEF Locked, Late, Watchers
  <2>8. g \notin reserved
    <3> SUFFICES ASSUME g \in reserved
                 PROVE  FALSE
      OBVIOUS
    <3>1. op.at \in Late /\ op.new = g /\ g \in Fresh /\ home[g] = op.id
      BY DEF Current, Told
    <3>2. home[g] = i
      BY <2>1, <2>2, <3>1 DEF Minted, Carried
    <3> QED
      BY <2>7, <3>1, <3>2
  <2>9. reserved \ {t.gid} = reserved
    BY <2>3, <2>8
  <2> HIDE DEF t
  <2> QED
    BY <2>1, <2>2, <2>3, <2>4, <2>5, <2>6, <2>7, <2>9 DEF Rewrites
<1> QED
  BY <1>1, <1>2

\* A published orphan is one of another client.
LEMMA AdoptsStep ==
  ASSUME IInv, NEW w \in Watchers, AdoptPublish(w)
  PROVE  Adopts(w)
<1> USE DEF IInv
<1>1. watch[w].at = "adopted" /\ watch[w].gid \in Foreign /\ watch[w].gid \in Gids /\ watch[w].st # "none"
  BY Constants DEF AdoptPublish, Given, Adopting, Told
<1>2. Discovered(w) \in Tasks /\ Discovered(w).gid = watch[w].gid
  <2>1. (IF watch[w].st = "live" THEN "active" ELSE watch[w].st) \in {"active", "error", "removed"}
    BY <1>1 DEF TypeOK
  <2> QED
    BY <1>1, <2>1, Constants DEF Discovered
<1>3. watch[w].gid \notin reserved
  BY <1>1, OwnershipAssumption DEF Current, Told
<1>4. reserved \ {watch[w].gid} = reserved
  BY <1>3
<1> QED
  BY <1>1, <1>2, <1>4 DEF AdoptPublish, Publish, Adopts, engine, acts, savers

\* removeTask and clearStoppedTasks delete what does not run.
LEMMA ForgetsStep ==
  ASSUME IInv, RemoveDeletes \/ ClearDeletes, ~UNCHANGED <<db, manager>>
  PROVE  \E S \in SUBSET Ids : Forgets(S)
<1> USE DEF IInv
<1>1. CASE RemoveDeletes
  <2>1. op.at = "delete" /\ op.at # "idle" /\ op.at \notin Late /\ op.id \in Ids
    BY <1>1, OpTyped DEF RemoveDeletes, Late
  <2>2. mem[op.id] # NoTask /\ mem[op.id].gid = op.old.gid /\ Down(op.old.gid) /\ lock[op.id] = "op"
    BY <2>1 DEF Current, Halted, Locked
  <2>3. /\ db' = [db EXCEPT ![op.id] = NoTask] /\ Forget({op.id}) /\ save.by = "none" /\ Ends
        /\ UNCHANGED <<row, home, save, watch, used>>
    BY <1>1 DEF RemoveDeletes, LaneFree, engine, savers
  <2>4. op'.at = "idle"
    BY <2>1, <2>3, EndsEffect
  <2>5. db'[op.id] = NoTask /\ \A i \in Ids \ {op.id} : db'[i] = db[i]
    BY <2>1, <2>3 DEF TypeOK
  <2> QED
    BY <2>1, <2>2, <2>3, <2>4, <2>5 DEF Forgets
<1>2. CASE ClearDeletes
  <2>1. clear.at = "delete" /\ clear.locked = Picked /\ Clearable \in SUBSET Ids
    BY <1>2 DEF ClearDeletes, Locked, Clearable, Picked
  <2>2. /\ db' = [i \in Ids |-> IF i \in Clearable THEN NoTask ELSE db[i]] /\ Forget(Clearable)
        /\ save.by = "none" /\ UNCHANGED <<row, op, home, save, watch, used>>
    BY <1>2 DEF ClearDeletes, LaneFree, engine, savers
  <2>3. ASSUME NEW i \in Clearable
        PROVE  /\ mem[i] # NoTask /\ Down(mem[i].gid) /\ lock[i] = "clear"
               /\ ~(op.at \in Late /\ op.id = i)
    <3>1. i \in Ids /\ i \in clear.locked /\ mem[i].st \in Stopped
      BY <2>1 DEF Clearable, Picked
    <3>2. lock[i] = "clear"
      BY <3>1 DEF Locked
    <3>3. ~(op.at \in Late /\ op.id = i)
      BY <3>1, <3>2 DEF Locked, Late
    <3>4. mem[i] # NoTask
      BY <3>1, Constants DEF Stopped
    <3> QED
      BY <3>1, <3>2, <3>3, <3>4 DEF Halted
  <2> QED
    BY <2>1, <2>2, <2>3 DEF Forgets
<1> QED
  BY <1>1, <1>2

\* What reAddTask stores, when it reserves, gives up and publishes.
LEMMA RetryStores ==
  ASSUME IInv, RetryReserves \/ UndoPurges \/ RetryPublishes
  PROVE  \/ /\ Stays /\ UNCHANGED db
            /\ (op.at = "reserve" /\ Ends) \/ (op.at = "unpurge" /\ Commits)
         \/ \E g \in Fresh : Reserves(g)
         \/ Undoes
         \/ Publishes
<1> USE DEF IInv
<1>1. CASE RetryReserves
  <2>1. \/ UNCHANGED <<db, manager>> /\ op.at = "reserve" /\ Ends
        \/ \E g \in Fresh :
             /\ op.at = "reserve" /\ home[g] = Nobody /\ save.by = "none"
             /\ home' = [home EXCEPT ![g] = op.id]
             /\ db' = [db EXCEPT ![op.id] = [gid |-> g, st |-> "active"]]
             /\ Store(op.id, [gid |-> g, st |-> op.old.st], reserved \cup {g})
             /\ op' = [op EXCEPT !.at = "add", !.new = g]
             /\ UNCHANGED <<row, bell, watch, save, used>>
    BY <1>1 DEF RetryReserves, LaneFree, engine, savers
  <2>2. \A g \in Fresh : op' = [op EXCEPT !.at = "add", !.new = g] =>
          op'.at = "add" /\ op'.id = op.id /\ op'.old = op.old /\ op'.new = g
    BY DEF TypeOK
  <2> QED
    BY <2>1, <2>2 DEF Reserves, Stays, manager
<1>2. CASE UndoPurges
  <2>1. op.at = "unpurge" /\ op.new \in Gids /\ "undo" \in Retrying
    BY <1>2, OpTyped DEF UndoPurges, Late, Retrying
  <2>2. PICK ok \in BOOLEAN :
          /\ Purges(op.new, ok)
          /\ IF ok THEN Store(op.id, op.old, reserved \ {op.new}) /\ Goes("undo") /\ UNCHANGED lock
                   ELSE UNCHANGED manager /\ Commits
    BY <1>2 DEF UndoPurges
  <2>3. UNCHANGED <<bell, home, db, save, used, watch>>
    BY <1>2 DEF UndoPurges, savers
  <2>4. CASE ~ok
    BY <2>1, <2>2, <2>3, <2>4 DEF Stays, manager
  <2>5. CASE ok
    <3>1. Sinks /\ row'[op.new] # "live"
      BY <2>1, <2>2, <2>3, <2>5, PurgesEffect
    <3>2. op'.at = "undo" /\ op'.id = op.id /\ op'.old = op.old
      BY <2>1, <2>2, <2>5, GoesEffect
    <3> QED
      BY <2>1, <2>2, <2>3, <2>5, <3>1, <3>2 DEF Undoes
  <2> QED
    BY <2>4, <2>5
<1>3. CASE RetryPublishes
  <2>1. op.at = "publish" /\ op.at # "idle" /\ Ends
    BY <1>3 DEF RetryPublishes
  <2>2. op'.at = "idle"
    BY <2>1, EndsEffect
  <2>3. Candidate.gid = op.new
    BY DEF Candidate
  <2> QED
    BY <1>3, <2>1, <2>2, <2>3 DEF RetryPublishes, Publish, Publishes, engine, savers
<1> QED
  BY <1>1, <1>2, <1>3

\* Every step changes the tasks in one of these ways.
LEMMA ManagerStep ==
  ASSUME IInv, Next
  PROVE  \/ Stays
         \/ \E i \in Ids, t \in Tasks : Rewrites(i, t)
         \/ \E w \in Watchers : Adopts(w)
         \/ \E g \in Fresh : Reserves(g)
         \/ Undoes
         \/ Publishes
         \/ \E S \in SUBSET Ids : Forgets(S)
<1>1. CASE UNCHANGED manager
  BY <1>1 DEF Stays, manager
<1>2. CASE \E w \in Watchers : TakeLock(w)
  BY <1>2 DEF Stays, TakeLock
<1> QED
  BY <1>1, <1>2, RewritesStep, AdoptsStep, ForgetsStep, RetryStores
     DEF Next, Laned, OpLaned, Looking, OpCalls, Fail, Appear, Evict, NoteReads, PollReads,
         Skip, Capture, Adopt, CommitWrite, AdoptWrite, Remove, Retry, Begins, RemoveForces,
         RemovePurges, RetryHalts, RetryAdds, UndoHalts, UndoWrites, RetryWrites,
         SaveBegins, SaveEnds, ClearPicks, ClearPurges, ClearLocks

-----------------------------------------------------------------------------
(* What a step does to the rows on disk, to a save and to the history.      *)

\* An id is minted once.
LEMMA HomeStep ==
  ASSUME IInv, Next, NEW g \in Gids
  PROVE  \/ home'[g] = home[g]
         \/ home[g] = Nobody /\ g \in Fresh /\ op.at = "reserve" /\ home'[g] = op.id /\ op.id \in Ids
<1> USE DEF IInv
<1>1. CASE UNCHANGED home
  BY <1>1
<1>2. CASE RetryReserves
  BY <1>2, OpTyped DEF RetryReserves, TypeOK
<1> QED
  BY <1>1, <1>2, ZenonT(60)
     DEF Next, Laned, OpLaned, Looking, OpCalls, Fail, Appear, Evict, NoteReads, PollReads,
         Skip, Refresh, Capture, Adopt, TakeLock, CommitWrite, CommitPublish, AdoptWrite, AdoptPublish,
         Remove, Retry, Begins, RemoveForces, RemovePurges, RemoveDeletes, RetryHalts, RetryAdds,
         UndoHalts, UndoPurges, UndoWrites, RetryWrites, RetryPublishes,
         SaveBegins, SaveEnds, ClearPicks, ClearPurges, ClearLocks, ClearDeletes

\* Minting an id takes none from a task.
LEMMA CarriedStep ==
  ASSUME IInv, Next, NEW i \in Ids, NEW t \in Tasks \cup {NoTask}, Carried(i, t),
         t # NoTask, t.gid \in Fresh
  PROVE  home'[t.gid] = i
BY HomeStep, Constants DEF Carried, IInv

\* Where a row on disk may come from.
LEMMA DbStep ==
  ASSUME IInv, Next, NEW i \in Ids
  PROVE  \/ db'[i] = db[i]
         \/ mem[i] # NoTask /\ db'[i] \in Tasks /\ db'[i].gid = mem[i].gid
         \/ /\ db'[i] \in Tasks
            /\ \E w \in Watchers : watch[w].at = "adopt" /\ watch[w].id = i /\ db'[i].gid = watch[w].gid
         \/ save.snap[i] # NoTask /\ db'[i] = save.snap[i]
         \/ \E g \in Fresh : Reserves(g)
         \/ \E S \in SUBSET Ids : Forgets(S)
<1> USE DEF IInv
<1>1. CASE UNCHANGED db
  BY <1>1
<1>2. ASSUME NEW w \in Watchers, CommitWrite(w), ~UNCHANGED db
      PROVE  db'[i] = db[i] \/ (mem[i] # NoTask /\ db'[i] \in Tasks /\ db'[i].gid = mem[i].gid)
  <2> DEFINE j == watch[w].id
             t == [gid |-> watch[w].gid, st |-> "error"]
  <2>1. j \in Ids /\ watch[w].gid \in Gids /\ watch[w].at = "write" /\ db' = [db EXCEPT ![j] = t]
    BY <1>2, WatchingTyped DEF CommitWrite
  <2>2. t \in Tasks /\ t.gid = watch[w].gid
    BY <2>1, Constants
  <2>3. mem[j] # NoTask /\ mem[j].gid = watch[w].gid
    BY <2>1 DEF Current
  <2> HIDE DEF t
  <2> QED
    BY <2>1, <2>2, <2>3 DEF TypeOK
<1>3. ASSUME NEW w \in Watchers, AdoptWrite(w), ~UNCHANGED db
      PROVE  \/ db'[i] = db[i]
             \/ /\ db'[i] \in Tasks /\ watch[w].at = "adopt" /\ watch[w].id = i
                /\ db'[i].gid = watch[w].gid
  <2>1. watch[w].at = "adopt" /\ watch[w].id \in Ids /\ watch[w].gid \in Gids /\ watch[w].st # "none"
    BY <1>3, WatchingTyped DEF AdoptWrite, Told
  <2>2. db' = [db EXCEPT ![watch[w].id] = Discovered(w)]
    BY <1>3 DEF AdoptWrite, Written
  <2>3. Discovered(w) \in Tasks /\ Discovered(w).gid = watch[w].gid
    <3>1. (IF watch[w].st = "live" THEN "active" ELSE watch[w].st) \in {"active", "error", "removed"}
      BY <2>1 DEF TypeOK
    <3> QED
      BY <2>1, <3>1, Constants DEF Discovered
  <2> QED
    BY <2>1, <2>2, <2>3 DEF TypeOK
<1>4. CASE SaveEnds
  BY <1>4 DEF SaveEnds
<1>5. CASE (UndoWrites \/ RetryWrites) /\ ~UNCHANGED db
  <2>1. op.at \in {"undo", "write"} /\ op.at # "idle"
    BY <1>5 DEF UndoWrites, RetryWrites
  <2>2. op.id \in Ids /\ op.old \in Tasks /\ (op.at = "write" => op.new \in Gids)
    BY <2>1, OpTyped DEF Late
  <2>3. \/ op.at = "undo" /\ db' = [db EXCEPT ![op.id] = op.old]
        \/ op.at = "write" /\ db' = [db EXCEPT ![op.id] = Candidate]
    BY <1>5 DEF UndoWrites, RetryWrites, Written
  <2>4. CASE op.at = "undo" /\ db' = [db EXCEPT ![op.id] = op.old]
    <3>1. mem[op.id] # NoTask /\ mem[op.id].gid = op.old.gid
      BY <2>4 DEF Current, Late
    <3> QED
      BY <2>2, <2>4, <3>1 DEF TypeOK
  <2>5. CASE op.at = "write" /\ db' = [db EXCEPT ![op.id] = Candidate]
    <3>1. Candidate \in Tasks /\ Candidate.gid = op.new
      BY <2>2, <2>5, Constants DEF Candidate
    <3>2. mem[op.id] # NoTask /\ mem[op.id].gid = op.new
      <4>1. mem[op.id] = ReservedOwner
        BY <2>5 DEF Current, Late
      <4>2. ReservedOwner.gid = op.new /\ op.new # 0
        BY <2>2, <2>5, Constants DEF ReservedOwner
      <4> QED
        BY <4>1, <4>2, Constants
    <3> QED
      BY <2>2, <2>5, <3>1, <3>2 DEF TypeOK
  <2> QED
    BY <2>3, <2>4, <2>5
<1>6. CASE (RemoveDeletes \/ ClearDeletes) /\ ~UNCHANGED db
  BY <1>6, ForgetsStep
<1>7. CASE RetryReserves /\ ~UNCHANGED db
  BY <1>7, RetryStores DEF Reserves, Undoes, Publishes
<1> QED
  BY <1>1, <1>2, <1>3, <1>4, <1>5, <1>6, <1>7, ZenonT(60)
     DEF Next, Laned, OpLaned, Looking, OpCalls, Fail, Appear, Evict, NoteReads, PollReads,
         Skip, Refresh, Capture, Adopt, TakeLock, CommitPublish, AdoptPublish,
         Remove, Retry, Begins, RemoveForces, RemovePurges, RetryHalts, RetryAdds,
         UndoHalts, UndoPurges, RetryPublishes, SaveBegins, ClearPicks, ClearPurges, ClearLocks

\* Where the snapshot of a save may come from.
LEMMA SnapStep ==
  ASSUME IInv, Next, NEW i \in Ids
  PROVE  \/ save'.snap[i] = save.snap[i]
         \/ save'.snap[i] = NoTask
         \/ save'.snap[i] = mem[i] /\ Stays /\ UNCHANGED <<op, home>>
<1> USE DEF IInv
<1>1. CASE UNCHANGED save
  BY <1>1
<1>2. CASE \E by \in {"auto", "req"} : SaveBegins(by)
  <2>1. Stays /\ UNCHANGED <<op, home>>
    BY <1>2 DEF SaveBegins, Stays, manager, acts
  <2>2. save'.snap[i] = IF mem[i].st = "removed" THEN NoTask ELSE mem[i]
    BY <1>2 DEF SaveBegins
  <2> QED
    BY <2>1, <2>2
<1>3. CASE SaveEnds
  BY <1>3 DEF SaveEnds, NotSaving
<1> QED
  BY <1>1, <1>2, <1>3, ZenonT(60)
     DEF Next, Laned, OpLaned, Looking, OpCalls, Fail, Appear, Evict, NoteReads, PollReads,
         Skip, Refresh, Capture, Adopt, TakeLock, CommitWrite, CommitPublish, AdoptWrite, AdoptPublish,
         Remove, Retry, Begins, RemoveForces, RemovePurges, RemoveDeletes, RetryHalts, RetryReserves,
         RetryAdds, UndoHalts, UndoPurges, UndoWrites, RetryWrites, RetryPublishes,
         ClearPicks, ClearPurges, ClearLocks, ClearDeletes, savers

\* A store, in general: the task keeps its id, or had it minted for it.
Moves(i, t, kept) ==
  /\ Store(i, t, kept)
  /\ t.gid \in Fresh => home'[t.gid] = i
  /\ \/ reserved \ {t.gid} \subseteq kept
     \/ reserved \ {op.new} \subseteq kept /\ op.at \in Late /\ op.id = i

\* Every step, by what it does to the index and the shields.
LEMMA MovesStep ==
  ASSUME IInv, Next
  PROVE  \/ Stays
         \/ \E S \in SUBSET Ids : Forgets(S)
         \/ \E i \in Ids, t \in Tasks, kept \in SUBSET Gids : Moves(i, t, kept)
<1> USE DEF IInv
<1>0. reserved \subseteq Gids /\ \A i \in Ids : mem[i] \in Tasks \cup {NoTask}
  BY DEF TypeOK
<1>1. ASSUME NEW i \in Ids, NEW t \in Tasks, Rewrites(i, t)
      PROVE  Moves(i, t, reserved)
  BY <1>0, <1>1, CarriedStep DEF Rewrites, Moves, Minted
<1>2. ASSUME NEW w \in Watchers, Adopts(w)
      PROVE  watch[w].id \in Ids /\ Moves(watch[w].id, Discovered(w), reserved)
  <2>1. watch[w].id \in Ids /\ watch[w].gid \in Foreign
    BY <1>2, WatchingTyped DEF Adopts, Given, Adopting
  <2>2. Discovered(w).gid \notin Fresh
    BY <2>1, OwnershipAssumption DEF Discovered
  <2> QED
    BY <1>0, <1>2, <2>1, <2>2 DEF Adopts, Moves
<1>3. ASSUME NEW g \in Fresh, Reserves(g)
      PROVE  /\ op.id \in Ids /\ [gid |-> g, st |-> op.old.st] \in Tasks /\ g \in Gids
             /\ Moves(op.id, [gid |-> g, st |-> op.old.st], reserved \cup {g})
  <2>1. op.id \in Ids /\ op.old \in Tasks /\ g \in Gids
    BY <1>3, OpTyped, Constants DEF Reserves
  <2>2. [gid |-> g, st |-> op.old.st] \in Tasks
    <3>1. op.old.st \in {"active", "error", "removed"}
      BY <2>1, Constants
    <3> QED
      BY <2>1, <3>1, Constants
  <2>3. home'[g] = op.id
    BY <1>3, <2>1 DEF Reserves, TypeOK
  <2> QED
    BY <1>0, <1>3, <2>1, <2>2, <2>3 DEF Reserves, Moves
<1>4. CASE Undoes
  <2>1. op.at \in Late /\ op.id \in Ids /\ op.old \in Tasks
    BY <1>4, OpTyped DEF Undoes, Late
  <2>2. op.old.gid \in Fresh => home'[op.old.gid] = op.id
    BY <1>4, <2>1, CarriedStep, Constants DEF Minted, Undoes
  <2> QED
    BY <1>0, <1>4, <2>1, <2>2 DEF Undoes, Moves
<1>5. CASE Publishes
  <2>1. op.at \in Late /\ op.id \in Ids /\ op.new \in Gids /\ home[op.new] = op.id
    BY <1>5, OpTyped DEF Publishes, Late, Current
  <2>2. Candidate \in Tasks /\ Candidate.gid = op.new
    BY <2>1, Constants DEF Candidate
  <2>3. home'[op.new] = op.id
    BY <1>5, <2>1 DEF Publishes
  <2> QED
    BY <1>0, <1>5, <2>1, <2>2, <2>3 DEF Publishes, Moves
<1> QED
  <2>1. CASE \E w \in Watchers : Adopts(w)
    BY <1>0, <1>2, <2>1 DEF Adopts
  <2>2. CASE \E g \in Fresh : Reserves(g)
    <3>1. PICK g \in Fresh : Reserves(g)
      BY <2>2
    <3>2. reserved \cup {g} \in SUBSET Gids
      BY <1>0, <1>3, <3>1
    <3> QED
      BY <1>3, <3>1, <3>2
  <2>3. CASE Undoes
    BY <1>0, <1>4, <2>3, OpTyped DEF Undoes
  <2>4. CASE Publishes
    <3>1. Candidate \in Tasks /\ op.id \in Ids
      BY <2>4, OpTyped, Constants DEF Publishes, Late, Candidate
    <3> QED
      BY <1>0, <1>5, <2>4, <3>1 DEF Publishes
  <2> QED
    BY <1>0, <1>1, <2>1, <2>2, <2>3, <2>4, ManagerStep

-----------------------------------------------------------------------------
(* Indexed, Minted and Secret.                                              *)

\* Indexed is kept.
LEMMA IndexedStep ==
  ASSUME IInv, [Next]_vars
  PROVE  Indexed'
<1> USE DEF IInv
<1>1. CASE Stays
  BY <1>1 DEF Stays, Indexed
<1>2. ASSUME NEW i \in Ids, NEW t \in Tasks, NEW kept \in SUBSET Gids, Store(i, t, kept)
      PROVE  Indexed'
  <2>1. t # NoTask /\ i # Nobody
    BY Constants
  <2> QED
    BY <1>2, <2>1, StoreEffect DEF TypeOK, Indexed
<1>3. ASSUME NEW S \in SUBSET Ids, Forget(S)
      PROVE  Indexed'
  BY <1>3, ForgetEffect DEF TypeOK, Indexed
<1>4. CASE UNCHANGED vars
  BY <1>1, <1>4 DEF vars, Stays
<1> QED
  BY <1>1, <1>2, <1>3, <1>4, MovesStep DEF Moves, Forgets

\* A minted id is shielded, or its task is the one the index names.
Claimed(g) == IsShielded(g) \/ index[g] = home[g]

\* A claimed id stays claimed.
LEMMA ClaimedStep ==
  ASSUME IInv, Next, NEW g \in Fresh, home'[g] = home[g], home[g] # Nobody, Claimed(g)
  PROVE  Claimed(g)'
<1> USE DEF IInv
<1>0. g \in Gids /\ index[g] \in Ids \cup {Nobody}
  BY Constants DEF TypeOK
<1>1. CASE Stays
  BY <1>1 DEF Stays, Claimed, IsShielded
<1>2. ASSUME NEW S \in SUBSET Ids, Forget(S)
      PROVE  Claimed(g)'
  BY <1>0, <1>2, ForgetEffect DEF Claimed, IsShielded
<1>3. ASSUME NEW i \in Ids, NEW t \in Tasks, NEW kept \in SUBSET Gids, Moves(i, t, kept)
      PROVE  Claimed(g)'
  <2>1. CASE t.gid = g
    BY <1>3, <2>1, StoreEffect DEF Moves, Claimed
  <2>2. CASE t.gid # g
    <3>1. /\ index'[g] = IF index[g] = i THEN Nobody ELSE index[g]
          /\ g \in retired' <=> g \in retired \/ index[g] = i
          /\ reserved' = kept
      BY <1>0, <1>3, <2>2, StoreEffect DEF Moves
    <3>2. CASE g \in reserved /\ g \notin kept
      <4>1. g = op.new /\ op.at \in Late /\ op.id = i
        BY <1>3, <2>2, <3>2 DEF Moves
      <4>2. index[g] = i
        BY <4>1 DEF Owned, Kept, Current
      <4> QED
        BY <3>1, <4>2 DEF Claimed, IsShielded
    <3> QED
      BY <3>1, <3>2 DEF Claimed, IsShielded
  <2> QED
    BY <2>1, <2>2
<1> QED
  BY <1>1, <1>2, <1>3, MovesStep DEF Forgets

\* Minted is kept.
LEMMA MintedStep ==
  ASSUME IInv, Next
  PROVE  Minted'
<1> USE DEF IInv
<1> DEFINE Fits(i, t) == t # NoTask /\ t.gid \in Fresh => home'[t.gid] = i
<1>0. /\ \A i \in Ids : mem[i] \in Tasks \cup {NoTask} /\ db[i] \in Tasks \cup {NoTask}
      /\ \A i \in Ids : save.snap[i] \in Tasks \cup {NoTask}
  BY DEF TypeOK
<1>1. ASSUME NEW i \in Ids
      PROVE  Fits(i, mem[i]) /\ Fits(i, db[i]) /\ Fits(i, save.snap[i])
  BY <1>0, <1>1, CarriedStep DEF Minted
<1>2. ASSUME NEW i \in Ids
      PROVE  Fits(i, mem'[i])
  <2>1. CASE Stays
    BY <1>1, <2>1 DEF Stays
  <2>2. ASSUME NEW S \in SUBSET Ids, Forget(S)
        PROVE  Fits(i, mem'[i])
    BY <1>1, <2>2, ForgetEffect
  <2>3. ASSUME NEW j \in Ids, NEW t \in Tasks, NEW kept \in SUBSET Gids, Moves(j, t, kept)
        PROVE  Fits(i, mem'[i])
    BY <1>1, <2>3, StoreEffect DEF Moves
  <2> QED
    BY <2>1, <2>2, <2>3, MovesStep DEF Forgets
<1>3. ASSUME NEW i \in Ids
      PROVE  Fits(i, db'[i])
  <2>1. CASE db'[i] = db[i] \/ (save.snap[i] # NoTask /\ db'[i] = save.snap[i])
    BY <1>1, <2>1
  <2>2. CASE mem[i] # NoTask /\ db'[i] \in Tasks /\ db'[i].gid = mem[i].gid
    BY <1>1, <2>2
  <2>3. ASSUME NEW w \in Watchers, watch[w].at = "adopt", db'[i].gid = watch[w].gid
        PROVE  Fits(i, db'[i])
    BY <2>3, OwnershipAssumption DEF Given, Adopting
  <2>4. ASSUME NEW g \in Fresh, Reserves(g)
        PROVE  Fits(i, db'[i])
    <3>1. op.id \in Ids /\ g \in Gids
      BY <2>4, OpTyped, Constants DEF Reserves
    <3>2. home'[g] = op.id /\ [gid |-> g, st |-> "active"].gid = g
      BY <2>4, <3>1 DEF Reserves, TypeOK
    <3>3. db'[i] = IF i = op.id THEN [gid |-> g, st |-> "active"] ELSE db[i]
      BY <2>4, <3>1 DEF Reserves, TypeOK
    <3> QED
      BY <1>1, <3>2, <3>3
  <2>5. ASSUME NEW S \in SUBSET Ids, Forgets(S)
        PROVE  Fits(i, db'[i])
    BY <1>1, <2>5 DEF Forgets
  <2> QED
    BY <2>1, <2>2, <2>3, <2>4, <2>5, DbStep
<1>4. ASSUME NEW i \in Ids
      PROVE  Fits(i, save'.snap[i])
  BY <1>1, SnapStep
<1>5. op'.at # "idle" => Fits(op'.id, op'.old)
  <2>1. CASE UNCHANGED op
    BY <2>1, OpTyped, CarriedStep DEF Minted
  <2>2. ASSUME NEW i \in Ids, Remove(i) \/ Retry(i)
        PROVE  Fits(op'.id, op'.old)
    <3>1. PICK at \in {"force", "purge", "halt"} : Begins(i, at)
      BY <2>2 DEF Remove, Retry
    <3> QED
      BY <1>1, <3>1, BeginsEffect
  <2>3. ASSUME op.at # "idle", op'.id = op.id, op'.old = op.old
        PROVE  Fits(op'.id, op'.old)
    BY <2>3, OpTyped, CarriedStep DEF Minted
  <2>4. CASE OpCalls \/ OpLaned
    <3>1. op.at # "idle"
      BY <2>4 DEF OpCalls, OpLaned, RemoveForces, RemovePurges, RemoveDeletes,
           RetryHalts, RetryReserves, RetryAdds, UndoHalts, UndoPurges, UndoWrites, RetryWrites,
           RetryPublishes
    <3>2. \/ Ends \/ Commits
          \/ \E at \in {"purge", "delete", "reserve", "unhalt", "unpurge", "undo", "publish"} : Goes(at)
          \/ \E g \in Fresh : op' = [op EXCEPT !.at = "add", !.new = g]
      BY <2>4 DEF OpCalls, OpLaned, RemoveForces, RemovePurges, RemoveDeletes,
           RetryHalts, RetryReserves, RetryAdds, UndoHalts, UndoPurges, UndoWrites, RetryWrites,
           RetryPublishes
    <3>3. op'.at = "idle" \/ (op'.id = op.id /\ op'.old = op.old)
      <4>1. \A at \in {"purge", "delete", "reserve", "unhalt", "unpurge", "undo", "publish"} :
              at \in {"idle", "force", "purge", "delete"} \cup Retrying
        BY DEF Retrying
      <4>2. \A g \in Fresh : op' = [op EXCEPT !.at = "add", !.new = g] =>
              op'.id = op.id /\ op'.old = op.old
        BY DEF TypeOK
      <4> QED
        BY <3>1, <3>2, <4>1, <4>2, EndsEffect, CommitsEffect, GoesEffect
    <3> QED
      BY <2>3, <3>1, <3>3
  <2> QED
    BY <2>1, <2>2, <2>4, ZenonT(60)
       DEF Next, Laned, Looking, Fail, Appear, Evict, NoteReads, PollReads,
           Skip, Refresh, Capture, Adopt, TakeLock, CommitWrite, CommitPublish, AdoptWrite,
           AdoptPublish, SaveBegins, SaveEnds, ClearPicks, ClearPurges, ClearLocks, ClearDeletes, acts
<1>6. \A g \in Gids : home'[g] # Nobody => g \in Fresh
  BY HomeStep DEF Minted
<1>7. ASSUME NEW g \in Fresh, home'[g] # Nobody
      PROVE  (IsShielded(g) \/ index[g] = home[g] \/ Unseen(g))'
  <2>0. g \in Gids
    BY Constants
  <2>1. CASE home'[g] # home[g]
    <3>1. home[g] = Nobody /\ Unseen(g) /\ op.at = "reserve"
      BY <2>0, <2>1, HomeStep DEF Secret
    <3> QED
      BY <3>1, UnseenStep DEF RetryAdds
  <2>2. CASE home'[g] = home[g] /\ Claimed(g)
    BY <1>7, <2>2, ClaimedStep DEF Claimed
  <2>3. CASE home'[g] = home[g] /\ Unseen(g)
    <3>1. CASE RetryAdds /\ g = op.new
      <4>1. index[g] = home[g]
        BY <3>1, AddsEffect DEF Owned, Kept, Late
      <4> QED
        BY <2>3, <3>1, <4>1, AddsEffect DEF manager
    <3> QED
      BY <2>3, <3>1, UnseenStep
  <2> QED
    BY <1>7, <2>1, <2>2, <2>3 DEF Minted, Claimed
<1> QED
  BY <1>2, <1>3, <1>4, <1>5, <1>6, <1>7 DEF Minted, Carried

\* Secret is kept.
LEMMA SecretStep ==
  ASSUME IInv, Next
  PROVE  Secret'
<1> USE DEF IInv
<1>1. ASSUME NEW g \in Fresh, home'[g] = Nobody
      PROVE  Unseen(g)'
  <2>1. home[g] = Nobody
    BY <1>1, HomeStep, Constants
  <2>2. ~(RetryAdds /\ g = op.new)
    <3> SUFFICES ASSUME RetryAdds, g = op.new
                 PROVE  FALSE
      OBVIOUS
    <3>1. op.at \in Late /\ op.at # "idle"
      BY DEF RetryAdds, Late
    <3>2. home[g] = op.id /\ op.id \in Ids
      BY <3>1, OpTyped DEF Current
    <3> QED
      BY <2>1, <3>2, Constants
  <2> QED
    BY <2>1, <2>2, UnseenStep DEF Secret
<1>2. ASSUME op'.at = "add"
      PROVE  Unseen(op.new)'
  <2>1. CASE UNCHANGED op
    <3>1. op.at = "add" /\ op.new \in Fresh /\ Unseen(op.new)
      BY <1>2, <2>1 DEF Secret, Told, Late
    <3>2. ~RetryAdds
      BY <1>2, <2>1, AddsEffect
    <3> QED
      BY <2>1, <3>1, <3>2, UnseenStep DEF Unseen
  <2>2. CASE RetryReserves
    <3>1. op.at = "reserve"
      BY <2>2 DEF RetryReserves
    <3>2. PICK g \in Fresh : Reserves(g)
      <4>1. PICK g \in Fresh :
               /\ home[g] = Nobody
               /\ \/ /\ op' = [op EXCEPT !.at = "add", !.new = g]
                     /\ ~UNCHANGED op
                  \/ Ends
        BY <2>2, <3>1, <1>2 DEF RetryReserves
      <4>2. ~Ends
        BY <1>2, <3>1, EndsEffect
      <4> QED
        BY <1>2, <2>2, <3>1, <4>1, <4>2 DEF RetryReserves, Reserves, LaneFree, engine, savers, TypeOK
    <3>3. Unseen(g) /\ op'.new = g /\ UNCHANGED <<row, bell, watch>>
      BY <3>2 DEF Reserves, Secret
    <3> QED
      BY <3>3 DEF Unseen
  <2>3. CASE (\E i \in Ids : Remove(i) \/ Retry(i)) \/ OpCalls \/ (OpLaned /\ ~RetryReserves)
    <3>1. op'.at # "add"
      <4>1. ASSUME NEW i \in Ids, Remove(i) \/ Retry(i)
            PROVE  op'.at # "add"
        <5>1. PICK at \in {"force", "purge", "halt"} : Begins(i, at)
          BY <4>1 DEF Remove, Retry
        <5> QED
          BY <5>1, BeginsEffect
      <4>2. CASE OpCalls \/ (OpLaned /\ ~RetryReserves)
        <5>1. /\ op.at # "idle"
              /\ \/ Ends \/ Commits
                 \/ \E at \in {"purge", "delete", "reserve", "unhalt", "unpurge", "undo", "publish"} : Goes(at)
          BY <4>2 DEF OpCalls, OpLaned, RemoveForces, RemovePurges, RemoveDeletes,
               RetryHalts, RetryReserves, RetryAdds, UndoHalts, UndoPurges, UndoWrites, RetryWrites,
               RetryPublishes
        <5>2. \A at \in {"purge", "delete", "reserve", "unhalt", "unpurge", "undo", "publish"} :
                at \in {"idle", "force", "purge", "delete"} \cup Retrying
          BY DEF Retrying
        <5> QED
          BY <5>1, <5>2, EndsEffect, CommitsEffect, GoesEffect
      <4> QED
        BY <2>3, <4>1, <4>2
    <3> QED
      BY <1>2, <3>1
  <2> QED
    BY <2>1, <2>2, <2>3, ZenonT(60)
       DEF Next, Laned, OpLaned, Looking, Fail, Appear, Evict, NoteReads, PollReads,
           Skip, Refresh, Capture, Adopt, TakeLock, CommitWrite, CommitPublish, AdoptWrite,
           AdoptPublish, SaveBegins, SaveEnds, ClearPicks, ClearPurges, ClearLocks, ClearDeletes, acts
<1> QED
  BY <1>1, <1>2 DEF Secret

-----------------------------------------------------------------------------
(* How a watcher and an action go on.                                       *)

SamePlan(w) ==
  /\ watch'[w].gid = watch[w].gid /\ watch'[w].id = watch[w].id
  /\ watch'[w].st = watch[w].st /\ watch'[w].todo = watch[w].todo

Captures(w) ==
  /\ watch[w].at = "look" /\ watch'[w].at \in {"lock", "write"}
  /\ watch'[w].st = watch[w].st /\ watch'[w].todo = watch[w].todo /\ watch[w].st = "error"
  /\ watch'[w].id \in Ids /\ mem[watch'[w].id] # NoTask
  /\ mem[watch'[w].id].gid = watch'[w].gid
  /\ Stays

TakesUp(w) ==
  /\ watch[w].at = "look" /\ watch'[w].at = "adopt"
  /\ watch'[w].st = watch[w].st /\ watch'[w].todo = watch[w].todo
  /\ watch'[w].gid \in watch[w].todo
  /\ ~IsShielded(watch'[w].gid) /\ Owner(watch'[w].gid) = NoTask
  /\ watch'[w].id \in Ids \ used /\ used' = used \cup {watch'[w].id}
  /\ \A v \in Watchers \ {w} : watch'[v] = watch[v]
  /\ Stays

\* How a watcher goes on.
LEMMA WatchStep ==
  ASSUME IInv, Next, NEW w \in Watchers
  PROVE  \/ watch'[w] = watch[w] /\ (w \in stale => w \in stale')
         \/ watch'[w].at = "idle"
         \/ /\ watch[w].at = "idle" /\ watch'[w].at = "look" /\ UNCHANGED row
            /\ \A h \in watch'[w].todo : row[h] = watch'[w].st
         \/ /\ watch[w].at # "idle" /\ watch'[w].at = "look" /\ watch'[w].st = watch[w].st
            /\ watch'[w].todo \subseteq watch[w].todo
         \/ Captures(w)
         \/ TakesUp(w)
         \/ watch[w].at = "lock" /\ w \notin stale /\ watch'[w].at = "write" /\ SamePlan(w) /\ Stays
         \/ watch[w].at = "write" /\ watch'[w].at = "publish" /\ SamePlan(w) /\ Stays
         \/ watch[w].at = "adopt" /\ watch'[w].at = "adopted" /\ SamePlan(w) /\ Stays
<1> USE DEF IInv
<1>0. ASSUME UNCHANGED watch, stale \subseteq stale'
      PROVE  watch'[w] = watch[w] /\ (w \in stale => w \in stale')
  BY <1>0
<1>1. ASSUME NEW v \in Watchers, Looking(v) \/ TakeLock(v) \/ Laned(v)
      PROVE  \A u \in Watchers \ {v} : watch'[u] = watch[u] /\ (u \in stale => u \in stale')
  <2>1. \/ \E h \in Gids : Done(v, h)
        \/ \E h \in Gids, i \in Ids, at \in {"lock", "write", "publish", "adopt", "adopted"} :
             Turns(v, h, at, i)
    <3>1. ASSUME NEW h \in Gids, Skip(v, h) \/ Refresh(v, h) \/ Adopt(v, h) \/ Capture(v, h)
          PROVE  \/ Done(v, h)
                 \/ \E i \in Ids, at \in {"lock", "write", "adopt"} : Turns(v, h, at, i)
      BY <3>1 DEF Skip, Refresh, Adopt, Capture, TypeOK
    <3>2. CASE TakeLock(v) \/ Laned(v)
      <4>1. watch[v].gid \in Gids /\ watch[v].id \in Ids
        BY <3>2, WatchingTyped DEF TakeLock, Laned, CommitWrite, CommitPublish, AdoptWrite, AdoptPublish
      <4> QED
        BY <3>2, <4>1 DEF TakeLock, Laned, CommitWrite, CommitPublish, AdoptWrite, AdoptPublish
    <3> QED
      BY <1>1, <3>1, <3>2 DEF Looking
  <2>2. \A u \in Watchers \ {v} : watch'[u] = watch[u]
    BY <2>1, DoneEffect, TurnsEffect
  <2>3. \A u \in Watchers \ {v} : u \in stale => u \in stale'
    BY <1>1 DEF Looking, Laned, Skip, Refresh, Capture, Adopt, TakeLock, CommitWrite, CommitPublish,
                AdoptWrite, AdoptPublish, manager, Publish, Store, Outdate
  <2> QED
    BY <2>2, <2>3
<1>2. CASE PollReads \/ \E g \in Gids : NoteReads(g)
  <2>1. UNCHANGED <<row, stale>>
    BY <1>2 DEF PollReads, NoteReads, engine, manager
  <2> QED
    BY <1>2, <2>1, ReadsEffect
<1>3. ASSUME NEW g \in Gids, Skip(w, g) \/ Refresh(w, g)
      PROVE  \/ watch'[w].at = "idle"
             \/ /\ watch[w].at # "idle" /\ watch'[w].at = "look" /\ watch'[w].st = watch[w].st
                /\ watch'[w].todo \subseteq watch[w].todo
  <2>1. Done(w, g) /\ watch[w].at # "idle"
    BY <1>3 DEF Skip, Refresh, Looks
  <2> QED
    BY <2>1, DoneEffect
<1>4. ASSUME NEW g \in Gids, Capture(w, g)
      PROVE  Captures(w)
  <2>1. watch[w].at = "look" /\ watch[w].st = "error" /\ index[g] \in Ids /\ Stays
    BY <1>4 DEF Capture, Looks, TypeOK, Stays, manager
  <2>2. mem[index[g]] # NoTask /\ mem[index[g]].gid = g
    BY <1>4 DEF Capture, Indexed
  <2>3. \E at \in {"lock", "write"} : Turns(w, g, at, index[g])
    BY <1>4 DEF Capture
  <2> QED
    BY <2>1, <2>2, <2>3, TurnsEffect DEF Captures
<1>5. ASSUME NEW g \in Gids, Adopt(w, g)
      PROVE  TakesUp(w)
  <2>1. PICK i \in Ids \ used : used' = used \cup {i} /\ Turns(w, g, "adopt", i)
    BY <1>5 DEF Adopt
  <2>2. watch[w].at = "look" /\ g \in watch[w].todo /\ ~IsShielded(g) /\ Owner(g) = NoTask /\ Stays
    BY <1>5 DEF Adopt, Looks, Stays, manager
  <2> QED
    BY <2>1, <2>2, TurnsEffect DEF TakesUp
<1>6. ASSUME TakeLock(w) \/ Laned(w)
      PROVE  \/ watch'[w].at = "idle"
             \/ /\ watch[w].at # "idle" /\ watch'[w].at = "look" /\ watch'[w].st = watch[w].st
                /\ watch'[w].todo \subseteq watch[w].todo
             \/ watch[w].at = "lock" /\ w \notin stale /\ watch'[w].at = "write" /\ SamePlan(w) /\ Stays
             \/ watch[w].at = "write" /\ watch'[w].at = "publish" /\ SamePlan(w) /\ Stays
             \/ watch[w].at = "adopt" /\ watch'[w].at = "adopted" /\ SamePlan(w) /\ Stays
  <2>1. watch[w].at # "idle" /\ watch[w].gid \in Gids /\ watch[w].id \in Ids
    BY <1>6, WatchingTyped DEF TakeLock, Laned, CommitWrite, CommitPublish, AdoptWrite, AdoptPublish
  <2>2. CASE Done(w, watch[w].gid)
    BY <2>1, <2>2, DoneEffect
  <2>3. CASE ~Done(w, watch[w].gid)
    <3>1. \/ watch[w].at = "lock" /\ w \notin stale /\ Turns(w, watch[w].gid, "write", watch[w].id) /\ Stays
          \/ watch[w].at = "write" /\ Turns(w, watch[w].gid, "publish", watch[w].id) /\ Stays
          \/ watch[w].at = "adopt" /\ Turns(w, watch[w].gid, "adopted", watch[w].id) /\ Stays
      BY <1>6, <2>3 DEF TakeLock, Laned, CommitWrite, CommitPublish, AdoptWrite, AdoptPublish, Stays, manager
    <3> QED
      BY <2>1, <3>1, TurnsEffect DEF SamePlan
  <2> QED
    BY <2>2, <2>3
<1>7. ASSUME NEW v \in Watchers, Looking(v) \/ TakeLock(v) \/ Laned(v), v # w
      PROVE  watch'[w] = watch[w] /\ (w \in stale => w \in stale')
  BY <1>1, <1>7
<1>8. CASE UNCHANGED watch /\ stale \subseteq stale'
  BY <1>0, <1>8
<1>9. CASE OpCalls \/ OpLaned \/ ClearDeletes
  <2>1. UNCHANGED watch
    BY <1>9 DEF OpCalls, OpLaned, RemoveForces, RemovePurges, RemoveDeletes,
         RetryHalts, RetryReserves, RetryAdds, UndoHalts, UndoPurges, UndoWrites, RetryWrites,
         RetryPublishes, ClearDeletes
  <2>2. stale \subseteq stale'
    BY <1>9 DEF OpCalls, OpLaned, RemoveForces, RemovePurges, RemoveDeletes,
         RetryHalts, RetryReserves, RetryAdds, UndoHalts, UndoPurges, UndoWrites, RetryWrites,
         RetryPublishes, ClearDeletes, manager, Forget, Publish, Store, Outdate
  <2> QED
    BY <1>8, <2>1, <2>2
<1> QED
  BY <1>2, <1>3, <1>4, <1>5, <1>6, <1>7, <1>8, <1>9
     DEF Next, Looking, Fail, Appear, Evict, Remove, Retry, Begins,
         SaveBegins, SaveEnds, ClearPicks, ClearPurges, ClearLocks, manager

\* How an action goes on.
LEMMA OpStep ==
  ASSUME IInv, Next
  PROVE  \/ UNCHANGED op
         \/ /\ op.at = "idle" /\ Stays /\ UNCHANGED <<row, home>>
            /\ op'.at \in {"force", "purge", "halt"} /\ op'.id \in Ids /\ op'.old = mem[op'.id]
            /\ mem[op'.id] # NoTask /\ (op'.at = "halt" => mem[op'.id].st \in Stopped)
         \/ op.at \notin Late \cup {"idle"} /\ op'.at = "idle"
         \/ /\ op.at \notin Late \cup {"idle"} /\ op'.at \notin Late \cup {"idle"} /\ Stays
            /\ op'.id = op.id /\ op'.old = op.old
            /\ op'.at \in Retrying \cup {"delete"} => op.at \in Retrying \/ row'[op.old.gid] # "live"
         \/ /\ op.at \in Late /\ op'.at \in Late /\ Stays
            /\ op'.id = op.id /\ op'.old = op.old /\ op'.new = op.new
         \/ \E g \in Fresh : Reserves(g)
         \/ Undoes
         \/ Publishes
<1> USE DEF IInv
<1>0. /\ \A at \in {"purge", "delete", "reserve", "unhalt", "unpurge", "write", "publish"} :
            at \in {"idle", "force", "purge", "delete"} \cup Retrying
      /\ "halt" \in Retrying /\ "reserve" \in Retrying
      /\ "force" \notin Retrying /\ "purge" \notin Retrying /\ "delete" \notin Retrying
  BY DEF Retrying
<1>1. ASSUME NEW i \in Ids, Remove(i) \/ Retry(i)
      PROVE  /\ op.at = "idle" /\ Stays /\ UNCHANGED <<row, home>>
             /\ op'.at \in {"force", "purge", "halt"} /\ op'.id \in Ids /\ op'.old = mem[op'.id]
             /\ mem[op'.id] # NoTask /\ (op'.at = "halt" => mem[op'.id].st \in Stopped)
  <2>1. PICK at \in {"force", "purge", "halt"} : Begins(i, at) /\ (at = "halt" => mem[i].st \in Stopped)
    BY <1>1 DEF Remove, Retry
  <2>2. op.at = "idle" /\ Stays /\ UNCHANGED <<row, home>> /\ mem[i] # NoTask
    BY <2>1 DEF Begins, Stays, manager, engine
  <2>3. op'.at = at /\ op'.id = i /\ op'.old = mem[i]
    BY <2>1, BeginsEffect
  <2> QED
    BY <2>1, <2>2, <2>3
<1>2. CASE RemoveForces
  BY <1>0, <1>2, GoesEffect DEF RemoveForces, Late, Stays, manager
<1>3. CASE RemovePurges
  <2>1. op.at = "purge" /\ op.at # "idle" /\ op.old.gid \in Gids /\ Stays
    BY <1>3, OpTyped DEF RemovePurges, Stays, manager
  <2>2. PICK ok \in BOOLEAN : /\ Purges(op.old.gid, ok)
                              /\ IF ok THEN Goes("delete") ELSE Ends
    BY <1>3 DEF RemovePurges
  <2>3. CASE ok
    <3>1. row'[op.old.gid] # "live"
      BY <1>3, <2>1, <2>2, <2>3, PurgesEffect DEF RemovePurges
    <3> QED
      BY <1>0, <2>1, <2>2, <2>3, <3>1, GoesEffect DEF Late
  <2>4. CASE ~ok
    BY <2>1, <2>2, <2>4, EndsEffect DEF Late
  <2> QED
    BY <2>3, <2>4
<1>4. CASE RemoveDeletes \/ UndoWrites
  BY <1>4, EndsEffect DEF RemoveDeletes, UndoWrites, Late
<1>5. CASE RetryHalts
  <2>1. op.at = "halt" /\ Goes("reserve") /\ Stays
    BY <1>5 DEF RetryHalts, Stays, manager
  <2> QED
    BY <1>0, <2>1, GoesEffect DEF Late
<1>6. CASE RetryReserves
  <2>1. op.at = "reserve" /\ op.at # "idle" /\ op.at \notin Late
    BY <1>6 DEF RetryReserves, Late
  <2> QED
    BY <1>6, <2>1, RetryStores, EndsEffect DEF Undoes, Publishes
<1>7. CASE RetryAdds
  BY <1>7, AddsEffect DEF Late, Stays, manager
<1>8. CASE UndoHalts
  BY <1>0, <1>8, GoesEffect DEF UndoHalts, Late, Stays, manager
<1>9. CASE UndoPurges
  <2>1. op.at = "unpurge" /\ op.at \in Late
    BY <1>9 DEF UndoPurges, Late
  <2>2. CASE Commits /\ Stays
    BY <1>0, <2>1, <2>2, CommitsGoes, GoesEffect DEF Late
  <2> QED
    BY <1>9, <2>1, <2>2, RetryStores DEF Reserves, Publishes
<1>10. CASE RetryWrites
  BY <1>0, <1>10, GoesEffect DEF RetryWrites, Late, Stays, manager
<1>11. CASE RetryPublishes
  BY <1>11, RetryStores DEF RetryPublishes
<1>12. CASE UNCHANGED op
  BY <1>12
<1> QED
  BY <1>1, <1>2, <1>3, <1>4, <1>5, <1>6, <1>7, <1>8, <1>9, <1>10, <1>11, <1>12, ZenonT(60)
     DEF Next, Laned, OpLaned, Looking, OpCalls, Fail, Appear, NoteReads, Evict, PollReads,
         Skip, Refresh, Capture, Adopt, TakeLock, CommitWrite, CommitPublish, AdoptWrite,
         AdoptPublish, SaveBegins, SaveEnds, ClearPicks, ClearPurges, ClearLocks, ClearDeletes, acts

-----------------------------------------------------------------------------
(* Given, Current, Halted and Owned.                                        *)

\* The retry's own steps are about a task that is there.
LEMMA OpOwns ==
  ASSUME IInv, op.at # "idle"
  PROVE  op.id \in Ids /\ lock[op.id] = "op" /\ mem[op.id] # NoTask
<1>1. op.id \in Ids /\ lock[op.id] = "op"
  BY OpTyped DEF IInv, Locked
<1>2. CASE op.at \in Late
  <2>1. ReservedOwner.gid = op.new /\ op.new \in Gids
    BY <1>2, OpTyped DEF IInv, ReservedOwner, Late
  <2> QED
    BY <1>1, <1>2, <2>1, Constants DEF IInv, Current
<1>3. CASE op.at \notin Late
  BY <1>1, <1>3 DEF IInv, Current
<1> QED
  BY <1>1, <1>2, <1>3

\* Which task a step replaces: one that was there, or the orphan's.
LEMMA MemStep ==
  ASSUME IInv, Next, NEW i \in Ids
  PROVE  \/ mem'[i] = mem[i]
         \/ mem[i] # NoTask /\ mem'[i] = NoTask /\ \E S \in SUBSET Ids : Forgets(S) /\ i \in S
         \/ mem[i] # NoTask /\ mem'[i] # NoTask
         \/ \E w \in Watchers : Adopts(w) /\ watch[w].id = i
<1> USE DEF IInv
<1>1. CASE Stays
  BY <1>1 DEF Stays
<1>2. ASSUME NEW j \in Ids, NEW t \in Tasks, Rewrites(j, t)
      PROVE  mem'[i] = mem[i] \/ (mem[i] # NoTask /\ mem'[i] # NoTask)
  BY <1>2, StoreEffect, Constants DEF Rewrites, TypeOK
<1>3. ASSUME NEW w \in Watchers, Adopts(w)
      PROVE  mem'[i] = mem[i] \/ watch[w].id = i
  BY <1>3, WatchingTyped, StoreEffect DEF Adopts, TypeOK
<1>4. ASSUME NEW j \in Ids, NEW t \in Tasks, NEW kept \in SUBSET Gids, Store(j, t, kept),
             mem[j] # NoTask
      PROVE  mem'[i] = mem[i] \/ (mem[i] # NoTask /\ mem'[i] # NoTask)
  BY <1>4, StoreEffect, Constants
<1>5. ASSUME NEW g \in Fresh, Reserves(g)
      PROVE  mem'[i] = mem[i] \/ (mem[i] # NoTask /\ mem'[i] # NoTask)
  <2>1. op.id \in Ids /\ mem[op.id] # NoTask /\ op.old.st \in {"active", "error", "removed"}
    BY <1>5, OpOwns, OpTyped, Constants DEF Reserves
  <2>2. [gid |-> g, st |-> op.old.st] \in Tasks /\ reserved \cup {g} \in SUBSET Gids
    <3>1. g \in Gids
      BY Constants
    <3>2. [gid |-> g, st |-> op.old.st] \in Tasks
      BY <2>1, <3>1, Constants
    <3> QED
      BY <3>1, <3>2 DEF TypeOK
  <2>3. Store(op.id, [gid |-> g, st |-> op.old.st], reserved \cup {g})
    BY <1>5 DEF Reserves
  <2> QED
    BY <1>4, <2>1, <2>2, <2>3
<1>6. CASE Undoes
  <2>1. op.id \in Ids /\ mem[op.id] # NoTask /\ op.old \in Tasks /\ reserved \ {op.new} \in SUBSET Gids
    BY <1>6, OpOwns, OpTyped DEF Undoes, TypeOK
  <2> QED
    BY <1>4, <1>6, <2>1 DEF Undoes
<1>7. CASE Publishes
  <2>1. op.id \in Ids /\ mem[op.id] # NoTask /\ op.new \in Gids /\ reserved \ {op.new} \in SUBSET Gids
    BY <1>7, OpOwns, OpTyped DEF Publishes, Late, TypeOK
  <2>2. Candidate \in Tasks
    BY <2>1, Constants DEF Candidate
  <2> QED
    BY <1>4, <1>7, <2>1, <2>2 DEF Publishes
<1>8. ASSUME NEW S \in SUBSET Ids, Forgets(S)
      PROVE  mem'[i] = mem[i] \/ (mem[i] # NoTask /\ mem'[i] = NoTask /\ i \in S)
  BY <1>8, ForgetEffect DEF Forgets
<1> QED
  BY <1>1, <1>2, <1>3, <1>5, <1>6, <1>7, <1>8, ManagerStep

\* What is deleted.
LEMMA GoneStep ==
  ASSUME IInv, Next, NEW i \in Ids
  PROVE  i \in gone' <=> i \in gone \/ \E S \in SUBSET Ids : Forgets(S) /\ i \in S
<1> USE DEF IInv
<1>1. CASE \E S \in SUBSET Ids : Forgets(S)
  <2>1. PICK S \in SUBSET Ids : Forgets(S)
    BY <1>1
  <2>2. gone' = gone \cup S
    BY <2>1 DEF Forgets, Forget
  <2>3. ASSUME NEW R \in SUBSET Ids, Forgets(R), i \in R
        PROVE  i \in gone'
    BY <2>3 DEF Forgets, Forget
  <2> QED
    BY <2>1, <2>2, <2>3
<1>2. CASE ~ \E S \in SUBSET Ids : Forgets(S)
  BY <1>2, MovesStep DEF Stays, Moves, Store
<1> QED
  BY <1>1, <1>2

\* Public ids are never taken back.
LEMMA UsedStep ==
  ASSUME IInv, Next
  PROVE  used \subseteq used'
BY ZenonT(60) DEF Next, Laned, OpLaned, Looking, OpCalls, Fail, Appear, Evict, NoteReads, PollReads,
       Skip, Refresh, Capture, Adopt, TakeLock, CommitWrite, CommitPublish, AdoptWrite, AdoptPublish,
       Remove, Retry, Begins, RemoveForces, RemovePurges, RemoveDeletes, RetryHalts, RetryReserves,
       RetryAdds, UndoHalts, UndoPurges, UndoWrites, RetryWrites, RetryPublishes,
       SaveBegins, SaveEnds, ClearPicks, ClearPurges, ClearLocks, ClearDeletes

\* Given is kept.
LEMMA GivenStep ==
  ASSUME IInv, Next
  PROVE  Given'
<1> USE DEF IInv
<1>1. ASSUME NEW S \in SUBSET Ids, Forgets(S), NEW i \in S
      PROVE  i \in used /\ mem[i] # NoTask /\ mem'[i] = NoTask /\ db'[i] = NoTask /\ save'.snap[i] = NoTask
  <2>1. mem[i] # NoTask /\ mem'[i] = NoTask /\ db'[i] = NoTask
    BY <1>1, ForgetEffect DEF Forgets
  <2>2. save' = NotSaving
    BY <1>1 DEF Forgets, Told
  <2> QED
    BY <2>1, <2>2 DEF Given, NotSaving
<1>2. (gone \subseteq used)'
  BY <1>1, GoneStep, UsedStep, TypeStep DEF Given, TypeOK
<1>3. ASSUME NEW i \in Ids, mem'[i] # NoTask
      PROVE  i \in used' \ gone'
  <2>1. CASE mem[i] # NoTask
    BY <1>1, <1>3, <2>1, GoneStep, UsedStep DEF Given
  <2>2. CASE mem[i] = NoTask
    <3>1. PICK w \in Watchers : Adopts(w) /\ watch[w].id = i
      BY <1>3, <2>2, MemStep
    <3>2. i \in used \ gone
      BY <3>1 DEF Adopts, Given, Adopting
    <3> QED
      BY <1>1, <2>2, <3>2, GoneStep, UsedStep
  <2> QED
    BY <2>1, <2>2
<1>4. ASSUME NEW i \in gone
      PROVE  db'[i] = NoTask /\ save'.snap[i] = NoTask
  <2>1. i \in Ids /\ mem[i] = NoTask /\ db[i] = NoTask /\ save.snap[i] = NoTask
    BY DEF Given, TypeOK
  <2>2. save'.snap[i] = NoTask
    BY <2>1, SnapStep
  <2>3. ASSUME NEW w \in Watchers, watch[w].at = "adopt"
        PROVE  watch[w].id # i
    BY <2>3 DEF Given, Adopting
  <2>4. ASSUME NEW g \in Fresh, Reserves(g)
        PROVE  db'[i] = NoTask
    BY <2>1, <2>4, OpOwns DEF Reserves, TypeOK
  <2>5. ASSUME NEW S \in SUBSET Ids, Forgets(S)
        PROVE  db'[i] = NoTask
    BY <2>1, <2>5 DEF Forgets
  <2> QED
    BY <2>1, <2>2, <2>3, <2>4, <2>5, DbStep
<1>5. ASSUME NEW i \in gone'
      PROVE  db'[i] = NoTask /\ save'.snap[i] = NoTask
  <2>1. i \in Ids
    BY TypeStep DEF TypeOK
  <2> QED
    BY <1>1, <1>4, <2>1, GoneStep
<1>6. ASSUME NEW w \in Watchers, Adopting(w)'
      PROVE  \/ TakesUp(w)
             \/ Adopting(w) /\ watch'[w].id = watch[w].id /\ watch'[w].gid = watch[w].gid
  BY <1>6, WatchStep DEF Adopting, SamePlan, Captures
<1>7. ASSUME NEW w \in Watchers, TakesUp(w)
      PROVE  /\ watch'[w].id \in used' \ gone' /\ mem'[watch'[w].id] = NoTask
             /\ watch'[w].gid \in Foreign /\ watch'[w].id \notin used
  <2> DEFINE i == watch'[w].id
             g == watch'[w].gid
  <2>1. i \in Ids \ used /\ i \in used' /\ mem[i] = NoTask /\ i \notin gone
    BY <1>7 DEF TakesUp, Given
  <2>2. gone' = gone /\ mem' = mem
    BY <1>7 DEF TakesUp, Stays
  <2>3. g \in Gids /\ ~Unseen(g) /\ ~IsShielded(g) /\ Owner(g) = NoTask
    BY <1>7 DEF TakesUp, TypeOK, Unseen
  <2>4. g \notin Fresh
    <3> SUFFICES ASSUME g \in Fresh
                 PROVE  FALSE
      OBVIOUS
    <3>1. home[g] # Nobody
      BY <2>3 DEF Secret
    <3>2. index[g] # Nobody
      BY <2>3, <3>1 DEF Minted
    <3>3. mem[index[g]] # NoTask
      BY <2>3, <3>2 DEF Indexed
    <3> QED
      BY <2>3, <3>2, <3>3 DEF Owner
  <2> QED
    BY <2>1, <2>2, <2>3, <2>4 DEF Gids
<1>8. ASSUME NEW w \in Watchers, Adopting(w), watch'[w].id = watch[w].id, watch'[w].gid = watch[w].gid,
             Adopting(w)'
      PROVE  /\ watch'[w].id \in used' \ gone' /\ mem'[watch'[w].id] = NoTask
             /\ watch'[w].gid \in Foreign /\ watch'[w].id \in used
  <2> DEFINE i == watch[w].id
  <2>1. i \in Ids /\ i \in used \ gone /\ mem[i] = NoTask /\ watch[w].gid \in Foreign
    BY <1>8 DEF Given, Adopting, TypeOK
  <2>2. mem'[i] = NoTask
    <3>1. ASSUME NEW v \in Watchers, Adopts(v), watch[v].id = i
          PROVE  FALSE
      <4>1. v = w
        BY <1>8, <3>1 DEF Given, Adopts, Adopting
      <4>2. watch[v].gid \in Gids
        BY <3>1, WatchingTyped DEF Adopts
      <4>3. watch'[v].at \in {"idle", "look"}
        BY <3>1, <4>2, DoneEffect DEF Adopts
      <4> QED
        BY <1>8, <4>1, <4>3 DEF Adopting
    <3> QED
      BY <2>1, <3>1, MemStep
  <2>3. i \notin gone'
    BY <1>1, <2>1, GoneStep
  <2> QED
    BY <1>8, <2>1, <2>2, <2>3, UsedStep
<1>9. ASSUME NEW w \in Watchers, NEW v \in Watchers \ {w}, Adopting(w)', Adopting(v)'
      PROVE  watch'[v].id # watch'[w].id
  <2>1. CASE TakesUp(w)
    <3>1. Adopting(v) /\ watch'[v].id = watch[v].id /\ watch[v].id \in used
      BY <1>9, <2>1 DEF TakesUp, Adopting, Given
    <3> QED
      BY <1>7, <2>1, <3>1
  <2>2. CASE TakesUp(v)
    <3>1. Adopting(w) /\ watch'[w].id = watch[w].id /\ watch[w].id \in used
      BY <1>9, <2>2 DEF TakesUp, Adopting, Given
    <3> QED
      BY <1>7, <2>2, <3>1
  <2>3. CASE ~TakesUp(w) /\ ~TakesUp(v)
    BY <1>6, <1>9, <2>3 DEF Given
  <2> QED
    BY <2>1, <2>2, <2>3
<1> QED
  BY <1>2, <1>3, <1>5, <1>6, <1>7, <1>8, <1>9 DEF Given

\* Current is kept.
LEMMA CurrentStep ==
  ASSUME IInv, Next
  PROVE  Current'
<1> USE DEF IInv
<1> DEFINE Holds(w) == \/ watch[w].at \in {"write", "publish"}
                       \/ watch[w].at = "lock" /\ w \notin stale
           HoldsNext(w) == \/ watch'[w].at \in {"write", "publish"}
                           \/ watch'[w].at = "lock" /\ w \notin stale'
\* What a watcher captured is there as long as it is not stale.
<1>1. ASSUME NEW w \in Watchers, Holds(w), watch'[w] = watch[w], HoldsNext(w)
      PROVE  mem'[watch[w].id] # NoTask /\ mem'[watch[w].id].gid = watch[w].gid
  <2> DEFINE i == watch[w].id
  <2>1. i \in Ids /\ mem[i] # NoTask /\ mem[i].gid = watch[w].gid
    BY <1>1, WatchingTyped DEF Current
  <2>2. watch[w].at \in {"write", "publish"} => lock[i] = w
    BY <2>1 DEF Locked
  <2>3. CASE Stays
    BY <2>1, <2>3 DEF Stays
  <2>4. ASSUME NEW j \in Ids, NEW t \in Tasks, Rewrites(j, t)
        PROVE  mem'[i] # NoTask /\ mem'[i].gid = watch[w].gid
    <3>1. /\ Store(j, t, reserved) /\ mem[j] # NoTask /\ mem[j].gid = t.gid
          /\ reserved \in SUBSET Gids /\ t # NoTask
      BY <2>4, Constants DEF Rewrites, TypeOK
    <3>2. mem'[j] = t /\ \A k \in Ids \ {j} : mem'[k] = mem[k]
      BY <3>1, StoreEffect
    <3> QED
      BY <2>1, <3>1, <3>2
  <2>5. ASSUME NEW v \in Watchers, Adopts(v)
        PROVE  mem'[i] # NoTask /\ mem'[i].gid = watch[w].gid
    <3>1. watch[v].id \in Ids /\ mem[watch[v].id] = NoTask
      BY <2>5, WatchingTyped DEF Adopts, Given, Adopting
    <3> QED
      BY <2>1, <2>5, <3>1, StoreEffect DEF Adopts, TypeOK
  <2>6. ASSUME NEW t \in Tasks, NEW kept \in SUBSET Gids, Store(op.id, t, kept), op.at # "idle"
        PROVE  i # op.id /\ mem'[i] = mem[i]
    <3>1. op.id \in Ids /\ lock[op.id] = "op"
      BY <2>6, OpOwns
    <3>2. i # op.id
      BY <1>1, <2>1, <2>2, <2>6, <3>1, StoreEffect DEF Watchers
    <3> QED
      BY <2>1, <2>6, <3>1, <3>2, StoreEffect
  <2>7. ASSUME NEW g \in Fresh, Reserves(g)
        PROVE  mem'[i] = mem[i]
    <3>1. op.old.st \in {"active", "error", "removed"} /\ op.at # "idle" /\ g \in Gids
      BY <2>7, OpTyped, Constants DEF Reserves
    <3>2. [gid |-> g, st |-> op.old.st] \in Tasks
      BY <3>1, Constants
    <3>3. reserved \cup {g} \in SUBSET Gids
      BY <3>1 DEF TypeOK
    <3>4. Store(op.id, [gid |-> g, st |-> op.old.st], reserved \cup {g})
      BY <2>7 DEF Reserves
    <3> QED
      BY <2>6, <3>1, <3>2, <3>3, <3>4
  <2>8. CASE Undoes
    <3>1. op.at # "idle" /\ op.old \in Tasks /\ reserved \ {op.new} \in SUBSET Gids
      BY <2>8, OpTyped DEF Undoes, TypeOK
    <3> QED
      BY <2>1, <2>6, <2>8, <3>1 DEF Undoes
  <2>9. CASE Publishes
    <3>1. op.at # "idle" /\ op.new \in Gids /\ reserved \ {op.new} \in SUBSET Gids
      BY <2>9, OpTyped DEF Publishes, Late, TypeOK
    <3>2. Candidate \in Tasks
      BY <3>1, Constants DEF Candidate
    <3> QED
      BY <2>1, <2>6, <2>9, <3>1, <3>2 DEF Publishes
  <2>10. ASSUME NEW S \in SUBSET Ids, Forgets(S)
         PROVE  mem'[i] = mem[i]
    <3>1. i \in S => lock[i] \in {"op", "clear"}
      BY <2>10 DEF Forgets
    <3>2. watch[w].at = "lock" /\ i \in S => w \in stale'
      BY <2>10, ForgetEffect DEF Forgets
    <3>3. i \notin S
      BY <1>1, <2>2, <3>1, <3>2 DEF Watchers
    <3> QED
      BY <2>1, <2>10, <3>3, ForgetEffect DEF Forgets
  <2> QED
    BY <2>1, <2>3, <2>4, <2>5, <2>7, <2>8, <2>9, <2>10, ManagerStep
<1>2. ASSUME NEW w \in Watchers, HoldsNext(w)
      PROVE  mem'[watch'[w].id] # NoTask /\ mem'[watch'[w].id].gid = watch'[w].gid
  <2>1. CASE watch'[w] = watch[w] /\ (w \in stale => w \in stale')
    BY <1>1, <1>2, <2>1
  <2>2. CASE Captures(w)
    BY <2>2 DEF Captures, Stays
  <2>3. CASE Holds(w) /\ SamePlan(w) /\ Stays
    BY <2>3 DEF Current, SamePlan, Stays
  <2> QED
    BY <1>2, <2>1, <2>2, <2>3, WatchStep DEF TakesUp
\* The retry's own part.
<1> DEFINE Own == /\ op'.at \in Late => mem'[op'.id] = ReservedOwner' /\ home'[op'.new] = op'.id
                                        /\ op'.new # op'.old.gid
                  /\ op'.at \notin Late \cup {"idle"} => mem'[op'.id] # NoTask
                                                         /\ mem'[op'.id].gid = op'.old.gid
                  /\ reserved' = IF op'.at \in Late THEN {op'.new} ELSE {}
<1>3. ASSUME op.at # "idle"
      PROVE  /\ op.id \in Ids /\ op.old \in Tasks
             /\ op.at \in Late => home[op.new] = op.id /\ home'[op.new] = op.id /\ op.new \in Gids
  BY <1>3, OpTyped, HomeStep, Constants DEF Current
<1>4. ASSUME Stays, UNCHANGED op
      PROVE  Own
  BY <1>3, <1>4 DEF Current, Stays, ReservedOwner, Late
<1>5. ASSUME Stays, op.at = "idle", op'.at \in {"force", "purge", "halt"}, op'.old = mem[op'.id],
             mem[op'.id] # NoTask
      PROVE  Own
  BY <1>5 DEF Current, Stays, Late
<1>6. ASSUME Stays, op.at \notin Late \cup {"idle"}, op'.at = "idle"
      PROVE  Own
  BY <1>6 DEF Current, Stays, Late
<1>7. ASSUME Stays, op.at \notin Late \cup {"idle"}, op'.at \notin Late \cup {"idle"},
             op'.id = op.id, op'.old = op.old
      PROVE  Own
  BY <1>7 DEF Current, Stays
<1>8. ASSUME Stays, op.at \in Late, op'.at \in Late, op'.id = op.id, op'.old = op.old, op'.new = op.new
      PROVE  Own
  <2>1. op.at # "idle" /\ "idle" \notin Late
    BY <1>8 DEF Late
  <2> QED
    BY <1>3, <1>8, <2>1 DEF Current, Stays, ReservedOwner
<1>9. ASSUME NEW g \in Fresh, Reserves(g)
      PROVE  Own
  <2>1. op.at = "reserve" /\ op.at # "idle" /\ op.at \notin Late /\ g \in Gids /\ home[g] = Nobody
    BY <1>9, Constants DEF Reserves, Late
  <2>2. op.id \in Ids /\ op.old \in Tasks /\ op.old.st \in {"active", "error", "removed"}
    BY <1>3, <2>1, Constants
  <2>3. [gid |-> g, st |-> op.old.st] \in Tasks /\ [gid |-> g, st |-> op.old.st].gid = g
    BY <2>1, <2>2, Constants
  <2>4. reserved \cup {g} \in SUBSET Gids /\ reserved \cup {g} = {g}
    BY <2>1 DEF TypeOK, Current
  <2>5. Store(op.id, [gid |-> g, st |-> op.old.st], reserved \cup {g})
    BY <1>9 DEF Reserves
  <2>6. mem'[op.id] = [gid |-> g, st |-> op.old.st] /\ reserved' = {g}
    BY <2>2, <2>3, <2>4, <2>5, StoreEffect
  <2>7. home'[g] = op.id
    BY <1>9, <2>1 DEF Reserves, TypeOK
  <2>8. g # op.old.gid
    BY <2>1, <2>2, Constants DEF Minted, Carried
  <2>9. op'.at = "add" /\ op'.id = op.id /\ op'.old = op.old /\ op'.new = g
    BY <1>9 DEF Reserves
  <2>10. op'.at \in Late
    BY <2>9 DEF Late
  <2> QED
    BY <2>6, <2>7, <2>8, <2>9, <2>10 DEF ReservedOwner
<1>10. ASSUME Undoes
       PROVE  Own
  <2>1. op.at # "idle" /\ op.at \in Late /\ op'.at = "undo" /\ op'.at \notin Late \cup {"idle"}
    BY <1>10 DEF Undoes, Late
  <2>2. op.id \in Ids /\ op.old \in Tasks /\ op.old # NoTask /\ reserved \ {op.new} \in SUBSET Gids
    BY <1>3, <2>1, Constants DEF TypeOK
  <2>3. mem'[op.id] = op.old /\ reserved' = reserved \ {op.new}
    BY <1>10, <2>2, StoreEffect DEF Undoes
  <2>4. reserved' = {}
    BY <2>1, <2>3 DEF Current
  <2> QED
    BY <1>10, <2>1, <2>2, <2>3, <2>4 DEF Undoes, ReservedOwner
<1>11. ASSUME Publishes
       PROVE  Own
  <2>1. op.at # "idle" /\ op.at \in Late /\ op'.at = "idle" /\ op'.at \notin Late
    BY <1>11 DEF Publishes, Late
  <2>2. op.id \in Ids /\ op.new \in Gids /\ reserved \ {op.new} \in SUBSET Gids
    BY <1>3, <2>1 DEF TypeOK
  <2>3. Candidate \in Tasks
    BY <2>2, Constants DEF Candidate
  <2>4. reserved' = reserved \ {op.new}
    BY <1>11, <2>2, <2>3, StoreEffect DEF Publishes
  <2> QED
    BY <2>1, <2>4 DEF Current, ReservedOwner
<1>12. ASSUME NEW i \in Ids, NEW t \in Tasks, Rewrites(i, t)
       PROVE  Own
  <2>1. /\ UNCHANGED <<op, home>> /\ mem[i] # NoTask /\ mem[i].gid = t.gid
        /\ ~(op.at \in Late /\ op.id = i) /\ Store(i, t, reserved) /\ reserved \in SUBSET Gids
    BY <1>12 DEF Rewrites, TypeOK
  <2>2. mem'[i] = t /\ (\A j \in Ids \ {i} : mem'[j] = mem[j]) /\ reserved' = reserved /\ t # NoTask
    BY <2>1, StoreEffect, Constants
  <2>3. CASE op.at = "idle"
    BY <2>1, <2>2, <2>3 DEF Current, Late
  <2>4. CASE op.at # "idle"
    BY <1>3, <2>1, <2>2, <2>4 DEF Current, ReservedOwner
  <2> QED
    BY <2>3, <2>4
<1>13. ASSUME NEW w \in Watchers, Adopts(w)
       PROVE  Own
  <2>1. /\ UNCHANGED <<op, home>> /\ watch[w].id \in Ids /\ mem[watch[w].id] = NoTask
        /\ Store(watch[w].id, Discovered(w), reserved) /\ Discovered(w) \in Tasks
        /\ reserved \in SUBSET Gids
    BY <1>13, WatchingTyped DEF Adopts, Given, Adopting, TypeOK
  <2>2. (\A j \in Ids \ {watch[w].id} : mem'[j] = mem[j]) /\ reserved' = reserved
    BY <2>1, StoreEffect
  <2>3. CASE op.at = "idle"
    BY <2>1, <2>2, <2>3 DEF Current, Late
  <2>4. CASE op.at # "idle"
    BY <1>3, <2>1, <2>2, <2>4, OpOwns DEF Current, ReservedOwner
  <2> QED
    BY <2>3, <2>4
<1>14. ASSUME NEW S \in SUBSET Ids, Forgets(S)
       PROVE  Own
  <2>1. /\ UNCHANGED home /\ reserved' = reserved
        /\ \A j \in Ids : mem'[j] = IF j \in S THEN NoTask ELSE mem[j]
        /\ \A j \in S : lock[j] \in {"op", "clear"} /\ ~(op.at \in Late /\ op.id = j)
    BY <1>14, ForgetEffect DEF Forgets
  <2>2. CASE op.at = "delete" /\ op'.at = "idle"
    BY <2>1, <2>2 DEF Current, Late
  <2>3. CASE UNCHANGED op /\ op.at = "idle"
    BY <2>1, <2>3 DEF Current, Late
  <2>4. CASE UNCHANGED op /\ op.at # "idle" /\ \A i \in S : lock[i] = "clear"
    <3>1. op.id \notin S
      BY <2>4, OpOwns
    <3> QED
      BY <1>3, <2>1, <2>4, <3>1 DEF Current, ReservedOwner
  <2> QED
    BY <1>14, <2>2, <2>3, <2>4 DEF Forgets
<1> QED
  <2>1. Own
    BY <1>4, <1>5, <1>6, <1>7, <1>8, <1>9, <1>10, <1>11, <1>12, <1>13, <1>14, ManagerStep, OpStep
  <2> QED
    BY <1>2, <2>1 DEF Current

\* What is down stays down, until its retry adds it.
LEMMA DownStep ==
  ASSUME IInv, Next, NEW g \in Gids, Down(g)
  PROVE  \/ g \in Fresh => row'[g] # "live"
         \/ op.at = "add" /\ RetryAdds /\ g = op.new
BY RowStep DEF Down

\* What the retry's store puts in the place of its task.
LEMMA RetryMem ==
  ASSUME IInv, Next
  PROVE  /\ \A g \in Fresh : Reserves(g) =>
              /\ op.id \in Ids /\ g \in Gids /\ home'[g] = op.id /\ db'[op.id].gid = g
              /\ mem'[op.id].gid = g
              /\ (\A i \in Ids \ {op.id} : mem'[i] = mem[i] /\ db'[i] = db[i])
              /\ index'[g] = op.id /\ g \notin retired'
              /\ \A h \in Gids \ {g} : /\ index'[h] = IF index[h] = op.id THEN Nobody ELSE index[h]
                                       /\ h \in retired' => h \in retired \/ index[h] = op.id
         /\ Undoes =>
              /\ op.id \in Ids /\ op.old \in Tasks /\ mem'[op.id] = op.old
              /\ (\A i \in Ids \ {op.id} : mem'[i] = mem[i])
              /\ index'[op.old.gid] = op.id /\ op.old.gid \notin retired'
              /\ \A h \in Gids \ {op.old.gid} :
                   /\ index'[h] = IF index[h] = op.id THEN Nobody ELSE index[h]
                   /\ h \in retired' => h \in retired \/ index[h] = op.id
         /\ Publishes =>
              /\ op.id \in Ids /\ op.new \in Gids /\ mem'[op.id] = Candidate
              /\ (\A i \in Ids \ {op.id} : mem'[i] = mem[i])
              /\ index'[op.new] = op.id /\ op.new \notin retired'
              /\ \A h \in Gids \ {op.new} :
                   /\ index'[h] = IF index[h] = op.id THEN Nobody ELSE index[h]
                   /\ h \in retired' => h \in retired \/ index[h] = op.id
<1> USE DEF IInv
<1>1. ASSUME NEW g \in Fresh, Reserves(g)
      PROVE  /\ op.id \in Ids /\ g \in Gids /\ home'[g] = op.id /\ db'[op.id].gid = g
             /\ mem'[op.id].gid = g
             /\ (\A i \in Ids \ {op.id} : mem'[i] = mem[i] /\ db'[i] = db[i])
             /\ index'[g] = op.id /\ g \notin retired'
             /\ \A h \in Gids \ {g} : /\ index'[h] = IF index[h] = op.id THEN Nobody ELSE index[h]
                                      /\ h \in retired' => h \in retired \/ index[h] = op.id
  <2> DEFINE t == [gid |-> g, st |-> op.old.st]
  <2>1. op.id \in Ids /\ op.old.st \in {"active", "error", "removed"} /\ g \in Gids
    BY <1>1, OpTyped, Constants DEF Reserves
  <2>2. t \in Tasks /\ t.gid = g
    BY <2>1, Constants
  <2>3. reserved \cup {g} \in SUBSET Gids
    BY <2>1 DEF TypeOK
  <2>4. Store(op.id, t, reserved \cup {g})
    BY <1>1 DEF Reserves
  <2> HIDE DEF t
  <2>5. home'[g] = op.id /\ db'[op.id].gid = g /\ \A i \in Ids \ {op.id} : db'[i] = db[i]
    BY <1>1, <2>1 DEF Reserves, TypeOK
  <2> QED
    BY <2>1, <2>2, <2>3, <2>4, <2>5, StoreEffect
<1>2. ASSUME Undoes
      PROVE  /\ op.id \in Ids /\ op.old \in Tasks /\ mem'[op.id] = op.old
             /\ (\A i \in Ids \ {op.id} : mem'[i] = mem[i])
             /\ index'[op.old.gid] = op.id /\ op.old.gid \notin retired'
             /\ \A h \in Gids \ {op.old.gid} :
                  /\ index'[h] = IF index[h] = op.id THEN Nobody ELSE index[h]
                  /\ h \in retired' => h \in retired \/ index[h] = op.id
  <2>1. op.id \in Ids /\ op.old \in Tasks /\ reserved \ {op.new} \in SUBSET Gids
    BY <1>2, OpTyped DEF Undoes, TypeOK
  <2> QED
    BY <1>2, <2>1, StoreEffect DEF Undoes
<1>3. ASSUME Publishes
      PROVE  /\ op.id \in Ids /\ op.new \in Gids /\ mem'[op.id] = Candidate
             /\ (\A i \in Ids \ {op.id} : mem'[i] = mem[i])
             /\ index'[op.new] = op.id /\ op.new \notin retired'
             /\ \A h \in Gids \ {op.new} :
                  /\ index'[h] = IF index[h] = op.id THEN Nobody ELSE index[h]
                  /\ h \in retired' => h \in retired \/ index[h] = op.id
  <2>1. op.id \in Ids /\ op.new \in Gids /\ reserved \ {op.new} \in SUBSET Gids
    BY <1>3, OpTyped DEF Publishes, Late, TypeOK
  <2>2. Candidate \in Tasks /\ Candidate.gid = op.new
    BY <2>1, Constants DEF Candidate
  <2> QED
    BY <1>3, <2>1, <2>2, StoreEffect DEF Publishes
<1> QED
  BY <1>1, <1>2, <1>3

\* Halted is kept.
LEMMA HaltedStep ==
  ASSUME IInv, Next
  PROVE  Halted'
<1> USE DEF IInv
<1> DEFINE Sunk(g) == g \in Fresh => row'[g] # "live"
<1>1. ASSUME NEW w \in Watchers, watch'[w].at # "idle", watch'[w].st # "live", NEW g \in watch'[w].todo
      PROVE  Sunk(g)
  <2>1. CASE UNCHANGED row /\ row[g] = watch'[w].st
    BY <1>1, <2>1 DEF Down
  <2>2. CASE watch[w].at # "idle" /\ watch'[w].st = watch[w].st /\ g \in watch[w].todo
    <3>1. g \in Gids /\ Down(g) /\ ~Unseen(g)
      BY <1>1, <2>2 DEF Halted, TypeOK, Unseen
    <3> QED
      BY <3>1, DownStep DEF Secret
  <2> QED
    BY <1>1, <2>1, <2>2, WatchStep DEF Captures, TakesUp, SamePlan
<1>2. ASSUME NEW w \in Watchers, watch'[w].at \in {"lock", "write", "publish"}
      PROVE  watch'[w].st = "error"
  BY <1>2, WatchStep DEF Halted, Captures, TakesUp, SamePlan
\* A stopped task that was there does not come to life: only the retry adds,
\* and its id is its own task's.
<1>3. ASSUME NEW i \in Ids, mem[i].st \in Stopped, ~(op.at \in Late /\ op.id = i)
      PROVE  Sunk(mem[i].gid)
  <2>1. mem[i] \in Tasks /\ mem[i] # NoTask /\ mem[i].gid \in Gids /\ Down(mem[i].gid)
    BY <1>3, Constants DEF Halted, TypeOK, Stopped
  <2>2. CASE op.at = "add" /\ mem[i].gid = op.new
    <3>1. op.at \in Late /\ op.new \in Fresh /\ home[op.new] = op.id
      BY <2>2 DEF Current, Told, Late
    <3>2. home[op.new] = i
      BY <2>1, <2>2, <3>1 DEF Minted, Carried
    <3> QED
      BY <1>3, <3>1, <3>2
  <2> QED
    BY <2>1, <2>2, DownStep
<1>4. ASSUME NEW i \in Ids, mem'[i].st \in Stopped, ~(op'.at \in Late /\ op'.id = i)
      PROVE  Sunk(mem'[i].gid)
  <2>1. CASE Undoes
    <3>1. op.at \in Retrying /\ op.at \in Late /\ op.at # "add" /\ op.old.gid \in Gids
      BY <2>1, RetryMem, Constants DEF Undoes, Retrying, Late
    <3>2. Sunk(op.old.gid)
      BY <3>1, DownStep DEF Halted
    <3>3. CASE i = op.id
      BY <2>1, <3>2, <3>3, RetryMem
    <3>4. CASE i # op.id
      BY <1>3, <1>4, <2>1, <3>4, RetryMem
    <3> QED
      BY <3>3, <3>4
  <2>2. CASE Publishes
    <3>1. i # op.id
      <4> SUFFICES ASSUME i = op.id
                   PROVE  FALSE
        OBVIOUS
      <4>1. mem'[i].st = "active"
        BY <2>2, RetryMem DEF Candidate
      <4> QED
        BY <1>4, <4>1 DEF Stopped
    <3> QED
      BY <1>3, <1>4, <2>2, <3>1, RetryMem
  <2>3. ASSUME NEW g \in Fresh, Reserves(g)
        PROVE  Sunk(mem'[i].gid)
    <3>1. i # op.id
      BY <1>4, <2>3 DEF Reserves, Late
    <3> QED
      BY <1>3, <1>4, <2>3, <3>1, RetryMem
  <2>4. ASSUME NEW j \in Ids, NEW t \in Tasks, Rewrites(j, t)
        PROVE  Sunk(mem'[i].gid)
    <3>1. Store(j, t, reserved) /\ reserved \in SUBSET Gids /\ UNCHANGED <<row, op>>
      BY <2>4 DEF Rewrites, TypeOK
    <3>2. mem'[j] = t /\ \A k \in Ids \ {j} : mem'[k] = mem[k]
      BY <3>1, StoreEffect
    <3> QED
      BY <1>3, <1>4, <2>4, <3>1, <3>2 DEF Rewrites, Down
  <2>5. ASSUME NEW w \in Watchers, Adopts(w)
        PROVE  Sunk(mem'[i].gid)
    <3>1. /\ Store(watch[w].id, Discovered(w), reserved) /\ reserved \in SUBSET Gids /\ UNCHANGED op
          /\ watch[w].id \in Ids /\ watch[w].gid \in Foreign
      BY <2>5, WatchingTyped DEF Adopts, Given, Adopting, TypeOK
    <3>2. mem'[watch[w].id] = Discovered(w) /\ \A k \in Ids \ {watch[w].id} : mem'[k] = mem[k]
      BY <2>5, <3>1, StoreEffect DEF Adopts
    <3>3. Discovered(w).gid \notin Fresh
      BY <3>1, OwnershipAssumption DEF Discovered
    <3> QED
      BY <1>3, <1>4, <3>1, <3>2, <3>3 DEF Down
  <2>6. ASSUME NEW S \in SUBSET Ids, Forgets(S)
        PROVE  Sunk(mem'[i].gid)
    <3>1. mem'[i] = IF i \in S THEN NoTask ELSE mem[i]
      BY <2>6, ForgetEffect DEF Forgets
    <3>2. i \notin S
      BY <1>4, <3>1, Constants DEF Stopped
    <3>3. ~(op.at \in Late /\ op.id = i)
      BY <1>4, <2>6 DEF Forgets, Late
    <3> QED
      BY <1>3, <1>4, <3>1, <3>2, <3>3
  <2>7. CASE Stays /\ ~Undoes /\ ~Publishes /\ ~(\E g \in Fresh : Reserves(g))
    <3>1. ~(op.at \in Late /\ op.id = i)
      BY <1>4, <2>7, OpStep DEF Late
    <3> QED
      BY <1>3, <1>4, <2>7, <3>1 DEF Stays
  <2> QED
    BY <2>1, <2>2, <2>3, <2>4, <2>5, <2>6, <2>7, ManagerStep
<1>5. ASSUME op'.at \in Retrying \cup {"delete"}
      PROVE  Sunk(op'.old.gid)
  <2>0. op.at # "idle" => op.old.gid \in Gids
    BY OpTyped
  <2>1. CASE UNCHANGED op
    <3>1. Down(op.old.gid) /\ ~RetryAdds /\ op.at # "idle"
      BY <1>5, <2>1, AddsEffect DEF Halted, Retrying
    <3> QED
      BY <2>0, <2>1, <3>1, DownStep
  <2>2. CASE /\ op.at = "idle" /\ UNCHANGED row
             /\ op'.at \in {"force", "purge", "halt"} /\ op'.id \in Ids /\ op'.old = mem[op'.id]
             /\ (op'.at = "halt" => mem[op'.id].st \in Stopped)
    <3>1. op'.at = "halt"
      BY <1>5, <2>2 DEF Retrying
    <3>2. Down(mem[op'.id].gid)
      BY <2>2, <3>1 DEF Halted, Late
    <3> QED
      BY <2>2, <3>2 DEF Down
  <2>3. CASE /\ op.at \notin Late \cup {"idle"} /\ op'.old = op.old
             /\ op.at \in Retrying \/ row'[op.old.gid] # "live"
    <3>1. op.at # "add" /\ op.at # "idle"
      BY <2>3 DEF Late
    <3>2. op.at \in Retrying => Sunk(op.old.gid)
      BY <2>0, <3>1, DownStep DEF Halted
    <3> QED
      BY <2>3, <3>2 DEF Down
  <2>4. CASE (op.at \in Late /\ op'.old = op.old) \/ Undoes
    <3>1. op.at \in Retrying /\ op.at \in Late /\ op.at # "idle" /\ op'.old = op.old
      BY <2>4 DEF Undoes, Late, Retrying
    <3>2. Down(op.old.gid) /\ op.new # op.old.gid
      BY <3>1 DEF Halted, Current
    <3> QED
      BY <2>0, <3>1, <3>2, DownStep
  <2>5. ASSUME NEW g \in Fresh, Reserves(g)
        PROVE  Sunk(op'.old.gid)
    <3>1. op.at \in Retrying /\ op'.old = op.old /\ UNCHANGED row
      BY <2>5 DEF Reserves, Retrying
    <3> QED
      BY <3>1 DEF Halted, Down
  <2> QED
    BY <1>5, <2>1, <2>2, <2>3, <2>4, <2>5, OpStep DEF Publishes, Retrying
<1> QED
  BY <1>1, <1>2, <1>4, <1>5 DEF Halted, Down

\* Owned is kept: no step takes a live id from its task, in memory or on disk.
LEMMA OwnedStep ==
  ASSUME IInv, Next
  PROVE  Owned'
<1> USE DEF IInv
<1> SUFFICES ASSUME NEW g \in Fresh, row'[g] = "live" \/ (op'.at \in Late /\ op'.new = g)
             PROVE  Kept(g)'
  BY DEF Owned
<1>0. g \in Gids
  BY Constants
<1>1. CASE Reserves(g)
  <2>1. save' = NotSaving /\ op.id \in Ids
    BY <1>1, RetryMem DEF Reserves, Told
  <2> QED
    BY <1>1, <2>1, RetryMem DEF Kept, NotSaving
<1>2. CASE ~Reserves(g)
  <2> DEFINE i == home[g]
  <2>1. row[g] = "live" \/ (op.at \in Late /\ op.new = g)
    <3>1. CASE row'[g] = "live"
      BY <3>1, RowStep DEF Late
    <3>2. CASE op'.at \in Late /\ op'.new = g
      BY <1>2, <3>2, OpStep DEF Late, Undoes, Publishes, Reserves
    <3> QED
      BY <3>1, <3>2
  <2>2. Kept(g)
    BY <2>1 DEF Owned
  <2>3. i \in Ids /\ home'[g] = i
    <3>1. home[g] # Nobody
      BY <2>1, OpTyped, Constants DEF Secret, Unseen, Current, Late
    <3> QED
      BY <1>0, <3>1, HomeStep DEF TypeOK
  <2>4. index[g] = i /\ g \notin retired /\ mem[i] \in Tasks /\ mem[i] # NoTask /\ mem[i].gid = g
    BY <1>0, <2>2, <2>3, Constants DEF Kept, Indexed, TypeOK
\* None of the steps that take the id from its task can be taken.
  <2>5. ASSUME NEW h \in Fresh, Reserves(h)
        PROVE  i # op.id
    <3>1. op.at \notin Late /\ op.at # "idle" /\ op.at \in Retrying
      BY <2>5 DEF Reserves, Late, Retrying
    <3>2. row[g] = "live"
      BY <2>1, <3>1
    <3> QED
      BY <2>4, <3>1, <3>2 DEF Current, Halted, Down
  <2>6. ASSUME NEW S \in SUBSET Ids, Forgets(S)
        PROVE  i \notin S
    BY <2>1, <2>4, <2>6 DEF Forgets, Down, Current
  <2>7. ASSUME Undoes
        PROVE  i # op.id /\ op.old.gid # g
    <3>1. op.at \in Late /\ op'.at \notin Late /\ row'[op.new] # "live" /\ home[op.new] = op.id
      BY <2>7 DEF Undoes, Late, Current
    <3>2. op.new # g
      BY <3>1
    <3>3. i # op.id
      BY <2>4, <3>1, <3>2 DEF Current, ReservedOwner
    <3>4. op.old \in Tasks /\ op.old # NoTask
      BY <2>7, RetryMem, Constants
    <3> QED
      BY <3>1, <3>3, <3>4 DEF Minted, Carried, Late
  <2>8. index'[g] = i /\ g \notin retired'
    <3>1. CASE Stays
      BY <2>4, <3>1 DEF Stays
    <3>2. ASSUME NEW j \in Ids, NEW t \in Tasks, Rewrites(j, t)
          PROVE  index'[g] = i /\ g \notin retired'
      <4>1. Store(j, t, reserved) /\ reserved \in SUBSET Gids /\ mem[j] # NoTask /\ mem[j].gid = t.gid
        BY <3>2 DEF Rewrites, TypeOK
      <4>2. CASE j = i
        BY <2>4, <4>1, <4>2, StoreEffect
      <4>3. CASE j # i
        <5>1. t.gid # g
          BY <4>1, <4>3 DEF Minted, Carried
        <5> QED
          BY <1>0, <2>4, <4>1, <4>3, <5>1, StoreEffect
      <4> QED
        BY <4>2, <4>3
    <3>3. ASSUME NEW w \in Watchers, Adopts(w)
          PROVE  index'[g] = i /\ g \notin retired'
      <4>1. /\ Store(watch[w].id, Discovered(w), reserved) /\ reserved \in SUBSET Gids
            /\ watch[w].id \in Ids /\ watch[w].gid \in Foreign /\ mem[watch[w].id] = NoTask
            /\ Discovered(w) \in Tasks
        BY <3>3, WatchingTyped DEF Adopts, Given, Adopting, TypeOK
      <4>2. Discovered(w).gid # g /\ watch[w].id # i
        BY <2>4, <4>1, OwnershipAssumption DEF Discovered
      <4> QED
        BY <1>0, <2>4, <4>1, <4>2, StoreEffect
    <3>4. ASSUME NEW h \in Fresh, Reserves(h)
          PROVE  index'[g] = i /\ g \notin retired'
      <4>1. h # g /\ i # op.id
        BY <1>2, <2>5, <3>4
      <4> QED
        BY <1>0, <2>4, <3>4, <4>1, RetryMem
    <3>5. CASE Undoes
      BY <1>0, <2>4, <2>7, <3>5, RetryMem
    <3>6. CASE Publishes
      <4>1. op.at \in Late /\ home[op.new] = op.id
        BY <3>6 DEF Publishes, Late, Current
      <4>2. CASE i = op.id
        <5>1. op.new = g
          BY <2>4, <4>1, <4>2 DEF Current, ReservedOwner
        <5> QED
          BY <3>6, <4>2, <5>1, RetryMem
      <4>3. CASE i # op.id
        <5>1. op.new # g
          BY <4>1, <4>3
        <5> QED
          BY <1>0, <2>4, <3>6, <4>3, <5>1, RetryMem
      <4> QED
        BY <4>2, <4>3
    <3>7. ASSUME NEW S \in SUBSET Ids, Forgets(S)
          PROVE  index'[g] = i /\ g \notin retired'
      BY <1>0, <2>4, <2>6, <3>7, ForgetEffect DEF Forgets
    <3> QED
      BY <3>1, <3>2, <3>3, <3>4, <3>5, <3>6, <3>7, ManagerStep
  <2>9. db'[i].gid = g
    <3>1. CASE db'[i] = db[i]
      BY <2>2, <3>1 DEF Kept
    <3>2. ASSUME NEW w \in Watchers, watch[w].at = "adopt"
          PROVE  watch[w].id # i
      BY <2>4, <3>2 DEF Given, Adopting
    <3>3. CASE save.snap[i] # NoTask /\ db'[i] = save.snap[i]
      BY <2>2, <3>3 DEF Kept
    <3>4. ASSUME NEW h \in Fresh, Reserves(h)
          PROVE  db'[i] = db[i]
      BY <2>3, <2>5, <3>4, RetryMem
    <3>5. ASSUME NEW S \in SUBSET Ids, Forgets(S)
          PROVE  db'[i] = db[i]
      BY <2>3, <2>6, <3>5 DEF Forgets
    <3> QED
      BY <2>3, <2>4, <3>1, <3>2, <3>3, <3>4, <3>5, DbStep
  <2>10. save'.snap[i] = NoTask \/ save'.snap[i].gid = g
    BY <2>2, <2>3, <2>4, SnapStep DEF Kept
  <2> QED
    BY <2>3, <2>8, <2>9, <2>10 DEF Kept
<1> QED
  BY <1>1, <1>2

-----------------------------------------------------------------------------
(* The invariant and what follows from it.                                  *)

\* The invariant holds initially.
LEMMA Initially == Init => IInv
<1> SUFFICES ASSUME Init PROVE IInv
  OBVIOUS
<1>1. TypeOK
  BY TypeInit
<1>2. /\ \A w \in Watchers : watch[w] = Quiet
      /\ op.at = "idle" /\ clear.at = "idle" /\ clear.locked = {} /\ save.by = "none"
      /\ \A i \in Ids : mem[i] = NoTask /\ db[i] = NoTask /\ save.snap[i] = NoTask /\ lock[i] = "free"
      /\ \A g \in Gids : row[g] = "none" /\ index[g] = Nobody /\ home[g] = Nobody
      /\ bell = {} /\ reserved = {} /\ gone = {} /\ save = NotSaving
  BY DEF Init, NoOp, NoClear, NotSaving
<1>3. Told
  BY <1>2, QuietTyped DEF Told, Retrying, Late
<1>4. Locked
  BY <1>2, QuietTyped DEF Locked, Watchers
<1>5. Indexed
  BY <1>2 DEF Indexed
<1>6. \A g \in Fresh : g \in Gids /\ Unseen(g)
  BY <1>2, QuietTyped, Constants DEF Unseen
<1>7. Minted /\ Secret
  BY <1>2, <1>6 DEF Minted, Secret, Carried
<1>8. Given
  BY <1>2, QuietTyped DEF Given, Adopting
<1>9. Current /\ Halted
  BY <1>2, QuietTyped, Constants DEF Current, Halted, Late, Retrying, Stopped
<1>10. Owned
  BY <1>2, Constants DEF Owned, Late
<1> QED
  BY <1>1, <1>3, <1>4, <1>5, <1>7, <1>8, <1>9, <1>10 DEF IInv

\* A stutter keeps it.
LEMMA Unmoved == ASSUME IInv, UNCHANGED vars PROVE IInv'
<1> USE DEF IInv
<1>1. TypeOK' /\ Told' /\ Locked' /\ Indexed'
  BY TypeStep, ToldStep, LockedStep, IndexedStep
<1>2. Minted' /\ Secret'
  BY DEF vars, Minted, Secret, Carried, Unseen, IsShielded
<1>3. Given'
  BY DEF vars, Given, Adopting
<1>4. Current' /\ Halted'
  BY DEF vars, Current, Halted, Down, ReservedOwner
<1>5. Owned'
  BY DEF vars, Owned, Kept
<1> QED
  BY <1>1, <1>2, <1>3, <1>4, <1>5

\* The inductive invariant: after every step IInv holds again.
THEOREM Invariance == Spec => []IInv
<1>1. Init => IInv
  BY Initially
<1>2. IInv /\ [Next]_vars => IInv'
  <2> SUFFICES ASSUME IInv, [Next]_vars PROVE IInv'
    OBVIOUS
  <2>1. CASE UNCHANGED vars
    BY <2>1, Unmoved
  <2>2. CASE Next
    <3>1. TypeOK' /\ Told' /\ Locked' /\ Indexed'
      BY TypeStep, ToldStep, LockedStep, IndexedStep
    <3>2. Minted' /\ Secret' /\ Given' /\ Current' /\ Halted' /\ Owned'
      BY <2>2, MintedStep, SecretStep, GivenStep, CurrentStep, HaltedStep, OwnedStep
    <3> QED
      BY <3>1, <3>2 DEF IInv
  <2> QED
    BY <2>1, <2>2
<1> QED
  BY <1>1, <1>2, PTL DEF Spec

\* Every variable keeps its type.
THEOREM TypeCorrect == Spec => []TypeOK
<1>1. IInv => TypeOK
  BY DEF IInv
<1> QED
  BY <1>1, Invariance, PTL

\* A task that Remove or Clear stopped deleted is never in memory or on disk
\* again, and an engine id the application minted is never carried by another
\* task: no poll, notification, save, commit that waited for the lock or
\* compensation of a retry brings either back, in whatever order they come.
THEOREM NothingReturns == Spec => []NeverReturns
<1>1. IInv => NeverReturns
  <2> SUFFICES ASSUME IInv PROVE NeverReturns
    OBVIOUS
  <2>1. \A i \in gone : mem[i] = NoTask /\ db[i] = NoTask
    BY DEF IInv, Given, TypeOK
  <2>2. ASSUME NEW i \in Ids, NEW t \in {mem[i], db[i]}, t # NoTask
        PROVE  home[t.gid] \in {Nobody, i}
    <3>1. t \in Tasks /\ t.gid \in Gids /\ Carried(i, t)
      BY <2>2, Constants DEF IInv, TypeOK, Minted
    <3> QED
      BY <2>2, <3>1 DEF IInv, Minted, Carried
  <2> QED
    BY <2>1, <2>2 DEF NeverReturns
<1> QED
  BY <1>1, Invariance, PTL

\* Each download the application started is on disk under its task as long as
\* the engine runs it, so a crash at any moment leaves none without an owner;
\* and only the retry that reserved its id hides its row from the polls.
THEOREM OwnersOnDisk == Spec => []LiveIsOwned
<1>1. IInv => LiveIsOwned
  <2> SUFFICES ASSUME IInv, NEW g \in Gids, row[g] = "live", home[g] # Nobody
               PROVE  /\ db[home[g]].gid = g
                      /\ IsShielded(g) => op.at \in Retrying /\ op.new = g
    BY DEF LiveIsOwned
  <2>1. g \in Fresh
    BY DEF IInv, Minted
  <2>2. Kept(g)
    BY <2>1 DEF IInv, Owned
  <2>3. g \in reserved => op.at \in Late /\ op.new = g
    BY DEF IInv, Current
  <2>4. Late \subseteq Retrying
    BY DEF Late, Retrying
  <2> QED
    BY <2>2, <2>3, <2>4 DEF Kept, IsShielded
<1> QED
  BY <1>1, Invariance, PTL
=============================================================================
