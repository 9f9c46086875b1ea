------------------------------ MODULE Finalize ------------------------------
(***************************************************************************)
(* Publishing a finished download under its final name: the journalled     *)
(* commit (core/plugin/finalize/finalize-committer.ts), its compensation   *)
(* and startup recovery (finalize-recovery.ts, finalize-removal-safety.ts),*)
(* the checked filesystem operations (native-artifact-operations.ts) and   *)
(* the durable journal (core/session/finalize-journal-repository.ts).      *)
(*                                                                         *)
(* One task; journals with full content identities.  Journals that track a *)
(* Windows rename stamp or an exFAT reservation are not modelled here.     *)
(* Names stand for paths, artifacts for identities: equality is            *)
(* artifactIdentityEquals, and "copy" has the content of the selected      *)
(* artifact under an identity of its own.                                  *)
(*                                                                         *)
(* The code is sequential between awaits; `todo` is what the running       *)
(* commit or recovery has still to do, one element per point where a crash,*)
(* an error or another program can get in between.                         *)
(***************************************************************************)
EXTENDS Naturals, Sequences

CONSTANTS
  Plans,       \* the plans considered: [kind : Kinds, fs : Filesystems]
  MaxFaults,   \* how many operations fail with an I/O error
  MaxCrashes,  \* how often the process dies
  MaxTampers   \* how often another program touches the public names

Kinds == {"move", "copy", "inPlace", "replaceInPlace", "replaceElsewhere"}
Filesystems == {"plain", "noRename", "crossDevice"}

ASSUME FinalizeAssumption ==
  /\ Plans \subseteq [kind : Kinds, fs : Filesystems]
  /\ MaxFaults \in Nat /\ MaxCrashes \in Nat /\ MaxTampers \in Nat

VARIABLES
  plan,       \* the frozen hook plan of the task
  dir,        \* the artifact under each name
  quar,       \* the artifact isolated from each name for its removal
  flushed,    \* artifacts whose content is on stable storage
  jrnl,       \* the journal row
  rec,        \* the record of the running commit or recovery
  todo,       \* what it has still to do
  stage,      \* what is running
  tally,      \* faults, crashes and tamperings so far
  committed   \* history: the terminal transaction was committed

vars == <<plan, dir, quar, flushed, jrnl, rec, todo, stage, tally, committed>>

Names     == {"src", "tgt", "rb", "priv", "stage"}
Artifacts == {"none", "source", "staged", "copy", "partial", "foreign"}
Phases    == {"none", "prepared", "source_preserved", "target_staged", "target_installed",
              "db_committed", "cleaned", "quarantined"}

SamePath == plan.kind \in {"inPlace", "replaceInPlace"}
Replaces == plan.kind \in {"replaceInPlace", "replaceElsewhere"}

\* The name of the selected artifact, and its identity.
Origin   == IF Replaces THEN "stage" ELSE "src"
Selected == IF Replaces THEN "staged" ELSE "source"

\* In place, the target path is the source path.
At(n)   == IF n = "tgt" /\ SamePath THEN "src" ELSE n
Seen(n) == dir[At(n)]

NoRemoval == [at |-> "src", id |-> "none"]
NoRecord  == [phase |-> "none", mode |-> "copy", rb |-> FALSE, priv |-> FALSE,
              privId |-> "none", tgtId |-> "none", link |-> "none", removal |-> NoRemoval]
Fresh     == [NoRecord EXCEPT !.phase = "prepared",
                              !.mode = IF plan.kind = "move" THEN "move" ELSE "copy"]

Records == [phase : Phases, mode : {"copy", "move"}, rb : BOOLEAN, priv : BOOLEAN,
            privId : {"none", "copy"}, tgtId : {"none", "source", "copy"},
            link : {"none", "intended", "confirmed"}, removal : [at : Names, id : Artifacts]]

Tallied == [faults : 0..MaxFaults, crashes : 0..MaxCrashes, tampers : 0..MaxTampers]

TypeOK ==
  /\ plan \in Plans
  /\ dir \in [Names -> Artifacts] /\ quar \in [Names -> Artifacts]
  /\ flushed \subseteq Artifacts
  /\ jrnl \in Records /\ rec \in Records
  /\ stage \in {"idle", "commit", "cleanup", "recover"}
  /\ (stage = "idle" <=> todo = <<>>)
  /\ tally \in Tallied /\ committed \in BOOLEAN

Init ==
  /\ plan \in Plans
  /\ dir = [n \in Names |-> IF n = "src" THEN "source"
                            ELSE IF n = "stage" /\ Replaces THEN "staged" ELSE "none"]
  /\ quar = [n \in Names |-> "none"]
  /\ flushed = {}
  /\ jrnl = NoRecord /\ rec = NoRecord
  /\ todo = <<>> /\ stage = "idle"
  /\ tally = [faults |-> 0, crashes |-> 0, tampers |-> 0]
  /\ committed = FALSE

-----------------------------------------------------------------------------
(* The operations of commit and recovery.                                   *)

Op(do, at, id)       == [do |-> do, at |-> at, id |-> id, to |-> "none", by |-> "none"]
Move(at, id, to)     == [do |-> "move", at |-> at, id |-> id, to |-> to, by |-> "none"]
Check(at, id)        == Op("check", At(at), id)
Flush(at)            == Op("flush", At(at), "none")
Advance(phase)       == Op("advance", "src", phase)
Remove(at, id)       == <<Op("intend", At(at), id), Op("survive", At(at), id)>>
Quarantine           == <<Op("quarantine", "src", "none")>>
Defer                == <<Op("defer", "src", "none")>>
Close                == <<Advance("cleaned")>>

\* A linked publication keeps the identity it was published from.
Linked(r)        == r.link # "none"
LinkSource(r)    == IF r.mode = "move" THEN "src" ELSE "priv"
LinkId(r)        == IF r.mode = "move" THEN "source" ELSE "copy"
LinkConfirmed(r) == r.link = "confirmed" \/ r.phase \in {"target_installed", "db_committed"}

\* Mutant: the private copy is not made durable.
CopyAndPublish_NotDurable ==
  <<Op("notePrivate", "priv", "none"), Op("open", "priv", Selected), Op("copy", "priv", Selected),
    Advance("target_staged"),
    Check("priv", "copy"), Op("publish", "priv", "copy"), Flush("tgt"), Check("tgt", "copy")>>

\* commitPrepared, up to the terminal transaction.
CopyAndPublish ==
  <<Op("notePrivate", "priv", "none"), Op("open", "priv", Selected), Op("copy", "priv", Selected),
    Flush("priv"), Advance("target_staged"),
    Check("priv", "copy"), Op("publish", "priv", "copy"), Flush("tgt"), Check("tgt", "copy")>>

PreserveSource ==
  <<Op("noteRollback", "rb", "none"), Move("src", "source", "rb"), Flush("rb"),
    Advance("source_preserved")>>

Install(id) ==
  <<Op("install", "tgt", id), Check("tgt", id), Op("commit", "tgt", id)>>

\* Mutant: a moved target is not made durable.
Forward_NotDurable(r) ==
  IF plan.kind = "inPlace"
  THEN <<Check("src", "source"), Flush("src"), Check("tgt", "source")>> \o Install("source")
  ELSE IF r.mode = "move" THEN <<Op("publish", "src", "source")>> \o Install("source")
  ELSE (IF SamePath THEN PreserveSource ELSE <<>>) \o CopyAndPublish \o Install("copy")

Forward(r) ==
  IF plan.kind = "inPlace"
  THEN <<Check("src", "source"), Flush("src"), Check("tgt", "source")>> \o Install("source")
  ELSE IF r.mode = "move"
  THEN <<Op("publish", "src", "source"), Flush("tgt")>> \o Install("source")
  ELSE (IF SamePath THEN PreserveSource ELSE <<>>) \o CopyAndPublish \o Install("copy")

\* The clean-up that follows the terminal transaction in commitPrepared.
CleanupLive(r) ==
  LET clean(n, id) == <<Check(n, id)>> \o Remove(n, id)
  IN  (IF ~SamePath /\ (r.mode # "move" \/ Linked(r)) THEN clean("src", "source") ELSE <<>>)
      \o (IF Linked(r) /\ r.priv THEN Remove("priv", LinkId(r)) ELSE <<>>)
      \o (IF r.rb THEN clean("rb", "source") ELSE <<>>)
      \o (IF Replaces THEN clean("stage", "staged") ELSE <<>>)
      \o Close

-----------------------------------------------------------------------------
(* Recovery: what recover() will do, from the record and from what it found *)
(* under the five names.                                                    *)

\* A name that is there must hold the expected identity; then ops are done.
Settle(found, expected, ops, rest) ==
  IF found = "none" THEN rest ELSE IF found = expected THEN ops \o rest ELSE Quarantine

InRb(r)   == IF r.rb THEN dir["rb"] ELSE "none"
InPriv(r) == IF r.priv THEN dir["priv"] ELSE "none"
InStage   == IF Replaces THEN dir["stage"] ELSE "none"

MoveBack(n, id) == <<Move(n, id, "src"), Flush("src")>>

\* removeReplacement, then the last transition.
DropStaging == Settle(InStage, "staged", Remove("stage", "staged"), Close)

\* Mutant: the private copy is left behind.
DropPrivate_Keeps(r, rest) == rest

\* The private copy, whether or not its identity was recorded, is the "copy".
DropPrivate(r, rest) == Settle(InPriv(r), "copy", Remove("priv", "copy"), rest)

Installed(r) ==
  IF r.tgtId # "none" THEN r.tgtId ELSE IF r.privId # "none" THEN r.privId ELSE Selected

Restore(r) ==
  LET rest == DropPrivate(r, Settle(InRb(r), "source", MoveBack("rb", "source"), DropStaging))
  IN  IF plan.kind = "inPlace"
      THEN IF dir["src"] = "source" THEN rest ELSE Quarantine
      ELSE Settle(Seen("tgt"), Installed(r), Remove("tgt", Installed(r)), rest)

\* Mutant: both names of a confirmed hard link look like a conflict.
RestoreMovedSource_NoLink(r) ==
  LET src == dir["src"]
      tgt == dir["tgt"]
  IN  IF src # "none"
      THEN IF src = "source" /\ tgt = "none" THEN <<Flush("src")>> \o Close ELSE Quarantine
      ELSE IF tgt = "source" THEN MoveBack("tgt", "source") \o Close ELSE Quarantine

RestoreMovedSource(r) ==
  LET src == dir["src"]
      tgt == dir["tgt"]
  IN  IF src = "source" /\ Linked(r) /\ tgt = LinkId(r)
      THEN Remove("tgt", LinkId(r)) \o <<Flush("src")>> \o Close
      ELSE IF src # "none"
      THEN IF src = "source" /\ tgt = "none" THEN <<Flush("src")>> \o Close ELSE Quarantine
      ELSE IF tgt = "source" THEN MoveBack("tgt", "source") \o Close ELSE Quarantine

RestorePrepared(r) ==
  LET src  == dir["src"]
      rest == IF ~SamePath /\ dir["tgt"] # "none" THEN Quarantine ELSE DropPrivate(r, DropStaging)
  IN  IF InRb(r) = "none"
      THEN IF src = "source" THEN rest ELSE Quarantine
      ELSE IF src = "none" /\ InRb(r) = "source"
      THEN MoveBack("rb", "source") \o (IF SamePath \/ dir["tgt"] = "none" THEN rest ELSE Quarantine)
      ELSE Quarantine

CleanupRecovered(r) ==
  LET rest == Settle(InRb(r), "source", Remove("rb", "source"), DropPrivate(r, DropStaging))
  IN  IF r.mode = "move" /\ ~Linked(r)
      THEN IF dir["src"] # "none" THEN Quarantine ELSE rest
      ELSE IF SamePath THEN rest
      ELSE Settle(dir["src"], "source", Remove("src", "source"), rest)

\* Nothing is withdrawn before the original was seen intact.
RestoreStaged(r) ==
  LET tgt      == Seen("tgt")
      original == IF plan.kind = "replaceInPlace" THEN InRb(r) ELSE dir["src"]
      expected == IF r.privId # "none" THEN r.privId ELSE Selected
  IN  IF \/ tgt # "none" /\ tgt # expected
         \/ tgt # "none" /\ InPriv(r) # "none" /\ ~Linked(r)
         \/ tgt = "none" /\ InPriv(r) \notin {"none", "copy"}
         \/ original # "source"
      THEN Quarantine ELSE Restore(r)

\* Mutant: a committed publication is rolled back like an installed one.
Recovery_IgnoresCommit(r) ==
  IF r.mode = "move" THEN RestoreMovedSource(r) ELSE Restore(r)

\* recover(), from the reads of the five names on.
Recovery(r) ==
  LET tgt == Seen("tgt")
  IN  IF dir["src"] = "none" /\ tgt = "none" /\ InRb(r) = "none" /\ InPriv(r) = "none"
      THEN Defer
      ELSE IF /\ Linked(r) /\ tgt # "none"
              /\ \/ ~LinkConfirmed(r)
                 \/ /\ r.phase \in {"prepared", "target_staged"}
                    /\ ~(dir[LinkSource(r)] = LinkId(r) /\ tgt = LinkId(r))
      THEN Quarantine
      ELSE IF r.phase = "db_committed"
      THEN IF tgt = "none" THEN Defer
           ELSE IF tgt = Installed(r) THEN CleanupRecovered(r) ELSE Quarantine
      ELSE IF r.phase = "source_preserved"
      THEN IF InRb(r) = "source" THEN Restore(r) ELSE Quarantine
      ELSE IF r.phase = "target_staged" THEN RestoreStaged(r)
      ELSE IF r.mode = "move" THEN RestoreMovedSource(r)
      ELSE IF r.phase = "target_installed" THEN Restore(r)
      ELSE RestorePrepared(r)

-----------------------------------------------------------------------------
(* The journal row.  A write may fail; what the code puts into the live     *)
(* record before it writes (Eager) is then in the record only.              *)

Eager(r, op) ==
  CASE op.do = "noteRollback"                           -> [r EXCEPT !.rb = TRUE]
    [] op.do = "notePrivate"                            -> [r EXCEPT !.priv = TRUE]
    [] op.do = "advance" /\ op.id = "target_staged"     -> [r EXCEPT !.privId = "copy"]
    [] op.do = "install"                                -> [r EXCEPT !.tgtId = op.id]
    [] op.do = "forget"                                 -> [r EXCEPT !.removal = NoRemoval]
    [] OTHER                                            -> r

Patched(r, op) ==
  CASE op.do = "advance"     -> [Eager(r, op) EXCEPT !.phase = op.id]
    [] op.do = "install"     -> [Eager(r, op) EXCEPT !.phase = "target_installed"]
    [] op.do = "commit"      -> [r EXCEPT !.phase = "db_committed"]
    [] op.do = "intend"      -> [r EXCEPT !.removal = [at |-> op.at, id |-> op.id]]
    [] op.do = "noteLink"    -> [r EXCEPT !.link = "intended"]
    [] op.do = "confirmLink" -> [r EXCEPT !.link = "confirmed"]
    [] op.do = "copyMode"    -> [r EXCEPT !.mode = "copy"]
    [] OTHER                 -> Eager(r, op)

\* Mutant: the direct transition of a move is missing.
TransitionAllowed_NoMove(r, to) ==
  \/ r.phase = "prepared" /\ to \in {"source_preserved", "target_staged", "cleaned"}
  \/ r.phase = "source_preserved" /\ to \in {"target_staged", "cleaned"}
  \/ r.phase = "target_staged" /\ to \in {"target_installed", "cleaned"}
  \/ r.phase \in {"target_installed", "db_committed"} /\ to = "cleaned"

\* Mutant: a committed journal cannot be closed.
TransitionAllowed_NoClose(r, to) ==
  \/ r.phase = "prepared" /\ to \in {"source_preserved", "target_staged", "cleaned"}
  \/ r.phase = "prepared" /\ r.mode = "move" /\ to = "target_installed"
  \/ r.phase = "source_preserved" /\ to \in {"target_staged", "cleaned"}
  \/ r.phase = "target_staged" /\ to \in {"target_installed", "cleaned"}
  \/ r.phase = "target_installed" /\ to = "cleaned"

TransitionAllowed(r, to) ==
  \/ r.phase = "prepared" /\ to \in {"source_preserved", "target_staged", "cleaned"}
  \/ r.phase = "prepared" /\ r.mode = "move" /\ to = "target_installed"
  \/ r.phase = "source_preserved" /\ to \in {"target_staged", "cleaned"}
  \/ r.phase = "target_staged" /\ to \in {"target_installed", "cleaned"}
  \/ r.phase \in {"target_installed", "db_committed"} /\ to = "cleaned"

\* What a journal write is refused for.
Refused(op) ==
  CASE op.do = "advance" -> jrnl.phase # op.id /\ ~TransitionAllowed(jrnl, op.id)
    [] op.do = "install" -> ~TransitionAllowed(jrnl, "target_installed")
    [] op.do = "commit"  -> jrnl.phase # "target_installed"
    [] op.do \in {"noteLink", "copyMode"} -> Seen("tgt") # "none"
    [] OTHER -> FALSE

JournalOps == {"noteRollback", "notePrivate", "advance", "install", "intend", "forget",
               "noteLink", "confirmLink", "copyMode", "commit"}

-----------------------------------------------------------------------------
(* How an operation ends.                                                   *)

files == <<dir, quar, flushed>>

Fault == tally.faults < MaxFaults /\ tally' = [tally EXCEPT !.faults = @ + 1]

\* Mutant: a finished run is not over.
Goes_NeverIdle(ops, r) ==
  /\ todo' = ops /\ stage' = stage
  /\ rec' = IF ops = <<>> THEN NoRecord ELSE r

\* The next operations are ops; r is the live record.
Goes(ops, r) ==
  /\ todo' = ops
  /\ stage' = IF ops = <<>> THEN "idle" ELSE stage
  /\ rec' = IF ops = <<>> THEN NoRecord ELSE r

\* An exception: commit() compensates with the live record until the terminal
\* transaction, and leaves everything after it to a later recovery.
Throws(r) ==
  IF stage = "commit"
  THEN todo' = <<Op("recover", "src", "none")>> /\ stage' = "recover" /\ rec' = r
  ELSE todo' = <<>> /\ stage' = "idle" /\ rec' = NoRecord

-----------------------------------------------------------------------------
(* The checked filesystem operations.                                       *)

FileOps == {"move", "link", "open", "copy", "flush", "isolate", "erase"}

\* Mutant: the removal trusts the name, and does not look at the artifact again.
Verified_TrustsName(op) ==
  CASE op.do = "move"  -> dir[op.at] = op.id /\ dir[op.to] = "none" /\ plan.fs # "noRename"
    [] op.do = "link"  -> dir[op.at] = op.id /\ Seen("tgt") = "none"
    [] op.do = "open"  -> dir[Origin] = op.id /\ dir["priv"] = "none"
    [] op.do = "copy"  -> dir[Origin] = op.id
    [] op.do = "flush" -> dir[op.at] # "none"
    [] op.do = "isolate" -> dir[op.at] = "none" \/ quar[op.at] = "none"
    [] op.do = "erase" -> quar[op.at] = "none" \/ dir[op.to] = op.by

\* Mutant: the survivor is not looked at again before the deletion.
Verified_NoSurvivor(op) ==
  CASE op.do = "move"  -> dir[op.at] = op.id /\ dir[op.to] = "none" /\ plan.fs # "noRename"
    [] op.do = "link"  -> dir[op.at] = op.id /\ Seen("tgt") = "none"
    [] op.do = "open"  -> dir[Origin] = op.id /\ dir["priv"] = "none"
    [] op.do = "copy"  -> dir[Origin] = op.id
    [] op.do = "flush" -> dir[op.at] # "none"
    [] op.do = "isolate" ->
         /\ dir[op.at] \in {"none", op.id} /\ quar[op.at] \in {"none", op.id}
         /\ dir[op.at] = "none" \/ quar[op.at] = "none"
    [] op.do = "erase" -> TRUE

\* What the operation verifies, under the handles it holds, before it acts.
Verified(op) ==
  CASE op.do = "move"  -> dir[op.at] = op.id /\ dir[op.to] = "none" /\ plan.fs # "noRename"
    [] op.do = "link"  -> dir[op.at] = op.id /\ Seen("tgt") = "none"
    [] op.do = "open"  -> dir[Origin] = op.id /\ dir["priv"] = "none"
    [] op.do = "copy"  -> dir[Origin] = op.id
    [] op.do = "flush" -> dir[op.at] # "none"
    [] op.do = "isolate" ->
         /\ dir[op.at] \in {"none", op.id} /\ quar[op.at] \in {"none", op.id}
         /\ dir[op.at] = "none" \/ quar[op.at] = "none"
    [] op.do = "erase" -> quar[op.at] = "none" \/ dir[op.to] = op.by

Applied(op) ==
  /\ dir' = CASE op.do = "move"    -> [dir EXCEPT ![op.at] = "none", ![op.to] = op.id]
              [] op.do = "link"    -> [dir EXCEPT ![At("tgt")] = op.id]
              [] op.do = "open"    -> [dir EXCEPT !["priv"] = "partial"]
              [] op.do = "copy"    -> [dir EXCEPT !["priv"] = "copy"]
              [] op.do = "isolate" -> [dir EXCEPT ![op.at] = "none"]
              [] OTHER             -> dir
  /\ quar' = CASE op.do = "isolate" /\ dir[op.at] # "none" -> [quar EXCEPT ![op.at] = dir[op.at]]
               [] op.do = "erase" -> [quar EXCEPT ![op.at] = "none"]
               [] OTHER           -> quar
  /\ flushed' = IF op.do = "flush" THEN flushed \cup {dir[op.at]} ELSE flushed

\* A name that is taken again while its artifact is removed is an error.
Survived(op) == op.do = "erase" /\ dir[op.at] # "none"

FileStep ==
  LET op == Head(todo)
  IN  /\ todo # <<>> /\ op.do \in FileOps
      /\ \/ /\ Verified(op) /\ Applied(op)
            /\ IF Survived(op) THEN Throws(rec) ELSE Goes(Tail(todo), rec)
            /\ UNCHANGED tally
         \/ Verified(op) /\ Applied(op) /\ Fault /\ Throws(rec)
         \/ ~Verified(op) /\ Throws(rec) /\ UNCHANGED <<files, tally>>
      /\ UNCHANGED <<plan, jrnl, committed>>

\* publish(): by a rename, by the private copy when the rename crosses
\* devices, or by a hard link when there is no rename that refuses to replace.
Publish ==
  LET op    == Head(todo)
      clear == dir[op.at] = op.id /\ Seen("tgt") = "none"
      moved == dir' = [dir EXCEPT ![op.at] = "none", ![At("tgt")] = op.id]
      link  == <<Check(op.at, op.id), Op("noteLink", op.at, op.id), Op("link", op.at, op.id),
                 Op("confirmLink", op.at, op.id)>>
  IN  /\ todo # <<>> /\ op.do = "publish"
      /\ \/ ~clear /\ Throws(rec) /\ UNCHANGED <<dir, tally>>
         \/ /\ clear /\ plan.fs = "crossDevice" /\ op.at = "src"
            /\ Goes(<<Check("src", "source"), Op("copyMode", "src", "none")>>, rec)
            /\ UNCHANGED <<dir, tally>>
         \/ /\ clear /\ plan.fs = "noRename"
            /\ Goes(link \o Tail(todo), rec)
            /\ UNCHANGED <<dir, tally>>
         \/ /\ clear /\ ~(plan.fs = "noRename") /\ ~(plan.fs = "crossDevice" /\ op.at = "src")
            /\ moved
            /\ \/ Goes(Tail(todo), rec) /\ UNCHANGED tally
               \/ Fault /\ Throws(rec)
      /\ UNCHANGED <<plan, quar, flushed, jrnl, committed>>

\* requireExactIdentity: a mismatch quarantines the journal.
CheckStep ==
  LET op == Head(todo)
  IN  /\ todo # <<>> /\ op.do = "check"
      /\ Goes(IF dir[op.at] = op.id THEN Tail(todo) ELSE Quarantine, rec)
      /\ UNCHANGED <<plan, files, jrnl, tally, committed>>

\* selectRemovalSurvivor: what must be intact before op.at is removed.
Survivors(op) ==
  {c \in IF rec.phase = "db_committed" THEN {<<At("tgt"), Installed(rec)>>}
         ELSE {<<"src", "source">>} \cup (IF rec.rb THEN {<<"rb", "source">>} ELSE {}) :
     c[1] # op.at}

SurviveStep ==
  LET op     == Head(todo)
      intact == {c \in Survivors(op) : dir[c[1]] = c[2]}
      wrong  == {c \in Survivors(op) : dir[c[1]] \notin {"none", c[2]}}
      owned  == ~(Linked(rec) /\ op.at = At("tgt") /\ ~LinkConfirmed(rec))
  IN  /\ todo # <<>> /\ op.do = "survive"
      /\ \/ /\ owned
            /\ \E c \in intact :
                 /\ c[1] = "src" \/ \A d \in intact : d[1] # "src"
                 /\ flushed' = flushed \cup {c[2]}
                 /\ Goes(<<Op("isolate", op.at, op.id),
                           [Op("erase", op.at, op.id) EXCEPT !.to = c[1], !.by = c[2]],
                           Op("forget", op.at, op.id)>> \o Tail(todo), rec)
         \/ /\ owned /\ intact = {} /\ wrong = {} /\ Survivors(op) # {}
            /\ Throws(rec) /\ UNCHANGED flushed
         \/ /\ ~owned \/ (intact = {} /\ (wrong # {} \/ Survivors(op) = {}))
            /\ Goes(Quarantine, rec) /\ UNCHANGED flushed
      /\ UNCHANGED <<plan, dir, quar, jrnl, tally, committed>>

JournalStep ==
  LET op == Head(todo)
      r  == Patched(rec, op)
  IN  /\ todo # <<>> /\ op.do \in JournalOps
      /\ IF Refused(op)
         THEN Throws(Eager(rec, op)) /\ UNCHANGED <<jrnl, committed>>
         ELSE /\ jrnl' = Patched(jrnl, op)
              /\ committed' = (committed \/ op.do = "commit")
              /\ IF op.do = "copyMode" THEN Goes(Forward(r), r)
                 ELSE IF op.do = "commit"
                 THEN todo' = CleanupLive(r) /\ stage' = "cleanup" /\ rec' = r
                 ELSE Goes(Tail(todo), r)
      /\ UNCHANGED <<plan, files, tally>>

QuarantineStep ==
  /\ todo # <<>> /\ Head(todo).do = "quarantine"
  /\ jrnl' = [jrnl EXCEPT !.phase = "quarantined"]
  /\ Goes(<<>>, rec)
  /\ UNCHANGED <<plan, files, tally, committed>>

\* resumeRemovalIntent: the removal that was under way is verified and redone.
ResumeStep ==
  LET gone == rec.removal
  IN  /\ todo # <<>> /\ Head(todo).do = "resume"
      /\ IF \/ dir[gone.at] # "none" /\ quar[gone.at] # "none"
            \/ dir[gone.at] \notin {"none", gone.id}
            \/ quar[gone.at] \notin {"none", gone.id}
         THEN Goes(Quarantine, rec)
         ELSE Goes(<<Op("survive", gone.at, gone.id)>> \o Tail(todo), rec)
      /\ UNCHANGED <<plan, files, jrnl, tally, committed>>

RecoverStep ==
  /\ todo # <<>> /\ Head(todo).do = "recover"
  /\ Goes(Recovery(rec), rec)
  /\ UNCHANGED <<plan, files, jrnl, tally, committed>>

DeferStep ==
  /\ todo # <<>> /\ Head(todo).do = "defer"
  /\ Throws(rec)
  /\ UNCHANGED <<plan, files, jrnl, tally, committed>>

\* An operation fails without effect.
FailStep ==
  /\ todo # <<>> /\ Fault
  /\ Throws(Eager(rec, Head(todo)))
  /\ UNCHANGED <<plan, files, jrnl, committed>>

Step ==
  \/ FileStep \/ Publish \/ CheckStep \/ SurviveStep \/ JournalStep
  \/ QuarantineStep \/ ResumeStep \/ RecoverStep \/ DeferStep \/ FailStep

-----------------------------------------------------------------------------
(* What starts, stops and disturbs it.                                      *)

Unfinished == jrnl.phase \notin {"none", "cleaned", "quarantined"}

\* commit(): the identities are captured, the journal is prepared.
Commit ==
  /\ stage = "idle" /\ ~committed /\ jrnl.phase \in {"none", "cleaned"}
  /\ dir["src"] = "source" /\ dir[Origin] = Selected
  /\ jrnl' = Fresh /\ rec' = Fresh
  /\ todo' = Forward(Fresh) /\ stage' = "commit"
  /\ UNCHANGED <<plan, files, tally, committed>>

\* recoverAll() at startup, recoverTask() before the task is finalized again.
Recover ==
  /\ stage = "idle" /\ Unfinished
  /\ rec' = jrnl
  /\ todo' = (IF jrnl.removal # NoRemoval THEN <<Op("resume", "src", "none")>> ELSE <<>>)
             \o <<Op("recover", "src", "none")>>
  /\ stage' = "recover"
  /\ UNCHANGED <<plan, files, jrnl, tally, committed>>

\* The process dies: what it had still to do and the live record are gone.
Crash ==
  /\ stage # "idle" /\ tally.crashes < MaxCrashes
  /\ tally' = [tally EXCEPT !.crashes = @ + 1]
  /\ Goes(<<>>, rec)
  /\ UNCHANGED <<plan, files, jrnl, committed>>

\* Another program deletes a public name or puts a file of its own there.
Tamper ==
  /\ tally.tampers < MaxTampers
  /\ tally' = [tally EXCEPT !.tampers = @ + 1]
  /\ \E n \in {"src", At("tgt")}, a \in {"none", "foreign"} :
       dir[n] # a /\ dir' = [dir EXCEPT ![n] = a]
  /\ UNCHANGED <<plan, quar, flushed, jrnl, rec, todo, stage, committed>>

Next == Step \/ Commit \/ Recover \/ Crash \/ Tamper

\* The running commit or recovery goes on; the application is started again,
\* or the task retried, until the journal is settled.
Fairness == WF_vars(Step) /\ WF_vars(Recover)

Spec == Init /\ [][Next]_vars /\ Fairness

-----------------------------------------------------------------------------
(* Properties.                                                              *)

Untouched == tally.tampers = 0
Settled   == jrnl.phase \in {"cleaned", "quarantined"} /\ stage = "idle"
Where(a)  == {n \in Names : dir[n] = a \/ quar[n] = a}

\* No step of a commit or of a recovery removes, moves or overwrites a file
\* that another program put under one of its names.
ForeignUntouched ==
  [][Step => \A n \in Names : dir[n] = "foreign" => dir'[n] = "foreign"]_vars

\* No step of the program makes the download disappear: when the last of its
\* artifacts goes, an intact one that is on stable storage stays, whatever
\* another program did in between (selectRemovalSurvivor, removeKnown).
DownloadKept ==
  [][Step => \A a \in {"source", "copy"} :
       Where(a) # {} /\ Where(a)' = {} =>
         \E b \in {"source", "copy"} \cap flushed : Where(b)' # {}]_vars

\* The public target name never shows a half-copied artifact, nor a copy that a
\* power loss could still damage (materializePrivate, then makeDurable, then publish).
TargetIsWhole ==
  dir["tgt"] # "partial" /\ Seen("tgt") # "partial" /\ (Seen("tgt") = "copy" => "copy" \in flushed)

\* What the terminal transaction recorded is on stable storage, and stays under
\* the target name through every crash, failure and clean-up that follows.
CommittedStays ==
  committed => /\ jrnl.tgtId \in flushed
               /\ Untouched => Seen("tgt") = jrnl.tgtId

\* A closed journal leaves exactly one artifact behind: the published one, or
\* the original under its own name; no private, rollback or quarantine leftover.
ClosedIsTidy ==
  Untouched /\ jrnl.phase = "cleaned" /\ stage = "idle" =>
    /\ \A n \in Names : quar[n] = "none"
    /\ \A n \in Names : dir[n] # "none" <=> n = IF committed THEN At("tgt") ELSE "src"
    /\ ~committed => dir["src"] = "source"

\* Recovery gives up (quarantine) only for a reason it cannot see through: a
\* name touched by another program, a private copy cut off half-way, or a hard
\* link whose confirmation was lost.  A crash or an error anywhere else leaves
\* a journal that the next recovery closes.
QuarantineHasCause ==
  jrnl.phase = "quarantined" =>
    \/ ~Untouched
    \/ dir["priv"] = "partial"
    \/ jrnl.link = "intended" /\ Seen("tgt") # "none"

\* A publication fails only when something went wrong.
FailureHasCause ==
  Settled /\ ~committed => tally.faults + tally.crashes + tally.tampers > 0

\* The two statements for all plans but those for which the code does not keep
\* them: a rollback of an in-place replacement that is repeated, and the direct
\* publication in place.
QuarantineExplained == plan.kind # "replaceInPlace" => QuarantineHasCause
FailureExplained    == plan.kind # "inPlace" => FailureHasCause

\* Every journal is settled in the end, unless another program took the files
\* away (recovery is then deferred until they are back).
JournalSettles == []<>(~Unfinished \/ ~Untouched)

\* With the public names left alone, finalization is the atomic publication
\* that AtomicPublish describes, through every failure and crash.
Shown ==
  IF Seen("tgt") = "none" THEN "nothing"
  ELSE IF Seen("tgt") = "source" /\ SamePath /\ ~committed THEN "original"
  ELSE IF Seen("tgt") \in {"source", "copy"} THEN "product" ELSE "garbage"

Abstract == INSTANCE AtomicPublish
  WITH original <- Where("source") # {}, shown <- Shown, decided <- committed,
       disturbed <- ~Untouched

PublishesAtomically == Abstract!Spec

=============================================================================
