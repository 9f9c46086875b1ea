---------------------------- MODULE FinalizeProofs ----------------------------
(***************************************************************************)
(* What Finalize keeps, for all plans and any number of faults, crashes    *)
(* and tamperings: the types, TargetIsWhole, CommittedStays, ClosedIsTidy, *)
(* the action properties ForeignUntouched and DownloadKept, and the        *)
(* refinement of AtomicPublish.                                            *)
(*                                                                         *)
(* The state of a commit is mostly the program that it has still to run    *)
(* (todo), so the inductive invariant speaks of that program: each of its  *)
(* operations is one of its stage (Staged), a copy is published only after *)
(* it was made durable (Durable), the terminal transaction is its last     *)
(* operation, comes after the target was made durable and checked, and     *)
(* names it (Ready), and what remains after the decision spares the target *)
(* (Kept).  A step does the first operation, or puts a few in front of the *)
(* rest, or starts a new program: each of these keeps the order.           *)
(***************************************************************************)
EXTENDS Finalize, TLAPS

Removable == {"none", "source", "copy", "staged"}
Whole     == {"source", "copy"}

Dos == FileOps \cup JournalOps \cup
       {"publish", "check", "survive", "quarantine", "resume", "recover", "defer"}

\* What each operation is about.
Ops == {op \in [do : Dos, at : Names, id : Artifacts \cup Phases,
                to : Names \cup {"none"}, by : Artifacts] :
  /\ op.do = "move" => op.id = "source" /\ op.at \in {"src", "rb", "tgt"} /\ op.to \in {"src", "rb"}
  /\ op.do \in {"publish", "link"} => \/ op.at = "src" /\ op.id = "source"
                                      \/ op.at = "priv" /\ op.id = "copy"
  /\ op.do \in {"intend", "survive", "isolate", "erase"} => op.id \in Removable
  /\ op.do = "erase" => op.to \in Names /\ op.by \in Whole \cap flushed
  /\ op.do \in {"install", "commit"} => op.id \in Whole
  /\ op.do = "advance" => op.id \in {"source_preserved", "target_staged", "cleaned"}}

\* The operations of a commit, up to the terminal transaction.
Forwarding == {op \in Ops :
  /\ op.do \in {"noteRollback", "move", "flush", "advance", "notePrivate", "open", "copy", "check",
                "publish", "install", "commit", "noteLink", "link", "confirmLink", "copyMode",
                "quarantine"}
  /\ op.do = "move" => op.to = "rb"
  /\ op.do = "advance" => op.id # "cleaned"}

\* Those of a clean-up and of a recovery.
Clearing == {op \in Ops :
  /\ op.do \in {"check", "intend", "survive", "isolate", "erase", "forget", "advance", "move",
                "flush", "quarantine", "defer", "resume", "recover"}
  /\ op.do = "flush" => op.at = "src"
  /\ op.do = "advance" => op.id = "cleaned"}

\* Those that are there before a removal has found what survives it.
Bare == {op \in Clearing : op.do # "erase"}

\* Those that leave the target alone.
Sparing == {op \in Clearing :
  /\ op.do # "move"
  /\ op.do \in {"intend", "survive", "isolate", "erase"} => op.at # At("tgt")}

\* What can be under each name.
Placed ==
  /\ dir["priv"] \in {"none", "partial", "copy"} /\ dir["rb"] \in {"none", "source"}
  /\ dir["stage"] \in {"none", "staged"}
  /\ \A n \in {"src", "tgt"} : dir[n] \in {"none", "source", "copy", "foreign"}
  /\ \A n \in Names : quar[n] \in Removable

Recorded(r) ==
  /\ r.removal.id \in Removable
  /\ r.phase \in {"target_installed", "db_committed"} => r.tgtId \in Whole

\* What is running does what its stage is for.
Staged ==
  /\ Recorded(jrnl) /\ Recorded(rec)
  /\ todo \in Seq(Ops)
  /\ stage = "commit" => todo \in Seq(Forwarding) /\ rec = jrnl /\ rec.removal = NoRemoval
  /\ stage \in {"cleanup", "recover"} => todo \in Seq(Clearing)

FlushPrivate == Op("flush", "priv", "none")
FlushTarget  == Flush("tgt")
Early == {"noteRollback", "move", "flush", "advance", "notePrivate", "open", "copy"}
Publishing(op) == op.do \in {"publish", "link"}

\* A copy is published when it is in f, what is on stable storage, or after it
\* was brought there; and that happens when it is complete (priv).
Announced(s, f) ==
  \A i \in 1..Len(s) : Publishing(s[i]) /\ s[i].id = "copy" =>
    "copy" \in f \/ \E j \in 1..(i-1) : s[j] = FlushPrivate
Materialized(s, priv) ==
  \A i \in 1..Len(s) : s[i] = FlushPrivate =>
    /\ \A j \in 1..(i-1) : s[j].do \in Early
    /\ priv = "copy" \/ \E j \in 1..(i-1) : s[j].do = "copy"

Durable ==
  /\ \A n \in {"src", "tgt"} : dir[n] = "copy" => "copy" \in flushed
  /\ Announced(todo, flushed) /\ Materialized(todo, dir["priv"])

\* The terminal transaction is the last step of a program s, names what was
\* installed, and comes after the target was made durable and looked at.
SealedAt(s, i, tgtId, shown, f, untouched) ==
  LET id == s[i].id IN
  /\ i = Len(s)
  /\ tgtId = id \/ \E j \in 1..(i-1) : s[j].do = "install"
  /\ \A j \in 1..(i-1) : s[j].do = "install" => s[j].id = id
  /\ \/ i > 1 /\ s[i-1] = Check("tgt", id)
     \/ i = 1 /\ id \in f /\ (untouched => shown = id)
  /\ (shown = id => id \in f) \/ \E j \in 1..(i-1) : s[j] = FlushTarget
  /\ \A k \in 1..(i-1) : Publishing(s[k]) => \E j \in (k+1)..(i-1) : s[j] = FlushTarget

Sealed(s, tgtId, shown, f, untouched) ==
  \A i \in 1..Len(s) : s[i].do = "commit" => SealedAt(s, i, tgtId, shown, f, untouched)

Ready == Sealed(todo, rec.tgtId, Seen("tgt"), flushed, Untouched)

\* What remains to be done afterwards spares the target, closes the journal last,
\* and looks first at the removal that was under way.
FinishingBy(S, s, j) ==
  /\ s \in Seq(S)
  /\ \A i \in 1..Len(s) : s[i].do = "advance" => i = Len(s)
  /\ \A i \in 1..Len(s) : s[i].do = "resume" => i = 1 /\ j.removal # NoRemoval

Finishing(s, j) == FinishingBy(Sparing, s, j)

\* What is recorded of a publication that was decided.
Decided(j, f, shown, untouched) ==
  /\ j.tgtId \in Whole \cap f /\ (untouched => shown = j.tgtId)
  /\ j.phase \in {"db_committed", "cleaned", "quarantined"}
  /\ j.removal # NoRemoval => j.removal.at # At("tgt")

Kept ==
  committed =>
    /\ Decided(jrnl, flushed, Seen("tgt"), Untouched)
    /\ stage # "idle" =>
         /\ stage # "commit" /\ rec = jrnl /\ jrnl.phase = "db_committed"
         /\ Finishing(todo, jrnl)

IInv == TypeOK /\ Placed /\ Staged /\ Durable /\ Ready /\ Kept

-----------------------------------------------------------------------------
(* Sequences.                                                               *)

\* What is left of a program, element by element.
LEMMA Rest ==
  ASSUME NEW S, NEW s \in Seq(S), s # <<>>
  PROVE  /\ Head(s) = s[1] /\ s[1] \in S /\ Len(s) \in Nat \ {0}
         /\ Tail(s) \in Seq(S) /\ Len(Tail(s)) = Len(s) - 1
         /\ \A i \in 1..(Len(s) - 1) : Tail(s)[i] = s[i+1]
OBVIOUS

\* One program after the other, element by element.
LEMMA Joined ==
  ASSUME NEW S, NEW a \in Seq(S), NEW b \in Seq(S)
  PROVE  /\ a \o b \in Seq(S) /\ Len(a \o b) = Len(a) + Len(b)
         /\ \A i \in 1..Len(a) : (a \o b)[i] = a[i]
         /\ \A i \in (Len(a)+1)..(Len(a)+Len(b)) : (a \o b)[i] = b[i - Len(a)]
OBVIOUS

\* A program of S is one of every larger set.
LEMMA Wider == ASSUME NEW S, NEW T, S \subseteq T, NEW s \in Seq(S) PROVE s \in Seq(T)
OBVIOUS

\* Four operations in front of a program.
LEMMA InFront ==
  ASSUME NEW S, NEW b \in Seq(S), NEW w, NEW x, NEW y, NEW z,
         NEW s, s = <<w, x, y, z>> \o b
  PROVE  /\ Len(b) \in Nat /\ Len(s) = 4 + Len(b)
         /\ s[1] = w /\ s[2] = x /\ s[3] = y /\ s[4] = z
         /\ \A i \in 5..(4 + Len(b)) : s[i] = b[i - 4]
<1> DEFINE a == <<w, x, y, z>>
           T == S \cup {w, x, y, z}
<1>1. a \in Seq(T) /\ Len(a) = 4 /\ a[1] = w /\ a[2] = x /\ a[3] = y /\ a[4] = z
  OBVIOUS
<1>2. b \in Seq(T)
  BY Wider
<1>3. Len(b) \in Nat
  OBVIOUS
<1>4. s = a \o b
  OBVIOUS
<1> HIDE DEF a, T
<1> QED
  BY <1>1, <1>2, <1>3, <1>4, Joined

-----------------------------------------------------------------------------
(* Records.                                                                 *)

\* A change to the live record leaves it a record.
LEMMA EagerTyped ==
  ASSUME NEW r \in Records, Recorded(r), NEW op \in Ops
  PROVE  Eager(r, op) \in Records /\ Recorded(Eager(r, op))
<1>1. CASE op.do = "noteRollback"
  <2>1. Eager(r, op) = [r EXCEPT !.rb = TRUE]
    BY <1>1 DEF Eager
  <2> QED
    BY <2>1 DEF Records, Recorded
<1>2. CASE op.do = "notePrivate"
  <2>1. Eager(r, op) = [r EXCEPT !.priv = TRUE]
    BY <1>2 DEF Eager
  <2> QED
    BY <2>1 DEF Records, Recorded
<1>3. CASE op.do = "advance" /\ op.id = "target_staged"
  <2>1. Eager(r, op) = [r EXCEPT !.privId = "copy"]
    BY <1>3 DEF Eager
  <2> QED
    BY <2>1 DEF Records, Recorded
<1>4. CASE op.do = "install"
  <2>1. Eager(r, op) = [r EXCEPT !.tgtId = op.id] /\ op.id \in Whole
    BY <1>4 DEF Eager, Ops
  <2> QED
    BY <2>1 DEF Records, Recorded, Whole
<1>5. CASE op.do = "forget"
  <2>1. Eager(r, op) = [r EXCEPT !.removal = NoRemoval]
    BY <1>5 DEF Eager
  <2>2. NoRemoval \in [at : Names, id : Artifacts] /\ NoRemoval.id \in Removable
    BY DEF NoRemoval, Names, Artifacts, Removable
  <2> QED
    BY <2>1, <2>2 DEF Records, Recorded
<1>6. CASE /\ op.do \notin {"noteRollback", "notePrivate", "install", "forget"}
           /\ ~(op.do = "advance" /\ op.id = "target_staged")
  BY <1>6 DEF Eager
<1> QED
  BY <1>1, <1>2, <1>3, <1>4, <1>5, <1>6

\* And so does every transition of the journal.
LEMMA PatchedTyped ==
  ASSUME NEW r \in Records, Recorded(r), NEW op \in Ops
  PROVE  /\ Patched(r, op) \in Records
         /\ op.do # "commit" \/ r.tgtId \in Whole => Recorded(Patched(r, op))
<1>1. Eager(r, op) \in Records /\ Recorded(Eager(r, op))
  BY EagerTyped
<1>2. CASE op.do = "advance"
  <2> DEFINE e == Eager(r, op)
  <2>1. Patched(r, op) = [e EXCEPT !.phase = op.id]
    BY <1>2 DEF Patched
  <2>2. op.id \in Phases \ {"target_installed", "db_committed"}
    BY <1>2 DEF Ops, Phases
  <2> HIDE DEF e
  <2> QED
    BY <1>1, <2>1, <2>2 DEF Records, Recorded, e
<1>3. CASE op.do = "install"
  <2> DEFINE e == Eager(r, op)
  <2>1. Patched(r, op) = [e EXCEPT !.phase = "target_installed"]
    BY <1>3 DEF Patched
  <2>2. e.tgtId = op.id /\ op.id \in Whole /\ "target_installed" \in Phases
    BY <1>3 DEF Eager, Ops, Records, Phases
  <2> HIDE DEF e
  <2> QED
    BY <1>1, <2>1, <2>2 DEF Records, Recorded, e
<1>4. CASE op.do = "commit"
  <2>1. Patched(r, op) = [r EXCEPT !.phase = "db_committed"] /\ "db_committed" \in Phases
    BY <1>4 DEF Patched, Phases
  <2> QED
    BY <1>4, <2>1 DEF Records, Recorded
<1>5. CASE op.do = "intend"
  <2>1. op.at \in Names /\ op.id \in Removable
    BY <1>5 DEF Ops
  <2> DEFINE q == [r EXCEPT !.removal = [at |-> op.at, id |-> op.id]]
  <2>2. q \in Records /\ q.removal.id = op.id /\ q.phase = r.phase /\ q.tgtId = r.tgtId
    BY <2>1 DEF Records, Removable, Artifacts, Names
  <2>3. Patched(r, op) = q
    BY <1>5 DEF Patched
  <2> HIDE DEF q
  <2> QED
    BY <2>1, <2>2, <2>3 DEF Recorded
<1>6. CASE op.do \in {"noteLink", "confirmLink", "copyMode"}
  BY <1>6 DEF Patched, Records, Recorded
<1>7. CASE op.do \notin {"advance", "install", "commit", "intend", "noteLink", "confirmLink", "copyMode"}
  BY <1>1, <1>7 DEF Patched
<1> QED
  BY <1>2, <1>3, <1>4, <1>5, <1>6, <1>7

\* The fields of a patched record.
LEMMA PatchedFields ==
  ASSUME NEW r \in Records, NEW op \in Ops, NEW q, q = Patched(r, op)
  PROVE  /\ q.mode = IF op.do = "copyMode" THEN "copy" ELSE r.mode
         /\ q.rb <=> r.rb \/ op.do = "noteRollback"
         /\ q.priv <=> r.priv \/ op.do = "notePrivate"
         /\ q.link = IF op.do = "noteLink" THEN "intended" ELSE IF op.do = "confirmLink" THEN "confirmed" ELSE r.link
         /\ q.tgtId = IF op.do = "install" THEN op.id ELSE r.tgtId
         /\ q.removal = IF op.do = "intend" THEN [at |-> op.at, id |-> op.id]
                        ELSE IF op.do = "forget" THEN NoRemoval ELSE r.removal
         /\ q.phase = IF op.do = "advance" THEN op.id ELSE IF op.do = "install" THEN "target_installed"
                      ELSE IF op.do = "commit" THEN "db_committed" ELSE r.phase
<1>1. /\ Eager(r, op) \in [phase : {r.phase}, mode : {r.mode}, rb : BOOLEAN, priv : BOOLEAN,
             privId : {r.privId, "copy"}, tgtId : {r.tgtId, op.id}, link : {r.link}, removal : {r.removal, NoRemoval}]
      /\ Eager(r, op).rb <=> r.rb \/ op.do = "noteRollback"
      /\ Eager(r, op).priv <=> r.priv \/ op.do = "notePrivate"
      /\ Eager(r, op).tgtId = IF op.do = "install" THEN op.id ELSE r.tgtId
      /\ Eager(r, op).removal = IF op.do = "forget" THEN NoRemoval ELSE r.removal
  BY DEF Eager, Records
<1>2. CASE op.do \in {"advance", "install"}
  BY <1>1, <1>2 DEF Patched
<1>3. CASE op.do \in {"commit", "intend", "noteLink", "confirmLink", "copyMode"}
  BY <1>3 DEF Patched, Records
<1>4. CASE op.do \notin {"advance", "install", "commit", "intend", "noteLink", "confirmLink", "copyMode"}
  BY <1>1, <1>4 DEF Patched
<1> QED
  BY <1>2, <1>3, <1>4

\* And of one that was changed before its write.
LEMMA EagerFields ==
  ASSUME NEW r \in Records, NEW op, NEW q, q = Eager(r, op)
  PROVE  /\ q.mode = r.mode /\ q.link = r.link /\ q.phase = r.phase
         /\ q.rb <=> r.rb \/ op.do = "noteRollback"
         /\ q.priv <=> r.priv \/ op.do = "notePrivate"
         /\ q.tgtId = IF op.do = "install" THEN op.id ELSE r.tgtId
BY DEF Eager, Records

\* Of these, what Noted and Bound are about.
LEMMA PatchedNotes ==
  ASSUME NEW r \in Records, NEW op \in Ops
  PROVE  /\ Patched(r, op).mode = IF op.do = "copyMode" THEN "copy" ELSE r.mode
         /\ Patched(r, op).rb <=> r.rb \/ op.do = "noteRollback"
         /\ Patched(r, op).priv <=> r.priv \/ op.do = "notePrivate"
         /\ Patched(r, op).link = IF op.do = "noteLink" THEN "intended"
                                  ELSE IF op.do = "confirmLink" THEN "confirmed" ELSE r.link
         /\ Patched(r, op).tgtId = IF op.do = "install" THEN op.id ELSE r.tgtId
<1> DEFINE q == Patched(r, op)
<1>1. q = Patched(r, op)
  OBVIOUS
<1> HIDE DEF q
<1> QED
  BY <1>1, PatchedFields

\* A publication without a journal has nothing in its record.
LEMMA FreshTyped ==
  /\ NoRecord \in Records /\ Recorded(NoRecord)
  /\ Fresh \in Records /\ Recorded(Fresh) /\ Fresh.removal = NoRemoval
BY DEF NoRecord, Fresh, Records, Recorded, NoRemoval, Removable, Names, Artifacts, Phases

-----------------------------------------------------------------------------
(* Programs.                                                                *)

\* Every operation of Forward(r) belongs to a commit.
LEMMA ForwardTyped == ASSUME NEW r \in Records PROVE Forward(r) \in Seq(Forwarding) /\ Forward(r) # <<>>
<1>1. PreserveSource \in Seq(Forwarding)
  BY DEF PreserveSource, Forwarding, Ops, Op, Move, Flush, Advance, At, Dos, FileOps, JournalOps,
         Names, Artifacts, Phases
<1>2. CopyAndPublish \in Seq(Forwarding) /\ CopyAndPublish # <<>>
  BY DEF CopyAndPublish, Forwarding, Ops, Op, Check, Flush, Advance, At, Dos,
         FileOps, JournalOps, Names, Artifacts, Phases, Selected
<1>3. \A id \in Whole : Install(id) \in Seq(Forwarding)
  BY DEF Install, Whole, Forwarding, Ops, Op, Check, At, Dos, FileOps, JournalOps, Names, Artifacts, Phases
<1> DEFINE before == IF SamePath THEN PreserveSource ELSE <<>>
<1>4. ASSUME NEW a \in Seq(Forwarding), NEW b \in Seq(Forwarding), b # <<>>
      PROVE  a \o b \in Seq(Forwarding) /\ a \o b # <<>>
  BY <1>4, Joined
<1>5. \A id \in Whole : Install(id) # <<>>
  BY DEF Install
<1>6. before \in Seq(Forwarding)
  BY <1>1
<1>7. /\ before \o CopyAndPublish \o Install("copy") \in Seq(Forwarding)
      /\ before \o CopyAndPublish \o Install("copy") # <<>>
  BY <1>2, <1>3, <1>4, <1>5, <1>6 DEF Whole
<1>8. /\ <<Check("src", "source"), Flush("src"), Check("tgt", "source")>> \in Seq(Forwarding)
      /\ <<Op("publish", "src", "source"), Flush("tgt")>> \in Seq(Forwarding)
  BY DEF Forwarding, Ops, Op, Check, Flush, At, Dos, FileOps, JournalOps, Names, Artifacts, Phases
<1> QED
  BY <1>3, <1>4, <1>5, <1>7, <1>8 DEF Forward, Whole

\* They belong to a clean-up or a recovery.
LEMMA BareClearing == Seq(Bare) \subseteq Seq(Clearing)
BY Wider DEF Bare

\* The removal of an artifact whose name and identity are known.
LEMMA RemoveTyped ==
  ASSUME NEW n \in Names, NEW id \in Removable
  PROVE  Remove(n, id) \in Seq(Bare)
BY DEF Remove, Bare, Clearing, Ops, Op, At, Dos, FileOps, JournalOps, Names, Artifacts, Phases, Removable

\* The short ends of a recovery.
LEMMA EndsTyped ==
  /\ Quarantine \in Seq(Bare) /\ Defer \in Seq(Bare) /\ Close \in Seq(Bare)
  /\ Quarantine \in Seq(Forwarding)
  /\ Quarantine # <<>> /\ Defer # <<>> /\ Close # <<>>
  /\ <<Op("recover", "src", "none")>> \in Seq(Bare)
  /\ <<Op("resume", "src", "none")>> \in Seq(Bare)
BY DEF Quarantine, Defer, Close, Advance, Bare, Clearing, Forwarding, Ops, Op, Dos, FileOps, JournalOps, Names,
       Artifacts, Phases

\* Such programs one after the other.
LEMMA ClearingJoined ==
  ASSUME NEW a \in Seq(Bare), NEW b \in Seq(Bare)
  PROVE  a \o b \in Seq(Bare) /\ (b # <<>> => a \o b # <<>>)
BY Joined

\* The clean-up after the terminal transaction.
LEMMA CleanupTyped ==
  ASSUME NEW r \in Records
  PROVE  CleanupLive(r) \in Seq(Bare) /\ CleanupLive(r) # <<>>
<1>1. \A n \in Names, id \in Removable : <<Check(n, id)>> \o Remove(n, id) \in Seq(Bare)
  <2> SUFFICES ASSUME NEW n \in Names, NEW id \in Removable
               PROVE  <<Check(n, id)>> \o Remove(n, id) \in Seq(Bare)
    OBVIOUS
  <2>1. <<Check(n, id)>> \in Seq(Bare)
    BY DEF Check, Bare, Clearing, Ops, Op, At, Dos, FileOps, JournalOps, Names, Artifacts, Phases, Removable
  <2> QED
    BY <2>1, RemoveTyped, ClearingJoined
<1>2. LinkId(r) \in Removable /\ {"source", "staged"} \subseteq Removable
  BY DEF LinkId, Removable
<1>3. {"src", "rb", "stage", "priv"} \subseteq Names
  BY DEF Names
<1> QED
  BY <1>1, <1>2, <1>3, RemoveTyped, EndsTyped, ClearingJoined DEF CleanupLive

\* A name that has to be looked at before the rest.
LEMMA SettleTyped ==
  ASSUME NEW found, NEW expected, NEW ops \in Seq(Bare), NEW rest \in Seq(Bare)
  PROVE  Settle(found, expected, ops, rest) \in Seq(Bare)
BY EndsTyped, ClearingJoined DEF Settle

\* Whatever it finds, a recovery only clears.
LEMMA RecoveryTyped ==
  ASSUME NEW r \in Records
  PROVE  Recovery(r) \in Seq(Bare)
<1>1. /\ Installed(r) \in Removable /\ LinkId(r) \in Removable
      /\ {"source", "staged", "copy"} \subseteq Removable
  BY DEF Installed, LinkId, Selected, Records, Removable
<1>2. {"src", "rb", "stage", "priv", "tgt"} \subseteq Names
  BY DEF Names
<1>3. /\ MoveBack("rb", "source") \in Seq(Bare) /\ MoveBack("tgt", "source") \in Seq(Bare)
      /\ <<Flush("src")>> \in Seq(Bare)
  BY DEF MoveBack, Move, Flush, Bare, Clearing, Ops, Op, At, Dos, FileOps, JournalOps, Names, Artifacts, Phases
<1>4. DropStaging \in Seq(Bare)
  BY <1>1, <1>2, RemoveTyped, EndsTyped, SettleTyped DEF DropStaging
<1>5. \A rest \in Seq(Bare) : DropPrivate(r, rest) \in Seq(Bare)
  BY <1>1, <1>2, RemoveTyped, SettleTyped DEF DropPrivate
<1>6. Restore(r) \in Seq(Bare)
  BY <1>1, <1>2, <1>3, <1>4, <1>5, RemoveTyped, EndsTyped, SettleTyped DEF Restore
<1>7. RestoreMovedSource(r) \in Seq(Bare)
  BY <1>1, <1>2, <1>3, RemoveTyped, EndsTyped, ClearingJoined DEF RestoreMovedSource
<1>8. RestorePrepared(r) \in Seq(Bare)
  BY <1>3, <1>4, <1>5, EndsTyped, ClearingJoined DEF RestorePrepared
<1>9. CleanupRecovered(r) \in Seq(Bare)
  BY <1>1, <1>2, <1>4, <1>5, RemoveTyped, EndsTyped, SettleTyped DEF CleanupRecovered
<1>10. RestoreStaged(r) \in Seq(Bare)
  BY <1>6, EndsTyped DEF RestoreStaged
<1> QED
  BY <1>6, <1>7, <1>8, <1>9, <1>10, EndsTyped DEF Recovery

-----------------------------------------------------------------------------
(* What a step does.                                                        *)

\* The next operation and what follows it.
LEMMA Ahead ==
  ASSUME TypeOK, Staged, todo # <<>>
  PROVE  /\ Head(todo) = todo[1] /\ Head(todo) \in Ops
         /\ Len(todo) \in Nat \ {0} /\ Len(Tail(todo)) = Len(todo) - 1
         /\ \A i \in 1..(Len(todo) - 1) : Tail(todo)[i] = todo[i+1]
         /\ Tail(todo) \in Seq(Ops)
         /\ stage = "commit" => Head(todo) \in Forwarding /\ Tail(todo) \in Seq(Forwarding)
         /\ stage # "commit" => Head(todo) \in Clearing /\ Tail(todo) \in Seq(Clearing)
         /\ stage \in {"commit", "cleanup", "recover"}
<1>1. todo \in Seq(Ops)
  BY DEF Staged
<1>2. stage \in {"commit", "cleanup", "recover"}
  BY DEF TypeOK
<1>3. stage = "commit" => todo \in Seq(Forwarding)
  BY DEF Staged
<1>4. stage # "commit" => todo \in Seq(Clearing)
  BY <1>2 DEF Staged
<1>5. stage = "commit" => Head(todo) \in Forwarding /\ Tail(todo) \in Seq(Forwarding)
  BY <1>3, Rest
<1>6. stage # "commit" => Head(todo) \in Clearing /\ Tail(todo) \in Seq(Clearing)
  BY <1>4, Rest
<1> QED
  BY <1>1, <1>2, <1>5, <1>6, Rest

\* The sets of operations depend on the plan, which stays, and on what is on
\* stable storage, which only grows.
LEMMA OpsGrow ==
  ASSUME UNCHANGED plan, flushed \subseteq flushed'
  PROVE  /\ Ops \subseteq Ops' /\ Forwarding \subseteq Forwarding'
         /\ Clearing \subseteq Clearing' /\ Sparing \subseteq Sparing'
<1>1. Ops \subseteq Ops'
  BY DEF Ops
<1>2. Forwarding \subseteq Forwarding' /\ Clearing \subseteq Clearing'
  BY <1>1 DEF Forwarding, Clearing
<1> QED
  BY <1>1, <1>2 DEF Sparing, At, SamePath

\* And so do the programs made of them.
LEMMA SeqsGrow ==
  ASSUME UNCHANGED plan, flushed \subseteq flushed'
  PROVE  /\ Seq(Ops) \subseteq Seq(Ops') /\ Seq(Forwarding) \subseteq Seq(Forwarding')
         /\ Seq(Clearing) \subseteq Seq(Clearing') /\ Seq(Sparing) \subseteq Seq(Sparing')
BY OpsGrow, Wider

\* A checked filesystem operation: the types of what it leaves.
LEMMA AppliedTyped ==
  ASSUME TypeOK, Placed, NEW op \in Ops, op.do \in FileOps, Verified(op), Applied(op)
  PROVE  /\ dir' \in [Names -> Artifacts] /\ quar' \in [Names -> Artifacts]
         /\ flushed \subseteq flushed' /\ flushed' \subseteq Artifacts
         /\ Placed'
<1> USE DEF TypeOK, Placed, Applied, Verified
<1>1. CASE op.do = "move"
  BY <1>1 DEF Ops, Names, Artifacts
<1>2. CASE op.do = "link"
  BY <1>2 DEF Ops, Names, Artifacts, At
<1>3. CASE op.do = "open"
  BY <1>3 DEF Ops, Names, Artifacts
<1>4. CASE op.do = "copy"
  BY <1>4 DEF Ops, Names, Artifacts
<1>5. CASE op.do = "flush"
  BY <1>5 DEF Ops, Names, Artifacts
<1>6. CASE op.do = "isolate"
  BY <1>6 DEF Ops, Names, Artifacts, Removable
<1>7. CASE op.do = "erase"
  BY <1>7 DEF Ops, Names, Artifacts, Removable
<1> QED
  BY <1>1, <1>2, <1>3, <1>4, <1>5, <1>6, <1>7 DEF FileOps

\* How every step disturbs the files.
LEMMA FilesStep ==
  ASSUME TypeOK, Placed, Staged, [Next]_vars
  PROVE  /\ UNCHANGED plan
         /\ dir' \in [Names -> Artifacts] /\ quar' \in [Names -> Artifacts]
         /\ flushed \subseteq flushed' /\ flushed' \subseteq Artifacts
         /\ Placed'
<1>1. CASE FileStep
  <2>1. CASE Verified(Head(todo)) /\ Applied(Head(todo))
    BY <1>1, <2>1, Ahead, AppliedTyped DEF FileStep
  <2>2. CASE UNCHANGED files
    BY <1>1, <2>2 DEF FileStep, files, TypeOK, Placed
  <2> QED
    BY <1>1, <2>1, <2>2 DEF FileStep
<1>2. CASE Publish
  <2>1. UNCHANGED <<plan, quar, flushed>>
    BY <1>2 DEF Publish
  <2>2. CASE UNCHANGED dir
    BY <2>1, <2>2 DEF TypeOK, Placed
  <2>3. CASE dir' = [dir EXCEPT ![Head(todo).at] = "none", ![At("tgt")] = Head(todo).id]
    <3>1. Head(todo) \in Ops /\ Head(todo).do = "publish"
      BY <1>2, Ahead DEF Publish
    <3> QED
      BY <2>1, <2>3, <3>1 DEF TypeOK, Placed, Ops, Names, Artifacts, At
  <2> QED
    BY <1>2, <2>2, <2>3 DEF Publish
<1>3. CASE SurviveStep
  <2>1. UNCHANGED <<plan, dir, quar>>
    BY <1>3 DEF SurviveStep
  <2>2. UNCHANGED flushed \/ \E c \in Survivors(Head(todo)) : flushed' = flushed \cup {c[2]}
    BY <1>3 DEF SurviveStep
  <2>3. \A c \in Survivors(Head(todo)) : c[2] \in Artifacts
    BY DEF Survivors, Staged, Recorded, Installed, Selected, TypeOK, Records, Artifacts
  <2> QED
    BY <2>1, <2>2, <2>3 DEF TypeOK, Placed
<1>4. CASE Tamper
  BY <1>4 DEF Tamper, TypeOK, Placed, At, Names, Artifacts
<1>5. CASE UNCHANGED <<plan, files>>
  BY <1>5 DEF files, TypeOK, Placed
<1>6. [Next]_vars => \/ FileStep \/ Publish \/ SurviveStep \/ Tamper \/ UNCHANGED <<plan, files>>
  BY DEF Next, Step, vars, files, CheckStep, JournalStep, QuarantineStep, ResumeStep, RecoverStep,
         DeferStep, FailStep, Commit, Recover, Crash
<1> QED
  BY <1>1, <1>2, <1>3, <1>4, <1>5, <1>6

-----------------------------------------------------------------------------
(* The program and the records.                                             *)

\* What a program of the next state has to be.
Fitting(s, st, r, j) ==
  /\ s \in Seq(Ops)
  /\ st \in {"idle", "commit", "cleanup", "recover"} /\ (st = "idle" <=> s = <<>>)
  /\ st = "commit" => s \in Seq(Forwarding) /\ r = j /\ r.removal = NoRemoval
  /\ st \in {"cleanup", "recover"} => s \in Seq(Clearing)
  /\ r \in Records /\ Recorded(r) /\ j \in Records /\ Recorded(j)

\* The sets are wider afterwards.
LEMMA FittingGrows ==
  ASSUME UNCHANGED plan, flushed \subseteq flushed', Fitting(todo', stage', rec', jrnl')
  PROVE  Fitting(todo, stage, rec, jrnl)'
BY SeqsGrow DEF Fitting, Recorded

\* An exception hands over to the compensation, or ends the run.
LEMMA ThrowsFits ==
  ASSUME TypeOK, Staged, NEW r \in Records, Recorded(r), Throws(r), UNCHANGED jrnl
  PROVE  Fitting(todo', stage', rec', jrnl')
<1>1. /\ <<Op("recover", "src", "none")>> \in Seq(Clearing)
      /\ <<Op("recover", "src", "none")>> # <<>>
  BY EndsTyped, BareClearing
<1>2. Clearing \subseteq Ops
  BY DEF Clearing
<1>3. <<Op("recover", "src", "none")>> \in Seq(Ops)
  BY <1>1, <1>2, Wider
<1>4. jrnl' \in Records /\ Recorded(jrnl')
  BY DEF TypeOK, Staged
<1>5. CASE stage = "commit"
  <2>1. todo' = <<Op("recover", "src", "none")>> /\ stage' = "recover" /\ rec' = r
    BY <1>5 DEF Throws
  <2>2. rec' \in Records /\ Recorded(rec')
    BY <2>1
  <2>3. todo' \in Seq(Ops) /\ todo' # <<>> /\ todo' \in Seq(Clearing)
    BY <1>1, <1>3, <2>1
  <2> QED
    BY <1>4, <2>1, <2>2, <2>3 DEF Fitting
<1>6. CASE stage # "commit"
  BY <1>4, <1>6, FreshTyped DEF Fitting, Throws
<1> QED
  BY <1>5, <1>6

\* So does every way of going on with a program of the running kind.
LEMMA GoesFits ==
  ASSUME TypeOK, Staged, todo # <<>>, NEW s, NEW r \in Records, Recorded(r), Goes(s, r),
         jrnl' \in Records, Recorded(jrnl'),
         stage = "commit" => s \in Seq(Forwarding) /\ r = jrnl' /\ r.removal = NoRemoval,
         stage # "commit" => s \in Seq(Clearing)
  PROVE  Fitting(todo', stage', rec', jrnl')
<1>1. Clearing \subseteq Ops /\ Forwarding \subseteq Ops
  BY DEF Clearing, Forwarding
<1>2. s \in Seq(Ops)
  BY <1>1, Wider
<1>3. stage \in {"commit", "cleanup", "recover"}
  BY DEF TypeOK
<1> QED
  BY <1>2, <1>3, FreshTyped DEF Fitting, Goes, Recorded

\* The rest of the program with the same record.
LEMMA ContinuesFits ==
  ASSUME TypeOK, Staged, todo # <<>>, Goes(Tail(todo), rec), UNCHANGED jrnl
  PROVE  Fitting(todo', stage', rec', jrnl')
BY Ahead, GoesFits DEF TypeOK, Staged

\* A quarantine with the same record.
LEMMA GivesUpFits ==
  ASSUME TypeOK, Staged, todo # <<>>, Goes(Quarantine, rec), UNCHANGED jrnl
  PROVE  Fitting(todo', stage', rec', jrnl')
BY EndsTyped, BareClearing, GoesFits DEF TypeOK, Staged

\* publish() goes on with its rename, by a link, or by a copy.
LEMMA PublishFits ==
  ASSUME TypeOK, Staged, Publish
  PROVE  Fitting(todo', stage', rec', jrnl')
<1> DEFINE op   == Head(todo)
           link == <<Check(op.at, op.id), Op("noteLink", op.at, op.id), Op("link", op.at, op.id),
                     Op("confirmLink", op.at, op.id)>>
           copy == <<Check("src", "source"), Op("copyMode", "src", "none")>>
<1>1. todo # <<>> /\ op.do = "publish" /\ UNCHANGED jrnl
  BY DEF Publish
<1>2. stage = "commit" /\ op \in Ops /\ Tail(todo) \in Seq(Forwarding)
  BY <1>1, Ahead DEF Clearing
<1>3. copy \in Seq(Forwarding)
  BY DEF Check, Forwarding, Ops, Op, At, Dos, FileOps, JournalOps, Names, Artifacts, Phases
<1>4. link \in Seq(Forwarding)
  <2>1. \/ op.at = "src" /\ op.id = "source"
        \/ op.at = "priv" /\ op.id = "copy"
    BY <1>1, <1>2 DEF Ops
  <2> HIDE DEF op
  <2> QED
    BY <2>1 DEF Check, Forwarding, Ops, Op, At, Dos, FileOps, JournalOps, Names, Artifacts, Phases
<1>5. link \o Tail(todo) \in Seq(Forwarding)
  BY <1>2, <1>4, Joined
<1>6. rec \in Records /\ Recorded(rec) /\ rec = jrnl /\ rec.removal = NoRemoval
  BY <1>2 DEF TypeOK, Staged
<1>7. Throws(rec) \/ Goes(copy, rec) \/ Goes(link \o Tail(todo), rec) \/ Goes(Tail(todo), rec)
  BY DEF Publish
<1> HIDE DEF op, link, copy
<1> QED
  BY <1>1, <1>2, <1>3, <1>5, <1>6, <1>7, GoesFits, ThrowsFits

\* What survives a removal is a whole file under one of the names.
LEMMA SurvivorsTyped ==
  ASSUME Recorded(rec), NEW op, NEW c \in Survivors(op)
  PROVE  c[1] \in Names /\ c[2] \in Whole
<1>1. \/ rec.phase = "db_committed" /\ c = <<At("tgt"), Installed(rec)>>
      \/ c = <<"src", "source">> \/ c = <<"rb", "source">>
  BY DEF Survivors
<1>2. At("tgt") \in Names /\ "src" \in Names /\ "rb" \in Names /\ "source" \in Whole
  BY DEF At, Names, Whole
<1>3. rec.phase = "db_committed" => Installed(rec) \in Whole
  BY DEF Recorded, Installed, Whole
<1> QED
  BY <1>1, <1>2, <1>3

\* A removal begins with what must survive it.
LEMMA SurviveFits ==
  ASSUME TypeOK, Staged, SurviveStep
  PROVE  Fitting(todo, stage, rec, jrnl)'
<1> DEFINE op == Head(todo)
<1>1. todo # <<>> /\ op.do = "survive" /\ UNCHANGED <<plan, jrnl>>
  BY DEF SurviveStep
<1>2. stage # "commit" /\ op \in Ops /\ Tail(todo) \in Seq(Clearing) /\ stage \in {"cleanup", "recover"}
  BY <1>1, Ahead DEF Forwarding
<1>3. rec \in Records /\ Recorded(rec) /\ jrnl \in Records /\ Recorded(jrnl)
  BY DEF TypeOK, Staged
<1>4. CASE Throws(rec) /\ UNCHANGED flushed
  BY <1>1, <1>3, <1>4, ThrowsFits, FittingGrows
<1>5. CASE Goes(Quarantine, rec) /\ UNCHANGED flushed
  BY <1>1, <1>5, GivesUpFits, FittingGrows
<1>6. ASSUME NEW c \in Survivors(op), flushed' = flushed \cup {c[2]},
             Goes(<<Op("isolate", op.at, op.id),
                    [Op("erase", op.at, op.id) EXCEPT !.to = c[1], !.by = c[2]],
                    Op("forget", op.at, op.id)>> \o Tail(todo), rec)
      PROVE  Fitting(todo, stage, rec, jrnl)'
  <2> DEFINE last == [Op("erase", op.at, op.id) EXCEPT !.to = c[1], !.by = c[2]]
             gone == <<Op("isolate", op.at, op.id), last, Op("forget", op.at, op.id)>>
  <2>1. c[1] \in Names /\ c[2] \in Whole
    BY <1>3, SurvivorsTyped
  <2>2. last \in [do : {"erase"}, at : {op.at}, id : {op.id}, to : {c[1]}, by : {c[2]}]
    BY DEF Op
  <2>3. op.at \in Names /\ op.id \in Removable
    BY <1>1, <1>2 DEF Ops
  <2>4. gone \in Seq(Clearing')
    <3> HIDE DEF op, last
    <3>1. last \in Clearing'
      BY <1>6, <2>1, <2>2, <2>3
         DEF Clearing, Ops, Dos, FileOps, JournalOps, Names, Artifacts, Phases, Removable, Whole
    <3>2. Op("isolate", op.at, op.id) \in Clearing' /\ Op("forget", op.at, op.id) \in Clearing'
      BY <2>3 DEF Op, Clearing, Ops, Dos, FileOps, JournalOps, Names, Artifacts, Phases, Removable
    <3> QED
      BY <3>1, <3>2
  <2>5. Tail(todo) \in Seq(Clearing')
    BY <1>1, <1>2, <1>6, SeqsGrow
  <2>6. gone \o Tail(todo) \in Seq(Clearing') /\ gone \o Tail(todo) # <<>>
    BY <2>4, <2>5, Joined
  <2>7. Clearing' \subseteq Ops'
    BY DEF Clearing
  <2>8. gone \o Tail(todo) \in Seq(Ops')
    BY <2>6, <2>7, Wider
  <2>9. todo' = gone \o Tail(todo) /\ stage' = stage /\ rec' = rec
    BY <1>6, <2>6 DEF Goes
  <2> HIDE DEF gone
  <2> QED
    BY <1>1, <1>2, <1>3, <2>6, <2>8, <2>9 DEF Fitting, Recorded
<1> QED
  BY <1>4, <1>5, <1>6 DEF SurviveStep

\* The journal and the live record are changed alike.
LEMMA JournalFits ==
  ASSUME TypeOK, Staged, JournalStep
  PROVE  Fitting(todo', stage', rec', jrnl')
<1> DEFINE op == Head(todo)
           r  == Patched(rec, op)
<1>1. todo # <<>> /\ op.do \in JournalOps
  BY DEF JournalStep
<1>2. op \in Ops /\ stage \in {"commit", "cleanup", "recover"}
  BY <1>1, Ahead
<1>3. rec \in Records /\ Recorded(rec) /\ jrnl \in Records /\ Recorded(jrnl)
  BY DEF TypeOK, Staged
<1>4. CASE Refused(op)
  <2>1. Throws(Eager(rec, op)) /\ UNCHANGED jrnl
    BY <1>4 DEF JournalStep
  <2> QED
    BY <1>2, <1>3, <2>1, EagerTyped, ThrowsFits
<1>5. CASE ~Refused(op)
  <2>1. jrnl' = Patched(jrnl, op)
    BY <1>5 DEF JournalStep
  <2>2. op.do = "commit" => stage = "commit" /\ jrnl.phase = "target_installed"
    BY <1>1, <1>2, <1>5, Ahead DEF Clearing, Refused
  <2>3. op.do = "commit" => rec = jrnl /\ rec.tgtId \in Whole
    BY <1>3, <2>2 DEF Staged, Recorded
  <2>4. r \in Records /\ Recorded(r) /\ jrnl' \in Records /\ Recorded(jrnl')
    BY <1>2, <1>3, <2>1, <2>3, PatchedTyped
  <2>5. stage = "commit" => r = jrnl' /\ r.removal = NoRemoval
    <3> SUFFICES ASSUME stage = "commit" PROVE r = jrnl' /\ r.removal = NoRemoval
      OBVIOUS
    <3>1. rec = jrnl /\ rec.removal = NoRemoval /\ op \in Forwarding
      BY <1>1, Ahead DEF Staged
    <3>2. r.removal = NoRemoval
      BY <1>2, <1>3, <3>1 DEF Forwarding, Patched, Eager, Records
    <3> QED
      BY <2>1, <3>1, <3>2
  <2>6. CASE op.do = "copyMode"
    <3>1. Goes(Forward(r), r)
      BY <1>5, <2>6 DEF JournalStep
    <3>2. stage = "commit"
      BY <1>1, <1>2, <2>6, Ahead DEF Clearing
    <3>3. Forward(r) \in Seq(Forwarding)
      BY <2>4, ForwardTyped
    <3> HIDE DEF r
    <3> QED
      BY <1>1, <2>4, <2>5, <3>1, <3>2, <3>3, GoesFits
  <2>7. CASE op.do = "commit"
    <3>1. todo' = CleanupLive(r) /\ stage' = "cleanup" /\ rec' = r
      BY <1>5, <2>7 DEF JournalStep
    <3>2. CleanupLive(r) \in Seq(Clearing) /\ CleanupLive(r) # <<>>
      BY <2>4, CleanupTyped, BareClearing
    <3>3. Clearing \subseteq Ops
      BY DEF Clearing
    <3>4. CleanupLive(r) \in Seq(Ops)
      BY <3>2, <3>3, Wider
    <3> HIDE DEF r
    <3> QED
      BY <2>4, <3>1, <3>2, <3>4 DEF Fitting
  <2>8. CASE op.do \notin {"copyMode", "commit"}
    <3>1. Goes(Tail(todo), r)
      BY <1>5, <2>8 DEF JournalStep
    <3> HIDE DEF r
    <3> QED
      BY <1>1, <2>4, <2>5, <3>1, Ahead, GoesFits
  <2> QED
    BY <2>6, <2>7, <2>8
<1> QED
  BY <1>4, <1>5

\* What every other step goes on with.
LEMMA OthersFit ==
  ASSUME TypeOK, Staged, [Next]_vars, ~SurviveStep
  PROVE  Fitting(todo', stage', rec', jrnl')
<1>1. rec \in Records /\ Recorded(rec) /\ jrnl \in Records /\ Recorded(jrnl)
  BY DEF TypeOK, Staged
<1>2. CASE FileStep
  BY <1>1, <1>2, ThrowsFits, ContinuesFits DEF FileStep
<1>3. CASE Publish
  BY <1>3, PublishFits
<1>4. CASE CheckStep
  BY <1>4, ContinuesFits, GivesUpFits DEF CheckStep
<1>5. CASE JournalStep
  BY <1>5, JournalFits
<1>6. CASE QuarantineStep
  <2>1. todo' = <<>> /\ stage' = "idle" /\ rec' = NoRecord
    BY <1>6 DEF QuarantineStep, Goes
  <2>2. jrnl' \in Records /\ Recorded(jrnl')
    BY <1>1, <1>6 DEF QuarantineStep, Records, Recorded, Phases
  <2> QED
    BY <2>1, <2>2, FreshTyped DEF Fitting
<1>7. CASE ResumeStep
  <2> DEFINE first == <<Op("survive", rec.removal.at, rec.removal.id)>>
  <2>1. todo # <<>> /\ Head(todo).do = "resume" /\ UNCHANGED jrnl
    BY <1>7 DEF ResumeStep
  <2>2. stage # "commit" /\ Tail(todo) \in Seq(Clearing)
    BY <2>1, Ahead DEF Forwarding
  <2>3. first \in Seq(Clearing)
    BY <1>1 DEF Recorded, Records, Op, Clearing, Ops, Dos, FileOps, JournalOps, Names, Artifacts, Phases,
                Removable
  <2>4. first \o Tail(todo) \in Seq(Clearing)
    BY <2>2, <2>3, Joined
  <2>5. CASE Goes(Quarantine, rec)
    BY <2>1, <2>5, GivesUpFits
  <2>6. CASE Goes(first \o Tail(todo), rec)
    <3> HIDE DEF first
    <3> QED
      BY <1>1, <2>1, <2>2, <2>4, <2>6, GoesFits
  <2> QED
    BY <1>7, <2>5, <2>6 DEF ResumeStep
<1>8. CASE RecoverStep
  <2>1. todo # <<>> /\ Head(todo).do = "recover" /\ UNCHANGED jrnl /\ Goes(Recovery(rec), rec)
    BY <1>8 DEF RecoverStep
  <2>2. stage # "commit"
    BY <2>1, Ahead DEF Forwarding
  <2> QED
    BY <1>1, <2>1, <2>2, RecoveryTyped, BareClearing, GoesFits
<1>9. CASE DeferStep
  BY <1>1, <1>9, ThrowsFits DEF DeferStep
<1>10. CASE FailStep
  <2>1. Eager(rec, Head(todo)) \in Records /\ Recorded(Eager(rec, Head(todo)))
    BY <1>1, <1>10, Ahead, EagerTyped DEF FailStep
  <2> QED
    BY <1>10, <2>1, ThrowsFits DEF FailStep
<1>11. CASE Commit
  <2>1. todo' = Forward(Fresh) /\ stage' = "commit" /\ rec' = Fresh /\ jrnl' = Fresh
    BY <1>11 DEF Commit
  <2>2. Forward(Fresh) \in Seq(Forwarding) /\ Forward(Fresh) # <<>>
    BY FreshTyped, ForwardTyped
  <2>3. Forwarding \subseteq Ops
    BY DEF Forwarding
  <2>4. Forward(Fresh) \in Seq(Ops)
    BY <2>2, <2>3, Wider
  <2> QED
    BY <2>1, <2>2, <2>4, FreshTyped DEF Fitting
<1>12. CASE Recover
  <2> DEFINE s == (IF jrnl.removal # NoRemoval THEN <<Op("resume", "src", "none")>> ELSE <<>>)
                  \o <<Op("recover", "src", "none")>>
  <2>1. todo' = s /\ stage' = "recover" /\ rec' = jrnl /\ UNCHANGED jrnl
    BY <1>12 DEF Recover
  <2>2. s \in Seq(Clearing) /\ s # <<>>
    <3>1. s \in Seq(Bare) /\ s # <<>>
      BY EndsTyped, Joined
    <3> HIDE DEF s
    <3> QED
      BY <3>1, BareClearing
  <2>3. Clearing \subseteq Ops
    BY DEF Clearing
  <2>4. s \in Seq(Ops)
    BY <2>2, <2>3, Wider
  <2> HIDE DEF s
  <2> QED
    BY <1>1, <2>1, <2>2, <2>4 DEF Fitting
<1>13. CASE Crash
  <2>1. todo' = <<>> /\ stage' = "idle" /\ rec' = NoRecord /\ UNCHANGED jrnl
    BY <1>13 DEF Crash, Goes
  <2> QED
    BY <1>1, <2>1, FreshTyped DEF Fitting
<1>14. CASE UNCHANGED <<jrnl, rec, todo, stage>>
  BY <1>1, <1>14 DEF Fitting, TypeOK, Staged
<1>15. Tamper \/ UNCHANGED vars => UNCHANGED <<jrnl, rec, todo, stage>>
  BY DEF Tamper, vars
<1> QED
  BY <1>2, <1>3, <1>4, <1>5, <1>6, <1>7, <1>8, <1>9, <1>10, <1>11, <1>12, <1>13, <1>14, <1>15
     DEF Next, Step

\* Every step leaves a program that fits its stage, and records of their types.
LEMMA ProgramStep ==
  ASSUME TypeOK, Placed, Staged, [Next]_vars
  PROVE  Fitting(todo, stage, rec, jrnl)'
<1>1. CASE SurviveStep
  BY <1>1, SurviveFits
<1>2. CASE ~SurviveStep
  BY <1>2, OthersFit, FilesStep, FittingGrows
<1> QED
  BY <1>1, <1>2

\* The counts stay within their bounds.
LEMMA TallyStep ==
  ASSUME TypeOK, [Next]_vars
  PROVE  tally' \in Tallied /\ committed' \in BOOLEAN
<1>1. tally \in Tallied
  BY DEF TypeOK
<1>2. Fault \/ Crash \/ Tamper => tally' \in Tallied
  BY <1>1, FinalizeAssumption DEF Fault, Crash, Tamper, Tallied
<1>3. UNCHANGED tally \/ Fault \/ Crash \/ Tamper
  BY DEF Next, Step, vars, FileStep, Publish, CheckStep, SurviveStep, JournalStep, QuarantineStep,
         ResumeStep, RecoverStep, DeferStep, FailStep, Commit, Recover
<1>4. committed' \in BOOLEAN
  BY DEF Next, Step, vars, FileStep, Publish, CheckStep, SurviveStep, JournalStep, QuarantineStep,
         ResumeStep, RecoverStep, DeferStep, FailStep, Commit, Recover, Crash, Tamper, TypeOK
<1> QED
  BY <1>1, <1>2, <1>3, <1>4

\* The types, and what the stage says of the program.
LEMMA TypeStep ==
  ASSUME TypeOK, Placed, Staged, [Next]_vars
  PROVE  TypeOK' /\ Placed' /\ Staged'
<1>1. Fitting(todo, stage, rec, jrnl)'
  BY ProgramStep
<1>2. Staged'
  BY <1>1 DEF Fitting, Staged
<1>3. TypeOK'
  BY <1>1, FilesStep, TallyStep DEF Fitting, TypeOK
<1> QED
  BY <1>2, <1>3, FilesStep

-----------------------------------------------------------------------------
(* How a commit goes on.                                                    *)

\* Its next operation is done, and the rest remains.
Performs ==
  /\ stage = "commit" /\ todo # <<>> /\ todo' = Tail(todo) /\ UNCHANGED plan
  /\ \/ /\ Head(todo).do \in FileOps /\ Verified(Head(todo)) /\ Applied(Head(todo))
        /\ UNCHANGED <<rec, tally>>
     \/ /\ Head(todo).do = "publish" /\ dir[Head(todo).at] = Head(todo).id
        /\ dir' = [dir EXCEPT ![Head(todo).at] = "none", ![At("tgt")] = Head(todo).id]
        /\ UNCHANGED <<rec, flushed, tally>>
     \/ /\ Head(todo).do = "check" /\ dir[Head(todo).at] = Head(todo).id
        /\ UNCHANGED <<rec, dir, flushed, tally>>
     \/ /\ Head(todo).do \in JournalOps \ {"copyMode", "commit"}
        /\ rec' = Patched(rec, Head(todo))
        /\ UNCHANGED <<dir, flushed, tally>>

\* publish() uses a hard link.
Links ==
  /\ stage = "commit" /\ todo # <<>> /\ Head(todo).do = "publish"
  /\ todo' = <<Check(Head(todo).at, Head(todo).id), Op("noteLink", Head(todo).at, Head(todo).id),
               Op("link", Head(todo).at, Head(todo).id),
               Op("confirmLink", Head(todo).at, Head(todo).id)>> \o Tail(todo)
  /\ UNCHANGED <<plan, rec, dir, flushed, tally>>

\* It starts, or starts again with a copy.
Sets == \E r \in Records : todo' = Forward(r) /\ rec' = r /\ UNCHANGED <<plan, dir, flushed, tally>>

\* It turns to a copy, or is given up.
Turns ==
  /\ todo' \in {Quarantine, <<Check("src", "source"), Op("copyMode", "src", "none")>>}
  /\ UNCHANGED <<plan, dir, flushed, tally>>

\* Nothing happens to it.
Waits == Tamper \/ UNCHANGED vars

\* Every step that leaves a commit running is one of these.
LEMMA CommitShape ==
  ASSUME TypeOK, Staged, [Next]_vars, stage' = "commit"
  PROVE  Performs \/ Links \/ Sets \/ Turns \/ Waits
<1> DEFINE op == Head(todo)
<1>1. \A r : ~Throws(r)
  BY DEF Throws
<1>2. \A s, r : Goes(s, r) => stage = "commit" /\ s # <<>> /\ todo' = s /\ rec' = r
  BY DEF Goes
<1>3. CASE FileStep
  BY <1>1, <1>2, <1>3 DEF FileStep, Performs
<1>4. CASE Publish
  BY <1>1, <1>2, <1>4 DEF Publish, Performs, Links, Turns
<1>5. CASE CheckStep
  BY <1>2, <1>5 DEF CheckStep, Performs, Turns, files
<1>6. CASE JournalStep
  <2>1. ~Refused(op) /\ UNCHANGED <<plan, files, tally>> /\ todo # <<>> /\ op.do \in JournalOps
    BY <1>1, <1>6 DEF JournalStep
  <2>2. CASE op.do = "copyMode"
    <3>1. Goes(Forward(Patched(rec, op)), Patched(rec, op))
      BY <1>6, <2>1, <2>2 DEF JournalStep
    <3>2. op \in Ops
      BY <2>1, Ahead
    <3>3. Patched(rec, op) \in Records
      BY <3>2, PatchedTyped DEF TypeOK, Staged
    <3> QED
      BY <1>2, <2>1, <3>1, <3>3 DEF Sets, files
  <2>3. op.do # "commit"
    BY <1>6, <2>1 DEF JournalStep
  <2>4. CASE op.do # "copyMode"
    <3>1. Goes(Tail(todo), Patched(rec, op))
      BY <1>6, <2>1, <2>3, <2>4 DEF JournalStep
    <3> QED
      BY <1>2, <2>1, <2>3, <2>4, <3>1 DEF Performs, files
  <2> QED
    BY <2>2, <2>4
<1>7. CASE Commit
  BY <1>7, FreshTyped DEF Commit, Sets, files
<1>8. CASE SurviveStep
  <2>1. todo # <<>> /\ op.do = "survive" /\ stage = "commit"
    BY <1>1, <1>2, <1>8 DEF SurviveStep
  <2> QED
    BY <2>1, Ahead DEF Forwarding
<1>9. CASE QuarantineStep
  BY <1>2, <1>9 DEF QuarantineStep
<1>10. CASE ResumeStep
  BY <1>2, <1>10, Ahead DEF ResumeStep, Forwarding
<1>11. CASE RecoverStep
  BY <1>2, <1>11, Ahead DEF RecoverStep, Forwarding
<1>12. ~DeferStep /\ ~FailStep /\ ~Recover /\ ~Crash
  BY <1>1, <1>2 DEF DeferStep, FailStep, Recover, Crash
<1> QED
  BY <1>3, <1>4, <1>5, <1>6, <1>7, <1>8, <1>9, <1>10, <1>11, <1>12 DEF Next, Step, Waits

-----------------------------------------------------------------------------
(* A copy is published after it was made durable.                           *)

\* A program that neither publishes nor brings the private copy to the disk.
LEMMA NoCopies ==
  ASSUME NEW s, \A i \in 1..Len(s) : ~Publishing(s[i]) /\ s[i] # FlushPrivate,
         NEW f, NEW priv
  PROVE  Announced(s, f) /\ Materialized(s, priv)
BY DEF Announced, Materialized

\* The commit's own program does it in this order.
LEMMA ForwardDurable ==
  ASSUME NEW r \in Records, NEW f, NEW priv
  PROVE  Announced(Forward(r), f) /\ Materialized(Forward(r), priv)
<1> USE DEF Announced, Materialized, FlushPrivate, Publishing, Install, Op, Check, Flush, Advance, At
<1>1. CASE plan.kind = "inPlace"
  <2>1. Forward(r) = <<Check("src", "source"), Flush("src"), Check("tgt", "source")>> \o Install("source")
    BY <1>1 DEF Forward
  <2> QED
    BY <2>1
<1>2. CASE plan.kind # "inPlace" /\ r.mode = "move"
  <2>1. Forward(r) = <<Op("publish", "src", "source"), Flush("tgt")>> \o Install("source")
    BY <1>2 DEF Forward
  <2> QED
    BY <2>1
<1>3. CASE plan.kind # "inPlace" /\ r.mode # "move" /\ ~SamePath
  <2>1. Forward(r) = <<>> \o CopyAndPublish \o Install("copy")
    BY <1>3 DEF Forward
  <2> DEFINE s == Forward(r)
  <2>2. Len(s) = 12 /\ s[4] = Flush("priv") /\ s[3].do = "copy"
    BY <2>1 DEF CopyAndPublish
  <2>3. \A i \in 1..12 : Publishing(s[i]) => i = 7
    BY <2>1 DEF CopyAndPublish
  <2>4. \A i \in 1..12 : s[i].do = "flush" /\ s[i].at = "priv" => i = 4
    BY <1>3, <2>1 DEF CopyAndPublish, SamePath
  <2>5. \A i \in 1..3 : s[i].do \in Early
    BY <2>1 DEF CopyAndPublish, Early
  <2> HIDE DEF s
  <2>6. Announced(s, f)
    BY <2>2, <2>3
  <2>7. Materialized(s, priv)
    BY <2>2, <2>4, <2>5
  <2> QED
    BY <2>6, <2>7 DEF s
<1>4. CASE plan.kind # "inPlace" /\ r.mode # "move" /\ SamePath
  <2>1. Forward(r) = PreserveSource \o CopyAndPublish \o Install("copy")
    BY <1>4 DEF Forward
  <2> DEFINE s == Forward(r)
  <2>2. Len(s) = 16 /\ s[8] = Flush("priv") /\ s[7].do = "copy"
    BY <2>1 DEF CopyAndPublish, PreserveSource, Move
  <2>3. \A i \in 1..16 : Publishing(s[i]) => i = 11
    BY <2>1 DEF CopyAndPublish, PreserveSource, Move
  <2>4. \A i \in 1..16 : s[i].do = "flush" /\ s[i].at = "priv" => i = 8
    BY <2>1 DEF CopyAndPublish, PreserveSource, Move, SamePath
  <2>5. \A i \in 1..7 : s[i].do \in Early
    BY <2>1 DEF CopyAndPublish, PreserveSource, Move, Early
  <2> HIDE DEF s
  <2>6. Announced(s, f)
    BY <2>2, <2>3
  <2>7. Materialized(s, priv)
    BY <2>2, <2>4, <2>5
  <2> QED
    BY <2>6, <2>7 DEF s
<1> QED
  BY <1>1, <1>2, <1>3, <1>4

\* A program without a publication and without a decision.
Plain(s) ==
  \A i \in 1..Len(s) : /\ s[i].do \notin {"publish", "link", "commit"}
                       /\ s[i].do = "flush" => s[i].at = "src"

\* It has nothing to bring to the disk first.
LEMMA PlainDurable ==
  ASSUME NEW s, Plain(s), NEW f, NEW priv
  PROVE  Announced(s, f) /\ Materialized(s, priv)
<1>1. \A i \in 1..Len(s) : ~Publishing(s[i]) /\ s[i] # FlushPrivate
  BY DEF Plain, Publishing, FlushPrivate, Op
<1> QED
  BY <1>1, NoCopies

\* Such are the programs outside of a commit.
LEMMA PlainOutside ==
  ASSUME TypeOK, Placed, Staged, [Next]_vars, stage' # "commit"
  PROVE  Plain(todo')
<1>1. TypeOK' /\ Staged'
  BY TypeStep
<1>2. CASE todo' = <<>>
  BY <1>2 DEF Plain
<1>3. CASE todo' # <<>>
  <2>1. todo' \in Seq(Clearing')
    BY <1>1, <1>3 DEF TypeOK, Staged
  <2>2. \A i \in 1..Len(todo') : todo'[i] \in Clearing'
    BY <2>1
  <2> QED
    BY <2>2 DEF Clearing, Plain
<1> QED
  BY <1>2, <1>3

\* What the next operation of a commit does to the private copy and the disk.
LEMMA PerformsDurable ==
  ASSUME TypeOK, Placed, Staged, Durable, Performs
  PROVE  /\ flushed \subseteq flushed'
         /\ Head(todo) = FlushPrivate => "copy" \in flushed'
         /\ Head(todo).do \in Early /\ dir["priv"] = "copy" => dir'["priv"] = "copy"
         /\ Head(todo).do = "copy" => dir'["priv"] = "copy"
<1> DEFINE op == Head(todo)
<1>1. todo # <<>> /\ op = todo[1] /\ 1 \in 1..Len(todo) /\ op \in Ops
  BY Ahead DEF Performs
<1>2. flushed \subseteq flushed'
  BY DEF Performs, Applied
<1>3. ASSUME op = FlushPrivate PROVE "copy" \in flushed'
  <2>1. op.do = "flush" /\ op.at = "priv"
    BY <1>3 DEF FlushPrivate, Op
  <2>2. dir["priv"] = "copy"
    BY <1>1, <1>3 DEF Durable, Materialized
  <2> QED
    BY <2>1, <2>2 DEF Performs, Applied, JournalOps
<1>4. ASSUME op.do \in Early, dir["priv"] = "copy" PROVE dir'["priv"] = "copy"
  <2>1. CASE op.do = "move"
    BY <1>1, <1>4, <2>1 DEF Performs, Applied, JournalOps, Ops, TypeOK, Names
  <2>2. CASE op.do = "open"
    BY <1>4, <2>2 DEF Performs, Verified, JournalOps
  <2>3. CASE op.do = "copy"
    BY <1>4, <2>3 DEF Performs, Applied, JournalOps, TypeOK, Names
  <2>4. CASE op.do \notin {"move", "open", "copy"}
    BY <1>4, <2>4 DEF Performs, Applied, Early
  <2> QED
    BY <2>1, <2>2, <2>3, <2>4
<1>5. ASSUME op.do = "copy" PROVE dir'["priv"] = "copy"
  BY <1>5 DEF Performs, Applied, JournalOps, TypeOK, Names
<1> QED
  BY <1>2, <1>3, <1>4, <1>5

\* The order holds of the rest.
LEMMA RestDurable ==
  ASSUME TypeOK, Placed, Staged, Durable, Performs
  PROVE  Announced(Tail(todo), flushed') /\ Materialized(Tail(todo), dir'["priv"])
<1> DEFINE rest == Tail(todo)
<1>1. /\ Head(todo) = todo[1] /\ Len(todo) \in Nat \ {0} /\ Len(rest) = Len(todo) - 1
      /\ \A i \in 1..(Len(todo) - 1) : rest[i] = todo[i+1]
  BY Ahead DEF Performs
<1>2. /\ flushed \subseteq flushed'
      /\ todo[1] = FlushPrivate => "copy" \in flushed'
      /\ todo[1].do \in Early /\ dir["priv"] = "copy" => dir'["priv"] = "copy"
      /\ todo[1].do = "copy" => dir'["priv"] = "copy"
  BY <1>1, PerformsDurable
<1> HIDE DEF rest
<1>3. ASSUME NEW i \in 1..Len(rest), Publishing(rest[i]), rest[i].id = "copy", "copy" \notin flushed'
      PROVE  \E j \in 1..(i-1) : rest[j] = FlushPrivate
  <2>1. i + 1 \in 1..Len(todo) /\ rest[i] = todo[i+1]
    BY <1>1
  <2>2. PICK j \in 1..i : todo[j] = FlushPrivate
    BY <1>2, <1>3, <2>1 DEF Durable, Announced
  <2>3. j # 1
    BY <1>2, <1>3, <2>2
  <2>4. j - 1 \in 1..(i-1) /\ rest[j-1] = todo[j]
    BY <1>1, <2>1, <2>2, <2>3
  <2> QED
    BY <2>2, <2>4
<1>4. ASSUME NEW i \in 1..Len(rest), rest[i] = FlushPrivate
      PROVE  /\ \A j \in 1..(i-1) : rest[j].do \in Early
             /\ dir'["priv"] = "copy" \/ \E j \in 1..(i-1) : rest[j].do = "copy"
  <2>1. i + 1 \in 1..Len(todo) /\ rest[i] = todo[i+1]
    BY <1>1
  <2>2. /\ \A j \in 1..i : todo[j].do \in Early
        /\ dir["priv"] = "copy" \/ \E j \in 1..i : todo[j].do = "copy"
    BY <1>4, <2>1 DEF Durable, Materialized
  <2>3. \A j \in 1..(i-1) : rest[j].do \in Early
    BY <1>1, <2>1, <2>2
  <2>4. CASE dir["priv"] = "copy"
    BY <1>2, <2>1, <2>2, <2>3, <2>4
  <2>5. ASSUME NEW j \in 1..i, todo[j].do = "copy"
        PROVE  dir'["priv"] = "copy" \/ \E k \in 1..(i-1) : rest[k].do = "copy"
    <3>1. CASE j = 1
      BY <1>2, <2>5, <3>1
    <3>2. CASE j # 1
      <4>1. j - 1 \in 1..(i-1) /\ rest[j-1] = todo[j]
        BY <1>1, <2>1, <3>2
      <4> QED
        BY <2>5, <4>1
    <3> QED
      BY <3>1, <3>2
  <2> QED
    BY <2>2, <2>3, <2>4, <2>5
<1> QED
  BY <1>3, <1>4 DEF Announced, Materialized, rest

\* A publication by a link keeps it too.
LEMMA LinkDurable ==
  ASSUME TypeOK, Staged, Durable, Links
  PROVE  Announced(todo', flushed) /\ Materialized(todo', dir["priv"])
<1> DEFINE op   == Head(todo)
           rest == Tail(todo)
           link == <<Check(op.at, op.id), Op("noteLink", op.at, op.id), Op("link", op.at, op.id),
                     Op("confirmLink", op.at, op.id)>>
<1>1. /\ op = todo[1] /\ Len(todo) \in Nat \ {0} /\ Len(rest) = Len(todo) - 1 /\ op.do = "publish"
      /\ \A i \in 1..(Len(todo) - 1) : rest[i] = todo[i+1]
      /\ op \in Ops /\ rest \in Seq(Ops)
  BY Ahead DEF Links
<1>2. /\ Len(link) = 4 /\ \A i \in 1..4 : Publishing(link[i]) => link[i].id = op.id
      /\ \A i \in 1..4 : link[i].do # "flush"
  BY DEF Publishing, Check, Op
<1>3. /\ Len(rest) \in Nat /\ Len(todo') = 4 + Len(rest)
      /\ \A i \in 1..4 : todo'[i] = link[i]
      /\ \A i \in 5..(4 + Len(rest)) : todo'[i] = rest[i-4]
  <2>1. todo' = link \o rest
    BY DEF Links
  <2>2. todo'[1] = link[1] /\ todo'[2] = link[2] /\ todo'[3] = link[3] /\ todo'[4] = link[4]
    BY <1>1, <2>1, InFront
  <2> QED
    BY <1>1, <2>1, <2>2, InFront
<1>4. FlushPrivate.do = "flush"
  BY DEF FlushPrivate, Op
<1> HIDE DEF op, rest, link
<1>5. ASSUME NEW i \in 1..Len(todo'), todo'[i] = FlushPrivate PROVE FALSE
  <2>1. i \in 5..(4 + Len(rest))
    BY <1>2, <1>3, <1>4, <1>5
  <2>2. i - 3 \in 1..Len(todo) /\ todo[i-3] = FlushPrivate /\ 1 \in 1..(i-4)
    BY <1>1, <1>3, <1>5, <2>1
  <2>3. todo[1].do \in Early
    BY <2>2 DEF Durable, Materialized
  <2> QED
    BY <1>1, <2>3 DEF Early
<1>6. ASSUME NEW i \in 1..Len(todo'), Publishing(todo'[i]), todo'[i].id = "copy" PROVE "copy" \in flushed
  <2>1. CASE i \in 1..4
    <3>1. op.id = "copy"
      BY <1>2, <1>3, <1>6, <2>1
    <3> QED
      BY <1>1, <3>1 DEF Durable, Announced, Publishing
  <2>2. CASE i \notin 1..4
    <3>1. i - 3 \in 1..Len(todo) /\ todo'[i] = todo[i-3]
      BY <1>1, <1>3, <2>2
    <3>2. \A j \in 1..(i-4) : todo[j] # FlushPrivate
      <4>1. ASSUME NEW j \in 2..(i-4) PROVE j + 3 \in 1..Len(todo') /\ todo'[j+3] = todo[j]
        <5>1. j + 3 \in 5..(4 + Len(rest)) /\ j - 1 \in 1..(Len(todo) - 1)
          BY <1>1, <1>3, <3>1
        <5>2. todo'[j+3] = rest[(j+3)-4] /\ rest[j-1] = todo[(j-1)+1]
          BY <1>1, <1>3, <5>1
        <5> QED
          BY <1>3, <5>1, <5>2
      <4> QED
        BY <1>1, <1>4, <1>5, <4>1
    <3> QED
      BY <1>6, <3>1, <3>2 DEF Durable, Announced
  <2> QED
    BY <2>1, <2>2
<1> QED
  BY <1>5, <1>6 DEF Announced, Materialized

\* No copy gets under a public name before it is durable.
LEMMA ShownStep ==
  ASSUME TypeOK, Placed, Staged, Durable, [Next]_vars, NEW n \in {"src", "tgt"}, dir'[n] = "copy"
  PROVE  "copy" \in flushed'
<1>1. flushed \subseteq flushed'
  BY FilesStep
<1>2. CASE dir[n] = "copy"
  BY <1>1, <1>2 DEF Durable
<1>3. CASE dir[n] # "copy"
  <2>1. todo # <<>> => 1 \in 1..Len(todo) /\ Head(todo) = todo[1] /\ Head(todo) \in Ops
    BY Ahead
  <2>2. CASE /\ FileStep /\ Verified(Head(todo)) /\ Applied(Head(todo))
    <3>1. todo # <<>> /\ Head(todo).do = "link" /\ Head(todo).id = "copy"
      BY <1>3, <2>1, <2>2 DEF FileStep, Applied, Ops, TypeOK, Names
    <3> QED
      BY <1>1, <2>1, <3>1 DEF Durable, Announced, Publishing
  <2>3. CASE /\ Publish /\ todo # <<>>
             /\ dir' = [dir EXCEPT ![Head(todo).at] = "none", ![At("tgt")] = Head(todo).id]
    <3>1. Head(todo).do = "publish" /\ Head(todo).id = "copy"
      BY <1>3, <2>1, <2>3 DEF Publish, TypeOK, Names, At
    <3> QED
      BY <1>1, <2>1, <2>3, <3>1 DEF Durable, Announced, Publishing
  <2>4. CASE Tamper
    BY <1>3, <2>4 DEF Tamper, TypeOK, Names, At
  <2>5. CASE UNCHANGED dir
    BY <1>3, <2>5
  <2>6. \/ FileStep /\ Verified(Head(todo)) /\ Applied(Head(todo))
        \/ /\ Publish /\ todo # <<>>
           /\ dir' = [dir EXCEPT ![Head(todo).at] = "none", ![At("tgt")] = Head(todo).id]
        \/ Tamper \/ UNCHANGED dir
    <3>1. FileStep => UNCHANGED dir \/ (Verified(Head(todo)) /\ Applied(Head(todo)))
      BY DEF FileStep, files
    <3>2. Publish => \/ UNCHANGED dir
                     \/ todo # <<>> /\ dir' = [dir EXCEPT ![Head(todo).at] = "none",
                                                          ![At("tgt")] = Head(todo).id]
      BY DEF Publish
    <3>3. FileStep \/ Publish \/ Tamper \/ UNCHANGED dir
      BY DEF Next, Step, vars, files, CheckStep, SurviveStep, JournalStep, QuarantineStep, ResumeStep,
             RecoverStep, DeferStep, FailStep, Commit, Recover, Crash
    <3> QED
      BY <3>1, <3>2, <3>3
  <2> QED
    BY <2>2, <2>3, <2>4, <2>5, <2>6
<1> QED
  BY <1>2, <1>3

\* After every step, what is published later is durable by then.
LEMMA DurableStep ==
  ASSUME TypeOK, Placed, Staged, Durable, [Next]_vars
  PROVE  Durable'
<1>1. \A n \in {"src", "tgt"} : dir'[n] = "copy" => "copy" \in flushed'
  BY ShownStep
<1>2. Announced(todo', flushed') /\ Materialized(todo', dir'["priv"])
  <2>1. CASE stage' # "commit"
    BY <2>1, PlainOutside, PlainDurable
  <2>2. CASE Performs
    BY <2>2, RestDurable DEF Performs
  <2>3. CASE Links
    BY <2>3, LinkDurable DEF Links
  <2>4. CASE Sets
    BY <2>4, ForwardDurable DEF Sets
  <2>5. CASE Turns
    <3>1. Plain(todo')
      BY <2>5 DEF Turns, Plain, Quarantine, Check, Op
    <3> QED
      BY <3>1, PlainDurable
  <2>6. CASE Waits
    <3>1. todo' = todo /\ flushed' = flushed /\ dir'["priv"] = dir["priv"]
      BY <2>6 DEF Waits, Tamper, vars, TypeOK, Names, At
    <3> QED
      BY <3>1 DEF Durable
  <2> QED
    BY <2>1, <2>2, <2>3, <2>4, <2>5, <2>6, CommitShape
<1> QED
  BY <1>1, <1>2 DEF Durable

-----------------------------------------------------------------------------
(* The decision comes last.                                                 *)

\* The commit's own program ends with it.
LEMMA ForwardSealed ==
  ASSUME NEW r \in Records, NEW tgtId, NEW shown, NEW f, NEW untouched
  PROVE  Sealed(Forward(r), tgtId, shown, f, untouched)
<1> DEFINE s == Forward(r)
<1> USE DEF FlushTarget, Publishing, Install, Op, Check, Flush, Advance
<1>1. CASE plan.kind = "inPlace"
  <2>1. s = <<Check("src", "source"), Flush("src"), Check("tgt", "source")>> \o Install("source")
    BY <1>1 DEF Forward
  <2>2. /\ Len(s) = 6 /\ s[2] = FlushTarget /\ s[4].do = "install" /\ s[4].id = "source"
        /\ s[5] = Check("tgt", "source") /\ s[6].id = "source"
    BY <1>1, <2>1 DEF At, SamePath
  <2>3. /\ \A i \in 1..6 : s[i].do = "commit" => i = 6
        /\ \A i \in 1..6 : s[i].do = "install" => i = 4
        /\ \A i \in 1..6 : ~Publishing(s[i])
    BY <2>1
  <2> HIDE DEF s
  <2>4. Sealed(s, tgtId, shown, f, untouched)
    BY <2>2, <2>3 DEF Sealed, SealedAt
  <2> QED
    BY <2>4 DEF s
<1>2. CASE plan.kind # "inPlace" /\ r.mode = "move"
  <2>1. s = <<Op("publish", "src", "source"), Flush("tgt")>> \o Install("source")
    BY <1>2 DEF Forward
  <2>2. /\ Len(s) = 5 /\ s[2] = FlushTarget /\ s[3].do = "install" /\ s[3].id = "source"
        /\ s[4] = Check("tgt", "source") /\ s[5].id = "source"
    BY <2>1
  <2>3. /\ \A i \in 1..5 : s[i].do = "commit" => i = 5
        /\ \A i \in 1..5 : s[i].do = "install" => i = 3
        /\ \A i \in 1..5 : Publishing(s[i]) => i = 1
    BY <2>1
  <2> HIDE DEF s
  <2>4. Sealed(s, tgtId, shown, f, untouched)
    BY <2>2, <2>3 DEF Sealed, SealedAt
  <2> QED
    BY <2>4 DEF s
<1>3. CASE plan.kind # "inPlace" /\ r.mode # "move" /\ ~SamePath
  <2>1. s = <<>> \o CopyAndPublish \o Install("copy")
    BY <1>3 DEF Forward
  <2>2. /\ Len(s) = 12 /\ s[8] = FlushTarget /\ s[10].do = "install" /\ s[10].id = "copy"
        /\ s[11] = Check("tgt", "copy") /\ s[12].id = "copy"
    BY <2>1 DEF CopyAndPublish
  <2>3. /\ \A i \in 1..12 : s[i].do = "commit" => i = 12
        /\ \A i \in 1..12 : s[i].do = "install" => i = 10
        /\ \A i \in 1..12 : Publishing(s[i]) => i = 7
    BY <2>1 DEF CopyAndPublish
  <2> HIDE DEF s
  <2>4. Sealed(s, tgtId, shown, f, untouched)
    BY <2>2, <2>3 DEF Sealed, SealedAt
  <2> QED
    BY <2>4 DEF s
<1>4. CASE plan.kind # "inPlace" /\ r.mode # "move" /\ SamePath
  <2>1. s = PreserveSource \o CopyAndPublish \o Install("copy")
    BY <1>4 DEF Forward
  <2>2. /\ Len(s) = 16 /\ s[12] = FlushTarget /\ s[14].do = "install" /\ s[14].id = "copy"
        /\ s[15] = Check("tgt", "copy") /\ s[16].id = "copy"
    BY <2>1 DEF CopyAndPublish, PreserveSource, Move
  <2>3. /\ \A i \in 1..16 : s[i].do = "commit" => i = 16
        /\ \A i \in 1..16 : s[i].do = "install" => i = 14
        /\ \A i \in 1..16 : Publishing(s[i]) => i = 11
    BY <2>1 DEF CopyAndPublish, PreserveSource, Move
  <2> HIDE DEF s
  <2>4. Sealed(s, tgtId, shown, f, untouched)
    BY <2>2, <2>3 DEF Sealed, SealedAt
  <2> QED
    BY <2>4 DEF s
<1> QED
  BY <1>1, <1>2, <1>3, <1>4

\* What the next operation of a commit shows under the target name.
LEMMA PerformsShown ==
  ASSUME TypeOK, Placed, Staged, Performs
  PROVE  /\ flushed \subseteq flushed' /\ Untouched' = Untouched
         /\ ~Publishing(Head(todo)) => Seen("tgt")' \in {Seen("tgt"), "none"}
         /\ Head(todo) = FlushTarget => Seen("tgt")' \in flushed'
         /\ \A id : Head(todo) = Check("tgt", id) => Seen("tgt") = id /\ Seen("tgt")' = id
         /\ rec'.tgtId = IF Head(todo).do = "install" THEN Head(todo).id ELSE rec.tgtId
<1> DEFINE op == Head(todo)
<1>1. op \in Forwarding /\ op \in Ops /\ At("tgt")' = At("tgt") /\ At("tgt") \in {"src", "tgt"}
  BY Ahead DEF Performs, At, SamePath
<1>2. flushed \subseteq flushed' /\ Untouched' = Untouched
  BY DEF Performs, Applied, Untouched
<1>3. ASSUME ~Publishing(op) PROVE Seen("tgt")' \in {Seen("tgt"), "none"}
  <2>1. dir'[At("tgt")] \in {dir[At("tgt")], "none"}
    BY <1>1, <1>3 DEF Performs, Applied, Publishing, Forwarding, FileOps, JournalOps, TypeOK, Names
  <2> QED
    BY <1>1, <2>1 DEF Seen
<1>4. ASSUME op = FlushTarget PROVE Seen("tgt")' \in flushed'
  <2>1. op.do = "flush" /\ op.at = At("tgt")
    BY <1>4 DEF FlushTarget, Flush, Op
  <2> QED
    BY <1>1, <2>1 DEF Performs, Applied, JournalOps, Seen
<1>5. ASSUME NEW id, op = Check("tgt", id) PROVE Seen("tgt") = id /\ Seen("tgt")' = id
  <2>1. op.do = "check" /\ op.at = At("tgt") /\ op.id = id
    BY <1>5 DEF Check, Op
  <2> QED
    BY <1>1, <2>1 DEF Performs, JournalOps, FileOps, Seen
<1>6. rec'.tgtId = IF op.do = "install" THEN op.id ELSE rec.tgtId
  <2>1. CASE op.do \in JournalOps \ {"copyMode", "commit"}
    <3>1. rec' = Patched(rec, op) /\ rec \in Records
      BY <2>1 DEF Performs, FileOps, JournalOps, TypeOK
    <3> QED
      BY <1>1, <3>1, PatchedNotes
  <2>2. CASE op.do \notin JournalOps
    BY <2>2 DEF Performs, JournalOps
  <2> QED
    BY <2>1, <2>2 DEF Performs, FileOps, JournalOps
<1> QED
  BY <1>2, <1>3, <1>4, <1>5, <1>6

\* A program without a decision.
LEMMA PlainSealed ==
  ASSUME NEW s, Plain(s), NEW tgtId, NEW shown, NEW f, NEW untouched
  PROVE  Sealed(s, tgtId, shown, f, untouched)
BY DEF Plain, Sealed

\* The operations that leave room for it.
LEMMA HeadsApart ==
  /\ \A id : FlushTarget # Check("tgt", id) /\ ~Publishing(Check("tgt", id)) /\ ~Publishing(FlushTarget)
  /\ \A id : Check("tgt", id).do = "check" /\ FlushTarget.do = "flush"
BY DEF FlushTarget, Flush, Check, Op, Publishing

\* The rest of a sealed program is sealed when its next operation is done.
LEMMA RestSealed ==
  ASSUME TypeOK, Placed, Staged, Ready, Performs
  PROVE  Sealed(Tail(todo), rec'.tgtId, Seen("tgt")', flushed', Untouched')
<1> DEFINE rest == Tail(todo)
           n    == Len(todo)
<1>1. /\ Head(todo) = todo[1] /\ n \in Nat \ {0} /\ Len(rest) = n - 1
      /\ \A i \in 1..(n - 1) : rest[i] = todo[i+1]
      /\ \A i \in 1..n : todo[i] \in Ops
  <2>1. todo \in Seq(Ops)
    BY DEF Staged
  <2> QED
    BY <2>1, Ahead DEF Performs
<1>2. /\ flushed \subseteq flushed' /\ Untouched' = Untouched
      /\ ~Publishing(todo[1]) => Seen("tgt")' \in {Seen("tgt"), "none"}
      /\ todo[1] = FlushTarget => Seen("tgt")' \in flushed'
      /\ \A id : todo[1] = Check("tgt", id) => Seen("tgt") = id /\ Seen("tgt")' = id
      /\ rec'.tgtId = IF todo[1].do = "install" THEN todo[1].id ELSE rec.tgtId
  BY <1>1, PerformsShown
<1> SUFFICES ASSUME NEW i \in 1..(n - 1), todo[i+1].do = "commit"
             PROVE  SealedAt(rest, i, rec'.tgtId, Seen("tgt")', flushed', Untouched')
  <2> HIDE DEF rest, n
  <2>1. (\A k \in 1..(n - 1) : todo[k+1].do = "commit" =>
           SealedAt(rest, k, rec'.tgtId, Seen("tgt")', flushed', Untouched'))
        => Sealed(rest, rec'.tgtId, Seen("tgt")', flushed', Untouched')
    BY <1>1 DEF Sealed
  <2> QED
    BY <2>1 DEF rest
<1> DEFINE id == todo[i+1].id
<1>3. /\ i + 1 = n
      /\ rec.tgtId = id \/ \E j \in 1..i : todo[j].do = "install"
      /\ \A j \in 1..i : todo[j].do = "install" => todo[j].id = id
      /\ todo[i] = Check("tgt", id)
      /\ (Seen("tgt") = id => id \in flushed) \/ \E j \in 1..i : todo[j] = FlushTarget
      /\ \A k \in 1..i : Publishing(todo[k]) => \E j \in (k+1)..i : todo[j] = FlushTarget
  <2>1. i + 1 \in 1..n /\ (i + 1) - 1 = i /\ i + 1 # 1
    BY <1>1
  <2> QED
    BY <2>1 DEF Ready, Sealed, SealedAt
<1>4. id # "none"
  BY <1>1, <1>3 DEF Ops, Whole
<1> HIDE DEF rest, id, n
<1>5. \A j \in 2..i : j - 1 \in 1..(i-1) /\ rest[j-1] = todo[j]
  <2> SUFFICES ASSUME NEW j \in 2..i PROVE j - 1 \in 1..(i-1) /\ rest[j-1] = todo[j]
    OBVIOUS
  <2>1. j - 1 \in 1..(n - 1) /\ (j - 1) + 1 = j /\ j - 1 \in 1..(i-1)
    BY <1>1, <1>3
  <2>2. rest[j-1] = todo[(j-1)+1]
    BY <1>1, <2>1
  <2> QED
    BY <2>1, <2>2
<1>6. \A j \in 1..(i-1) : j + 1 \in 2..i /\ rest[j] = todo[j+1]
  BY <1>1, <1>3
<1>7. rec'.tgtId = id \/ \E j \in 1..(i-1) : rest[j].do = "install"
  <2>1. CASE todo[1].do = "install"
    BY <1>2, <1>3, <2>1
  <2>2. ASSUME todo[1].do # "install", NEW j \in 1..i, todo[j].do = "install"
        PROVE  \E k \in 1..(i-1) : rest[k].do = "install"
    <3>1. j \in 2..i
      BY <2>2
    <3> QED
      BY <1>5, <2>2, <3>1
  <2> QED
    BY <1>2, <1>3, <2>1, <2>2
<1>8. \A j \in 1..(i-1) : rest[j].do = "install" => rest[j].id = id
  BY <1>3, <1>6
<1>9. \/ i > 1 /\ rest[i-1] = Check("tgt", id)
      \/ i = 1 /\ id \in flushed' /\ (Untouched' => Seen("tgt")' = id)
  <2>1. CASE i > 1
    <3>1. i \in 2..i
      BY <2>1
    <3> QED
      BY <1>3, <1>5, <2>1, <3>1
  <2>2. CASE i = 1
    <3>1. Seen("tgt") = id /\ Seen("tgt")' = id
      BY <1>2, <1>3, <2>2
    <3>2. \A j \in 1..i : todo[j] # FlushTarget
      BY <1>3, <2>2, HeadsApart
    <3> QED
      BY <1>2, <1>3, <2>2, <3>1, <3>2
  <2> QED
    BY <2>1, <2>2
<1>10. (Seen("tgt")' = id => id \in flushed') \/ \E j \in 1..(i-1) : rest[j] = FlushTarget
  <2>1. CASE \E j \in 2..i : todo[j] = FlushTarget
    BY <1>5, <2>1
  <2>2. CASE todo[1] = FlushTarget
    BY <1>2, <2>2
  <2>3. CASE Publishing(todo[1])
    <3>1. PICK j \in (1+1)..i : todo[j] = FlushTarget
      BY <1>3, <2>3
    <3> QED
      BY <1>5, <3>1
  <2>4. CASE ~Publishing(todo[1]) /\ todo[1] # FlushTarget /\ ~ \E j \in 2..i : todo[j] = FlushTarget
    <3>1. \A j \in 1..i : todo[j] # FlushTarget
      BY <2>4
    <3> QED
      BY <1>2, <1>3, <1>4, <2>4, <3>1
  <2> QED
    BY <2>1, <2>2, <2>3, <2>4
<1>11. \A k \in 1..(i-1) : Publishing(rest[k]) => \E j \in (k+1)..(i-1) : rest[j] = FlushTarget
  <2> SUFFICES ASSUME NEW k \in 1..(i-1), Publishing(rest[k])
               PROVE  \E j \in (k+1)..(i-1) : rest[j] = FlushTarget
    OBVIOUS
  <2>1. k + 1 \in 1..i /\ Publishing(todo[k+1])
    BY <1>6
  <2>2. PICK j \in ((k+1)+1)..i : todo[j] = FlushTarget
    BY <1>3, <2>1
  <2>3. j \in 2..i /\ j - 1 \in (k+1)..(i-1)
    OBVIOUS
  <2> QED
    BY <1>5, <2>2, <2>3
<1>12. rest[i].id = id /\ i = Len(rest)
  BY <1>1, <1>3 DEF id
<1> QED
  BY <1>7, <1>8, <1>9, <1>10, <1>11, <1>12 DEF SealedAt

\* So is the program of a publication by a link.
LEMMA LinkSealed ==
  ASSUME TypeOK, Staged, Ready, Links
  PROVE  Sealed(todo', rec.tgtId, Seen("tgt"), flushed, Untouched)
<1> DEFINE op   == Head(todo)
           rest == Tail(todo)
           link == <<Check(op.at, op.id), Op("noteLink", op.at, op.id), Op("link", op.at, op.id),
                     Op("confirmLink", op.at, op.id)>>
           n    == Len(todo)
<1>1. /\ op = todo[1] /\ n \in Nat \ {0} /\ Len(rest) = n - 1 /\ op.do = "publish"
      /\ \A i \in 1..(n - 1) : rest[i] = todo[i+1]
      /\ rest \in Seq(Ops)
  BY Ahead DEF Links
<1>2. \A i \in 1..4 : link[i].do \notin {"commit", "install"}
  BY DEF Check, Op
<1>3. /\ Len(todo') = n + 3
      /\ \A i \in 1..4 : todo'[i] = link[i]
      /\ \A i \in 2..n : todo'[i+3] = todo[i]
  <2>1. todo' = link \o rest
    BY DEF Links
  <2>2. todo'[1] = link[1] /\ todo'[2] = link[2] /\ todo'[3] = link[3] /\ todo'[4] = link[4]
    BY <1>1, <2>1, InFront
  <2>3. Len(todo') = 4 + (n - 1) /\ \A i \in 5..(4 + (n - 1)) : todo'[i] = rest[i-4]
    BY <1>1, <2>1, InFront
  <2>4. ASSUME NEW i \in 2..n PROVE todo'[i+3] = todo[i]
    <3>1. i + 3 \in 5..(4 + (n - 1)) /\ (i + 3) - 4 = i - 1 /\ i - 1 \in 1..(n - 1)
      BY <1>1
    <3>2. todo'[i+3] = rest[i-1] /\ rest[i-1] = todo[(i-1)+1]
      BY <1>1, <2>3, <3>1
    <3> QED
      BY <3>1, <3>2
  <2> HIDE DEF link
  <2> QED
    BY <1>1, <2>2, <2>3, <2>4
<1> HIDE DEF op, rest, link, n
<1>4. ASSUME NEW m \in 1..(n + 3), todo'[m].do = "commit"
      PROVE  SealedAt(todo', m, rec.tgtId, Seen("tgt"), flushed, Untouched)
  <2> DEFINE i  == m - 3
             id == todo'[m].id
  <2>1. m \notin 1..4
    BY <1>2, <1>3, <1>4
  <2>2. i \in 2..n /\ m = i + 3 /\ todo'[m] = todo[i]
    BY <1>1, <1>3, <2>1
  <2>3. /\ i = n
        /\ rec.tgtId = id \/ \E j \in 1..(i-1) : todo[j].do = "install"
        /\ \A j \in 1..(i-1) : todo[j].do = "install" => todo[j].id = id
        /\ todo[i-1] = Check("tgt", id)
        /\ \A k \in 1..(i-1) : Publishing(todo[k]) => \E j \in (k+1)..(i-1) : todo[j] = FlushTarget
    <3>1. SealedAt(todo, i, rec.tgtId, Seen("tgt"), flushed, Untouched)
      <4>1. i \in 1..Len(todo) /\ todo[i].do = "commit"
        BY <1>1, <1>4, <2>2 DEF n
      <4> QED
        BY <4>1 DEF Ready, Sealed
    <3>2. todo[i].id = id /\ i # 1
      BY <2>2
    <3> HIDE DEF i, id
    <3> QED
      BY <3>1, <3>2 DEF SealedAt, n
  <2> HIDE DEF i, id
  <2>4. \A j \in 2..(i-1) : j + 3 \in 5..(m-1) /\ todo'[j+3] = todo[j]
    BY <1>1, <1>3, <2>2, <2>3
  <2>5. \A j \in 5..(m-1) : j - 3 \in 2..(i-1) /\ todo'[j] = todo[j-3]
    <3> SUFFICES ASSUME NEW j \in 5..(m-1) PROVE j - 3 \in 2..(i-1) /\ todo'[j] = todo[j-3]
      OBVIOUS
    <3>1. j - 3 \in 2..(i-1) /\ (j - 3) + 3 = j /\ j - 3 \in 2..n
      BY <1>1, <2>2, <2>3
    <3>2. todo'[(j-3)+3] = todo[j-3]
      BY <1>3, <3>1
    <3> QED
      BY <3>1, <3>2
  <2>6. \A j \in 1..4 : todo'[j].do # "install"
    BY <1>2, <1>3
  <2>7. i > 2
    <3>1. i # 2
      BY <1>1, <2>3, HeadsApart
    <3> QED
      BY <2>2, <3>1
  <2>8. rec.tgtId = id \/ \E j \in 1..(m-1) : todo'[j].do = "install"
    <3>1. ASSUME NEW j \in 1..(i-1), todo[j].do = "install"
          PROVE  \E k \in 1..(m-1) : todo'[k].do = "install"
      <4>1. j \in 2..(i-1)
        BY <1>1, <3>1
      <4>2. j + 3 \in 1..(m-1) /\ todo'[j+3].do = "install"
        BY <2>4, <3>1, <4>1
      <4> QED
        BY <4>2
    <3> QED
      BY <2>3, <3>1
  <2>9. \A j \in 1..(m-1) : todo'[j].do = "install" => todo'[j].id = id
    <3> SUFFICES ASSUME NEW j \in 1..(m-1), todo'[j].do = "install" PROVE todo'[j].id = id
      OBVIOUS
    <3>1. j \in 5..(m-1)
      BY <2>6, <2>2
    <3>2. j - 3 \in 1..(i-1) /\ todo'[j] = todo[j-3]
      BY <2>5, <3>1
    <3> QED
      BY <2>3, <3>2
  <2>10. m > 1 /\ todo'[m-1] = Check("tgt", id)
    <3>1. i - 1 \in 2..(i-1) /\ (i - 1) + 3 = m - 1
      BY <2>2, <2>7
    <3>2. todo'[(i-1)+3] = todo[i-1]
      BY <2>4, <3>1
    <3> QED
      BY <2>2, <2>3, <3>1, <3>2
  <2>11. PICK late \in 2..(i-1) : todo[late] = FlushTarget
    <3>1. 1 \in 1..(i-1) /\ Publishing(todo[1])
      BY <1>1, <2>2 DEF Publishing
    <3>2. PICK j \in (1+1)..(i-1) : todo[j] = FlushTarget
      BY <2>3, <3>1
    <3> QED
      BY <3>2
  <2>12. late + 3 \in 5..(m-1) /\ todo'[late+3] = FlushTarget
    BY <2>4, <2>11
  <2>13. \A k \in 1..(m-1) : Publishing(todo'[k]) => \E j \in (k+1)..(m-1) : todo'[j] = FlushTarget
    <3> SUFFICES ASSUME NEW k \in 1..(m-1), Publishing(todo'[k])
                 PROVE  \E j \in (k+1)..(m-1) : todo'[j] = FlushTarget
      OBVIOUS
    <3>1. CASE k \in 1..4
      <4>1. late + 3 \in (k+1)..(m-1)
        BY <2>2, <2>12, <3>1
      <4> QED
        BY <2>12, <4>1
    <3>2. CASE k \notin 1..4
      <4>1. k \in 5..(m-1)
        BY <2>2, <3>2
      <4>2. k - 3 \in 2..(i-1) /\ Publishing(todo[k-3])
        BY <2>5, <4>1
      <4>3. PICK j \in ((k-3)+1)..(i-1) : todo[j] = FlushTarget
        BY <2>3, <4>2
      <4>4. j \in 2..(i-1) /\ j + 3 \in (k+1)..(m-1)
        BY <2>2, <4>1, <4>2
      <4> QED
        BY <2>4, <4>3, <4>4
    <3> QED
      BY <3>1, <3>2
  <2>14. \E j \in 1..(m-1) : todo'[j] = FlushTarget
    BY <2>12
  <2> QED
    <3>1. m = Len(todo') /\ todo'[m].id = id
      BY <1>3, <2>2, <2>3 DEF id
    <3> QED
      BY <2>8, <2>9, <2>10, <2>13, <2>14, <3>1 DEF SealedAt
<1> QED
  BY <1>3, <1>4 DEF Sealed

\* The names that a program mentions stay what they were.
LEMMA SealedAfter ==
  ASSUME UNCHANGED plan, Sealed(todo', rec'.tgtId, Seen("tgt")', flushed', Untouched')
  PROVE  Ready'
<1>1. At("tgt")' = At("tgt")
  BY DEF At, SamePath
<1>2. FlushTarget' = FlushTarget /\ \A id : Check("tgt", id)' = Check("tgt", id)
  BY <1>1 DEF FlushTarget, Flush, Check, Op
<1>3. \A i \in 1..Len(todo') : todo'[i].do = "commit" =>
        SealedAt(todo', i, rec'.tgtId, Seen("tgt")', flushed', Untouched')
  BY DEF Sealed
<1>4. ASSUME NEW i \in 1..Len(todo'), todo'[i].do = "commit"
      PROVE  SealedAt(todo, i, rec.tgtId, Seen("tgt"), flushed, Untouched)'
  BY <1>2, <1>3, <1>4 DEF SealedAt, Publishing
<1> QED
  BY <1>4 DEF Ready, Sealed

\* Another program can take the target away, or put a file of its own there.
LEMMA TamperSealed ==
  ASSUME TypeOK, Staged, Ready, Tamper
  PROVE  Sealed(todo', rec'.tgtId, Seen("tgt")', flushed', Untouched')
<1>1. UNCHANGED <<plan, flushed, rec, todo>> /\ ~Untouched'
  BY DEF Tamper, Untouched, TypeOK, Tallied
<1>2. Seen("tgt")' \in {Seen("tgt"), "none", "foreign"}
  BY <1>1 DEF Tamper, Seen, At, SamePath, TypeOK, Names
<1>3. ASSUME NEW i \in 1..Len(todo), todo[i].do = "commit"
      PROVE  SealedAt(todo, i, rec.tgtId, Seen("tgt")', flushed, Untouched')
  <2>1. SealedAt(todo, i, rec.tgtId, Seen("tgt"), flushed, Untouched)
    BY <1>3 DEF Ready, Sealed
  <2>2. todo[i].id \in Whole
    BY <1>3 DEF Staged, Ops
  <2> QED
    BY <1>1, <1>2, <2>1, <2>2 DEF SealedAt, Whole
<1> QED
  BY <1>1, <1>3 DEF Sealed

\* After every step, the decision is still the last of the program.
LEMMA ReadyStep ==
  ASSUME TypeOK, Placed, Staged, Ready, [Next]_vars
  PROVE  Ready'
<1>1. UNCHANGED plan
  BY FilesStep
<1>2. CASE stage' # "commit"
  BY <1>1, <1>2, PlainOutside, PlainSealed, SealedAfter
<1>3. CASE Performs
  BY <1>1, <1>3, RestSealed, SealedAfter DEF Performs
<1>4. CASE Links
  <2>1. Seen("tgt")' = Seen("tgt") /\ Untouched' = Untouched /\ UNCHANGED <<rec, flushed>>
    BY <1>4 DEF Links, Seen, At, SamePath, Untouched
  <2> QED
    BY <1>1, <1>4, <2>1, LinkSealed, SealedAfter
<1>5. CASE Sets
  <2>1. PICK r \in Records : todo' = Forward(r)
    BY <1>5 DEF Sets
  <2> QED
    BY <1>1, <2>1, ForwardSealed, SealedAfter
<1>6. CASE Turns
  <2>1. Plain(Quarantine) /\ Plain(<<Check("src", "source"), Op("copyMode", "src", "none")>>)
    BY DEF Plain, Quarantine, Check, Op
  <2>2. Plain(todo')
    BY <1>6, <2>1 DEF Turns
  <2> QED
    BY <1>1, <2>2, PlainSealed, SealedAfter
<1>7. CASE Tamper
  BY <1>1, <1>7, TamperSealed, SealedAfter
<1>8. CASE UNCHANGED vars
  <2>1. Seen("tgt")' = Seen("tgt") /\ Untouched' = Untouched /\ UNCHANGED <<todo, rec, flushed>>
    BY <1>8 DEF vars, Seen, At, SamePath, Untouched
  <2> QED
    BY <1>1, <2>1, SealedAfter DEF Ready
<1> QED
  BY <1>2, <1>3, <1>4, <1>5, <1>6, <1>7, <1>8, CommitShape DEF Waits

-----------------------------------------------------------------------------
(* What follows the decision.                                               *)

\* Programs of it: one that something follows, and one that nothing follows.
Going(S, s)  == s \in Seq(S) /\ \A i \in 1..Len(s) : s[i].do \notin {"advance", "resume"}
Ending(S, s) == /\ s \in Seq(S) /\ s # <<>>
                /\ \A i \in 1..Len(s) : s[i].do = "advance" => i = Len(s)
                /\ \A i \in 1..Len(s) : s[i].do # "resume"

\* The one before the other is one that nothing follows.
LEMMA GoingEnding ==
  ASSUME NEW S, NEW a, Going(S, a), NEW b, Ending(S, b)
  PROVE  Ending(S, a \o b)
<1>1. /\ a \in Seq(S) /\ b \in Seq(S) /\ Len(b) \in Nat \ {0} /\ Len(a) \in Nat
  BY DEF Going, Ending
<1>2. /\ a \o b \in Seq(S) /\ Len(a \o b) = Len(a) + Len(b)
      /\ \A i \in 1..Len(a) : (a \o b)[i] = a[i]
      /\ \A i \in (Len(a)+1)..(Len(a)+Len(b)) : (a \o b)[i] = b[i - Len(a)]
  BY <1>1, Joined
<1>3. ASSUME NEW i \in 1..Len(a \o b)
      PROVE  /\ (a \o b)[i].do = "advance" => i = Len(a \o b)
             /\ (a \o b)[i].do # "resume"
  <2>1. CASE i \in 1..Len(a)
    BY <1>2, <2>1 DEF Going
  <2>2. CASE i \notin 1..Len(a)
    <3>1. i - Len(a) \in 1..Len(b) /\ i \in (Len(a)+1)..(Len(a)+Len(b))
      BY <1>1, <1>2, <1>3, <2>2
    <3>2. (a \o b)[i] = b[i - Len(a)]
      BY <1>2, <3>1
    <3> QED
      BY <1>1, <1>2, <3>1, <3>2 DEF Ending
  <2> QED
    BY <2>1, <2>2
<1>4. a \o b # <<>>
  BY <1>1, <1>2
<1> QED
  BY <1>2, <1>3, <1>4 DEF Ending

\* Two programs that something follows make one.
LEMMA GoingGoing ==
  ASSUME NEW S, NEW a, Going(S, a), NEW b, Going(S, b)
  PROVE  Going(S, a \o b)
<1>1. /\ a \in Seq(S) /\ b \in Seq(S) /\ Len(b) \in Nat /\ Len(a) \in Nat
  BY DEF Going
<1>2. /\ a \o b \in Seq(S) /\ Len(a \o b) = Len(a) + Len(b)
      /\ \A i \in 1..Len(a) : (a \o b)[i] = a[i]
      /\ \A i \in (Len(a)+1)..(Len(a)+Len(b)) : (a \o b)[i] = b[i - Len(a)]
  BY <1>1, Joined
<1>3. ASSUME NEW i \in 1..Len(a \o b) PROVE (a \o b)[i].do \notin {"advance", "resume"}
  <2>1. CASE i \in 1..Len(a)
    BY <1>2, <2>1 DEF Going
  <2>2. CASE i \notin 1..Len(a)
    <3>1. i - Len(a) \in 1..Len(b) /\ i \in (Len(a)+1)..(Len(a)+Len(b))
      BY <1>1, <1>2, <1>3, <2>2
    <3> QED
      BY <1>2, <3>1 DEF Going
  <2> QED
    BY <2>1, <2>2
<1> QED
  BY <1>2, <1>3 DEF Going

\* A check, and the removal of what is not under the target name.
LEMMA RemoveSpares ==
  ASSUME NEW n \in Names, At(n) # At("tgt"), NEW id \in Removable
  PROVE  /\ Going(Sparing, Remove(n, id)) /\ Going(Sparing, <<Check(n, id)>>)
         /\ Going(Sparing, <<Check(n, id)>> \o Remove(n, id))
<1>1. At(n) \in Names
  BY DEF At, Names
<1>2. /\ Op("intend", At(n), id) \in Sparing /\ Op("survive", At(n), id) \in Sparing
      /\ Op("check", At(n), id) \in Sparing
  BY <1>1 DEF Sparing, Clearing, Ops, Op, Dos, FileOps, JournalOps, Names, Artifacts, Phases, Removable
<1>3. Remove(n, id) \in Seq(Sparing) /\ <<Check(n, id)>> \in Seq(Sparing)
  BY <1>2 DEF Remove, Check
<1>4. Going(Sparing, Remove(n, id)) /\ Going(Sparing, <<Check(n, id)>>)
  BY <1>3 DEF Going, Remove, Check, Op
<1> QED
  BY <1>4, GoingGoing

\* The ends.
LEMMA EndsSpare ==
  /\ Ending(Sparing, Quarantine) /\ Ending(Sparing, Defer) /\ Ending(Sparing, Close)
  /\ Going(Sparing, <<>>)
<1>1. Quarantine \in Seq(Sparing) /\ Defer \in Seq(Sparing) /\ Close \in Seq(Sparing) /\ <<>> \in Seq(Sparing)
  BY DEF Quarantine, Defer, Close, Advance, Sparing, Clearing, Ops, Op, Dos, FileOps, JournalOps, Names,
         Artifacts, Phases
<1> QED
  BY <1>1 DEF Going, Ending, Quarantine, Defer, Close, Advance, Op

\* The clean-up after the decision spares the target.
LEMMA CleanupSpares ==
  ASSUME NEW r \in Records
  PROVE  Ending(Sparing, CleanupLive(r))
<1> DEFINE clean(n, id) == <<Check(n, id)>> \o Remove(n, id)
           a == IF ~SamePath /\ (r.mode # "move" \/ Linked(r)) THEN clean("src", "source") ELSE <<>>
           b == IF Linked(r) /\ r.priv THEN Remove("priv", LinkId(r)) ELSE <<>>
           c == IF r.rb THEN clean("rb", "source") ELSE <<>>
           d == IF Replaces THEN clean("stage", "staged") ELSE <<>>
<1>1. LinkId(r) \in Removable /\ {"source", "staged"} \subseteq Removable
  BY DEF LinkId, Removable
<1>2. {"src", "rb", "stage", "priv"} \subseteq Names /\ \A n \in {"rb", "stage", "priv"} : At(n) # At("tgt")
  BY DEF Names, At
<1>3. ~SamePath => At("src") # At("tgt")
  BY DEF At
<1>4. Going(Sparing, a) /\ Going(Sparing, b) /\ Going(Sparing, c) /\ Going(Sparing, d)
  BY <1>1, <1>2, <1>3, RemoveSpares, EndsSpare
<1>5. CleanupLive(r) = a \o b \o c \o d \o Close
  BY DEF CleanupLive
<1> HIDE DEF a, b, c, d
<1> QED
  BY <1>4, <1>5, GoingEnding, GoingGoing, EndsSpare

\* A name that has to be looked at before the rest.
LEMMA SettleSpares ==
  ASSUME NEW found, NEW expected, NEW ops, Going(Sparing, ops), NEW rest, Ending(Sparing, rest)
  PROVE  Ending(Sparing, Settle(found, expected, ops, rest))
BY EndsSpare, GoingEnding DEF Settle

\* And so does the recovery of a publication that was decided.
LEMMA RecoverySpares ==
  ASSUME NEW r \in Records, r.phase = "db_committed"
  PROVE  Ending(Sparing, Recovery(r))
<1>1. {"source", "staged", "copy"} \subseteq Removable
  BY DEF Removable
<1>2. {"src", "rb", "stage", "priv"} \subseteq Names /\ \A n \in {"rb", "stage", "priv"} : At(n) # At("tgt")
  BY DEF Names, At
<1>3. ~SamePath => At("src") # At("tgt")
  BY DEF At
<1>4. Ending(Sparing, DropStaging)
  BY <1>1, <1>2, RemoveSpares, EndsSpare, SettleSpares DEF DropStaging
<1>5. Ending(Sparing, DropPrivate(r, DropStaging))
  BY <1>1, <1>2, <1>4, RemoveSpares, SettleSpares DEF DropPrivate
<1>6. Ending(Sparing, CleanupRecovered(r))
  BY <1>1, <1>2, <1>3, <1>5, RemoveSpares, EndsSpare, SettleSpares DEF CleanupRecovered
<1> QED
  BY <1>6, EndsSpare DEF Recovery

\* What remains of such a program.
LEMMA FinishingRest ==
  ASSUME NEW S, NEW s, NEW j, FinishingBy(S, s, j), s # <<>>
  PROVE  /\ Head(s) = s[1] /\ Head(s) \in S /\ Len(s) \in Nat \ {0}
         /\ Tail(s) \in Seq(S)
         /\ \A i \in 1..Len(Tail(s)) : Tail(s)[i].do # "resume"
         /\ \A i \in 1..Len(Tail(s)) : Tail(s)[i].do = "advance" => i = Len(Tail(s))
         /\ Head(s).do = "advance" => Tail(s) = <<>>
         /\ Head(s).do = "resume" => j.removal # NoRemoval
         /\ \A k : FinishingBy(S, Tail(s), k)
<1>1. /\ s \in Seq(S)
      /\ \A i \in 1..Len(s) : s[i].do = "advance" => i = Len(s)
      /\ \A i \in 1..Len(s) : s[i].do = "resume" => i = 1 /\ j.removal # NoRemoval
  BY DEF FinishingBy
<1>2. /\ Head(s) = s[1] /\ s[1] \in S /\ Len(s) \in Nat \ {0}
      /\ Tail(s) \in Seq(S) /\ Len(Tail(s)) = Len(s) - 1
      /\ \A i \in 1..(Len(s) - 1) : Tail(s)[i] = s[i+1]
  BY <1>1, Rest
<1> DEFINE rest == Tail(s)
           n    == Len(s)
<1>3. /\ n \in Nat \ {0} /\ Len(rest) = n - 1 /\ rest \in Seq(S) /\ s[1] \in S
      /\ \A i \in 1..(n - 1) : rest[i] = s[i+1]
      /\ \A i \in 1..n : s[i].do = "advance" => i = n
      /\ \A i \in 1..n : s[i].do = "resume" => i = 1 /\ j.removal # NoRemoval
      /\ Head(s) = s[1]
  BY <1>1, <1>2
<1> HIDE DEF rest, n
<1>4. /\ \A i \in 1..Len(rest) : rest[i].do # "resume"
      /\ \A i \in 1..Len(rest) : rest[i].do = "advance" => i = Len(rest)
  <2> SUFFICES ASSUME NEW i \in 1..Len(rest)
               PROVE  rest[i].do # "resume" /\ (rest[i].do = "advance" => i = Len(rest))
    OBVIOUS
  <2>1. i + 1 \in 1..n /\ i + 1 # 1 /\ rest[i] = s[i+1]
    BY <1>3
  <2> QED
    BY <1>3, <2>1
<1>5. s[1].do = "advance" => n = 1
  BY <1>3
<1>6. s[1].do = "advance" => rest = <<>>
  BY <1>3, <1>5
<1>7. s[1].do = "resume" => j.removal # NoRemoval
  BY <1>3
<1>8. \A k : FinishingBy(S, rest, k)
  BY <1>3, <1>4 DEF FinishingBy
<1> QED
  BY <1>2, <1>4, <1>6, <1>7, <1>8 DEF rest

\* A program that nothing follows finishes it.
LEMMA EndingFinishes == ASSUME NEW S, NEW s, Ending(S, s), NEW j PROVE FinishingBy(S, s, j)
BY DEF Ending, FinishingBy

\* A few operations before the rest.
LEMMA BeforeRest ==
  ASSUME NEW S, NEW s, NEW j, FinishingBy(S, s, j), s # <<>>, NEW a, Going(S, a), NEW k
  PROVE  FinishingBy(S, a \o Tail(s), k)
<1>1. CASE Tail(s) = <<>>
  <2>1. a \o Tail(s) = a
    BY <1>1 DEF Going
  <2> QED
    BY <2>1 DEF Going, FinishingBy
<1>2. CASE Tail(s) # <<>>
  <2>1. Ending(S, Tail(s))
    BY <1>2, FinishingRest DEF Ending
  <2> QED
    BY <2>1, GoingEnding, EndingFinishes
<1> QED
  BY <1>1, <1>2

\* The decision and what follows it, in terms of the next state.
LEMMA KeptAfter ==
  ASSUME UNCHANGED plan, flushed \subseteq flushed',
         Decided(jrnl', flushed', Seen("tgt")', Untouched'),
         stage' # "idle" => /\ stage' # "commit" /\ rec' = jrnl' /\ jrnl'.phase = "db_committed"
                            /\ Finishing(todo', jrnl')
  PROVE  Kept'
<1>1. At("tgt")' = At("tgt")
  BY DEF At, SamePath
<1>2. Decided(jrnl, flushed, Seen("tgt"), Untouched)'
  BY <1>1 DEF Decided
<1>3. stage' # "idle" => Finishing(todo, jrnl)'
  BY SeqsGrow DEF Finishing, FinishingBy
<1> QED
  BY <1>2, <1>3 DEF Kept

\* The terminal transaction is the last step of a commit, and comes when what
\* it names is on stable storage and, if nobody touched it, under its name.
LEMMA DecisionKept ==
  ASSUME TypeOK, Staged, Ready, JournalStep, Head(todo).do = "commit", ~Refused(Head(todo))
  PROVE  Kept'
<1> DEFINE op == Head(todo)
<1>1. todo # <<>> /\ op = todo[1] /\ 1 \in 1..Len(todo) /\ stage = "commit"
  BY Ahead DEF JournalStep, Clearing
<1>2. /\ UNCHANGED <<plan, files, tally>>
      /\ jrnl' = Patched(jrnl, op) /\ todo' = CleanupLive(Patched(rec, op)) /\ stage' = "cleanup"
      /\ rec' = Patched(rec, op)
  BY DEF JournalStep
<1>3. rec = jrnl /\ rec.removal = NoRemoval /\ jrnl \in Records /\ jrnl.phase = "target_installed"
  BY <1>1 DEF Staged, TypeOK, Refused
<1>4. /\ rec' = jrnl' /\ jrnl' \in Records /\ jrnl'.phase = "db_committed"
      /\ jrnl'.removal = NoRemoval /\ jrnl'.tgtId = rec.tgtId
  BY <1>2, <1>3 DEF Patched, Records, Phases
<1>5. SealedAt(todo, 1, rec.tgtId, Seen("tgt"), flushed, Untouched)
  BY <1>1 DEF Ready, Sealed
<1>6. /\ rec.tgtId = todo[1].id /\ todo[1].id \in flushed
      /\ Untouched => Seen("tgt") = todo[1].id
  BY <1>5 DEF SealedAt
<1>7. jrnl'.tgtId \in Whole
  BY <1>3, <1>4 DEF Staged, Recorded
<1>8. Seen("tgt")' = Seen("tgt") /\ Untouched' = Untouched /\ UNCHANGED flushed
  BY <1>2 DEF files, Seen, At, SamePath, Untouched
<1>9. Decided(jrnl', flushed', Seen("tgt")', Untouched')
  BY <1>4, <1>6, <1>7, <1>8 DEF Decided
<1>10. Finishing(todo', jrnl')
  BY <1>2, <1>4, CleanupSpares, EndingFinishes DEF Finishing
<1> QED
  BY <1>2, <1>4, <1>8, <1>9, <1>10, KeptAfter

\* No step takes the published artifact away afterwards.
LEMMA SeenKept ==
  ASSUME TypeOK, Placed, Staged, Kept, committed, [Next]_vars
  PROVE  /\ Untouched' => Untouched
         /\ Untouched' => Seen("tgt")' = Seen("tgt")
<1> DEFINE op == Head(todo)
<1>1. UNCHANGED plan /\ At("tgt")' = At("tgt")
  BY FilesStep DEF At, SamePath
<1>2. todo # <<>> => op \in Sparing /\ op \in Ops
  BY Ahead, FinishingRest DEF Kept, TypeOK, Finishing
<1>3. Untouched' => Untouched
  <2>1. UNCHANGED tally.tampers \/ Tamper
    BY DEF Next, Step, vars, Fault, FileStep, Publish, CheckStep, SurviveStep, JournalStep, QuarantineStep,
           ResumeStep, RecoverStep, DeferStep, FailStep, Commit, Recover, Crash, TypeOK, Tallied
  <2>2. Tamper => ~Untouched'
    BY DEF Tamper, Untouched, TypeOK, Tallied
  <2> QED
    BY <2>1, <2>2 DEF Untouched
<1>4. CASE FileStep
  <2>1. todo # <<>> /\ op.do \in FileOps /\ op.do \notin {"move", "link", "open", "copy"}
    BY <1>2, <1>4 DEF FileStep, Sparing, Clearing
  <2>2. CASE UNCHANGED dir
    BY <1>1, <2>2, <1>3 DEF Seen
  <2>3. CASE Applied(op)
    <3>1. op.do = "isolate" => op.at # At("tgt")
      BY <1>2, <2>1 DEF Sparing
    <3>2. dir'[At("tgt")] = dir[At("tgt")]
      BY <2>1, <2>3, <3>1 DEF Applied, FileOps, TypeOK, Names, At
    <3> QED
      BY <1>1, <1>3, <3>2 DEF Seen
  <2> QED
    BY <1>4, <2>2, <2>3 DEF FileStep, files
<1>5. CASE UNCHANGED dir
  BY <1>1, <1>3, <1>5 DEF Seen
<1>6. ~Publish
  BY <1>2 DEF Publish, Sparing, Clearing
<1>7. CASE Tamper
  BY <1>7 DEF Tamper, Untouched, TypeOK, Tallied
<1> QED
  BY <1>4, <1>5, <1>6, <1>7
     DEF Next, Step, vars, files, CheckStep, SurviveStep, JournalStep, QuarantineStep, ResumeStep,
         RecoverStep, DeferStep, FailStep, Commit, Recover, Crash

\* The journal keeps what was decided.
LEMMA JournalKept ==
  ASSUME TypeOK, Placed, Staged, Kept, committed, [Next]_vars
  PROVE  Decided(jrnl', flushed', Seen("tgt")', Untouched')
<1> DEFINE op == Head(todo)
<1>1. Decided(jrnl, flushed, Seen("tgt"), Untouched) /\ jrnl \in Records
  BY DEF Kept, TypeOK
<1>2. flushed \subseteq flushed' /\ (Untouched' => Untouched /\ Seen("tgt")' = Seen("tgt"))
  BY FilesStep, SeenKept
<1>3. CASE UNCHANGED jrnl
  BY <1>1, <1>2, <1>3 DEF Decided
<1>4. CASE JournalStep /\ ~Refused(op)
  <2>1. todo # <<>> /\ op.do \in JournalOps /\ jrnl' = Patched(jrnl, op)
    BY <1>4 DEF JournalStep
  <2>2. op \in Sparing
    BY <2>1, FinishingRest DEF Kept, TypeOK, Finishing
  <2>3. op.do \in {"intend", "forget", "advance"}
    BY <2>1, <2>2 DEF JournalOps, Sparing, Clearing
  <2>4. CASE op.do = "intend"
    <3>1. jrnl'.tgtId = jrnl.tgtId /\ jrnl'.phase = jrnl.phase /\ jrnl'.removal.at = op.at
      BY <1>1, <2>1, <2>4 DEF Patched, Records
    <3>2. op.at # At("tgt")
      BY <2>2, <2>4 DEF Sparing
    <3> QED
      BY <1>1, <1>2, <3>1, <3>2 DEF Decided
  <2>5. CASE op.do = "forget"
    <3>1. jrnl'.tgtId = jrnl.tgtId /\ jrnl'.phase = jrnl.phase /\ jrnl'.removal = NoRemoval
      BY <1>1, <2>1, <2>5 DEF Patched, Eager, Records
    <3> QED
      BY <1>1, <1>2, <3>1 DEF Decided
  <2>6. CASE op.do = "advance"
    <3>1. op.id = "cleaned"
      BY <2>2, <2>6 DEF Sparing, Clearing
    <3>2. jrnl'.tgtId = jrnl.tgtId /\ jrnl'.phase = "cleaned" /\ jrnl'.removal = jrnl.removal
      BY <1>1, <2>1, <2>6, <3>1 DEF Patched, Eager, Records
    <3> QED
      BY <1>1, <1>2, <3>2 DEF Decided
  <2> QED
    BY <2>3, <2>4, <2>5, <2>6
<1>5. CASE QuarantineStep
  <2>1. jrnl'.tgtId = jrnl.tgtId /\ jrnl'.phase = "quarantined" /\ jrnl'.removal = jrnl.removal
    BY <1>1, <1>5 DEF QuarantineStep, Records
  <2> QED
    BY <1>1, <1>2, <2>1 DEF Decided
<1>6. ~Commit
  BY DEF Commit
<1> QED
  BY <1>3, <1>4, <1>5, <1>6
     DEF Next, Step, vars, FileStep, Publish, CheckStep, SurviveStep, JournalStep, ResumeStep,
         RecoverStep, DeferStep, FailStep, Recover, Crash, Tamper

\* What is removed afterwards spares the target.
LEMMA SurviveFinishes ==
  ASSUME TypeOK, Placed, Staged, Kept, committed, SurviveStep
  PROVE  stage' # "idle" => /\ stage' # "commit" /\ rec' = jrnl' /\ jrnl'.phase = "db_committed"
                            /\ Finishing(todo, jrnl)'
<1> DEFINE op == Head(todo)
<1>1. todo # <<>> /\ op.do = "survive" /\ UNCHANGED <<plan, jrnl>> /\ At("tgt")' = At("tgt")
  BY DEF SurviveStep, At, SamePath
<1>2. /\ stage # "commit" /\ rec = jrnl /\ jrnl.phase = "db_committed" /\ Finishing(todo, jrnl)
      /\ jrnl \in Records /\ Recorded(jrnl)
  BY <1>1 DEF Kept, TypeOK, Staged
<1>3. \A r : Throws(r) => stage' = "idle"
  BY <1>2 DEF Throws
<1>4. CASE Goes(Quarantine, rec) /\ UNCHANGED flushed
  <2>1. Finishing(Quarantine, jrnl)
    BY EndsSpare, EndingFinishes DEF Finishing
  <2>2. Finishing(todo', jrnl')
    BY <1>1, <1>4, <2>1 DEF Goes
  <2>3. Finishing(todo, jrnl)'
    BY <1>1, <1>4, <2>2, SeqsGrow DEF Finishing, FinishingBy
  <2> QED
    BY <1>1, <1>2, <1>4, <2>3 DEF Goes
<1>5. ASSUME NEW c \in Survivors(op), flushed' = flushed \cup {c[2]},
             Goes(<<Op("isolate", op.at, op.id),
                    [Op("erase", op.at, op.id) EXCEPT !.to = c[1], !.by = c[2]],
                    Op("forget", op.at, op.id)>> \o Tail(todo), rec)
      PROVE  stage' # "idle" => /\ stage' # "commit" /\ rec' = jrnl' /\ jrnl'.phase = "db_committed"
                                /\ Finishing(todo, jrnl)'
  <2> DEFINE last == [Op("erase", op.at, op.id) EXCEPT !.to = c[1], !.by = c[2]]
             gone == <<Op("isolate", op.at, op.id), last, Op("forget", op.at, op.id)>>
             rest == Tail(todo)
  <2>1. c[1] \in Names /\ c[2] \in Whole
    BY <1>2, SurvivorsTyped
  <2>2. last \in [do : {"erase"}, at : {op.at}, id : {op.id}, to : {c[1]}, by : {c[2]}]
    BY DEF Op
  <2>3. op.at \in Names /\ op.id \in Removable /\ op.at # At("tgt") /\ op \in Sparing
    BY <1>1, <1>2, FinishingRest DEF Sparing, Clearing, Ops, Finishing
  <2> HIDE DEF op, last
  <2>4. gone \in Seq(Sparing') /\ Len(gone) = 3
    <3>1. last \in Sparing'
      BY <1>1, <1>5, <2>1, <2>2, <2>3
         DEF Sparing, Clearing, Ops, Dos, FileOps, JournalOps, Names, Artifacts, Phases, Removable, Whole
    <3>2. Op("isolate", op.at, op.id) \in Sparing' /\ Op("forget", op.at, op.id) \in Sparing'
      BY <1>1, <2>3 DEF Op, Sparing, Clearing, Ops, Dos, FileOps, JournalOps, Names, Artifacts, Phases, Removable
    <3> QED
      BY <3>1, <3>2
  <2>5. \A i \in 1..Len(gone) : gone[i].do \notin {"advance", "resume"}
    BY <2>2, <2>4 DEF Op
  <2>6. Going(Sparing', gone)
    BY <2>4, <2>5 DEF Going
  <2>7. FinishingBy(Sparing', todo, jrnl)
    BY <1>1, <1>2, <1>5, SeqsGrow DEF Finishing, FinishingBy
  <2>8. FinishingBy(Sparing', gone \o rest, jrnl')
    BY <1>1, <2>6, <2>7, BeforeRest
  <2> HIDE DEF gone, rest
  <2>9. stage' # "idle" => todo' = gone \o rest /\ stage' = stage /\ rec' = rec
    BY <1>5 DEF Goes, gone, rest, last, op
  <2> QED
    BY <1>1, <1>2, <2>8, <2>9 DEF Finishing
<1> QED
  BY <1>3, <1>4, <1>5 DEF SurviveStep

\* A run goes on with a program of the same kind.
LEMMA GoesFinishing ==
  ASSUME UNCHANGED <<plan, jrnl>>, flushed \subseteq flushed', stage # "commit", rec = jrnl,
         jrnl.phase = "db_committed", NEW s, Finishing(s, jrnl), Goes(s, rec)
  PROVE  stage' # "idle" => /\ stage' # "commit" /\ rec' = jrnl' /\ jrnl'.phase = "db_committed"
                            /\ Finishing(todo, jrnl)'
<1>1. stage' # "idle" => todo' = s /\ stage' = stage /\ rec' = rec
  BY DEF Goes
<1>2. Seq(Sparing) \subseteq Seq(Sparing')
  BY SeqsGrow
<1> QED
  BY <1>1, <1>2 DEF Finishing, FinishingBy

\* The clean-up or the recovery that follows the decision goes on, or ends.
LEMMA FinishingStep ==
  ASSUME TypeOK, Placed, Staged, Kept, committed, [Next]_vars
  PROVE  stage' # "idle" => /\ stage' # "commit" /\ rec' = jrnl' /\ jrnl'.phase = "db_committed"
                            /\ Finishing(todo, jrnl)'
<1> DEFINE op    == Head(todo)
           after == stage' # "idle" =>
                      /\ stage' # "commit" /\ rec' = jrnl' /\ jrnl'.phase = "db_committed"
                      /\ Finishing(todo, jrnl)'
<1>1. UNCHANGED plan /\ flushed \subseteq flushed' /\ jrnl \in Records
  BY FilesStep DEF TypeOK
<1>2. todo # <<>> => /\ stage # "commit" /\ rec = jrnl /\ jrnl.phase = "db_committed"
                     /\ Finishing(todo, jrnl)
  BY DEF Kept, TypeOK
<1>3. todo # <<>> => /\ op \in Sparing /\ \A k : Finishing(Tail(todo), k)
                     /\ op.do = "advance" => Tail(todo) = <<>>
                     /\ op.do = "resume" => jrnl.removal # NoRemoval
  BY <1>2, FinishingRest DEF Finishing
<1>4. Finishing(Quarantine, jrnl)
  BY EndsSpare, EndingFinishes DEF Finishing
<1>5. \A r : todo # <<>> /\ Throws(r) => after
  BY <1>2 DEF Throws
<1>6. \A s : todo # <<>> /\ UNCHANGED jrnl /\ Finishing(s, jrnl) /\ Goes(s, rec) => after
  BY <1>1, <1>2, GoesFinishing
<1> HIDE DEF op, after
<1>7. CASE FileStep
  <2>1. todo # <<>> /\ UNCHANGED jrnl
    BY <1>7 DEF FileStep
  <2>2. Throws(rec) \/ Goes(Tail(todo), rec)
    BY <1>7 DEF FileStep
  <2> QED
    BY <1>3, <1>5, <1>6, <2>1, <2>2 DEF after
<1>8. ~Publish
  BY <1>3 DEF Publish, Sparing, Clearing, op
<1>9. CASE CheckStep
  <2>1. todo # <<>> /\ UNCHANGED jrnl /\ (Goes(Tail(todo), rec) \/ Goes(Quarantine, rec))
    BY <1>9 DEF CheckStep
  <2> QED
    BY <1>3, <1>4, <1>6, <2>1 DEF after
<1>10. CASE SurviveStep
  BY <1>10, SurviveFinishes
<1>11. CASE JournalStep
  <2>1. todo # <<>> /\ op.do \in JournalOps /\ op.do \in {"intend", "forget", "advance"}
    BY <1>3, <1>11 DEF JournalStep, JournalOps, Sparing, Clearing, op
  <2>2. CASE Refused(op)
    <3>1. Throws(Eager(rec, op))
      BY <1>11, <2>2 DEF JournalStep, op
    <3> QED
      BY <1>5, <2>1, <3>1 DEF after
  <2>3. CASE ~Refused(op)
    <3>1. jrnl' = Patched(jrnl, op) /\ Goes(Tail(todo), Patched(rec, op))
      BY <1>11, <2>1, <2>3 DEF JournalStep, op
    <3>2. CASE op.do = "advance"
      <4>1. stage' = "idle"
        BY <1>3, <2>1, <3>1, <3>2 DEF Goes
      <4> QED
        BY <4>1
    <3>3. CASE op.do # "advance"
      <4>1. Patched(rec, op) = jrnl' /\ jrnl'.phase = jrnl.phase
        BY <1>1, <1>2, <2>1, <3>1, <3>3 DEF Patched, Eager, Records
      <4>2. stage' # "idle" => todo' = Tail(todo) /\ stage' = stage /\ rec' = jrnl'
        BY <3>1, <4>1 DEF Goes
      <4>3. Finishing(Tail(todo), jrnl')
        BY <1>3, <2>1
      <4>4. stage' # "idle" => Finishing(todo, jrnl)'
        <5>1. Seq(Sparing) \subseteq Seq(Sparing')
          BY <1>1, SeqsGrow
        <5> QED
          BY <4>2, <4>3, <5>1 DEF Finishing, FinishingBy
      <4> QED
        BY <1>2, <2>1, <4>1, <4>2, <4>4
    <3> QED
      BY <3>2, <3>3
  <2> QED
    BY <2>2, <2>3
<1>12. CASE QuarantineStep
  BY <1>12 DEF QuarantineStep, Goes
<1>13. CASE ResumeStep
  <2> DEFINE first == <<Op("survive", rec.removal.at, rec.removal.id)>>
  <2>1. todo # <<>> /\ op.do = "resume" /\ UNCHANGED jrnl
    BY <1>13 DEF ResumeStep, op
  <2>2. rec = jrnl /\ jrnl.removal # NoRemoval /\ jrnl.removal.at # At("tgt")
    BY <1>2, <1>3, <2>1 DEF Kept, Decided
  <2>3. first \in Seq(Sparing)
    <3>1. jrnl.removal.at \in Names /\ jrnl.removal.id \in Removable
      BY <1>1 DEF Records, Staged, Recorded
    <3>2. Op("survive", jrnl.removal.at, jrnl.removal.id) \in Sparing
      BY <2>2, <3>1
         DEF Op, Sparing, Clearing, Ops, Dos, FileOps, JournalOps, Names, Artifacts, Phases, Removable
    <3> QED
      BY <2>2, <3>2
  <2>4. Going(Sparing, first)
    BY <2>3 DEF Going, Op
  <2>5. Finishing(first \o Tail(todo), jrnl)
    <3> HIDE DEF first
    <3> QED
      BY <1>2, <2>1, <2>4, BeforeRest DEF Finishing
  <2>6. Goes(Quarantine, rec) \/ Goes(first \o Tail(todo), rec)
    BY <1>13 DEF ResumeStep
  <2> HIDE DEF first
  <2> QED
    BY <1>4, <1>6, <2>1, <2>5, <2>6 DEF after
<1>14. CASE RecoverStep
  <2>1. todo # <<>> /\ UNCHANGED jrnl /\ Goes(Recovery(rec), rec)
    BY <1>14 DEF RecoverStep
  <2>2. Finishing(Recovery(rec), jrnl)
    BY <1>1, <1>2, <2>1, RecoverySpares, EndingFinishes DEF Finishing
  <2> QED
    BY <1>6, <2>1, <2>2 DEF after
<1>15. CASE DeferStep \/ FailStep
  <2>1. todo # <<>> /\ \E r : Throws(r)
    BY <1>15 DEF DeferStep, FailStep
  <2> QED
    BY <1>5, <2>1 DEF after
<1>16. ~Commit
  BY DEF Commit
<1>17. CASE Recover
  <2>1. jrnl.phase = "db_committed"
    BY <1>17 DEF Recover, Unfinished, Kept, Decided
  <2> DEFINE s == (IF jrnl.removal # NoRemoval THEN <<Op("resume", "src", "none")>> ELSE <<>>)
                  \o <<Op("recover", "src", "none")>>
  <2>2. todo' = s /\ stage' = "recover" /\ rec' = jrnl /\ UNCHANGED jrnl
    BY <1>17 DEF Recover
  <2>3. Op("resume", "src", "none") \in Sparing' /\ Op("recover", "src", "none") \in Sparing'
    BY DEF Op, Sparing, Clearing, Ops, Dos, FileOps, JournalOps, Names, Artifacts, Phases
  <2>4. FinishingBy(Sparing', s, jrnl)
    <3>1. CASE jrnl.removal # NoRemoval
      <4> DEFINE first == <<Op("resume", "src", "none")>>
                 last  == <<Op("recover", "src", "none")>>
      <4>1. /\ first \in Seq(Sparing') /\ Len(first) = 1 /\ first[1].do = "resume"
            /\ last \in Seq(Sparing') /\ Len(last) = 1 /\ last[1].do = "recover"
        BY <2>3 DEF Op
      <4>2. s = first \o last
        BY <3>1
      <4> HIDE DEF s, first, last
      <4>3. /\ s \in Seq(Sparing') /\ Len(s) = 2 /\ s[1].do = "resume" /\ s[2].do = "recover"
        BY <4>1, <4>2, Joined
      <4> QED
        BY <3>1, <4>3 DEF FinishingBy
    <3>2. CASE jrnl.removal = NoRemoval
      <4>1. s = <<Op("recover", "src", "none")>>
        BY <3>2
      <4> HIDE DEF s
      <4> QED
        BY <2>3, <4>1 DEF FinishingBy, Op
    <3> QED
      BY <3>1, <3>2
  <2> HIDE DEF s
  <2> QED
    BY <2>1, <2>2, <2>4 DEF Finishing
<1>18. CASE Crash
  BY <1>18 DEF Crash, Goes
<1>19. CASE UNCHANGED <<plan, flushed, jrnl, rec, todo, stage>>
  <2>1. UNCHANGED plan /\ flushed = flushed'
    BY <1>19
  <2>2. Sparing' = Sparing
    BY <2>1 DEF Sparing, Clearing, Ops, At, SamePath
  <2> QED
    BY <1>19, <2>2, <1>2 DEF Finishing, FinishingBy, TypeOK
<1>20. Tamper \/ UNCHANGED vars => UNCHANGED <<plan, flushed, jrnl, rec, todo, stage>>
  BY DEF Tamper, vars
<1> QED
  BY <1>7, <1>8, <1>9, <1>10, <1>11, <1>12, <1>13, <1>14, <1>15, <1>16, <1>17, <1>18, <1>19, <1>20
     DEF Next, Step

\* After every step, what was decided stays decided.
LEMMA KeptStep ==
  ASSUME TypeOK, Placed, Staged, Ready, Kept, [Next]_vars
  PROVE  Kept'
<1>1. CASE committed
  <2>1. UNCHANGED plan /\ At("tgt")' = At("tgt")
    BY FilesStep DEF At, SamePath
  <2>2. Decided(jrnl, flushed, Seen("tgt"), Untouched)'
    BY <1>1, <2>1, JournalKept DEF Decided
  <2> QED
    BY <1>1, <2>2, FinishingStep DEF Kept
<1>2. CASE ~committed
  <2>1. CASE ~committed'
    BY <2>1 DEF Kept
  <2>2. CASE committed'
    <3>1. JournalStep /\ Head(todo).do = "commit" /\ ~Refused(Head(todo))
      BY <1>2, <2>2 DEF Next, Step, vars, FileStep, Publish, CheckStep, SurviveStep, JournalStep,
        QuarantineStep, ResumeStep, RecoverStep, DeferStep, FailStep, Commit, Recover, Crash, Tamper
    <3> QED
      BY <3>1, DecisionKept
  <2> QED
    BY <2>1, <2>2
<1> QED
  BY <1>1, <1>2

-----------------------------------------------------------------------------
(* The theorems.                                                            *)

\* Nothing was published, and nothing runs, at the start.
LEMMA InitHolds == ASSUME Init PROVE IInv
<1>1. TypeOK
  <2>1. dir \in [Names -> Artifacts] /\ quar \in [Names -> Artifacts]
    BY DEF Init, Names, Artifacts
  <2>2. tally \in Tallied
    BY FinalizeAssumption DEF Init, Tallied
  <2> QED
    BY <2>1, <2>2, FreshTyped DEF Init, TypeOK
<1>2. Placed
  BY DEF Init, Placed, Names, Removable
<1>3. Staged
  BY FreshTyped DEF Init, Staged
<1>4. \A i \in 1..Len(todo) : FALSE
  BY DEF Init
<1>5. Durable
  BY <1>4 DEF Init, Durable, Announced, Materialized, Names
<1>6. Ready
  BY <1>4 DEF Ready, Sealed
<1>7. Kept
  BY DEF Init, Kept
<1> QED
  BY <1>1, <1>2, <1>3, <1>5, <1>6, <1>7 DEF IInv

\* Every step of the commit, of a recovery, of a crash or of another program
\* preserves the six parts of the invariant.
THEOREM Invariance == Spec => []IInv
<1>1. Init => IInv
  BY InitHolds
<1>2. IInv /\ [Next]_vars => IInv'
  BY TypeStep, DurableStep, ReadyStep, KeptStep DEF IInv
<1> QED
  BY <1>1, <1>2, PTL DEF Spec

\* Every variable keeps its type, through every crash, failure and tampering.
THEOREM TypeCorrect == Spec => []TypeOK
<1>1. IInv => TypeOK
  BY DEF IInv
<1> QED
  BY <1>1, Invariance, PTL

\* The public name never shows a half-copied artifact, nor a copy that a power
\* loss could still damage: for every plan, and any number of faults, crashes
\* and tamperings (commitPrepared's materialize, makeDurable, publish).
THEOREM TargetWhole == Spec => []TargetIsWhole
<1>1. IInv => TargetIsWhole
  BY DEF IInv, Placed, Durable, TargetIsWhole, Seen, At
<1> QED
  BY <1>1, Invariance, PTL

\* What the terminal transaction recorded is on stable storage and stays under
\* the target name, whatever clean-up, recovery, crash or failure follows.
THEOREM CommitLasts == Spec => []CommittedStays
<1>1. IInv => CommittedStays
  BY DEF IInv, Kept, Decided, CommittedStays
<1> QED
  BY <1>1, Invariance, PTL

\* What an operation of a step does to the two kinds of names: it acts, or the
\* publication does, or neither name changes.
LEMMA StepShape ==
  ASSUME TypeOK, Staged, Step
  PROVE  \/ /\ Head(todo) \in Ops /\ Head(todo).do \in FileOps
            /\ Verified(Head(todo)) /\ Applied(Head(todo))
         \/ /\ Head(todo) \in Ops /\ Head(todo).do = "publish"
            /\ dir[Head(todo).at] = Head(todo).id /\ dir[At("tgt")] = "none"
            /\ dir' = [dir EXCEPT ![Head(todo).at] = "none", ![At("tgt")] = Head(todo).id]
            /\ UNCHANGED <<plan, quar>>
         \/ UNCHANGED <<dir, quar>>
<1>1. CASE FileStep
  BY <1>1, Ahead DEF FileStep, files
<1>2. CASE Publish
  BY <1>2, Ahead DEF Publish, Seen
<1>3. FileStep \/ Publish \/ UNCHANGED <<dir, quar>>
  BY DEF Step, files, CheckStep, SurviveStep, JournalStep, QuarantineStep, ResumeStep, RecoverStep,
         DeferStep, FailStep
<1> QED
  BY <1>1, <1>2, <1>3

\* No step removes, moves or overwrites a file that another program put there:
\* an operation acts on an artifact whose identity it verified, or on a name
\* that is free.
LEMMA ForeignStep ==
  ASSUME IInv, Step, NEW n \in Names, dir[n] = "foreign"
  PROVE  dir'[n] = "foreign"
<1> DEFINE op == Head(todo)
<1>1. TypeOK /\ Placed /\ Staged
  BY DEF IInv
<1>2. CASE op \in Ops /\ op.do \in FileOps /\ Verified(op) /\ Applied(op)
  <2> USE <1>1, <1>2 DEF TypeOK, Applied, Verified
  <2> HIDE DEF op
  <2>1. CASE op.do = "move"
    BY <2>1 DEF Ops, Names
  <2>2. CASE op.do = "link"
    BY <2>2 DEF Seen, At, Names
  <2>3. CASE op.do = "open"
    BY <2>3 DEF Placed, Names
  <2>4. CASE op.do = "copy"
    BY <2>4 DEF Placed, Names
  <2>5. CASE op.do = "isolate"
    BY <2>5 DEF Ops, Names, Removable
  <2>6. CASE op.do \in {"flush", "erase"}
    BY <2>6
  <2> QED
    BY <2>1, <2>2, <2>3, <2>4, <2>5, <2>6 DEF FileOps
<1>3. CASE /\ op \in Ops /\ op.do = "publish" /\ dir[op.at] = op.id /\ dir[At("tgt")] = "none"
           /\ dir' = [dir EXCEPT ![op.at] = "none", ![At("tgt")] = op.id]
  BY <1>1, <1>3 DEF Ops, TypeOK
<1>4. CASE UNCHANGED <<dir, quar>>
  BY <1>4
<1> QED
  BY <1>1, <1>2, <1>3, <1>4, StepShape

\* No step of a commit or of a recovery touches a file that another program put
\* under one of its names (requireExactIdentity, the checked operations).
THEOREM ForeignStays == Spec => ForeignUntouched
<1>1. IInv /\ [Next]_vars => [Step => \A n \in Names : dir[n] = "foreign" => dir'[n] = "foreign"]_vars
  BY ForeignStep
<1> QED
  BY <1>1, Invariance, PTL DEF Spec, ForeignUntouched

\* The last of an artifact goes only by the deletion of what was isolated, and
\* that deletion looked again at the survivor it was promised, which is whole
\* and on stable storage.
LEMMA DownloadStep ==
  ASSUME IInv, Step, NEW a \in {"source", "copy"}, Where(a) # {}, Where(a)' = {}
  PROVE  \E b \in {"source", "copy"} \cap flushed : Where(b)' # {}
<1> DEFINE op == Head(todo)
<1>1. TypeOK /\ Placed /\ Staged
  BY DEF IInv
<1>2. PICK n \in Names : dir[n] = a \/ quar[n] = a
  BY DEF Where
<1>3. \A k \in Names : dir'[k] # a /\ quar'[k] # a
  BY DEF Where
<1>4. CASE op \in Ops /\ op.do \in FileOps /\ Verified(op) /\ Applied(op)
  <2> USE <1>1, <1>2, <1>3, <1>4 DEF TypeOK, Applied, Verified
  <2> HIDE DEF op
  <2>1. CASE op.do = "move"
    BY <2>1 DEF Ops, Names
  <2>2. CASE op.do = "link"
    BY <2>2 DEF Seen, At, Names
  <2>3. CASE op.do = "open"
    BY <2>3 DEF Placed, Names
  <2>4. CASE op.do = "copy"
    BY <2>4 DEF Placed, Names
  <2>5. CASE op.do = "isolate"
    BY <2>5 DEF Ops, Names, Removable
  <2>6. CASE op.do = "flush"
    BY <2>6
  <2>7. CASE op.do = "erase"
    <3>1. op.to \in Names /\ op.by \in Whole \cap flushed
      BY <2>7 DEF Ops
    <3>2. quar[op.at] # "none"
      BY <2>7 DEF Ops
    <3>3. dir'[op.to] = op.by
      BY <2>7, <3>2
    <3>4. PICK b \in {"source", "copy"} \cap flushed : op.by = b
      BY <3>1 DEF Whole
    <3>5. op.to \in Where(b)'
      BY <3>1, <3>3, <3>4 DEF Where
    <3> QED
      BY <3>5
  <2> QED
    BY <2>1, <2>2, <2>3, <2>4, <2>5, <2>6, <2>7 DEF FileOps
<1>5. CASE /\ op \in Ops /\ op.do = "publish" /\ dir[op.at] = op.id /\ dir[At("tgt")] = "none"
           /\ dir' = [dir EXCEPT ![op.at] = "none", ![At("tgt")] = op.id]
           /\ UNCHANGED <<plan, quar>>
  BY <1>1, <1>2, <1>3, <1>5 DEF Ops, TypeOK, At, Names
<1>6. CASE UNCHANGED <<dir, quar>>
  BY <1>2, <1>3, <1>6
<1> QED
  BY <1>1, <1>4, <1>5, <1>6, StepShape

\* No step makes the download disappear: an intact artifact on stable storage
\* stays, whatever another program did in between (selectRemovalSurvivor).
THEOREM DownloadStays == Spec => DownloadKept
<1>1. IInv /\ [Next]_vars =>
        [Step => \A a \in {"source", "copy"} :
           Where(a) # {} /\ Where(a)' = {} => \E b \in {"source", "copy"} \cap flushed : Where(b)' # {}]_vars
  BY DownloadStep
<1> QED
  BY <1>1, Invariance, PTL DEF Spec, DownloadKept

-----------------------------------------------------------------------------
(* The refinement of AtomicPublish.                                         *)

\* Every deletion that a program s has prepared leaves the original.
Sourced(s) == \A i \in 1..Len(s) : s[i].do = "erase" => s[i].by = "source"

\* Until another program interferes nothing but artifacts of the publication is
\* there, and until the terminal transaction one of them is the original: what
\* survives a removal is then the source under its own or the rollback name.
Undecided ==
  /\ Untouched => \A n \in Names : dir[n] # "foreign"
  /\ jrnl.phase = "db_committed" \/ rec.phase = "db_committed" => committed
  /\ ~committed => Sourced(todo)
  /\ ~committed /\ Untouched => Where("source") # {}

\* No program begins with a deletion prepared.
LEMMA SourcedPrograms ==
  /\ \A s \in Seq(Bare) : Sourced(s)
  /\ \A s \in Seq(Forwarding) : Sourced(s)
BY DEF Sourced, Bare, Forwarding

\* What remains of such a program is one.
LEMMA SourcedRest ==
  ASSUME NEW s \in Seq(Ops), s # <<>>, Sourced(s)
  PROVE  Sourced(Tail(s))
<1>1. \A i \in 1..Len(Tail(s)) : i+1 \in 1..Len(s) /\ Tail(s)[i] = s[i+1]
  BY Rest
<1> QED
  BY <1>1 DEF Sourced

\* And so are two of them, one after the other.
LEMMA SourcedJoined ==
  ASSUME NEW S, NEW a \in Seq(S), NEW T, NEW b \in Seq(T), Sourced(a), Sourced(b)
  PROVE  Sourced(a \o b)
<1> DEFINE U == S \cup T
<1>1. a \in Seq(U) /\ b \in Seq(U)
  BY Wider
<1> HIDE DEF U
<1>2. \A i \in 1..Len(a \o b) :
        \/ i \in 1..Len(a) /\ (a \o b)[i] = a[i]
        \/ i - Len(a) \in 1..Len(b) /\ (a \o b)[i] = b[i - Len(a)]
  BY <1>1, Joined
<1> QED
  BY <1>2 DEF Sourced

\* Or a few operations before one.
LEMMA SourcedFront ==
  ASSUME NEW T, NEW b \in Seq(T), Sourced(b),
         NEW w, NEW x, NEW y, NEW z,
         \A o \in {w, x, y, z} : o.do = "erase" => o.by = "source"
  PROVE  /\ Sourced(<<w>> \o b)
         /\ Sourced(<<w, x, y>> \o b)
         /\ Sourced(<<w, x, y, z>> \o b)
<1> DEFINE S == {w, x, y, z}
<1>1. <<w>> \in Seq(S) /\ <<w, x, y>> \in Seq(S) /\ <<w, x, y, z>> \in Seq(S)
  OBVIOUS
<1>2. \A s \in Seq(S) : Sourced(s)
  BY DEF Sourced
<1> HIDE DEF S
<1> QED
  BY <1>1, <1>2, SourcedJoined

\* A step goes on with the rest of its program, perhaps behind a few operations
\* that prepare no deletion, with a new program of that kind, or, before the
\* decision, behind a deletion that spares the source.
LEMMA SourcedStep ==
  ASSUME IInv, Undecided, ~committed, ~committed', [Next]_vars
  PROVE  Sourced(todo')
<1> DEFINE op == Head(todo)
<1>1. /\ TypeOK /\ Staged /\ Sourced(todo) /\ todo \in Seq(Ops)
      /\ rec.phase # "db_committed" /\ jrnl.phase # "db_committed"
  BY DEF IInv, Undecided, Staged
<1>2. todo # <<>> => Sourced(Tail(todo)) /\ Tail(todo) \in Seq(Ops) /\ op \in Ops
  BY <1>1, SourcedRest, Ahead
<1>3. Sourced(<<>>) /\ Sourced(Quarantine)
  BY DEF Sourced, Quarantine, Op
<1>4. \A r : Throws(r) => Sourced(todo')
  BY DEF Throws, Sourced, Op
<1>5. \A s, r : Goes(s, r) => todo' = s
  BY DEF Goes
<1>6. CASE FileStep
  BY <1>2, <1>4, <1>5, <1>6 DEF FileStep
<1>7. CASE Publish
  <2>1. Sourced(<<Check(op.at, op.id), Op("noteLink", op.at, op.id), Op("link", op.at, op.id),
                  Op("confirmLink", op.at, op.id)>> \o Tail(todo))
    <3>1. \A o \in {Check(op.at, op.id), Op("noteLink", op.at, op.id), Op("link", op.at, op.id),
                    Op("confirmLink", op.at, op.id)} : o.do # "erase"
      BY DEF Check, Op
    <3> QED
      BY <1>2, <1>7, <3>1, SourcedFront DEF Publish
  <2>2. Sourced(<<Check("src", "source"), Op("copyMode", "src", "none")>>)
    BY DEF Sourced, Check, Op
  <2> QED
    BY <1>2, <1>4, <1>5, <1>7, <2>1, <2>2 DEF Publish
<1>8. CASE CheckStep
  BY <1>2, <1>3, <1>5, <1>8 DEF CheckStep
<1>9. CASE SurviveStep
  <2>1. todo # <<>> /\ op.do = "survive" /\ op.at \in Names /\ op.id \in Artifacts
    BY <1>2, <1>9 DEF SurviveStep, Ops, Removable, Artifacts
  <2>2. \A c \in Survivors(op) : c[2] = "source" /\ c[1] \in Names
    BY <1>1 DEF Survivors, Names
  <2>3. ASSUME NEW c \in Survivors(op),
               todo' = <<Op("isolate", op.at, op.id),
                         [Op("erase", op.at, op.id) EXCEPT !.to = c[1], !.by = c[2]],
                         Op("forget", op.at, op.id)>> \o Tail(todo)
        PROVE  Sourced(todo')
    <3>1. \A o \in {Op("isolate", op.at, op.id),
                    [Op("erase", op.at, op.id) EXCEPT !.to = c[1], !.by = c[2]],
                    Op("forget", op.at, op.id)} : o.do = "erase" => o.by = "source"
      <4>1. [Op("erase", op.at, op.id) EXCEPT !.to = c[1], !.by = c[2]].by = c[2]
        BY DEF Op
      <4>2. Op("isolate", op.at, op.id).do # "erase" /\ Op("forget", op.at, op.id).do # "erase"
        BY DEF Op
      <4> QED
        BY <2>2, <4>1, <4>2
    <3> QED
      BY <1>2, <2>1, <2>3, <3>1, SourcedFront
  <2> QED
    BY <1>3, <1>4, <1>5, <1>9, <2>3 DEF SurviveStep
<1>10. CASE JournalStep
  <2>1. todo # <<>> /\ op \in Ops
    BY <1>2, <1>10 DEF JournalStep
  <2>2. op.do = "copyMode" => Patched(rec, op) \in Records
    BY <1>1, <2>1, PatchedTyped DEF TypeOK, Staged
  <2>3. op.do = "copyMode" => Sourced(Forward(Patched(rec, op)))
    BY <2>2, ForwardTyped, SourcedPrograms
  <2> QED
    BY <1>2, <1>4, <1>5, <1>10, <2>1, <2>3 DEF JournalStep
<1>11. CASE ResumeStep
  <2>1. Sourced(<<Op("survive", rec.removal.at, rec.removal.id)>> \o Tail(todo))
    <3>1. Op("survive", rec.removal.at, rec.removal.id).do # "erase"
      BY DEF Op
    <3> QED
      BY <1>2, <1>11, <3>1, SourcedFront DEF ResumeStep
  <2> QED
    BY <1>3, <1>5, <1>11, <2>1 DEF ResumeStep
<1>12. CASE RecoverStep
  BY <1>1, <1>5, <1>12, RecoveryTyped, SourcedPrograms DEF RecoverStep, TypeOK
<1>13. CASE Commit
  BY <1>13, FreshTyped, ForwardTyped, SourcedPrograms DEF Commit
<1>14. CASE Recover
  <2>1. todo' \in Seq(Bare)
    BY <1>14, EndsTyped, Joined DEF Recover
  <2> QED
    BY <2>1, SourcedPrograms
<1>15. CASE QuarantineStep \/ DeferStep \/ FailStep \/ Crash
  BY <1>3, <1>4, <1>5, <1>15 DEF QuarantineStep, DeferStep, FailStep, Crash
<1>16. CASE Tamper \/ UNCHANGED vars
  BY <1>1, <1>16 DEF Tamper, vars
<1> QED
  BY <1>6, <1>7, <1>8, <1>9, <1>10, <1>11, <1>12, <1>13, <1>14, <1>15, <1>16 DEF Next, Step

\* The original comes from nowhere, and before the decision it goes nowhere.
LEMMA OriginalStep ==
  ASSUME IInv, Step
  PROVE  /\ Where("source")' # {} => Where("source") # {}
         /\ Sourced(todo) /\ Where("source") # {} => Where("source")' # {}
<1> DEFINE op == Head(todo)
<1>1. TypeOK /\ Placed /\ Staged /\ todo # <<>>
  BY DEF IInv, Step, FileStep, Publish, CheckStep, SurviveStep, JournalStep, QuarantineStep,
         ResumeStep, RecoverStep, DeferStep, FailStep
<1>2. 1 \in 1..Len(todo) /\ op = todo[1]
  BY <1>1, Ahead
<1>3. Sourced(todo) => (op.do = "erase" => op.by = "source")
  BY <1>2 DEF Sourced
<1>4. CASE op \in Ops /\ op.do \in FileOps /\ Verified(op) /\ Applied(op)
  <2>1. ASSUME NEW n \in Names, dir'[n] = "source" \/ quar'[n] = "source"
        PROVE  Where("source") # {}
    <3>1. \E k \in Names : dir[k] = "source" \/ quar[k] = "source"
      <4> USE <1>1, <1>4, <2>1 DEF TypeOK, Applied, Verified
      <4> HIDE DEF op
      <4>1. CASE op.do = "move"
        BY <4>1 DEF Ops, Names
      <4>2. CASE op.do = "link"
        BY <4>2 DEF Seen, At, Ops, Names
      <4>3. CASE op.do \in {"open", "copy"}
        BY <4>3 DEF Names
      <4>4. CASE op.do = "isolate"
        BY <4>4 DEF Ops
      <4>5. CASE op.do \in {"flush", "erase"}
        BY <4>5 DEF Ops
      <4> QED
        BY <4>1, <4>2, <4>3, <4>4, <4>5 DEF FileOps
    <3> QED
      BY <3>1 DEF Where
  <2>2. ASSUME Sourced(todo), NEW n \in Names, dir[n] = "source" \/ quar[n] = "source"
        PROVE  Where("source")' # {}
    <3>1. \E k \in Names : dir'[k] = "source" \/ quar'[k] = "source"
      <4> USE <1>1, <1>4, <2>2 DEF TypeOK, Applied, Verified
      <4>0. op.do = "erase" => op.by = "source"
        BY <1>3
      <4> HIDE DEF op
      <4>1. CASE op.do = "move"
        BY <4>1 DEF Ops, Names
      <4>2. CASE op.do = "link"
        BY <4>2 DEF Seen, At, Names
      <4>3. CASE op.do \in {"open", "copy"}
        BY <4>3 DEF Placed, Names
      <4>4. CASE op.do = "isolate"
        BY <4>4 DEF Ops, Names, Removable
      <4>5. CASE op.do = "flush"
        BY <4>5
      <4>6. CASE op.do = "erase"
        <5>1. op.to \in Names /\ op.by = "source"
          BY <4>0, <4>6 DEF Ops
        <5>2. quar[op.at] = "none" \/ dir'[op.to] = "source"
          BY <4>6, <5>1
        <5> QED
          BY <4>6, <5>1, <5>2 DEF Ops
      <4> QED
        BY <4>1, <4>2, <4>3, <4>4, <4>5, <4>6 DEF FileOps
    <3> QED
      BY <3>1 DEF Where
  <2> QED
    BY <2>1, <2>2 DEF Where
<1>5. CASE /\ op \in Ops /\ op.do = "publish" /\ dir[op.at] = op.id /\ dir[At("tgt")] = "none"
           /\ dir' = [dir EXCEPT ![op.at] = "none", ![At("tgt")] = op.id]
           /\ UNCHANGED <<plan, quar>>
  <2>1. At("tgt") \in Names /\ op.at \in Names /\ dir \in [Names -> Artifacts]
    BY <1>1, <1>5 DEF At, Names, Ops, TypeOK
  <2> HIDE DEF op
  <2> QED
    BY <1>5, <2>1 DEF Where
<1>6. CASE UNCHANGED <<dir, quar>>
  BY <1>6 DEF Where
<1> QED
  BY <1>1, <1>4, <1>5, <1>6, StepShape

\* The target name is taken when it is free, and freed when it is taken.
LEMMA TargetStep ==
  ASSUME IInv, Step
  PROVE  Seen("tgt")' = Seen("tgt") \/ Seen("tgt") = "none" \/ Seen("tgt")' = "none"
<1> DEFINE op == Head(todo)
<1>1. /\ TypeOK /\ Placed /\ Staged /\ UNCHANGED plan
      /\ At("tgt")' = At("tgt") /\ At("tgt") \in {"src", "tgt"}
  BY FilesStep DEF IInv, Next, At, SamePath
<1>2. CASE op \in Ops /\ op.do \in FileOps /\ Verified(op) /\ Applied(op)
  <2> USE <1>1, <1>2 DEF TypeOK, Applied, Verified, Seen
  <2> HIDE DEF op
  <2>1. CASE op.do = "move"
    BY <2>1 DEF Ops, Names
  <2>2. CASE op.do = "link"
    BY <2>2 DEF Names
  <2>3. CASE op.do \in {"open", "copy"}
    BY <2>3 DEF Names
  <2>4. CASE op.do = "isolate"
    BY <2>4 DEF Ops, Names
  <2>5. CASE op.do \in {"flush", "erase"}
    BY <2>5
  <2> QED
    BY <2>1, <2>2, <2>3, <2>4, <2>5 DEF FileOps
<1>3. CASE dir[At("tgt")] = "none" \/ UNCHANGED dir
  BY <1>1, <1>3 DEF Seen
<1> QED
  BY <1>1, <1>2, <1>3, StepShape

\* Commit, Recover and Crash leave the files alone, and only the terminal
\* transaction decides.
LEMMA StepKinds ==
  ASSUME TypeOK, [Next]_vars
  PROVE  \/ Step /\ tally'.tampers = tally.tampers
         \/ UNCHANGED <<dir, quar, committed>> /\ tally'.tampers = tally.tampers
         \/ ~Untouched' /\ UNCHANGED committed
<1>1. tally \in Tallied
  BY DEF TypeOK
<1>2. CASE Step
  <2>1. UNCHANGED tally \/ Fault
    BY <1>2 DEF Step, FileStep, Publish, CheckStep, SurviveStep, JournalStep, QuarantineStep,
                ResumeStep, RecoverStep, DeferStep, FailStep
  <2> QED
    BY <1>1, <1>2, <2>1 DEF Fault, Tallied
<1>3. CASE Commit \/ Recover \/ Crash \/ UNCHANGED vars
  BY <1>1, <1>3 DEF Commit, Recover, Crash, vars, files, Tallied
<1>4. CASE Tamper
  BY <1>1, <1>4 DEF Tamper, Untouched, Tallied
<1> QED
  BY <1>2, <1>3, <1>4 DEF Next

\* Only another program brings a foreign artifact.
LEMMA NoForeignStep ==
  ASSUME IInv, Step, \A n \in Names : dir[n] # "foreign", NEW n \in Names
  PROVE  dir'[n] # "foreign"
<1> DEFINE op == Head(todo)
<1>1. TypeOK /\ Placed /\ Staged
  BY DEF IInv
<1>2. CASE op \in Ops /\ op.do \in FileOps /\ Verified(op) /\ Applied(op)
  <2> USE <1>1, <1>2 DEF TypeOK, Applied, Verified
  <2> HIDE DEF op
  <2>1. CASE op.do \in {"move", "link"}
    BY <2>1 DEF Ops, Names
  <2>2. CASE op.do \in {"open", "copy", "isolate"}
    BY <2>2 DEF Ops, Names
  <2>3. CASE op.do \in {"flush", "erase"}
    BY <2>3
  <2> QED
    BY <2>1, <2>2, <2>3 DEF FileOps
<1>3. CASE /\ op \in Ops /\ op.do = "publish" /\ dir[op.at] = op.id /\ dir[At("tgt")] = "none"
           /\ dir' = [dir EXCEPT ![op.at] = "none", ![At("tgt")] = op.id]
  BY <1>1, <1>3 DEF Ops, TypeOK
<1>4. CASE UNCHANGED <<dir, quar>>
  BY <1>4
<1> QED
  BY <1>1, <1>2, <1>3, <1>4, StepShape

\* The journal says db_committed only of a decision that was taken.
LEMMA PhaseStep ==
  ASSUME IInv, Undecided, [Next]_vars, jrnl'.phase = "db_committed" \/ rec'.phase = "db_committed"
  PROVE  committed'
<1> DEFINE op == Head(todo)
<1>1. /\ TypeOK /\ Staged /\ jrnl \in Records /\ rec \in Records
      /\ jrnl.phase = "db_committed" \/ rec.phase = "db_committed" => committed
  BY DEF IInv, Undecided, TypeOK
<1>2. committed => committed'
  BY DEF Next, Step, vars, FileStep, Publish, CheckStep, SurviveStep, JournalStep, QuarantineStep,
         ResumeStep, RecoverStep, DeferStep, FailStep, Commit, Recover, Crash, Tamper
<1>3. NoRecord.phase # "db_committed" /\ Fresh.phase # "db_committed"
  BY DEF NoRecord, Fresh
<1>4. \A r : Throws(r) \/ (\E s : Goes(s, r)) => rec' = r \/ rec' = NoRecord
  BY DEF Throws, Goes
<1>5. ASSUME NEW r \in Records, todo # <<>>
      PROVE  /\ Eager(r, op).phase = r.phase
             /\ Patched(r, op).phase = "db_committed" => r.phase = "db_committed" \/ op.do = "commit"
  <2>1. op \in Ops
    BY <1>1, <1>5, Ahead
  <2>2. Eager(r, op).phase = r.phase
    BY DEF Eager, Records
  <2>3. CASE op.do \in {"advance", "install"}
    BY <2>1, <2>3 DEF Patched, Eager, Records, Ops
  <2>4. CASE op.do \notin {"advance", "install"}
    BY <2>2, <2>4 DEF Patched, Records
  <2> QED
    BY <2>2, <2>3, <2>4
<1>6. CASE JournalStep
  <2>1. todo # <<>> /\ op.do \in JournalOps
    BY <1>6 DEF JournalStep
  <2>2. CASE Refused(op)
    <3>1. Throws(Eager(rec, op)) /\ jrnl' = jrnl
      BY <1>6, <2>2 DEF JournalStep
    <3> QED
      BY <1>1, <1>2, <1>3, <1>4, <1>5, <2>1, <3>1
  <2>3. CASE ~Refused(op)
    <3>1. jrnl' = Patched(jrnl, op) /\ committed' = (committed \/ op.do = "commit")
      BY <1>6, <2>3 DEF JournalStep
    <3>2. rec' = Patched(rec, op) \/ rec' = NoRecord
      BY <1>6, <2>3 DEF JournalStep, Goes
    <3> QED
      BY <1>1, <1>3, <1>5, <2>1, <3>1, <3>2
  <2> QED
    BY <2>2, <2>3
<1>7. CASE FailStep
  <2>1. todo # <<>> /\ Throws(Eager(rec, op)) /\ jrnl' = jrnl
    BY <1>7 DEF FailStep
  <2> QED
    BY <1>1, <1>2, <1>3, <1>4, <1>5, <2>1
<1>8. CASE QuarantineStep
  <2>1. jrnl'.phase = "quarantined" /\ (rec' = rec \/ rec' = NoRecord)
    BY <1>1, <1>4, <1>8 DEF QuarantineStep, Records
  <2> QED
    BY <1>1, <1>2, <1>3, <2>1
<1>9. CASE \/ FileStep \/ Publish \/ CheckStep \/ SurviveStep \/ ResumeStep \/ RecoverStep \/ DeferStep
           \/ Crash \/ Tamper \/ UNCHANGED vars
  <2>1. jrnl' = jrnl /\ (rec' = rec \/ rec' = NoRecord)
    BY <1>4, <1>9 DEF FileStep, Publish, CheckStep, SurviveStep, ResumeStep, RecoverStep, DeferStep,
                      Crash, Tamper, vars
  <2> QED
    BY <1>1, <1>2, <1>3, <2>1
<1>10. CASE Commit \/ Recover
  BY <1>1, <1>2, <1>3, <1>10 DEF Commit, Recover
<1> QED
  BY <1>6, <1>7, <1>8, <1>9, <1>10 DEF Next, Step

\* Every step keeps the four parts.
LEMMA UndecidedStep ==
  ASSUME IInv, Undecided, [Next]_vars
  PROVE  Undecided'
<1>1. TypeOK
  BY DEF IInv
<1>2. committed => committed'
  BY DEF Next, Step, vars, FileStep, Publish, CheckStep, SurviveStep, JournalStep, QuarantineStep,
         ResumeStep, RecoverStep, DeferStep, FailStep, Commit, Recover, Crash, Tamper
<1>3. Untouched' => \A n \in Names : dir'[n] # "foreign"
  BY <1>1, StepKinds, NoForeignStep DEF Undecided, Untouched
<1>4. ~committed' => Sourced(todo')
  BY <1>2, SourcedStep
<1>5. ~committed' /\ Untouched' => Where("source")' # {}
  BY <1>1, <1>2, StepKinds, OriginalStep DEF Undecided, Untouched, Where
<1> QED
  BY <1>3, <1>4, <1>5, PhaseStep DEF Undecided, Sourced

\* Until another program interferes nothing foreign is there, and until the
\* terminal transaction the original is.
THEOREM Undisturbed == Spec => []Undecided
<1>1. Init => Undecided
  <2> SUFFICES ASSUME Init PROVE Undecided
    OBVIOUS
  <2>1. dir["src"] = "source" /\ "src" \in Names /\ \A n \in Names : dir[n] # "foreign"
    BY DEF Init, Names
  <2>2. Sourced(todo) /\ jrnl.phase # "db_committed" /\ rec.phase # "db_committed"
    BY DEF Init, Sourced, NoRecord
  <2> QED
    BY <2>1, <2>2 DEF Undecided, Where
<1> QED
  BY <1>1, UndecidedStep, Invariance, PTL DEF Spec

\* What the target shows, while nothing was disturbed.
LEMMA ShownValues ==
  ASSUME TypeOK, Placed, Undecided
  PROVE  /\ Shown \in {"nothing", "original", "product", "garbage"}
         /\ Untouched => Shown # "garbage"
         /\ Shown = "nothing" <=> Seen("tgt") = "none"
<1>1. Seen("tgt") \in {"none", "source", "copy", "foreign"}
  BY DEF Placed, Seen, At
<1>2. Untouched => Seen("tgt") # "foreign"
  BY DEF Undecided, Seen, At, Names
<1> QED
  BY <1>1, <1>2 DEF Shown

\* Every step is a step of AtomicPublish or none.
LEMMA StepMaps ==
  ASSUME IInv, Undecided, [Next]_vars
  PROVE  [Abstract!Next]_<<Where("source") # {}, Shown, committed, ~Untouched>>
<1>1. /\ TypeOK /\ Placed /\ Staged /\ IInv' /\ TypeOK' /\ Placed' /\ Undecided'
      /\ UNCHANGED plan /\ committed \in BOOLEAN /\ committed' \in BOOLEAN
  BY UndecidedStep, TypeStep, DurableStep, ReadyStep, KeptStep, FilesStep DEF IInv, TypeOK
<1>2. /\ Shown \in {"nothing", "original", "product", "garbage"}
      /\ Untouched => Shown # "garbage"
      /\ Shown = "nothing" <=> Seen("tgt") = "none"
  BY <1>1, ShownValues
<1>3. /\ Shown' \in {"nothing", "original", "product", "garbage"}
      /\ Untouched' => Shown' # "garbage"
      /\ Shown' = "nothing" <=> Seen("tgt")' = "none"
  <2>1. Seen("tgt")' \in {"none", "source", "copy", "foreign"}
    BY <1>1 DEF Placed, Seen, At
  <2>2. Untouched' => Seen("tgt")' # "foreign"
    BY <1>1 DEF Undecided, Seen, At, Names
  <2> QED
    BY <2>1, <2>2 DEF Shown
<1>4. CASE ~Untouched'
  BY <1>1, <1>3, <1>4 DEF Abstract!Next, Abstract!Anything, Abstract!TypeOK
<1>5. ASSUME Untouched', UNCHANGED <<dir, quar, committed>>, Untouched
      PROVE  UNCHANGED <<Where("source") # {}, Shown, committed, ~Untouched>>
  BY <1>1, <1>5 DEF Where, Shown, Seen, At, SamePath
<1>6. ASSUME Untouched', Step, Untouched
      PROVE  [Abstract!Next]_<<Where("source") # {}, Shown, committed, ~Untouched>>
  <2>1. Seen("tgt")' = Seen("tgt") \/ Seen("tgt") = "none" \/ Seen("tgt")' = "none"
    BY <1>6, TargetStep
  <2>2. CASE committed
    <3>1. Seen("tgt")' = Seen("tgt") /\ Seen("tgt") \in Whole
      BY <1>1, <1>6, <2>2, SeenKept DEF IInv, Kept, Decided
    <3>2. committed'
      BY <1>6, <2>2 DEF Step, FileStep, Publish, CheckStep, SurviveStep, JournalStep,
           QuarantineStep, ResumeStep, RecoverStep, DeferStep, FailStep
    <3>3. Shown = "product" /\ Shown' = "product"
      BY <2>2, <3>1, <3>2 DEF Shown, Whole
    <3>4. Where("source")' # {} => Where("source") # {}
      BY <1>6, OriginalStep
    <3> QED
      BY <1>1, <1>6, <2>2, <3>2, <3>3, <3>4 DEF Abstract!Next, Abstract!Discard
  <2>3. CASE ~committed /\ committed'
    <3>1. UNCHANGED files
      BY <1>6, <2>3 DEF Step, FileStep, Publish, CheckStep, SurviveStep, JournalStep,
           QuarantineStep, ResumeStep, RecoverStep, DeferStep, FailStep
    <3>2. Seen("tgt")' \in Whole /\ Seen("tgt")' = Seen("tgt")
      BY <1>1, <1>6, <2>3, <3>1 DEF IInv, Kept, Decided, Seen, At, SamePath, files
    <3>3. Shown \in {"product", "original"} /\ Shown' = "product"
      BY <2>3, <3>2 DEF Shown, Whole
    <3>4. Where("source")' = Where("source")
      BY <3>1 DEF Where, files
    <3> QED
      BY <1>1, <1>6, <2>3, <3>3, <3>4 DEF Abstract!Next, Abstract!Decide
  <2>4. CASE ~committed /\ ~committed'
    <3>1. Where("source") # {} /\ Where("source")' # {}
      BY <1>6, <2>4, <1>1 DEF Undecided
    <3>2. Seen("tgt")' = Seen("tgt") => Shown' = Shown
      BY <1>1, <2>4 DEF Shown, SamePath
    <3> QED
      BY <1>1, <1>2, <1>3, <1>6, <2>1, <2>4, <3>1, <3>2
      DEF Abstract!Next, Abstract!Show, Abstract!Withdraw, Abstract!StepAside, Abstract!Return
  <2> QED
    BY <2>2, <2>3, <2>4
<1> QED
  BY <1>1, <1>4, <1>5, <1>6, StepKinds DEF Untouched

\* With the public names left alone, finalization is the atomic publication of
\* AtomicPublish: through every failure and crash the target shows the product
\* or what it showed before, and the original goes only after the decision.
THEOREM Implements == Spec => PublishesAtomically
<1>1. Init => Abstract!Init
  <2> SUFFICES ASSUME Init PROVE Abstract!Init
    OBVIOUS
  <2>1. dir["src"] = "source" /\ "src" \in Names /\ dir["tgt"] = "none" /\ ~committed /\ Untouched
    BY DEF Init, Names, Untouched
  <2>2. (Where("source") # {}) = TRUE
    BY <2>1 DEF Where
  <2>3. Shown \in {"nothing", "original"}
    BY <2>1 DEF Shown, Seen, At
  <2> QED
    BY <2>1, <2>2, <2>3 DEF Abstract!Init
<1> QED
  BY <1>1, StepMaps, Invariance, Undisturbed, PTL DEF Spec, PublishesAtomically, Abstract!Spec

-----------------------------------------------------------------------------
(***************************************************************************)
(* A closed journal is tidy.  What is under a name beside the final one is *)
(* taken away by the program that closes the journal (Tidying), and what   *)
(* was isolated from a name, by the removal that the journal announces     *)
(* (Announcing).  Of a recovery's program this follows from what the       *)
(* record knows of the names (Noted, Moded), and that follows from the     *)
(* order in which a commit notes and does (Line, Ordered).                 *)
(***************************************************************************)

\* The operations that take away what is under the name n.
Takes(op, n) == op.at = n /\ op.do \in {"survive", "isolate", "move"}
Clears(s, n) == \E i \in 1..Len(s) : Takes(s[i], n)
Spares(s, n) == \A i \in 1..Len(s) : ~Takes(s[i], n)

\* A program that closes the journal.
Closes(s) == s # <<>> /\ s[Len(s)].do = "advance" /\ s[Len(s)].id = "cleaned"

\* A program that puts the original back for good.
RestoresAt(s, i) ==
  /\ s[i].do = "move" /\ s[i].to = "src"
  /\ \A j \in (i+1)..Len(s) : ~Takes(s[j], "src")
Restores(s) == \E i \in 1..Len(s) : RestoresAt(s, i)
Keeps(s)    == (dir["src"] = "source" /\ Spares(s, "src")) \/ Restores(s)

\* The name that stays.
Final == IF committed THEN At("tgt") ELSE "src"

Tidies(s) ==
  Closes(s) =>
    /\ \A n \in Names \ {Final} : dir[n] # "none" => Clears(s, n)
    /\ ~committed => Keeps(s)

Tidying == Tidies(todo)

\* Nothing is where no publication puts it.
Located ==
  /\ SamePath => dir["tgt"] = "none"
  /\ dir["stage"] # "none" => Replaces

\* The record knows of the rollback and of the private copy before they are there.
Noted ==
  /\ dir["rb"] # "none" => jrnl.rb
  /\ dir["priv"] # "none" => jrnl.priv
  /\ stage # "idle" => /\ jrnl.rb => rec.rb
                       /\ jrnl.priv => rec.priv
                       /\ rec.mode = jrnl.mode /\ rec.link = jrnl.link

\* A move has neither, and shows the source at one name unless it is a hard
\* link; a copy does not show the source.
Bound(r) ==
  /\ r.mode = "move" => plan.kind = "move" /\ ~r.rb /\ ~r.priv
  /\ plan.kind = "inPlace" => ~r.priv
  /\ SamePath /\ plan.kind # "inPlace" => r.tgtId # "source"

Moded ==
  /\ Bound(jrnl) /\ (stage # "idle" => Bound(rec))
  /\ jrnl.mode = "move" => /\ dir["tgt"] \in {"none", "source"}
                           /\ dir["tgt"] = "source" /\ ~Linked(jrnl) => dir["src"] = "none"
  /\ jrnl.mode = "copy" /\ ~SamePath => dir["tgt"] # "source"
  /\ dir["priv"] # "none" /\ Seen("tgt") = "copy" => Linked(jrnl)

\* The operations of a commit that moves, copies, or publishes in place.
Line(mode) ==
  IF plan.kind = "inPlace"
  THEN {op \in Forwarding : op.do \in {"check", "flush", "install", "commit", "quarantine"}
          /\ (op.do \in {"install", "commit"} => op.id = "source")}
  ELSE IF mode = "move"
  THEN {op \in Forwarding :
          /\ op.do \notin {"noteRollback", "move", "notePrivate", "open", "copy"}
          /\ op.do \in {"publish", "link"} => op.at = "src"
          /\ op.do \in {"install", "commit"} => op.id = "source"}
  ELSE {op \in Forwarding :
          /\ op.do # "copyMode"
          /\ op.do \in {"publish", "link"} => op.at = "priv"
          /\ op.do \in {"install", "commit"} => op.id = "copy"}

\* What a program s does is noted before in r, and it copies before it publishes.
Ordered(s, r) ==
  \A i \in 1..Len(s) :
    /\ s[i].do = "link" => r.link # "none" \/ \E j \in 1..(i-1) : s[j].do = "noteLink"
    /\ s[i].do = "move" => r.rb \/ \E j \in 1..(i-1) : s[j].do = "noteRollback"
    /\ s[i].do \in {"open", "copy"} =>
         /\ r.priv \/ \E j \in 1..(i-1) : s[j].do = "notePrivate"
         /\ \A j \in 1..(i-1) : s[j].do \notin {"publish", "link"}

Committing ==
  stage = "commit" =>
    /\ todo \in Seq(Line(rec.mode)) /\ Ordered(todo, rec)
    /\ (\E i \in 1..Len(todo) : todo[i].do \in {"open", "copy"}) => Seen("tgt") # "copy"
    /\ \A n \in Names : quar[n] = "none"

\* A program of a clean-up or a recovery before its removals began: each is
\* announced before it looks for its survivor.
Program(s) ==
  \A i \in 1..Len(s) :
    /\ s[i].do \notin {"isolate", "erase", "resume"}
    /\ s[i].do = "intend" =>
         /\ s[i].id # "none" /\ i < Len(s)
         /\ s[i+1].do = "survive" /\ s[i+1].at = s[i].at /\ s[i+1].id = s[i].id
    /\ s[i].do = "survive" => i > 1 /\ s[i-1].do = "intend"
    /\ s[i].do = "move" => s[i].to = "src"
    /\ s[i].do = "advance" => i = Len(s)

\* One in the middle of a removal.
Removing(s) ==
  \/ Head(s).do = "survive" /\ Program(Tail(s))
  \/ /\ Head(s).do = "isolate" /\ Tail(s) # <<>> /\ Program(Tail(Tail(s)))
     /\ Head(Tail(s)).do = "erase" /\ Head(Tail(s)).at = Head(s).at /\ Head(Tail(s)).id = Head(s).id
  \/ Head(s).do = "erase" /\ Program(Tail(s))

Resuming == <<Op("resume", "src", "none"), Op("recover", "src", "none")>>

Announcing ==
  /\ jrnl.removal.id = "none" => jrnl.removal = NoRemoval
  /\ \A n \in Names : quar[n] # "none" => jrnl.removal # NoRemoval /\ jrnl.removal.at = n
  /\ stage \in {"cleanup", "recover"} =>
       \/ Program(todo) /\ (Head(todo).do = "quarantine" \/ \A n \in Names : quar[n] = "none")
       \/ /\ Removing(todo) /\ Head(todo).id # "none"
          /\ jrnl.removal = [at |-> Head(todo).at, id |-> Head(todo).id]
       \/ todo = Resuming /\ rec.removal = jrnl.removal /\ jrnl.removal # NoRemoval

\* Before the first commit, and after a journal was closed.
Closed ==
  /\ jrnl.phase \in {"none", "cleaned"} =>
       /\ stage = "idle" /\ \A n \in Names : quar[n] = "none"
       /\ \A n \in Names \ {Final} : dir[n] # "none" => n = "stage" /\ jrnl.phase = "none"
       /\ ~committed => dir["src"] = "source"
  /\ jrnl.phase = "quarantined" => stage = "idle"

Neat == Tidying /\ Located /\ Noted /\ Moded /\ Committing /\ Announcing /\ Closed

-----------------------------------------------------------------------------
(* Clean-ups and recoveries.                                                *)

\* One that something follows.
Open(s) == \A i \in 1..Len(s) : s[i].do # "advance"

\* One after the other, element by element, from both ends.
LEMMA Halves ==
  ASSUME NEW S, NEW a \in Seq(S), NEW b \in Seq(S), NEW s, s = a \o b
  PROVE  /\ Len(a) \in Nat /\ Len(b) \in Nat /\ Len(s) = Len(a) + Len(b)
         /\ \A i \in 1..Len(a) : s[i] = a[i] /\ i \in 1..Len(s)
         /\ \A i \in 1..Len(b) : s[Len(a) + i] = b[i] /\ Len(a) + i \in 1..Len(s)
         /\ \A i \in 1..Len(s) : i \notin 1..Len(a) => i - Len(a) \in 1..Len(b) /\ s[i] = b[i - Len(a)]
         /\ b # <<>> => Len(b) > 0 /\ s # <<>>
OBVIOUS

\* One program after the other.
LEMMA ProgramsJoined ==
  ASSUME NEW S, NEW a \in Seq(S), NEW b \in Seq(S), Program(a), Open(a), Program(b)
  PROVE  Program(a \o b) /\ (Open(b) => Open(a \o b))
<1> DEFINE s == a \o b
<1>1. /\ Len(a) \in Nat /\ Len(b) \in Nat /\ Len(s) = Len(a) + Len(b)
      /\ \A i \in 1..Len(a) : s[i] = a[i]
      /\ \A i \in (Len(a)+1)..(Len(a)+Len(b)) : s[i] = b[i - Len(a)]
  BY Joined
<1> HIDE DEF s
<1>2. ASSUME NEW i \in 1..Len(s)
      PROVE  /\ s[i].do \notin {"isolate", "erase", "resume"}
             /\ s[i].do = "intend" =>
                  /\ s[i].id # "none" /\ i < Len(s)
                  /\ s[i+1].do = "survive" /\ s[i+1].at = s[i].at /\ s[i+1].id = s[i].id
             /\ s[i].do = "survive" => i > 1 /\ s[i-1].do = "intend"
             /\ s[i].do = "move" => s[i].to = "src"
             /\ s[i].do = "advance" => i = Len(s) /\ ~Open(b)
  <2>1. CASE i \in 1..Len(a)
    <3>1. s[i] = a[i] /\ (i > 1 => s[i-1] = a[i-1]) /\ (i < Len(a) => s[i+1] = a[i+1] /\ i < Len(s))
      BY <1>1, <2>1
    <3> QED
      BY <2>1, <3>1 DEF Program, Open
  <2>2. CASE i \notin 1..Len(a)
    <3> DEFINE k == i - Len(a)
    <3>1. k \in 1..Len(b) /\ i \in (Len(a)+1)..(Len(a)+Len(b)) /\ (k = Len(b) <=> i = Len(s))
      BY <1>1, <1>2, <2>2
    <3>2. s[i] = b[k] /\ (k > 1 => i > 1 /\ s[i-1] = b[k-1])
      BY <1>1, <3>1
    <3>3. k < Len(b) => s[i+1] = b[k+1] /\ i < Len(s)
      BY <1>1, <3>1
    <3> HIDE DEF k
    <3>4. /\ b[k].do \notin {"isolate", "erase", "resume"}
          /\ b[k].do = "intend" =>
               /\ b[k].id # "none" /\ k < Len(b)
               /\ b[k+1].do = "survive" /\ b[k+1].at = b[k].at /\ b[k+1].id = b[k].id
          /\ b[k].do = "survive" => k > 1 /\ b[k-1].do = "intend"
          /\ b[k].do = "move" => b[k].to = "src"
          /\ b[k].do = "advance" => k = Len(b) /\ ~Open(b)
      BY <3>1 DEF Program, Open
    <3> QED
      BY <3>1, <3>2, <3>3, <3>4
  <2> QED
    BY <2>1, <2>2
<1>3. Open(b) => Open(s)
  BY <1>2 DEF Open
<1> QED
  BY <1>2, <1>3 DEF Program, s

\* What two programs take away, leave and close.
LEMMA TakesJoined ==
  ASSUME NEW S, NEW a \in Seq(S), NEW b \in Seq(S), NEW n
  PROVE  /\ Clears(a \o b, n) <=> Clears(a, n) \/ Clears(b, n)
         /\ Spares(a \o b, n) <=> Spares(a, n) /\ Spares(b, n)
         /\ b # <<>> => (Closes(a \o b) <=> Closes(b))
<1> DEFINE s == a \o b
<1> HIDE DEF s
<1>1. /\ Len(a) \in Nat /\ Len(b) \in Nat /\ Len(s) = Len(a) + Len(b)
      /\ \A i \in 1..Len(a) : s[i] = a[i] /\ i \in 1..Len(s)
      /\ \A i \in 1..Len(b) : s[Len(a) + i] = b[i] /\ Len(a) + i \in 1..Len(s)
      /\ \A i \in 1..Len(s) : i \notin 1..Len(a) => i - Len(a) \in 1..Len(b) /\ s[i] = b[i - Len(a)]
      /\ b # <<>> => Len(b) > 0 /\ s # <<>>
  BY Halves DEF s
<1>2. Clears(s, n) <=> Clears(a, n) \/ Clears(b, n)
  BY <1>1 DEF Clears
<1>3. Spares(s, n) <=> Spares(a, n) /\ Spares(b, n)
  <2>1. \A q : Spares(q, n) <=> ~Clears(q, n)
    BY DEF Spares, Clears
  <2> QED
    BY <1>2, <2>1
<1>4. b # <<>> => (Closes(s) <=> Closes(b))
  BY <1>1 DEF Closes
<1> QED
  BY <1>2, <1>3, <1>4 DEF s

\* They put the original back when the second does it, or the first does and the
\* second leaves it.
LEMMA RestoresJoined ==
  ASSUME NEW S, NEW a \in Seq(S), NEW b \in Seq(S)
  PROVE  Restores(a \o b) <=> Restores(b) \/ (Restores(a) /\ Spares(b, "src"))
<1> DEFINE s == a \o b
<1> HIDE DEF s
<1>1. /\ Len(a) \in Nat /\ Len(b) \in Nat /\ Len(s) = Len(a) + Len(b)
      /\ \A i \in 1..Len(a) : s[i] = a[i] /\ i \in 1..Len(s)
      /\ \A i \in 1..Len(b) : s[Len(a) + i] = b[i] /\ Len(a) + i \in 1..Len(s)
      /\ \A i \in 1..Len(s) : i \notin 1..Len(a) => i - Len(a) \in 1..Len(b) /\ s[i] = b[i - Len(a)]
  BY Halves DEF s
<1>2. ASSUME NEW i \in 1..Len(b)
      PROVE  RestoresAt(b, i) <=> RestoresAt(s, Len(a) + i)
  <2>1. ASSUME RestoresAt(b, i), NEW j \in (Len(a) + i + 1)..Len(s) PROVE ~Takes(s[j], "src")
    <3>1. j - Len(a) \in (i+1)..Len(b) /\ s[j] = b[j - Len(a)]
      BY <1>1, <2>1
    <3> QED
      BY <2>1, <3>1 DEF RestoresAt
  <2>2. ASSUME RestoresAt(s, Len(a) + i), NEW j \in (i + 1)..Len(b) PROVE ~Takes(b[j], "src")
    <3>1. Len(a) + j \in (Len(a)+i+1)..Len(s) /\ b[j] = s[Len(a) + j]
      BY <1>1, <2>2
    <3> QED
      BY <2>2, <3>1 DEF RestoresAt
  <2>3. s[Len(a) + i] = b[i]
    BY <1>1
  <2> QED
    BY <2>1, <2>2, <2>3 DEF RestoresAt
<1>3. ASSUME NEW i \in 1..Len(a)
      PROVE  RestoresAt(s, i) <=> RestoresAt(a, i) /\ Spares(b, "src")
  <2>1. ASSUME RestoresAt(a, i), Spares(b, "src"), NEW j \in (i + 1)..Len(s) PROVE ~Takes(s[j], "src")
    <3>1. CASE j \in 1..Len(a)
      <4>1. s[j] = a[j] /\ j \in (i+1)..Len(a)
        BY <1>1, <2>1, <3>1
      <4> QED
        BY <2>1, <4>1 DEF RestoresAt
    <3>2. CASE j \notin 1..Len(a)
      <4>1. j \in 1..Len(s)
        BY <1>1, <2>1
      <4> QED
        BY <1>1, <2>1, <3>2, <4>1 DEF Spares
    <3> QED
      BY <3>1, <3>2
  <2>2. ASSUME RestoresAt(s, i) PROVE RestoresAt(a, i) /\ Spares(b, "src")
    <3>1. s[i] = a[i] /\ \A j \in (i+1)..Len(a) : j \in (i+1)..Len(s) /\ s[j] = a[j]
      BY <1>1
    <3>2. \A j \in 1..Len(b) : Len(a) + j \in (i+1)..Len(s) /\ s[Len(a) + j] = b[j]
      BY <1>1
    <3> QED
      BY <2>2, <3>1, <3>2 DEF RestoresAt, Spares
  <2>3. s[i] = a[i]
    BY <1>1
  <2> QED
    BY <2>1, <2>2, <2>3 DEF RestoresAt
<1>4. Restores(s) => Restores(b) \/ (Restores(a) /\ Spares(b, "src"))
  <2> SUFFICES ASSUME NEW i \in 1..Len(s), RestoresAt(s, i)
               PROVE  Restores(b) \/ (Restores(a) /\ Spares(b, "src"))
    BY DEF Restores
  <2>1. CASE i \in 1..Len(a)
    BY <1>3, <2>1 DEF Restores
  <2>2. CASE i \notin 1..Len(a)
    <3>1. i - Len(a) \in 1..Len(b) /\ Len(a) + (i - Len(a)) = i
      BY <1>1, <2>2
    <3> QED
      BY <1>2, <3>1 DEF Restores
  <2> QED
    BY <2>1, <2>2
<1> QED
  BY <1>1, <1>2, <1>3, <1>4 DEF Restores, s

\* A single operation.
LEMMA Single ==
  ASSUME NEW op
  PROVE  /\ \A n : Clears(<<op>>, n) <=> Takes(op, n)
         /\ \A n : Spares(<<op>>, n) <=> ~Takes(op, n)
         /\ Restores(<<op>>) <=> op.do = "move" /\ op.to = "src"
         /\ Closes(<<op>>) <=> op.do = "advance" /\ op.id = "cleaned"
         /\ op.do \notin {"isolate", "erase", "resume", "intend", "survive"} /\ (op.do = "move" => op.to = "src") => Program(<<op>>)
         /\ Open(<<op>>) <=> op.do # "advance"
<1>1. <<op>> # <<>> /\ Len(<<op>>) = 1 /\ <<op>>[1] = op
  OBVIOUS
<1> DEFINE s == <<op>>
<1> HIDE DEF s
<1>2. \A i : i \in 1..1 <=> i = 1
  OBVIOUS
<1>3. \A i : i \in (1+1)..1 => FALSE
  OBVIOUS
<1>4. s # <<>> /\ Len(s) = 1 /\ s[1] = op
  BY <1>1 DEF s
<1> QED
  <2>1. /\ \A n : Clears(s, n) <=> Takes(op, n)
        /\ \A n : Spares(s, n) <=> ~Takes(op, n)
        /\ Open(s) <=> op.do # "advance"
        /\ Closes(s) <=> op.do = "advance" /\ op.id = "cleaned"
    BY <1>2, <1>4 DEF Clears, Spares, Open, Closes
  <2>2. Restores(s) <=> op.do = "move" /\ op.to = "src"
    BY <1>2, <1>3, <1>4 DEF Restores, RestoresAt
  <2>3. op.do \notin {"isolate", "erase", "resume", "intend", "survive"} /\ (op.do = "move" => op.to = "src") => Program(s)
    BY <1>2, <1>4 DEF Program
  <2> QED
    BY <2>1, <2>2, <2>3 DEF s

\* What takes away what is under the name n, and nothing else, before something follows.
Removes(s, n) ==
  /\ s \in Seq(Bare) /\ Program(s) /\ Open(s)
  /\ Clears(s, n) /\ \A m \in Names : m # n => Spares(s, m)

\* The removal of what is under the name n.
LEMMA RemoveClears ==
  ASSUME NEW n \in Names, NEW id \in Removable, id # "none"
  PROVE  Removes(Remove(n, id), At(n))
<1> DEFINE s == Remove(n, id)
<1>1. /\ Len(s) = 2 /\ \A i : i \in 1..2 <=> i = 1 \/ i = 2
      /\ s[1] = Op("intend", At(n), id) /\ s[2] = Op("survive", At(n), id)
  BY DEF Remove
<1>2. s \in Seq(Bare)
  BY RemoveTyped
<1> HIDE DEF s
<1>3. /\ s[1].do = "intend" /\ s[1].at = At(n) /\ s[1].id = id
      /\ s[2].do = "survive" /\ s[2].at = At(n) /\ s[2].id = id
  BY <1>1 DEF Op
<1>4. Program(s) /\ Open(s)
  <2>1. 1 < 2 /\ 1 + 1 = 2 /\ 2 - 1 = 1 /\ 2 > 1
    OBVIOUS
  <2> QED
    BY <1>1, <1>3, <2>1 DEF Program, Open
<1>5. Clears(s, At(n)) /\ \A m \in Names : m # At(n) => Spares(s, m)
  BY <1>1, <1>3 DEF Clears, Spares, Takes
<1> QED
  BY <1>2, <1>4, <1>5 DEF s, Removes

\* The original is moved back from the name n.
LEMMA MoveBackClears ==
  ASSUME NEW n \in {"rb", "tgt"}
  PROVE  Removes(MoveBack(n, "source"), n) /\ Restores(MoveBack(n, "source"))
<1> DEFINE s == MoveBack(n, "source")
<1>1. /\ Len(s) = 2 /\ \A i : i \in 1..2 <=> i = 1 \/ i = 2
      /\ s[1] = Move(n, "source", "src") /\ s[2] = Flush("src")
  BY DEF MoveBack
<1>2. s \in Seq(Bare)
  BY DEF MoveBack, Move, Flush, Bare, Clearing, Ops, Op, At, Dos, FileOps, JournalOps, Names, Artifacts, Phases
<1> HIDE DEF s
<1>3. /\ s[1].do = "move" /\ s[1].at = n /\ s[1].to = "src"
      /\ s[2].do = "flush"
  BY <1>1 DEF Op, Move, Flush
<1>4. Program(s) /\ Open(s)
  BY <1>1, <1>3 DEF Program, Open
<1>5. Clears(s, n) /\ \A m \in Names : m # n => Spares(s, m)
  BY <1>1, <1>3 DEF Clears, Spares, Takes
<1>6. Restores(s)
  <2>1. \A j : j \in (1+1)..2 => j = 2
    OBVIOUS
  <2>2. RestoresAt(s, 1)
    BY <1>1, <1>3, <2>1 DEF RestoresAt, Takes
  <2> QED
    BY <1>1, <2>2 DEF Restores
<1> QED
  BY <1>2, <1>4, <1>5, <1>6 DEF s, Removes

\* What takes nothing away: the ends, and what is looked at or made durable.
LEMMA EndsClear ==
  /\ Program(Quarantine) /\ Program(Defer) /\ Program(Close) /\ Program(<<Op("recover", "src", "none")>>)
  /\ ~Closes(Quarantine) /\ ~Closes(Defer) /\ Closes(Close) /\ ~Closes(<<Op("recover", "src", "none")>>)
  /\ \A n : Spares(Quarantine, n) /\ Spares(Defer, n) /\ Spares(Close, n)
<1>1. /\ Op("quarantine", "src", "none").do = "quarantine" /\ Op("defer", "src", "none").do = "defer"
      /\ Op("recover", "src", "none").do = "recover"
      /\ Advance("cleaned").do = "advance" /\ Advance("cleaned").id = "cleaned"
  BY DEF Op, Advance
<1> QED
  BY <1>1, Single DEF Quarantine, Defer, Close, Takes

\* What looks at a name or makes it durable, before something follows.
Looks(s) == s \in Seq(Bare) /\ Program(s) /\ Open(s) /\ \A n \in Names : Spares(s, n)

\* Looking takes nothing away.
LEMMA LooksClear ==
  ASSUME NEW n \in Names, NEW id \in Removable
  PROVE  Looks(<<Check(n, id)>>) /\ Looks(<<Flush("src")>>)
<1>1. <<Check(n, id)>> \in Seq(Bare) /\ <<Flush("src")>> \in Seq(Bare)
  BY DEF Check, Flush, Bare, Clearing, Ops, Op, At, Dos, FileOps, JournalOps, Names, Artifacts, Phases, Removable
<1>2. Check(n, id).do = "check" /\ Flush("src").do = "flush"
  BY DEF Op, Check, Flush
<1> QED
  BY <1>1, <1>2, Single DEF Takes, Looks

\* Such a look before or after a removal.
LEMMA LooksJoined ==
  ASSUME NEW a, NEW n, Removes(a, n), NEW b, Looks(b)
  PROVE  Removes(a \o b, n) /\ Removes(b \o a, n)
<1>1. a \in Seq(Bare) /\ b \in Seq(Bare)
  BY DEF Removes, Looks
<1>2. /\ a \o b \in Seq(Bare) /\ Program(a \o b) /\ Open(a \o b)
      /\ b \o a \in Seq(Bare) /\ Program(b \o a) /\ Open(b \o a)
  BY <1>1, ClearingJoined, ProgramsJoined DEF Removes, Looks
<1>3. \A m : /\ Clears(a \o b, m) <=> Clears(a, m) \/ Clears(b, m)
             /\ Clears(b \o a, m) <=> Clears(b, m) \/ Clears(a, m)
             /\ Spares(a \o b, m) <=> Spares(a, m) /\ Spares(b, m)
             /\ Spares(b \o a, m) <=> Spares(b, m) /\ Spares(a, m)
  BY <1>1, TakesJoined
<1> QED
  BY <1>2, <1>3 DEF Removes, Looks

-----------------------------------------------------------------------------
(* What they leave when they close the journal.                             *)

\* A program that touches only names of N, and clears them all.
Covers(s, N) ==
  /\ s \in Seq(Bare) /\ s # <<>> /\ Program(s)
  /\ Closes(s) => \A n \in N : dir[n] # "none" => Clears(s, n)
  /\ \A n \in Names \ N : Spares(s, n)

\* The ends cover what is free.
LEMMA EndsCover ==
  ASSUME NEW N
  PROVE  /\ Covers(Quarantine, N) /\ ~Closes(Quarantine)
         /\ Covers(Defer, N) /\ ~Closes(Defer)
         /\ (\A n \in N : dir[n] = "none") => Covers(Close, N)
BY EndsTyped, EndsClear DEF Covers

\* A program that takes away what is under the name n, before one that covers N.
LEMMA CoversMore ==
  ASSUME NEW N, NEW rest, Covers(rest, N), NEW n \in Names, NEW ops, Removes(ops, n)
  PROVE  Covers(ops \o rest, N \cup {n}) /\ (Closes(ops \o rest) <=> Closes(rest))
<1>1. rest \in Seq(Bare) /\ rest # <<>> /\ Program(rest)
  BY DEF Covers
<1>2. ops \in Seq(Bare) /\ ops \o rest \in Seq(Bare) /\ ops \o rest # <<>> /\ Program(ops \o rest)
  BY <1>1, ClearingJoined, ProgramsJoined DEF Removes
<1>3. Closes(ops \o rest) <=> Closes(rest)
  BY <1>1, <1>2, TakesJoined
<1>4. \A m : /\ Clears(ops \o rest, m) <=> Clears(ops, m) \/ Clears(rest, m)
             /\ Spares(ops \o rest, m) <=> Spares(ops, m) /\ Spares(rest, m)
  BY <1>1, <1>2, TakesJoined
<1> QED
  BY <1>2, <1>3, <1>4 DEF Covers, Removes

\* A look before one.
LEMMA LooksCover ==
  ASSUME NEW N, NEW rest, Covers(rest, N), NEW ops, Looks(ops)
  PROVE  Covers(ops \o rest, N)
<1>1. rest \in Seq(Bare) /\ rest # <<>> /\ Program(rest)
  BY DEF Covers
<1>2. ops \in Seq(Bare) /\ ops \o rest \in Seq(Bare) /\ ops \o rest # <<>> /\ Program(ops \o rest)
  BY <1>1, ClearingJoined, ProgramsJoined DEF Looks
<1>3. \A m : /\ Clears(ops \o rest, m) <=> Clears(ops, m) \/ Clears(rest, m)
             /\ Spares(ops \o rest, m) <=> Spares(ops, m) /\ Spares(rest, m)
  BY <1>1, <1>2, TakesJoined
<1>4. Closes(ops \o rest) => Closes(rest)
  BY <1>1, <1>2, TakesJoined
<1> QED
  BY <1>2, <1>3, <1>4 DEF Covers, Looks

\* What is found under a name is what is there.
Sees(found, n) == found = "none" => dir[n] = "none"

\* A name that has to be looked at before the rest.
LEMMA SettleCovers ==
  ASSUME NEW N, NEW rest, Covers(rest, N), NEW n \in Names, NEW ops, Removes(ops, n),
         NEW found, Sees(found, n), NEW expected,
         NEW s, s = Settle(found, expected, ops, rest)
  PROVE  /\ Covers(s, N \cup {n})
         /\ Closes(s) => Closes(rest) /\ found \in {"none", expected}
         /\ Closes(s) /\ Restores(rest) => Restores(s)
         /\ Closes(s) /\ Restores(ops) /\ Spares(rest, "src") /\ found # "none" => Restores(s)
<1>1. Covers(rest, N \cup {n}) \/ dir[n] # "none"
  BY DEF Covers
<1>2. rest \in Seq(Bare) /\ ops \in Seq(Bare) /\ rest # <<>>
  BY DEF Covers, Removes
<1>3. /\ Closes(ops \o rest) => Closes(rest)
      /\ Restores(rest) \/ (Restores(ops) /\ Spares(rest, "src")) => Restores(ops \o rest)
  BY <1>2, TakesJoined, RestoresJoined
<1>4. Covers(ops \o rest, N \cup {n})
  BY CoversMore
<1>5. Covers(Quarantine, N \cup {n}) /\ ~Closes(Quarantine)
  BY EndsCover
<1>6. s = IF found = "none" THEN rest ELSE IF found = expected THEN ops \o rest ELSE Quarantine
  BY DEF Settle
<1> DEFINE both == ops \o rest
<1> HIDE DEF both
<1>7. CASE found = "none"
  BY <1>1, <1>6, <1>7 DEF Sees
<1>8. CASE found # "none" /\ found = expected
  BY <1>3, <1>4, <1>6, <1>8
<1>9. CASE found # "none" /\ found # expected
  BY <1>5, <1>6, <1>9
<1> QED
  BY <1>7, <1>8, <1>9

-----------------------------------------------------------------------------
(* What a recovery and the clean-up of a commit leave.                      *)

\* The record r knows of the rollback and of the private copy.
Knows(r) ==
  /\ r \in Records
  /\ dir["rb"] # "none" => r.rb
  /\ dir["priv"] # "none" => r.priv

\* A new program that does so.
Clean(s) == s \in Seq(Bare) /\ s # <<>> /\ Program(s) /\ Tidies(s)

\* One that gives up, or puts it off.
LEMMA EndsClean == Clean(Quarantine) /\ Clean(Defer)
BY EndsTyped, EndsClear DEF Clean, Tidies

\* The staged replacement and the private copy.
LEMMA DropStagingCovers ==
  ASSUME Located
  PROVE  Covers(DropStaging, {"stage"})
<1> DEFINE n     == "stage"
           found == InStage
           id    == "staged"
           ops   == Remove(n, id)
<1>1. n \in Names /\ id \in Removable /\ id # "none" /\ At(n) = n
  BY DEF Names, Removable, At
<1>2. Sees(found, n)
  BY DEF Located, InStage, Sees
<1>3. Removes(ops, n)
  BY <1>1, RemoveClears
<1>4. DropStaging = Settle(found, id, ops, Close) /\ Covers(Close, {}) /\ {n} = {} \cup {n}
  BY EndsCover DEF DropStaging
<1>5. Covers(DropStaging, {n})
  <2> HIDE DEF n, found, id, ops
  <2> QED
    BY <1>1, <1>2, <1>3, <1>4, SettleCovers
<1> QED
  BY <1>5

\* And the private copy.
LEMMA DropPrivateCovers ==
  ASSUME NEW r, Knows(r), NEW N, NEW rest, Covers(rest, N), NEW s, s = DropPrivate(r, rest)
  PROVE  /\ Covers(s, N \cup {"priv"})
         /\ Closes(s) => Closes(rest) /\ (Restores(rest) => Restores(s))
<1> DEFINE n     == "priv"
           found == InPriv(r)
           id    == "copy"
           ops   == Remove(n, id)
<1>1. n \in Names /\ id \in Removable /\ id # "none" /\ At(n) = n
  BY DEF Names, Removable, At
<1>2. Sees(found, n)
  BY DEF Knows, InPriv, Sees
<1>3. Removes(ops, n)
  BY <1>1, RemoveClears
<1>4. s = Settle(found, id, ops, rest)
  BY DEF DropPrivate
<1> HIDE DEF n, found, id, ops
<1>5. /\ Covers(s, N \cup {n})
      /\ Closes(s) => Closes(rest)
      /\ Closes(s) /\ Restores(rest) => Restores(s)
  BY <1>1, <1>2, <1>3, <1>4, SettleCovers
<1> QED
  BY <1>5 DEF n

\* The rollback is moved back, and then the rest is dropped.
LEMMA RestCovers ==
  ASSUME Located, NEW r, Knows(r), NEW rest,
         rest = DropPrivate(r, Settle(InRb(r), "source", MoveBack("rb", "source"), DropStaging))
  PROVE  /\ Covers(rest, {"stage", "rb", "priv"})
         /\ Closes(rest) /\ dir["rb"] = "source" => Restores(rest)
<1> DEFINE n     == "rb"
           found == InRb(r)
           id    == "source"
           ops   == MoveBack(n, id)
           s     == Settle(found, id, ops, DropStaging)
           N     == {"stage"}
<1>1. n \in Names /\ id # "none" /\ "src" \in Names /\ "src" \notin N /\ (dir["rb"] = "source" => found = id)
  BY DEF Names, Knows, InRb
<1>2. Sees(found, n)
  BY DEF Knows, InRb, Sees
<1>3. Removes(ops, n) /\ Restores(ops) /\ ops \in Seq(Bare)
  BY MoveBackClears DEF Removes
<1>4. rest = DropPrivate(r, s)
  OBVIOUS
<1>5. Covers(DropStaging, N)
  BY DropStagingCovers
<1>6. {"stage", "rb", "priv"} = (N \cup {n}) \cup {"priv"}
  OBVIOUS
<1> HIDE DEF n, found, id, ops, N
<1>8. Spares(DropStaging, "src")
  BY <1>1, <1>5 DEF Covers
<1>7. /\ Covers(s, N \cup {n})
      /\ Closes(s) /\ Restores(ops) /\ Spares(DropStaging, "src") /\ found # "none" => Restores(s)
  BY <1>1, <1>2, <1>3, <1>5, SettleCovers
<1> HIDE DEF s
<1>10. /\ Covers(rest, (N \cup {n}) \cup {"priv"})
       /\ Closes(rest) => Closes(s) /\ (Restores(s) => Restores(rest))
  BY <1>4, <1>7, DropPrivateCovers
<1>11. Closes(rest) /\ dir["rb"] = "source" => Restores(rest)
  BY <1>1, <1>3, <1>7, <1>8, <1>10
<1> QED
  BY <1>6, <1>10, <1>11

\* Restore() withdraws the target and puts the original back.
LEMMA RestoreClean ==
  ASSUME Located, ~committed, NEW r, Knows(r),
         dir["src"] = "source" \/ dir["rb"] = "source",
         SamePath /\ plan.kind # "inPlace" => Installed(r) # "source"
  PROVE  Clean(Restore(r))
<1> DEFINE rest == DropPrivate(r, Settle(InRb(r), "source", MoveBack("rb", "source"), DropStaging))
           N    == {"stage", "rb", "priv"}
<1>1. Covers(rest, N) /\ (Closes(rest) /\ dir["rb"] = "source" => Restores(rest))
  BY RestCovers
<1>2. Final = "src" /\ Names = N \cup {"src", "tgt"} /\ "src" \in Names /\ "src" \notin N /\ Removable \subseteq Artifacts
  BY DEF Final, Names, Removable, Artifacts
<1>3. rest \in Seq(Bare) /\ rest # <<>> /\ Program(rest) /\ Spares(rest, "src")
  BY <1>1, <1>2 DEF Covers
<1>4. CASE plan.kind = "inPlace"
  <2>1. SamePath /\ dir["tgt"] = "none"
    BY <1>4 DEF SamePath, Located
  <2>2. Restore(r) = IF dir["src"] = "source" THEN rest ELSE Quarantine
    BY <1>4 DEF Restore
  <2> HIDE DEF rest, N
  <2>3. dir["src"] = "source" => Clean(rest)
    BY <1>1, <1>2, <1>3, <2>1 DEF Covers, Clean, Tidies, Keeps
  <2> QED
    BY <2>2, <2>3, EndsClean
<1>5. CASE plan.kind # "inPlace"
  <2> DEFINE n     == At("tgt")
             found == Seen("tgt")
             id    == Installed(r)
             ops   == Remove("tgt", id)
             s     == Restore(r)
  <2>1. s = Settle(found, id, ops, rest)
    BY <1>5 DEF Restore
  <2>2. id \in Removable /\ id # "none" /\ "tgt" \in Names
    BY DEF Installed, Selected, Knows, Records, Removable, Names
  <2>3. Removes(ops, n)
    BY <2>2, RemoveClears
  <2>4. n \in Names /\ Sees(found, n)
    BY DEF At, Names, Seen, Sees
  <2> HIDE DEF rest, N, n, found, id, ops, s
  <2>5. /\ Covers(s, N \cup {n})
        /\ Closes(s) => Closes(rest) /\ found \in {"none", id}
        /\ Closes(s) /\ Restores(rest) => Restores(s)
    BY <1>1, <2>1, <2>3, <2>4, SettleCovers
  <2>8. Closes(s) /\ dir["rb"] = "source" => Restores(s)
    BY <1>1, <2>5
  <2>9. CASE SamePath
    <3>1. n = "src" /\ found = dir["src"] /\ dir["tgt"] = "none" /\ id # "source"
      BY <1>5, <2>9 DEF At, Seen, Located, id, n, found
    <3>2. Closes(s) => dir["src"] # "source"
      BY <2>5, <3>1
    <3>3. Clean(s)
      BY <1>2, <2>5, <2>8, <3>1, <3>2 DEF Covers, Clean, Tidies, Keeps
    <3> QED
      BY <3>3 DEF s
  <2>10. CASE ~SamePath
    <3>1. n = "tgt"
      BY <2>10 DEF At, n
    <3>2. Spares(s, "src")
      BY <1>2, <2>5, <3>1 DEF Covers
    <3>3. Clean(s)
      BY <1>2, <2>5, <2>8, <3>1, <3>2 DEF Covers, Clean, Tidies, Keeps
    <3> QED
      BY <3>3 DEF s
  <2> QED
    BY <2>9, <2>10
<1> QED
  BY <1>4, <1>5

\* A move is undone; it has no rollback and no private copy.
LEMMA RestoreMovedClean ==
  ASSUME Located, ~committed, NEW r, Knows(r), Bound(r), r.mode = "move"
  PROVE  Clean(RestoreMovedSource(r))
<1> DEFINE n    == "tgt"
           id   == LinkId(r)
           look == <<Flush("src")>>
           drop == Remove(n, id)
           back == MoveBack(n, "source")
<1>1. /\ n \in Names /\ At(n) = n /\ id \in Removable /\ id # "none"
      /\ Final = "src" /\ "src" \in Names \ {n}
  BY DEF Names, Final, Bound, At, SamePath, LinkId, Removable
<1>2. \A m \in Names \ {"src", n} : dir[m] = "none"
  BY DEF Names, Knows, Bound, Located, Replaces
<1>3. Removes(drop, n) /\ Removes(back, n) /\ Restores(back) /\ Looks(look)
  BY <1>1, RemoveClears, MoveBackClears, LooksClear
<1>4. Covers(Close, {}) /\ Spares(Close, "src")
  BY EndsCover, EndsClear
<1>5. \/ RestoreMovedSource(r) = drop \o look \o Close /\ dir["src"] = "source"
      \/ RestoreMovedSource(r) = look \o Close /\ dir["src"] = "source" /\ dir[n] = "none"
      \/ RestoreMovedSource(r) = back \o Close
      \/ RestoreMovedSource(r) = Quarantine
  BY DEF RestoreMovedSource
<1> HIDE DEF n, id, look, drop, back
<1>6. Covers(look \o Close, {})
  BY <1>3, <1>4, LooksCover
<1>7. Removes(drop \o look, n)
  BY <1>3, LooksJoined
<1>8. Covers(drop \o look \o Close, {} \cup {n}) /\ Covers(back \o Close, {} \cup {n})
  BY <1>1, <1>3, <1>4, <1>7, CoversMore
<1>9. Restores(back \o Close)
  BY <1>3, <1>4, EndsTyped, RestoresJoined DEF Removes
<1>10. dir["src"] = "source" => Clean(drop \o look \o Close)
  BY <1>1, <1>2, <1>8 DEF Clean, Tidies, Keeps, Covers
<1>11. dir["src"] = "source" /\ dir[n] = "none" => Clean(look \o Close)
  BY <1>1, <1>2, <1>6 DEF Clean, Tidies, Keeps, Covers
<1>12. Clean(back \o Close)
  BY <1>1, <1>2, <1>8, <1>9 DEF Clean, Tidies, Keeps, Covers
<1> QED
  BY <1>5, <1>10, <1>11, <1>12, EndsClean

\* A copy that did not preserve the original, or did not note that it had.
LEMMA RestorePreparedClean ==
  ASSUME Located, ~committed, NEW r, Knows(r)
  PROVE  Clean(RestorePrepared(r))
<1> DEFINE drop == DropPrivate(r, DropStaging)
           rest == IF ~SamePath /\ dir["tgt"] # "none" THEN Quarantine ELSE drop
           last == IF SamePath \/ dir["tgt"] = "none" THEN rest ELSE Quarantine
           back == MoveBack("rb", "source")
           N    == {"stage"} \cup {"priv"}
           n    == "rb"
<1>1. /\ Final = "src" /\ Names = N \cup {"src", n, "tgt"} /\ "src" \notin N \cup {n} /\ n \in Names
      /\ SamePath => dir["tgt"] = "none"
      /\ InRb(r) = "none" => dir[n] = "none"
  BY DEF Final, Names, Located, InRb, Knows
<1>2. Covers(drop, N)
  BY DropStagingCovers, DropPrivateCovers
<1>3. Removes(back, n) /\ Restores(back)
  BY MoveBackClears
<1>4. RestorePrepared(r) = IF InRb(r) = "none"
                           THEN IF dir["src"] = "source" THEN rest ELSE Quarantine
                           ELSE IF dir["src"] = "none" /\ InRb(r) = "source" THEN back \o last ELSE Quarantine
  BY DEF RestorePrepared
<1>5. /\ rest = Quarantine \/ (rest = drop /\ dir["tgt"] = "none")
      /\ last = Quarantine \/ (last = drop /\ dir["tgt"] = "none")
  BY <1>1
<1> HIDE DEF drop, rest, last, back, N, n
<1>6. Covers(rest, N) /\ (Closes(rest) => dir["tgt"] = "none")
  BY <1>2, <1>5, EndsCover
<1>7. Covers(last, N) /\ (Closes(last) => dir["tgt"] = "none")
  BY <1>2, <1>5, EndsCover
<1>8. Covers(back \o last, N \cup {n}) /\ (Closes(back \o last) => Closes(last))
  BY <1>1, <1>3, <1>7, CoversMore
<1>9. Restores(back \o last)
  <2>1. back \in Seq(Bare) /\ last \in Seq(Bare) /\ Spares(last, "src")
    BY <1>1, <1>3, <1>7 DEF Removes, Covers
  <2> QED
    BY <1>3, <2>1, RestoresJoined
<1>10. Clean(back \o last)
  BY <1>1, <1>7, <1>8, <1>9 DEF Clean, Tidies, Keeps, Covers
<1>11. InRb(r) = "none" /\ dir["src"] = "source" => Clean(rest)
  BY <1>1, <1>6 DEF Clean, Tidies, Keeps, Covers
<1> QED
  BY <1>4, <1>10, <1>11, EndsClean

\* A publication that was decided is cleaned up.
LEMMA CleanupRecoveredClean ==
  ASSUME Located, committed, NEW r, Knows(r)
  PROVE  Clean(CleanupRecovered(r))
<1> DEFINE n    == "rb"
           m    == "src"
           id   == "source"
           in   == InRb(r)
           N    == {"stage"} \cup {"priv"}
           drop == DropPrivate(r, DropStaging)
           ops  == Remove(n, id)
           rest == Settle(in, id, ops, drop)
           more == Remove(m, id)
           all  == Settle(dir[m], id, more, rest)
<1>1. Covers(drop, N)
  BY DropStagingCovers, DropPrivateCovers
<1>2. /\ n \in Names /\ m \in Names /\ id \in Removable /\ id # "none" /\ At(n) = n /\ At(m) = m
      /\ Sees(in, n) /\ Sees(dir[m], m)
      /\ Names = N \cup {n, m, "tgt"}
  BY DEF Names, Removable, At, Sees, InRb, Knows
<1>3. Final = IF SamePath THEN m ELSE "tgt"
  BY DEF Final, At
<1>4. /\ SamePath => dir["tgt"] = "none"
  BY DEF Located
<1>5. CleanupRecovered(r) = IF r.mode = "move" /\ ~Linked(r)
                            THEN IF dir[m] # "none" THEN Quarantine ELSE rest
                            ELSE IF SamePath THEN rest ELSE all
  BY DEF CleanupRecovered
<1> HIDE DEF n, m, id, in, N, drop
<1>6. Removes(ops, n) /\ Removes(more, m)
  BY <1>2, RemoveClears
<1> HIDE DEF ops, more
<1>7. Covers(rest, N \cup {n})
  BY <1>1, <1>2, <1>6, SettleCovers
<1> HIDE DEF rest
<1>8. Covers(all, (N \cup {n}) \cup {m})
  BY <1>2, <1>6, <1>7, SettleCovers
<1> HIDE DEF all
<1>9. SamePath \/ dir[m] = "none" => Clean(rest)
  BY <1>2, <1>3, <1>4, <1>7 DEF Clean, Tidies, Covers
<1>10. ~SamePath => Clean(all)
  BY <1>2, <1>3, <1>8 DEF Clean, Tidies, Covers
<1> QED
  BY <1>5, <1>9, <1>10, EndsClean

\* While nothing was disturbed or decided, the original is under its own name,
\* under the rollback's, or under that of the target it was moved to.
LEMMA OriginalThere ==
  ASSUME Placed, Undecided, Untouched, ~committed, Located, \A n \in Names : quar[n] = "none"
  PROVE  \/ dir["src"] = "source" \/ dir["rb"] = "source"
         \/ ~SamePath /\ dir["tgt"] = "source"
<1>1. PICK n \in Names : dir[n] = "source" \/ quar[n] = "source"
  BY DEF Undecided, Where
<1>2. dir[n] = "source" /\ n \in {"src", "tgt", "rb"}
  BY <1>1 DEF Names, Placed
<1> QED
  BY <1>2 DEF Located

\* Whatever it finds, a recovery that closes the journal leaves it tidy.
LEMMA RecoveryClean ==
  ASSUME TypeOK, Placed, Undecided, Untouched, Located, Noted, Moded, stage # "idle",
         \A n \in Names : quar[n] = "none", committed => rec.phase = "db_committed"
  PROVE  Clean(Recovery(rec))
<1>1. /\ Knows(rec) /\ Bound(rec) /\ rec.mode = jrnl.mode
      /\ committed <=> rec.phase = "db_committed"
      /\ rec.mode \in {"copy", "move"} /\ rec.tgtId \in {"none", "source", "copy"}
      /\ rec.privId \in {"none", "copy"}
  BY DEF TypeOK, Records, Noted, Moded, Knows, Undecided
<1>2. SamePath /\ plan.kind # "inPlace" => Installed(rec) # "source"
  BY <1>1 DEF Bound, Installed, Selected, SamePath, Replaces
<1>3. ASSUME ~committed, dir["src"] = "source" \/ dir["rb"] = "source"
      PROVE  Clean(Restore(rec))
  BY <1>1, <1>2, <1>3, RestoreClean
<1>4. committed => Clean(CleanupRecovered(rec))
  BY <1>1, CleanupRecoveredClean
<1>5. ~committed /\ rec.mode = "move" => Clean(RestoreMovedSource(rec))
  BY <1>1, RestoreMovedClean
<1>6. ~committed => Clean(RestorePrepared(rec))
  BY <1>1, RestorePreparedClean
<1>7. ~committed => Clean(RestoreStaged(rec))
  <2> SUFFICES ASSUME ~committed PROVE Clean(RestoreStaged(rec))
    OBVIOUS
  <2>1. RestoreStaged(rec) = Restore(rec) => dir["src"] = "source" \/ dir["rb"] = "source" \/ Restore(rec) = Quarantine
    BY DEF RestoreStaged, InRb
  <2>2. RestoreStaged(rec) \in {Restore(rec), Quarantine}
    BY DEF RestoreStaged
  <2> QED
    BY <1>3, <2>1, <2>2, EndsClean
<1>8. ~committed /\ rec.mode = "copy" => Clean(Restore(rec))
  <2> SUFFICES ASSUME ~committed, rec.mode = "copy" PROVE Clean(Restore(rec))
    OBVIOUS
  <2>1. dir["src"] = "source" \/ dir["rb"] = "source"
    BY <1>1, OriginalThere DEF Moded
  <2> QED
    BY <1>3, <2>1
<1>9. ~committed /\ InRb(rec) = "source" => Clean(Restore(rec))
  BY <1>3 DEF InRb
<1>10. \/ Recovery(rec) \in {Defer, Quarantine}
       \/ committed /\ Recovery(rec) = CleanupRecovered(rec)
       \/ ~committed /\ InRb(rec) = "source" /\ Recovery(rec) = Restore(rec)
       \/ ~committed /\ Recovery(rec) = RestoreStaged(rec)
       \/ ~committed /\ rec.mode = "move" /\ Recovery(rec) = RestoreMovedSource(rec)
       \/ ~committed /\ rec.mode = "copy" /\ Recovery(rec) = Restore(rec)
       \/ ~committed /\ Recovery(rec) = RestorePrepared(rec)
  BY <1>1 DEF Recovery
<1> QED
  BY <1>4, <1>5, <1>6, <1>7, <1>8, <1>9, <1>10, EndsClean

\* A part of the clean-up that follows the terminal transaction.
Partly(s, N) ==
  /\ s \in Seq(Bare) /\ Program(s) /\ Open(s)
  /\ \A n \in N : dir[n] # "none" => Clears(s, n)

\* Its parts, one after the other.
LEMMA PartlyJoined ==
  ASSUME NEW a, NEW N, Partly(a, N), NEW b, NEW M, Partly(b, M)
  PROVE  Partly(a \o b, N \cup M)
<1>1. a \in Seq(Bare) /\ b \in Seq(Bare)
  BY DEF Partly
<1>2. a \o b \in Seq(Bare) /\ Program(a \o b) /\ Open(a \o b)
  BY <1>1, ClearingJoined, ProgramsJoined DEF Partly
<1>3. \A n : Clears(a \o b, n) <=> Clears(a, n) \/ Clears(b, n)
  BY <1>1, TakesJoined
<1> QED
  BY <1>2, <1>3 DEF Partly

\* The clean-up takes away all but what it knows to be gone.
LEMMA CleanupLiveClean ==
  ASSUME Located, NEW r, Knows(r),
         ~SamePath /\ r.mode = "move" /\ ~Linked(r) => dir["src"] = "none",
         dir["priv"] # "none" => Linked(r)
  PROVE  /\ CleanupLive(r) \in Seq(Bare) /\ CleanupLive(r) # <<>> /\ Program(CleanupLive(r))
         /\ \A n \in Names \ {At("tgt")} : dir[n] # "none" => Clears(CleanupLive(r), n)
<1> DEFINE clean(n, id) == <<Check(n, id)>> \o Remove(n, id)
           a == IF ~SamePath /\ (r.mode # "move" \/ Linked(r)) THEN clean("src", "source") ELSE <<>>
           b == IF Linked(r) /\ r.priv THEN Remove("priv", LinkId(r)) ELSE <<>>
           c == IF r.rb THEN clean("rb", "source") ELSE <<>>
           d == IF Replaces THEN clean("stage", "staged") ELSE <<>>
           A == {"src"} \ {At("tgt")}
<1>1. LinkId(r) \in Removable \ {"none"} /\ {"source", "staged"} \subseteq Removable \ {"none"}
  BY DEF LinkId, Removable
<1>2. {"src", "rb", "stage", "priv"} \subseteq Names /\ \A n \in {"src", "rb", "stage", "priv"} : At(n) = n
  BY DEF Names, At
<1>3. ASSUME NEW n \in {"src", "rb", "stage", "priv"}, NEW id \in Removable \ {"none"}
      PROVE  Partly(Remove(n, id), {n}) /\ Partly(clean(n, id), {n})
  <2>1. Removes(Remove(n, id), n) /\ Looks(<<Check(n, id)>>)
    BY <1>2, <1>3, RemoveClears, LooksClear
  <2>2. Removes(clean(n, id), n)
    BY <2>1, LooksJoined
  <2> QED
    BY <2>1, <2>2 DEF Removes, Partly
<1>4. ASSUME NEW N, \A n \in N : dir[n] = "none" PROVE Partly(<<>>, N)
  BY <1>4 DEF Partly, Program, Open
<1>5. Partly(a, A)
  <2>1. CASE SamePath
    BY <1>4, <2>1 DEF At
  <2>2. CASE ~SamePath
    <3>1. A = {"src"}
      BY <2>2 DEF At
    <3> HIDE DEF A
    <3> QED
      BY <1>1, <1>3, <1>4, <2>2, <3>1 DEF Knows, Records
  <2> QED
    BY <2>1, <2>2
<1>6. Partly(b, {"priv"})
  BY <1>1, <1>3, <1>4 DEF Knows
<1>7. Partly(c, {"rb"})
  BY <1>1, <1>3, <1>4 DEF Knows
<1>8. Partly(d, {"stage"})
  BY <1>1, <1>3, <1>4 DEF Located
<1>9. CleanupLive(r) = (((a \o b) \o c) \o d) \o Close
  BY DEF CleanupLive
<1>10. Names \ {At("tgt")} = A \cup ({"priv", "rb", "stage", "tgt"} \ {At("tgt")})
  BY DEF Names, At
<1>11. "tgt" # At("tgt") => dir["tgt"] = "none"
  BY DEF At, Located
<1> DEFINE e == ((a \o b) \o c) \o d
           N == ((A \cup {"priv"}) \cup {"rb"}) \cup {"stage"}
<1> HIDE DEF a, b, c, d, A
<1>12. Partly(e, N)
  BY <1>5, <1>6, <1>7, <1>8, PartlyJoined
<1> HIDE DEF e
<1>13. e \in Seq(Bare) /\ Close \in Seq(Bare) /\ Close # <<>> /\ Program(Close) /\ CleanupLive(r) = e \o Close
  BY <1>9, <1>12, EndsTyped, EndsClear DEF Partly, e
<1>14. e \o Close \in Seq(Bare) /\ e \o Close # <<>> /\ Program(e \o Close)
       /\ \A n : Clears(e \o Close, n) <=> Clears(e, n) \/ Clears(Close, n)
  BY <1>12, <1>13, ClearingJoined, ProgramsJoined, TakesJoined DEF Partly
<1> QED
  BY <1>10, <1>11, <1>12, <1>13, <1>14 DEF Partly

-----------------------------------------------------------------------------
(* What a step does to the files, the records and the program at once.      *)

\* An operation acts on the files, and the program goes on or fails.
Acts ==
  LET op == Head(todo)
  IN  /\ todo # <<>> /\ op \in Ops /\ op.do \in FileOps /\ Verified(op) /\ Applied(op)
      /\ Goes(Tail(todo), rec) \/ Throws(rec)
      /\ UNCHANGED <<plan, jrnl, committed>>

Renames ==
  LET op == Head(todo)
  IN  /\ todo # <<>> /\ op \in Ops /\ op.do = "publish" /\ dir[op.at] = op.id /\ Seen("tgt") = "none"
      /\ dir' = [dir EXCEPT ![op.at] = "none", ![At("tgt")] = op.id]
      /\ Goes(Tail(todo), rec) \/ Throws(rec)
      /\ UNCHANGED <<plan, quar, jrnl, committed>>

\* It leaves them alone, and the program fails.
Fails ==
  /\ todo # <<>>
  /\ Throws(rec) \/ Throws(Eager(rec, Head(todo)))
  /\ UNCHANGED <<plan, dir, quar, jrnl, committed>>

\* Or it decides how the program goes on.
Linking(op) ==
  <<Check(op.at, op.id), Op("noteLink", op.at, op.id), Op("link", op.at, op.id),
    Op("confirmLink", op.at, op.id)>>

Removal(op, c) ==
  <<Op("isolate", op.at, op.id), [Op("erase", op.at, op.id) EXCEPT !.to = c[1], !.by = c[2]],
    Op("forget", op.at, op.id)>>

Decides ==
  LET op == Head(todo)
  IN  /\ todo # <<>> /\ op \in Ops
      /\ \/ op.do = "check" /\ Goes(Tail(todo), rec)
         \/ op.do \in {"check", "survive", "resume"} /\ Goes(Quarantine, rec)
         \/ /\ op.do = "publish" /\ op.at = "src"
            /\ Goes(<<Check("src", "source"), Op("copyMode", "src", "none")>>, rec)
         \/ op.do = "publish" /\ Goes(Linking(op) \o Tail(todo), rec)
         \/ op.do = "survive" /\ \E c : Goes(Removal(op, c) \o Tail(todo), rec)
         \/ /\ op.do = "resume"
            /\ Goes(<<Op("survive", rec.removal.at, rec.removal.id)>> \o Tail(todo), rec)
         \/ op.do = "recover" /\ Goes(Recovery(rec), rec)
      /\ UNCHANGED <<plan, dir, quar, jrnl, committed>>

\* Or it is noted in the journal and in the record.
Notes ==
  LET op == Head(todo)
      r  == Patched(rec, op)
  IN  /\ todo # <<>> /\ op \in Ops /\ op.do \in JournalOps /\ ~Refused(op)
      /\ jrnl' = Patched(jrnl, op) /\ committed' = (committed \/ op.do = "commit")
      /\ \/ op.do = "copyMode" /\ Goes(Forward(r), r)
         \/ op.do = "commit" /\ todo' = CleanupLive(r) /\ stage' = "cleanup" /\ rec' = r
         \/ op.do \notin {"copyMode", "commit"} /\ Goes(Tail(todo), r)
      /\ UNCHANGED <<plan, dir, quar>>

\* Every step but those of another program is one of these, or starts or stops one.
LEMMA StepForms ==
  ASSUME TypeOK, Staged, [Next]_vars
  PROVE  \/ Acts \/ Renames \/ Fails \/ Decides \/ Notes
         \/ QuarantineStep \/ Commit \/ Recover \/ Crash \/ Tamper \/ UNCHANGED vars
<1> DEFINE op == Head(todo)
<1>1. todo # <<>> => op \in Ops
  BY Ahead
<1>2. FileStep => Acts \/ Fails
  BY <1>1 DEF FileStep, Acts, Fails, files
<1>3. Publish => Renames \/ Fails \/ Decides
  BY <1>1 DEF Publish, Renames, Fails, Decides, Linking
<1>4. CheckStep => Decides
  BY <1>1 DEF CheckStep, Decides, files
<1>5. SurviveStep => Fails \/ Decides
  BY <1>1 DEF SurviveStep, Fails, Decides, Removal
<1>6. JournalStep => Fails \/ Notes
  BY <1>1 DEF JournalStep, Fails, Notes, files
<1>7. ResumeStep => Decides
  BY <1>1 DEF ResumeStep, Decides, files
<1>8. RecoverStep => Decides
  BY <1>1 DEF RecoverStep, Decides, files
<1>9. DeferStep \/ FailStep => Fails
  BY DEF DeferStep, FailStep, Fails, files
<1> QED
  BY <1>2, <1>3, <1>4, <1>5, <1>6, <1>7, <1>8, <1>9 DEF Next, Step

\* Where a step leaves the records.
LEMMA RecordForms ==
  ASSUME TypeOK, Staged, [Next]_vars, ~Tamper
  PROVE  \/ /\ UNCHANGED jrnl
            /\ stage' # "idle" => stage # "idle" /\ (rec' = rec \/ (todo # <<>> /\ rec' = Eager(rec, Head(todo))))
         \/ /\ Notes
            /\ stage' # "idle" => stage # "idle" /\ rec' = Patched(rec, Head(todo))
         \/ jrnl' = [jrnl EXCEPT !.phase = "quarantined"] /\ stage' = "idle" /\ UNCHANGED <<dir, quar>>
         \/ Commit \/ Recover
<1>1. todo # <<>> => stage # "idle"
  BY DEF TypeOK
<1>2. \A s, r : Goes(s, r) /\ stage' # "idle" => rec' = r
  BY DEF Goes
<1>3. \A r : Throws(r) /\ stage' # "idle" => rec' = r
  BY DEF Throws
<1>4. CASE Acts \/ Renames \/ Fails \/ Decides
  <2>1. todo # <<>> /\ UNCHANGED jrnl
    BY <1>4 DEF Acts, Renames, Fails, Decides
  <2>2. Throws(rec) \/ Throws(Eager(rec, Head(todo))) \/ \E s : Goes(s, rec)
    BY <1>4 DEF Acts, Renames, Fails, Decides
  <2> QED
    BY <1>1, <1>2, <1>3, <2>1, <2>2
<1>5. CASE Notes
  <2>1. todo # <<>> /\ (rec' = Patched(rec, Head(todo)) \/ \E s : Goes(s, Patched(rec, Head(todo))))
    BY <1>5 DEF Notes
  <2> QED
    BY <1>1, <1>2, <1>5, <2>1
<1>6. CASE QuarantineStep
  BY <1>6 DEF QuarantineStep, Goes, files
<1>7. CASE Crash
  BY <1>7 DEF Crash, Goes
<1>8. CASE UNCHANGED vars
  BY <1>8 DEF vars
<1> QED
  BY <1>4, <1>5, <1>6, <1>7, <1>8, StepForms

\* What the next operation of a commit is about, and what was noted before it.
LEMMA HeadOfCommit ==
  ASSUME TypeOK, Staged, Committing, stage = "commit"
  PROVE  LET op == Head(todo)
         IN  /\ todo # <<>> /\ op \in Line(rec.mode) /\ rec = jrnl
             /\ op.do = "link" => rec.link # "none"
             /\ op.do = "move" => rec.rb
             /\ op.do \in {"open", "copy"} => rec.priv /\ Seen("tgt") # "copy"
<1>1. todo # <<>> /\ todo \in Seq(Line(rec.mode)) /\ Ordered(todo, rec) /\ rec = jrnl
  BY DEF TypeOK, Committing, Staged
<1>2. Head(todo) = todo[1] /\ todo[1] \in Line(rec.mode) /\ Len(todo) \in Nat \ {0}
  BY <1>1, Rest
<1>3. 1 \in 1..Len(todo) /\ \A j : j \in 1..(1-1) => FALSE
  BY <1>2
<1>4. (\E i \in 1..Len(todo) : todo[i].do \in {"open", "copy"}) => Seen("tgt") # "copy"
  BY DEF Committing
<1> QED
  BY <1>1, <1>2, <1>3, <1>4 DEF Ordered

\* And that of a clean-up or a recovery.
LEMMA HeadOfClearing ==
  ASSUME TypeOK, Staged, Announcing, stage \in {"cleanup", "recover"}
  PROVE  LET op == Head(todo)
         IN  /\ todo # <<>> /\ op \in Clearing
             /\ op.do = "move" => op.to = "src"
             /\ op.do \in {"survive", "isolate", "erase"} =>
                  Removing(todo) /\ op.id # "none" /\ jrnl.removal = [at |-> op.at, id |-> op.id]
             /\ op.do = "resume" => todo = Resuming /\ rec.removal = jrnl.removal /\ jrnl.removal # NoRemoval
             /\ op.do \notin {"survive", "isolate", "erase", "resume"} => Program(todo)
             /\ op.do \notin {"survive", "isolate", "erase", "resume", "quarantine"} => \A n \in Names : quar[n] = "none"
<1>1. todo # <<>> /\ Head(todo) = todo[1] /\ 1 \in 1..Len(todo) /\ Head(todo) \in Clearing
  BY Ahead DEF TypeOK
<1>2. todo = Resuming => Head(todo).do = "resume"
  BY DEF Resuming, Op
<1>3. Program(todo) => /\ Head(todo).do \notin {"survive", "isolate", "erase", "resume"}
                       /\ Head(todo).do = "move" => Head(todo).to = "src"
  BY <1>1 DEF Program
<1>4. Removing(todo) => Head(todo).do \in {"survive", "isolate", "erase"}
  BY DEF Removing
<1> QED
  BY <1>1, <1>2, <1>3, <1>4 DEF Announcing

-----------------------------------------------------------------------------
(* What is where, and what the record knows.                                *)

\* Files appear only under the name of the target, or where they are moved or copied.
LEMMA DirForms ==
  ASSUME TypeOK, Placed, Staged, [Next]_vars, ~Tamper
  PROVE  \/ UNCHANGED dir
         \/ /\ Acts /\ dir' \in [Names -> Artifacts]
            /\ LET op == Head(todo) IN
               \/ /\ op.do = "move" /\ op.id = "source" /\ op.at \in {"src", "rb", "tgt"}
                  /\ op.to \in {"src", "rb"} /\ op.to # op.at
                  /\ dir[op.at] = "source" /\ dir[op.to] = "none"
                  /\ dir' = [dir EXCEPT ![op.at] = "none", ![op.to] = "source"]
               \/ /\ op.do = "link" /\ dir[op.at] = op.id /\ dir[At("tgt")] = "none"
                  /\ dir' = [dir EXCEPT ![At("tgt")] = op.id]
                  /\ (op.at = "src" /\ op.id = "source") \/ (op.at = "priv" /\ op.id = "copy")
               \/ op.do = "open" /\ dir' = [dir EXCEPT !["priv"] = "partial"]
               \/ op.do = "copy" /\ dir' = [dir EXCEPT !["priv"] = "copy"]
               \/ op.do = "isolate" /\ op.at \in Names /\ dir' = [dir EXCEPT ![op.at] = "none"]
         \/ /\ Renames /\ dir' \in [Names -> Artifacts]
            /\ LET op == Head(todo) IN
               /\ dir[op.at] = op.id /\ dir[At("tgt")] = "none"
               /\ dir' = [dir EXCEPT ![op.at] = "none", ![At("tgt")] = op.id]
               /\ (op.at = "src" /\ op.id = "source") \/ (op.at = "priv" /\ op.id = "copy")
<1> DEFINE op == Head(todo)
<1>1. CASE Acts
  <2>1. op \in Ops /\ op.do \in FileOps /\ Verified(op) /\ Applied(op) /\ dir' \in [Names -> Artifacts]
    BY <1>1, AppliedTyped DEF Acts
  <2> USE <1>1 DEF Verified, Applied
  <2> HIDE DEF op
  <2>2. CASE op.do = "move"
    <3>1. /\ op.id = "source" /\ op.at \in {"src", "rb", "tgt"} /\ op.to \in {"src", "rb"}
          /\ dir[op.at] = "source" /\ dir[op.to] = "none"
          /\ dir' = [dir EXCEPT ![op.at] = "none", ![op.to] = "source"]
      BY <2>1, <2>2 DEF Ops
    <3>2. op.to # op.at
      BY <3>1
    <3> QED
      BY <2>1, <2>2, <3>1, <3>2 DEF op
  <2>3. CASE op.do = "link"
    <3>1. /\ dir[op.at] = op.id /\ dir[At("tgt")] = "none" /\ dir' = [dir EXCEPT ![At("tgt")] = op.id]
          /\ (op.at = "src" /\ op.id = "source") \/ (op.at = "priv" /\ op.id = "copy")
      BY <2>1, <2>3 DEF Ops, Seen
    <3> QED
      BY <2>1, <2>3, <3>1 DEF op
  <2>4. CASE op.do \in {"open", "copy"}
    <3>1. \/ op.do = "open" /\ dir' = [dir EXCEPT !["priv"] = "partial"]
          \/ op.do = "copy" /\ dir' = [dir EXCEPT !["priv"] = "copy"]
      BY <2>1, <2>4
    <3> QED
      BY <2>1, <3>1 DEF op
  <2>5. CASE op.do = "isolate"
    <3>1. op.at \in Names /\ dir' = [dir EXCEPT ![op.at] = "none"]
      BY <2>1, <2>5 DEF Ops
    <3> QED
      BY <2>1, <2>5, <3>1 DEF op
  <2>6. CASE op.do \in {"flush", "erase"}
    BY <2>1, <2>6
  <2> QED
    BY <2>1, <2>2, <2>3, <2>4, <2>5, <2>6 DEF FileOps
<1>2. CASE Renames
  <2>1. /\ dir[op.at] = op.id /\ dir[At("tgt")] = "none"
        /\ dir' = [dir EXCEPT ![op.at] = "none", ![At("tgt")] = op.id]
        /\ (op.at = "src" /\ op.id = "source") \/ (op.at = "priv" /\ op.id = "copy")
    BY <1>2 DEF Renames, Ops, Seen
  <2>2. dir' \in [Names -> Artifacts]
    <3> HIDE DEF op
    <3> QED
      BY <2>1 DEF TypeOK, Names, Artifacts, At
  <2> QED
    BY <1>2, <2>1, <2>2
<1>3. CASE Fails \/ Decides \/ Notes \/ QuarantineStep \/ Commit \/ Recover \/ Crash \/ UNCHANGED vars
  BY <1>3 DEF Fails, Decides, Notes, QuarantineStep, Commit, Recover, Crash, vars, files
<1> QED
  BY <1>1, <1>2, <1>3, StepForms

\* An in-place publication never adds the other name, and nothing else is staged.
LEMMA LocatedStep ==
  ASSUME TypeOK, Placed, Staged, Located, [Next]_vars, ~Tamper, UNCHANGED plan
  PROVE  Located'
<1>1. dir \in [Names -> Artifacts] /\ SamePath' = SamePath /\ Replaces' = Replaces
  BY DEF TypeOK, SamePath, Replaces
<1>2. SamePath => dir["tgt"] = "none" /\ At("tgt") = "src"
  BY DEF Located, At
<1>3. (SamePath => dir'["tgt"] = "none") /\ (dir'["stage"] # "none" => dir["stage"] # "none")
  BY <1>1, <1>2, DirForms DEF Names, At
<1> QED
  BY <1>1, <1>3 DEF Located

\* The journal forgets nothing of the rollback, the private copy and the link,
\* and never turns to a move.
LEMMA JournalGrows ==
  ASSUME TypeOK, Staged, [Next]_vars, ~Tamper, ~Commit
  PROVE  /\ jrnl.rb => jrnl'.rb
         /\ jrnl.priv => jrnl'.priv
         /\ Linked(jrnl) => Linked(jrnl')
         /\ jrnl'.mode = "move" => jrnl.mode = "move"
         /\ jrnl'.mode # jrnl.mode => UNCHANGED dir /\ Seen("tgt") = "none"
<1>1. CASE Notes
  <2> DEFINE op == Head(todo)
  <2>1. jrnl \in Records /\ op \in Ops /\ jrnl' = Patched(jrnl, op) /\ ~Refused(op) /\ UNCHANGED dir
    BY <1>1 DEF TypeOK, Notes
  <2>2. op.do = "copyMode" => Seen("tgt") = "none"
    BY <2>1 DEF Refused
  <2> HIDE DEF op
  <2>3. /\ jrnl'.mode = IF op.do = "copyMode" THEN "copy" ELSE jrnl.mode
        /\ jrnl'.rb <=> jrnl.rb \/ op.do = "noteRollback"
        /\ jrnl'.priv <=> jrnl.priv \/ op.do = "notePrivate"
        /\ jrnl'.link = IF op.do = "noteLink" THEN "intended" ELSE IF op.do = "confirmLink" THEN "confirmed" ELSE jrnl.link
    BY <2>1, PatchedNotes
  <2> QED
    BY <2>1, <2>2, <2>3 DEF Linked
<1>2. CASE jrnl' = [jrnl EXCEPT !.phase = "quarantined"]
  BY <1>2 DEF TypeOK, Records, Linked
<1>3. CASE UNCHANGED jrnl \/ Recover
  BY <1>3 DEF Recover
<1> QED
  BY <1>1, <1>2, <1>3, RecordForms

\* Before a commit nothing but the original and a staged replacement is there.
LEMMA Beginning ==
  ASSUME Closed, Commit
  PROVE  /\ UNCHANGED <<dir, quar, plan>> /\ jrnl' = Fresh /\ rec' = Fresh
         /\ dir["tgt"] = "none" /\ dir["rb"] = "none" /\ dir["priv"] = "none"
         /\ dir["src"] = "source" /\ \A n \in Names : quar[n] = "none"
BY DEF Closed, Commit, Final, Names, files

\* The record is ahead of the names.
LEMMA NotedStep ==
  ASSUME TypeOK, Placed, Staged, Noted, Committing, Announcing, Closed, [Next]_vars, ~Tamper
  PROVE  Noted'
<1> DEFINE op == Head(todo)
<1>1. CASE Commit
  BY <1>1, Beginning DEF Noted, Fresh, NoRecord
<1>2. CASE ~Commit
  <2>1. (jrnl.rb => jrnl'.rb) /\ (jrnl.priv => jrnl'.priv)
    BY <1>2, JournalGrows
  <2>2. UNCHANGED dir \/ Acts \/ Renames
    BY DirForms
  <2>4. (dir'["rb"] # "none" => jrnl'.rb) /\ (dir'["priv"] # "none" => jrnl'.priv)
    <3>1. CASE UNCHANGED dir
      BY <2>1, <3>1 DEF Noted
    <3>2. CASE Acts \/ Renames
      <4>1. todo # <<>> /\ op \in Ops /\ stage \in {"commit", "cleanup", "recover"} /\ UNCHANGED jrnl
        BY <3>2, Ahead DEF Acts, Renames
      <4>2. stage = "commit" => /\ op.do = "move" => jrnl.rb
                                /\ op.do \in {"open", "copy"} => jrnl.priv
        BY HeadOfCommit
      <4>3. stage # "commit" => /\ op.do = "move" => op.to = "src"
                                /\ op.do \notin {"open", "copy"}
        BY <4>1, HeadOfClearing DEF Clearing
      <4>4. At("tgt") \in {"src", "tgt"} /\ dir \in [Names -> Artifacts]
        BY DEF At, TypeOK
      <4>5. dir'["rb"] # "none" => dir["rb"] # "none" \/ (op.do = "move" /\ op.to = "rb")
        BY <4>4, DirForms DEF Names
      <4>6. dir'["priv"] # "none" => dir["priv"] # "none" \/ op.do \in {"open", "copy"}
        BY <4>4, DirForms DEF Names
      <4> QED
        BY <4>1, <4>2, <4>3, <4>5, <4>6 DEF Noted
    <3> QED
      BY <2>2, <3>1, <3>2
  <2>5. stage' # "idle" => /\ jrnl'.rb => rec'.rb
                           /\ jrnl'.priv => rec'.priv
                           /\ rec'.mode = jrnl'.mode /\ rec'.link = jrnl'.link
    <3> SUFFICES ASSUME stage' # "idle"
                 PROVE  /\ jrnl'.rb => rec'.rb
                        /\ jrnl'.priv => rec'.priv
                        /\ rec'.mode = jrnl'.mode /\ rec'.link = jrnl'.link
      OBVIOUS
    <3>1. jrnl \in Records /\ rec \in Records
      BY DEF TypeOK
    <3>2. CASE UNCHANGED jrnl /\ stage # "idle" /\ rec' = rec
      BY <3>2 DEF Noted
    <3>3. CASE UNCHANGED jrnl /\ stage # "idle" /\ rec' = Eager(rec, op)
      BY <3>1, <3>3, EagerFields DEF Noted
    <3>4. CASE Notes /\ stage # "idle" /\ rec' = Patched(rec, op)
      <4>1. op \in Ops /\ jrnl' = Patched(jrnl, op)
        BY <3>4 DEF Notes
      <4> HIDE DEF op
      <4>2. /\ jrnl'.mode = IF op.do = "copyMode" THEN "copy" ELSE jrnl.mode
            /\ jrnl'.rb <=> jrnl.rb \/ op.do = "noteRollback"
            /\ jrnl'.priv <=> jrnl.priv \/ op.do = "notePrivate"
            /\ jrnl'.link = IF op.do = "noteLink" THEN "intended" ELSE IF op.do = "confirmLink" THEN "confirmed" ELSE jrnl.link
        BY <3>1, <4>1, PatchedNotes
      <4>3. /\ rec'.mode = IF op.do = "copyMode" THEN "copy" ELSE rec.mode
            /\ rec'.rb <=> rec.rb \/ op.do = "noteRollback"
            /\ rec'.priv <=> rec.priv \/ op.do = "notePrivate"
            /\ rec'.link = IF op.do = "noteLink" THEN "intended" ELSE IF op.do = "confirmLink" THEN "confirmed" ELSE rec.link
        BY <3>1, <3>4, <4>1, PatchedNotes
      <4>4. rec.mode = jrnl.mode /\ rec.link = jrnl.link /\ (jrnl.rb => rec.rb) /\ (jrnl.priv => rec.priv)
        BY <3>4 DEF Noted
      <4> QED
        BY <4>2, <4>3, <4>4
    <3>5. CASE Recover
      BY <3>5 DEF Recover
    <3> QED
      BY <1>2, <3>2, <3>3, <3>4, <3>5, RecordForms
  <2> QED
    BY <2>4, <2>5 DEF Noted
<1> QED
  BY <1>1, <1>2

\* A record stays one of its publication.
LEMMA BoundKept ==
  ASSUME NEW r \in Records, Bound(r), NEW op \in Ops,
         op.do \in {"noteRollback", "notePrivate", "install"} => op \in Line(r.mode),
         NEW q, q = Eager(r, op) \/ q = Patched(r, op)
  PROVE  Bound(q)
<1>1. /\ q.mode = "move" => r.mode = "move"
      /\ q.rb <=> r.rb \/ op.do = "noteRollback"
      /\ q.priv <=> r.priv \/ op.do = "notePrivate"
      /\ q.tgtId = IF op.do = "install" THEN op.id ELSE r.tgtId
  <2>1. CASE q = Eager(r, op)
    BY <2>1, EagerFields
  <2>2. CASE q = Patched(r, op)
    BY <2>2, PatchedNotes
  <2> QED
    BY <2>1, <2>2
<1>2. r.mode \in {"copy", "move"} /\ (r.mode = "move" => plan.kind = "move" /\ ~SamePath)
  BY DEF Records, Bound, SamePath
<1>3. op.do = "noteRollback" => r.mode = "copy"
  BY <1>2 DEF Line
<1>4. op.do = "notePrivate" => r.mode = "copy" /\ plan.kind # "inPlace"
  BY <1>2 DEF Line
<1>5. op.do = "install" /\ SamePath /\ plan.kind # "inPlace" => op.id = "copy"
  BY <1>2 DEF Line
<1> QED
  BY <1>1, <1>2, <1>3, <1>4, <1>5 DEF Bound

\* And says how the target came to be.
LEMMA ModedStep ==
  ASSUME TypeOK, Placed, Staged, Noted, Moded, Committing, Announcing, Closed, [Next]_vars, ~Tamper
  PROVE  Moded'
<1> DEFINE op == Head(todo)
<1>1. /\ UNCHANGED plan /\ SamePath' = SamePath /\ At("tgt")' = At("tgt")
      /\ Seen("tgt") = dir[At("tgt")] /\ Seen("tgt")' = dir'[At("tgt")]
      /\ jrnl \in Records /\ rec \in Records /\ dir \in [Names -> Artifacts]
      /\ At("tgt") \in {"src", "tgt"} /\ (~SamePath => At("tgt") = "tgt")
  BY FilesStep DEF SamePath, At, Seen, TypeOK
<1>2. CASE Commit
  <2>1. Bound(Fresh) /\ (Fresh.mode = "move" => ~SamePath)
    BY DEF Bound, Fresh, NoRecord, SamePath
  <2>2. /\ UNCHANGED dir /\ jrnl' = Fresh /\ rec' = Fresh
        /\ dir["tgt"] = "none" /\ dir["priv"] = "none"
    BY <1>2, Beginning
  <2>3. Bound(jrnl)' /\ Bound(rec)'
    BY <1>1, <2>1, <2>2 DEF Bound
  <2> QED
    BY <2>2, <2>3 DEF Moded
<1>3. CASE ~Commit
  <2>1. todo # <<>> => /\ stage # "idle" /\ op \in Ops
                       /\ op.do \in {"noteRollback", "notePrivate", "install"} => op \in Line(rec.mode) /\ rec = jrnl
    <3>1. todo # <<>> => stage \in {"commit", "cleanup", "recover"} /\ op \in Ops /\ (stage # "commit" => op \in Clearing)
      BY Ahead
    <3> QED
      BY <3>1, HeadOfCommit DEF Clearing
  <2>2. Bound(jrnl') /\ (stage' # "idle" => Bound(rec'))
    <3>1. CASE UNCHANGED jrnl /\ (stage' # "idle" => stage # "idle" /\ (rec' = rec \/ (todo # <<>> /\ rec' = Eager(rec, op))))
      <4>1. todo # <<>> => Bound(Eager(rec, op))
        BY <1>1, <2>1, BoundKept DEF Moded
      <4> QED
        BY <3>1, <4>1 DEF Moded
    <3>2. CASE Notes /\ (stage' # "idle" => stage # "idle" /\ rec' = Patched(rec, op))
      <4>1. jrnl' = Patched(jrnl, op) /\ todo # <<>>
        BY <3>2 DEF Notes
      <4>2. Bound(Patched(jrnl, op)) /\ Bound(Patched(rec, op))
        <5>1. rec.mode = jrnl.mode
          BY <2>1, <4>1 DEF Noted
        <5> QED
          BY <1>1, <2>1, <4>1, <5>1, BoundKept DEF Moded
      <4> QED
        BY <3>2, <4>1, <4>2
    <3>3. CASE jrnl' = [jrnl EXCEPT !.phase = "quarantined"] /\ stage' = "idle"
      <4>1. Bound(jrnl')
        BY <1>1, <3>3 DEF Moded, Bound, Records
      <4> QED
        BY <3>3, <4>1
    <3>4. CASE Recover
      BY <3>4 DEF Recover, Moded
    <3> QED
      BY <1>3, <3>1, <3>2, <3>3, <3>4, RecordForms
  <2>3. Bound(jrnl)' /\ (stage' # "idle" => Bound(rec)')
    BY <1>1, <2>2 DEF Bound
  <2>4. /\ Linked(jrnl) => Linked(jrnl')
        /\ jrnl'.mode = "move" => jrnl.mode = "move"
        /\ jrnl'.mode # jrnl.mode => UNCHANGED dir /\ Seen("tgt") = "none"
    BY <1>3, JournalGrows
  <2>5. jrnl.mode = "move" => ~SamePath /\ At("tgt") = "tgt" /\ dir["rb"] = "none" /\ plan.kind # "inPlace"
    BY <1>1 DEF Moded, Bound, Noted, SamePath
  <2>6. CASE UNCHANGED dir
    <3>1. jrnl'.mode = "move" => /\ dir'["tgt"] \in {"none", "source"}
                                 /\ dir'["tgt"] = "source" /\ ~Linked(jrnl') => dir'["src"] = "none"
      BY <2>4, <2>6 DEF Moded
    <3>2. jrnl'.mode = "copy" /\ ~SamePath => dir'["tgt"] # "source"
      <4>1. jrnl.mode # "copy" /\ ~SamePath /\ jrnl'.mode = "copy" => dir["tgt"] = "none"
        BY <1>1, <2>4
      <4> QED
        BY <2>6, <4>1 DEF Moded
    <3>3. dir'["priv"] # "none" /\ Seen("tgt")' = "copy" => Linked(jrnl')
      BY <1>1, <2>4, <2>6 DEF Moded
    <3> QED
      BY <1>1, <2>3, <3>1, <3>2, <3>3 DEF Moded, Linked
  <2>7. CASE Acts \/ Renames
    <3>1. todo # <<>> /\ op \in Ops /\ stage \in {"commit", "cleanup", "recover"} /\ UNCHANGED jrnl
      BY <2>7, Ahead DEF Acts, Renames
    <3>2. stage = "commit" => /\ op \in Line(jrnl.mode)
                              /\ op.do = "link" => Linked(jrnl)
                              /\ op.do \in {"open", "copy"} => Seen("tgt") # "copy"
      BY HeadOfCommit DEF Linked
    <3>3. stage # "commit" => /\ op.do = "move" => op.to = "src"
                              /\ op.do \notin {"open", "copy", "link", "publish"}
      BY <3>1, HeadOfClearing DEF Clearing
    <3>4. op.do \in {"link", "publish"} =>
            /\ jrnl.mode = "move" => op.at = "src"
            /\ jrnl.mode = "copy" => op.at = "priv"
      BY <3>1, <3>2, <3>3 DEF Line
    <3>5. jrnl.mode = "move" /\ op.do = "move" => op.to = "src"
      BY <2>5, <3>1, <3>2, <3>3 DEF Line
    <3>6. Renames => op.do = "publish"
      BY DEF Renames
    <3>7. jrnl.mode = "move" => /\ dir'["tgt"] \in {"none", "source"}
                                /\ dir'["tgt"] = "source" /\ ~Linked(jrnl) => dir'["src"] = "none"
      <4> SUFFICES ASSUME jrnl.mode = "move"
                   PROVE  /\ dir'["tgt"] \in {"none", "source"}
                          /\ dir'["tgt"] = "source" /\ ~Linked(jrnl) => dir'["src"] = "none"
        OBVIOUS
      <4>1. /\ dir["tgt"] \in {"none", "source"}
            /\ dir["tgt"] = "source" /\ ~Linked(jrnl) => dir["src"] = "none"
        BY DEF Moded
      <4>2. op.do = "link" => Linked(jrnl)
        BY <3>1, <3>2, <3>3
      <4> QED
        BY <1>1, <2>5, <2>7, <3>4, <3>5, <3>6, <4>1, <4>2, DirForms DEF Names
    <3>8. jrnl.mode = "copy" /\ ~SamePath => dir'["tgt"] # "source"
      <4> SUFFICES ASSUME jrnl.mode = "copy", ~SamePath PROVE dir'["tgt"] # "source"
        OBVIOUS
      <4>1. dir["tgt"] # "source" /\ At("tgt") = "tgt"
        BY <1>1 DEF Moded
      <4> QED
        BY <1>1, <2>7, <3>4, <3>6, <4>1, DirForms DEF Names
    <3>9. dir'["priv"] # "none" /\ Seen("tgt")' = "copy" => Linked(jrnl)
      <4>1. op.do = "link" => Linked(jrnl)
        BY <3>1, <3>2, <3>3
      <4>2. op.do \in {"open", "copy"} => dir[At("tgt")] # "copy"
        BY <1>1, <3>1, <3>2, <3>3
      <4>3. dir["priv"] # "none" /\ dir[At("tgt")] = "copy" => Linked(jrnl)
        BY <1>1 DEF Moded
      <4> QED
        BY <1>1, <2>7, <3>6, <4>1, <4>2, <4>3, DirForms DEF Names
    <3> QED
      BY <1>1, <2>3, <3>1, <3>7, <3>8, <3>9 DEF Moded, Linked
  <2> QED
    BY <2>6, <2>7, DirForms
<1> QED
  BY <1>2, <1>3

-----------------------------------------------------------------------------
(* A commit notes what it does before it does it.                           *)

\* A program of S whose operations are all in T.
LEMMA Within ==
  ASSUME NEW S, NEW T, NEW s \in Seq(S), \A i \in 1..Len(s) : s[i] \in T
  PROVE  s \in Seq(T)
OBVIOUS

\* The commit's own program does, and keeps to its line.
LEMMA ForwardOrdered ==
  ASSUME NEW r \in Records
  PROVE  Forward(r) \in Seq(Line(r.mode)) /\ Ordered(Forward(r), r)
<1> DEFINE s == Forward(r)
<1> USE DEF Install, Op, Check, Flush, Advance
<1>1. s \in Seq(Forwarding) /\ \A i \in 1..Len(s) : s[i] \in Forwarding
  BY ForwardTyped
<1>2. CASE plan.kind = "inPlace"
  <2>1. s = <<Check("src", "source"), Flush("src"), Check("tgt", "source")>> \o Install("source")
    BY <1>2 DEF Forward
  <2>2. /\ Len(s) = 6
        /\ \A i \in 1..6 : s[i].do \in {"check", "flush", "install", "commit"}
        /\ \A i \in 1..6 : s[i].do \in {"install", "commit"} => s[i].id = "source"
    BY <2>1
  <2> HIDE DEF s
  <2>3. \A i \in 1..Len(s) : s[i] \in Line(r.mode)
    BY <1>1, <1>2, <2>2 DEF Line
  <2>4. s \in Seq(Line(r.mode)) /\ Ordered(s, r)
    BY <1>1, <2>2, <2>3, Within DEF Ordered
  <2> QED
    BY <2>4 DEF s
<1>3. CASE plan.kind # "inPlace" /\ r.mode = "move"
  <2>1. s = <<Op("publish", "src", "source"), Flush("tgt")>> \o Install("source")
    BY <1>3 DEF Forward
  <2>2. /\ Len(s) = 5
        /\ \A i \in 1..5 : s[i].do \in {"publish", "check", "flush", "install", "commit"}
        /\ \A i \in 1..5 : s[i].do \in {"install", "commit"} => s[i].id = "source"
        /\ \A i \in 1..5 : s[i].do = "publish" => s[i].at = "src"
    BY <2>1
  <2> HIDE DEF s
  <2>3. \A i \in 1..Len(s) : s[i] \in Line(r.mode)
    BY <1>1, <1>3, <2>2 DEF Line
  <2>4. s \in Seq(Line(r.mode)) /\ Ordered(s, r)
    BY <1>1, <2>2, <2>3, Within DEF Ordered
  <2> QED
    BY <2>4 DEF s
<1>4. CASE plan.kind # "inPlace" /\ r.mode # "move" /\ ~SamePath
  <2>1. s = <<>> \o CopyAndPublish \o Install("copy")
    BY <1>4 DEF Forward
  <2>2. /\ Len(s) = 12 /\ s[1].do = "notePrivate"
        /\ \A i \in 1..12 : s[i].do \notin {"copyMode", "link", "move"}
        /\ \A i \in 1..12 : s[i].do \in {"install", "commit"} => s[i].id = "copy"
        /\ \A i \in 1..12 : s[i].do = "publish" => s[i].at = "priv" /\ i = 7
        /\ \A i \in 1..12 : s[i].do \in {"open", "copy"} => i \in {2, 3}
    BY <2>1 DEF CopyAndPublish
  <2> HIDE DEF s
  <2>3. \A i \in 1..Len(s) : s[i] \in Line(r.mode)
    BY <1>1, <1>4, <2>2 DEF Line
  <2>4. s \in Seq(Line(r.mode))
    BY <1>1, <2>3, Within
  <2>5. ASSUME NEW i \in 1..Len(s)
        PROVE  /\ s[i].do # "link" /\ s[i].do # "move"
               /\ s[i].do \in {"open", "copy"} =>
                    /\ 1 \in 1..(i-1)
                    /\ \A j \in 1..(i-1) : s[j].do \notin {"publish", "link"}
    BY <2>2, <2>5
  <2>6. Ordered(s, r)
    BY <2>2, <2>5 DEF Ordered
  <2> QED
    BY <2>4, <2>6 DEF s
<1>5. CASE plan.kind # "inPlace" /\ r.mode # "move" /\ SamePath
  <2>1. s = PreserveSource \o CopyAndPublish \o Install("copy")
    BY <1>5 DEF Forward
  <2>2. /\ Len(s) = 16 /\ s[1].do = "noteRollback" /\ s[5].do = "notePrivate"
        /\ \A i \in 1..16 : s[i].do \notin {"copyMode", "link"}
        /\ \A i \in 1..16 : s[i].do \in {"install", "commit"} => s[i].id = "copy"
        /\ \A i \in 1..16 : s[i].do = "publish" => s[i].at = "priv" /\ i = 11
    BY <2>1 DEF CopyAndPublish, PreserveSource, Move
  <2>5. /\ \A i \in 1..16 : s[i].do = "move" => i = 2
        /\ \A i \in 1..16 : s[i].do \in {"open", "copy"} => i \in {6, 7}
    BY <2>1 DEF CopyAndPublish, PreserveSource, Move
  <2> HIDE DEF s
  <2>3. \A i \in 1..Len(s) : s[i] \in Line(r.mode)
    BY <1>1, <1>5, <2>2 DEF Line
  <2>4. s \in Seq(Line(r.mode))
    BY <1>1, <2>3, Within
  <2>6. ASSUME NEW i \in 1..Len(s)
        PROVE  /\ s[i].do # "link"
               /\ s[i].do = "move" => 1 \in 1..(i-1)
               /\ s[i].do \in {"open", "copy"} =>
                    /\ 5 \in 1..(i-1)
                    /\ \A j \in 1..(i-1) : s[j].do \notin {"publish", "link"}
    <3>1. s[i].do # "link" /\ (s[i].do = "move" => i = 2) /\ (s[i].do \in {"open", "copy"} => i \in {6, 7})
      BY <2>2, <2>5, <2>6
    <3>2. i \in {6, 7} => /\ 5 \in 1..(i-1)
                          /\ \A j \in 1..(i-1) : j \in 1..16 /\ j # 11
      OBVIOUS
    <3>3. \A j \in 1..16 : j # 11 => s[j].do \notin {"publish", "link"}
      BY <2>2
    <3>4. i = 2 => 1 \in 1..(i-1)
      OBVIOUS
    <3> QED
      BY <3>1, <3>2, <3>3, <3>4
  <2>7. Ordered(s, r)
    BY <2>2, <2>6 DEF Ordered
  <2> QED
    BY <2>4, <2>7 DEF s
<1> QED
  BY <1>2, <1>3, <1>4, <1>5

\* What remains of a program, with what its first operation noted.
LEMMA OrderedRest ==
  ASSUME NEW S, NEW s \in Seq(S), s # <<>>, NEW r, Ordered(s, r), NEW q,
         r.link # "none" \/ s[1].do = "noteLink" => q.link # "none",
         r.rb \/ s[1].do = "noteRollback" => q.rb,
         r.priv \/ s[1].do = "notePrivate" => q.priv
  PROVE  /\ Ordered(Tail(s), q)
         /\ (\E i \in 1..Len(Tail(s)) : Tail(s)[i].do \in {"open", "copy"}) =>
              /\ \E i \in 1..Len(s) : s[i].do \in {"open", "copy"}
              /\ s[1].do \notin {"publish", "link"}
<1> DEFINE t == Tail(s)
<1>1. Len(s) \in Nat \ {0} /\ Len(t) = Len(s) - 1 /\ \A i \in 1..Len(t) : t[i] = s[i+1] /\ i+1 \in 1..Len(s)
  BY Rest
<1> HIDE DEF t
<1>2. ASSUME NEW i \in 1..Len(t), NEW j \in 1..((i+1)-1)
      PROVE  j = 1 \/ (j - 1 \in 1..(i-1) /\ t[j-1] = s[j])
  BY <1>1, <1>2
<1>3. ASSUME NEW i \in 1..Len(t)
      PROVE  /\ 1 \in 1..((i+1)-1)
             /\ \A j \in 1..(i-1) : j+1 \in 1..((i+1)-1) /\ t[j] = s[j+1]
  BY <1>1
<1>4. ASSUME NEW i \in 1..Len(t), t[i].do = "link"
      PROVE  q.link # "none" \/ \E j \in 1..(i-1) : t[j].do = "noteLink"
  <2>1. t[i] = s[i+1] /\ i+1 \in 1..Len(s)
    BY <1>1
  <2>2. r.link # "none" \/ \E j \in 1..((i+1)-1) : s[j].do = "noteLink"
    BY <1>4, <2>1 DEF Ordered
  <2> QED
    BY <1>2, <2>2
<1>5. ASSUME NEW i \in 1..Len(t), t[i].do = "move"
      PROVE  q.rb \/ \E j \in 1..(i-1) : t[j].do = "noteRollback"
  <2>1. t[i] = s[i+1] /\ i+1 \in 1..Len(s)
    BY <1>1
  <2>2. r.rb \/ \E j \in 1..((i+1)-1) : s[j].do = "noteRollback"
    BY <1>5, <2>1 DEF Ordered
  <2> QED
    BY <1>2, <2>2
<1>6. ASSUME NEW i \in 1..Len(t), t[i].do \in {"open", "copy"}
      PROVE  /\ q.priv \/ \E j \in 1..(i-1) : t[j].do = "notePrivate"
             /\ \A j \in 1..(i-1) : t[j].do \notin {"publish", "link"}
             /\ s[1].do \notin {"publish", "link"}
             /\ \E k \in 1..Len(s) : s[k].do \in {"open", "copy"}
  <2>1. t[i] = s[i+1] /\ i+1 \in 1..Len(s)
    BY <1>1
  <2>2. /\ r.priv \/ \E j \in 1..((i+1)-1) : s[j].do = "notePrivate"
        /\ \A j \in 1..((i+1)-1) : s[j].do \notin {"publish", "link"}
    BY <1>6, <2>1 DEF Ordered
  <2>3. \E k \in 1..Len(s) : s[k].do \in {"open", "copy"}
    BY <1>6, <2>1
  <2>4. q.priv \/ \E j \in 1..(i-1) : t[j].do = "notePrivate"
    BY <1>2, <2>2
  <2>5. s[1].do \notin {"publish", "link"}
    BY <1>3, <2>2
  <2>6. \A j \in 1..(i-1) : t[j].do \notin {"publish", "link"}
    BY <1>3, <2>2
  <2> QED
    BY <2>3, <2>4, <2>5, <2>6
<1>7. Ordered(t, q)
  BY <1>4, <1>5, <1>6 DEF Ordered
<1> QED
  BY <1>1, <1>6, <1>7 DEF t

\* A publication that is done by a link.
LEMMA OrderedLink ==
  ASSUME NEW S, NEW s \in Seq(S), s # <<>>, NEW r, Ordered(s, r), s[1].do = "publish",
         NEW at, NEW id, NEW t,
         t = <<Op("check", at, id), Op("noteLink", at, id), Op("link", at, id), Op("confirmLink", at, id)>> \o Tail(s)
  PROVE  Ordered(t, r) /\ \A i \in 1..Len(t) : t[i].do \notin {"open", "copy"}
<1> DEFINE b == Tail(s)
<1>1. b \in Seq(S)
  BY Rest
<1>2. Ordered(b, r) /\ \A i \in 1..Len(b) : b[i].do \notin {"open", "copy"}
  BY OrderedRest
<1> HIDE DEF b
<1>3. /\ Len(b) \in Nat /\ Len(t) = 4 + Len(b)
      /\ t[1] = Op("check", at, id) /\ t[2] = Op("noteLink", at, id)
      /\ t[3] = Op("link", at, id) /\ t[4] = Op("confirmLink", at, id)
      /\ \A i \in 5..(4 + Len(b)) : t[i] = b[i - 4]
  BY <1>1, InFront DEF b
<1>4. t[1].do = "check" /\ t[2].do = "noteLink" /\ t[3].do = "link" /\ t[4].do = "confirmLink"
  BY <1>3 DEF Op
<1>5. ASSUME NEW i \in 1..Len(t)
      PROVE  i \in {1, 2, 3, 4} \/ (i \in 5..(4 + Len(b)) /\ i - 4 \in 1..Len(b) /\ t[i] = b[i - 4])
  BY <1>3, <1>5
<1>6. \A i \in 1..Len(t) : t[i].do \notin {"open", "copy"}
  BY <1>2, <1>4, <1>5
<1>7. ASSUME NEW i \in 1..Len(t), t[i].do = "link"
      PROVE  r.link # "none" \/ \E j \in 1..(i-1) : t[j].do = "noteLink"
  <2>1. i # 1 /\ i # 2 /\ i > 2
    BY <1>3, <1>4, <1>7
  <2>2. 2 \in 1..(i-1)
    BY <2>1
  <2> QED
    BY <1>4, <2>2
<1>8. ASSUME NEW i \in 1..Len(t), t[i].do = "move"
      PROVE  r.rb \/ \E j \in 1..(i-1) : t[j].do = "noteRollback"
  <2>1. i - 4 \in 1..Len(b) /\ t[i] = b[i - 4]
    BY <1>4, <1>5, <1>8
  <2>2. r.rb \/ \E j \in 1..(i-4-1) : b[j].do = "noteRollback"
    BY <1>2, <1>8, <2>1 DEF Ordered
  <2>3. \A j \in 1..(i-4-1) : j+4 \in 1..(i-1) /\ t[j+4] = b[j]
    <3> TAKE j \in 1..(i-4-1)
    <3>1. j + 4 \in 5..(4 + Len(b)) /\ (j + 4) - 4 = j /\ j + 4 \in 1..(i-1)
      BY <1>3, <2>1
    <3> QED
      BY <1>3, <3>1
  <2> QED
    BY <2>2, <2>3
<1> QED
  BY <1>6, <1>7, <1>8 DEF Ordered

\* What a commit has still to do after a step.
LEMMA CommittingNow ==
  ASSUME UNCHANGED plan, flushed \subseteq flushed', NEW s, NEW r,
         todo' = s, rec' = r, s \in Seq(Line(r.mode)), Ordered(s, r),
         (\E i \in 1..Len(s) : s[i].do \in {"open", "copy"}) => dir'[At("tgt")] # "copy",
         \A n \in Names : quar'[n] = "none"
  PROVE  Committing'
<1>1. Seen("tgt")' = dir'[At("tgt")]
  BY DEF Seen, At, SamePath
<1>2. todo' \in Seq(Line(rec.mode))'
  <2> DEFINE L == Line(r.mode)
             M == Line(rec.mode)'
  <2>1. L \subseteq M
    BY OpsGrow DEF Line
  <2> HIDE DEF L, M
  <2>2. todo' \in Seq(M)
    BY <2>1, Wider DEF L
  <2> QED
    BY <2>2 DEF M
<1>3. Ordered(todo, rec)'
  BY DEF Ordered
<1> QED
  BY <1>1, <1>2, <1>3 DEF Committing

\* Each step of a commit keeps its line and its order.
LEMMA CommittingStep ==
  ASSUME TypeOK, Placed, Staged, Committing, Closed, [Next]_vars, ~Tamper
  PROVE  Committing'
<1> SUFFICES ASSUME stage' = "commit" PROVE Committing'
  BY DEF Committing
<1> DEFINE op == Head(todo)
<1>1. UNCHANGED plan /\ flushed \subseteq flushed' /\ rec \in Records /\ dir \in [Names -> Artifacts]
  BY FilesStep DEF TypeOK
<1>2. \A r : ~Throws(r)
  BY DEF Throws
<1>3. \A s, r : Goes(s, r) => todo' = s /\ rec' = r /\ stage = "commit"
  BY DEF Goes
<1>4. stage = "commit" =>
        /\ todo # <<>> /\ todo \in Seq(Line(rec.mode)) /\ Ordered(todo, rec) /\ op = todo[1]
        /\ op \in Line(rec.mode) /\ op \in Forwarding
        /\ (\E i \in 1..Len(todo) : todo[i].do \in {"open", "copy"}) => dir[At("tgt")] # "copy"
        /\ \A n \in Names : quar[n] = "none"
  BY HeadOfCommit, Ahead DEF Committing, Seen
<1>5. ASSUME stage = "commit", NEW q, q.mode = rec.mode,
             rec.link # "none" \/ op.do = "noteLink" => q.link # "none",
             rec.rb \/ op.do = "noteRollback" => q.rb,
             rec.priv \/ op.do = "notePrivate" => q.priv,
             todo' = Tail(todo), rec' = q,
             UNCHANGED dir \/ Acts \/ Renames,
             \A n \in Names : quar'[n] = "none"
      PROVE  Committing'
  <2> DEFINE t == Tail(todo)
  <2>1. t \in Seq(Line(q.mode))
    BY <1>4, <1>5, Rest
  <2>2. /\ Ordered(t, q)
        /\ (\E i \in 1..Len(t) : t[i].do \in {"open", "copy"}) =>
             /\ \E i \in 1..Len(todo) : todo[i].do \in {"open", "copy"}
             /\ op.do \notin {"publish", "link"}
    BY <1>4, <1>5, OrderedRest
  <2> HIDE DEF t
  <2>3. dir[At("tgt")] # "copy" /\ op.do \notin {"publish", "link"} => dir'[At("tgt")] # "copy"
    <3>1. CASE Acts
      <4>1. At("tgt") \in {"src", "tgt"}
        BY DEF At
      <4> QED
        BY <1>1, <3>1, <4>1, DirForms DEF Renames, Names
    <3>2. CASE Renames
      BY <3>2 DEF Renames
    <3> QED
      BY <1>5, <3>1, <3>2
  <2> QED
    BY <1>1, <1>4, <1>5, <2>1, <2>2, <2>3, CommittingNow DEF t
<1>6. CASE Acts \/ Renames
  <2>1. Goes(Tail(todo), rec) /\ stage = "commit"
    BY <1>2, <1>3, <1>6 DEF Acts, Renames
  <2>2. \A n \in Names : quar'[n] = "none"
    <3>1. op.do \notin {"isolate", "erase"}
      BY <1>4, <2>1 DEF Forwarding
    <3>2. UNCHANGED quar
      BY <1>6, <3>1 DEF Acts, Renames, Applied
    <3> QED
      BY <1>4, <2>1, <3>2
  <2>3. op.do \notin {"noteLink", "noteRollback", "notePrivate"}
    BY <1>6 DEF Acts, Renames, FileOps
  <2> QED
    BY <1>3, <1>5, <1>6, <2>1, <2>2, <2>3
<1>7. CASE Fails
  BY <1>2, <1>7 DEF Fails
<1>8. CASE Decides
  <2>1. stage = "commit" /\ UNCHANGED <<dir, quar>> /\ op \in Ops
    BY <1>3, <1>8 DEF Decides
  <2>2. op.do \notin {"survive", "resume", "recover"}
    BY <1>4, <2>1 DEF Forwarding
  <2>3. \A n \in Names : quar'[n] = "none"
    BY <1>4, <2>1
  <2>4. CASE op.do = "check" /\ Goes(Tail(todo), rec)
    BY <1>3, <1>5, <2>1, <2>3, <2>4
  <2>5. CASE op.do = "check" /\ Goes(Quarantine, rec)
    <3> DEFINE s == Quarantine
    <3>1. s \in Seq(Forwarding) /\ Len(s) = 1 /\ s[1].do = "quarantine"
      BY EndsTyped DEF Quarantine, Op
    <3> HIDE DEF s
    <3>2. \A i \in 1..Len(s) : s[i] \in Line(rec.mode)
      <4> DEFINE x == s[1]
      <4>1. 1 \in 1..Len(s) /\ x \in Forwarding /\ x.do = "quarantine"
        BY <3>1
      <4> HIDE DEF x
      <4>2. x \in Line(rec.mode)
        BY ONLY <4>1 DEF Line
      <4> QED
        BY <3>1, <4>2 DEF x
    <3>3. s \in Seq(Line(rec.mode)) /\ Ordered(s, rec)
      BY <3>1, <3>2, Within DEF Ordered
    <3>4. todo' = s /\ rec' = rec
      BY <1>3, <2>5 DEF s
    <3> QED
      BY <1>1, <2>3, <3>1, <3>3, <3>4, CommittingNow
  <2>6. CASE op.do = "publish" /\ op.at = "src" /\ Goes(<<Check("src", "source"), Op("copyMode", "src", "none")>>, rec)
    <3> DEFINE s == <<Check("src", "source"), Op("copyMode", "src", "none")>>
    <3>1. rec.mode = "move" /\ plan.kind # "inPlace"
      BY <1>4, <2>1, <2>6 DEF Line
    <3>2. s \in Seq(Forwarding) /\ Len(s) = 2 /\ s[1].do = "check" /\ s[2].do = "copyMode"
      BY DEF Forwarding, Ops, Op, Check, At, Dos, FileOps, JournalOps, Names, Artifacts, Phases
    <3> HIDE DEF s
    <3>3. \A i \in 1..Len(s) : s[i] \in Line(rec.mode)
      <4> DEFINE x == s[1]
                 y == s[2]
      <4>1. /\ 1 \in 1..Len(s) /\ 2 \in 1..Len(s)
            /\ x \in Forwarding /\ x.do = "check" /\ y \in Forwarding /\ y.do = "copyMode"
        BY <3>2
      <4> HIDE DEF x, y
      <4>2. x \in Line(rec.mode) /\ y \in Line(rec.mode)
        BY ONLY <3>1, <4>1 DEF Line
      <4> QED
        BY <3>2, <4>2 DEF x, y
    <3>4. s \in Seq(Line(rec.mode)) /\ Ordered(s, rec) /\ ~\E i \in 1..Len(s) : s[i].do \in {"open", "copy"}
      BY <3>2, <3>3, Within DEF Ordered
    <3>5. todo' = s /\ rec' = rec
      BY <1>3, <2>6 DEF s
    <3> QED
      BY <1>1, <2>3, <3>4, <3>5, CommittingNow
  <2>7. CASE op.do = "publish" /\ Goes(Linking(op) \o Tail(todo), rec)
    <3> DEFINE s == Linking(op) \o Tail(todo)
               a == Linking(op)
    <3>1. (op.at = "src" /\ op.id = "source") \/ (op.at = "priv" /\ op.id = "copy")
      BY <2>1, <2>7 DEF Ops
    <3>2. a = <<Op("check", op.at, op.id), Op("noteLink", op.at, op.id), Op("link", op.at, op.id), Op("confirmLink", op.at, op.id)>>
      BY <3>1 DEF Linking, Check, At
    <3>3. a \in Seq(Line(rec.mode))
      <4>1. plan.kind # "inPlace" /\ (rec.mode = "move" => op.at = "src") /\ (rec.mode # "move" => op.at = "priv")
        BY <1>4, <2>1, <2>7 DEF Line
      <4> DEFINE w == Op("check", op.at, op.id)
                 x == Op("noteLink", op.at, op.id)
                 y == Op("link", op.at, op.id)
                 z == Op("confirmLink", op.at, op.id)
      <4>4. w \in Forwarding /\ x \in Forwarding /\ y \in Forwarding /\ z \in Forwarding
        BY <3>1 DEF Forwarding, Ops, Op, Dos, FileOps, JournalOps, Names, Artifacts
      <4>5. \A o \in {w, x, y, z} : o.do \in {"check", "noteLink", "link", "confirmLink"} /\ o.at = op.at
        BY DEF Op
      <4>6. a = <<w, x, y, z>>
        BY <3>2
      <4> HIDE DEF w, x, y, z
      <4>2. a \in Seq(Forwarding) /\ \A i \in 1..Len(a) : a[i].do \in {"check", "noteLink", "link", "confirmLink"} /\ a[i].at = op.at
        <5> HIDE DEF a
        <5>1. a \in Seq(Forwarding)
          BY <4>4, <4>6
        <5>2. Len(a) = 4 /\ a[1] = w /\ a[2] = x /\ a[3] = y /\ a[4] = z
          BY <4>6
        <5> QED
          BY <4>5, <5>1, <5>2
      <4> HIDE DEF a
      <4>3. \A i \in 1..Len(a) : a[i] \in Line(rec.mode)
        BY <4>1, <4>2 DEF Line
      <4> QED
        BY <4>2, <4>3, Within
    <3>4. Tail(todo) \in Seq(Line(rec.mode))
      BY <1>4, <2>1, Rest
    <3>5. Ordered(s, rec) /\ \A i \in 1..Len(s) : s[i].do \notin {"open", "copy"}
      BY <1>4, <2>1, <2>7, <3>2, OrderedLink
    <3>6. s \in Seq(Line(rec.mode))
      BY <3>3, <3>4, Joined
    <3>7. todo' = s /\ rec' = rec
      BY <1>3, <2>7
    <3> HIDE DEF s
    <3> QED
      BY <1>1, <2>3, <3>5, <3>6, <3>7, CommittingNow
  <2> QED
    BY <1>8, <2>2, <2>4, <2>5, <2>6, <2>7 DEF Decides
<1>9. CASE Notes
  <2> DEFINE r == Patched(rec, op)
  <2>1. stage = "commit" /\ UNCHANGED <<dir, quar>> /\ op \in Ops /\ ~Refused(op)
    BY <1>3, <1>9 DEF Notes
  <2>2. \A n \in Names : quar'[n] = "none"
    BY <1>4, <2>1
  <2>3. /\ op.do # "copyMode" => r.mode = rec.mode
        /\ rec.link # "none" \/ op.do = "noteLink" => r.link # "none"
        /\ rec.rb \/ op.do = "noteRollback" => r.rb
        /\ rec.priv \/ op.do = "notePrivate" => r.priv
    BY <1>1, <2>1, PatchedFields
  <2>4. r \in Records
    BY <1>1, <2>1, PatchedTyped DEF Staged
  <2> HIDE DEF r
  <2>5. CASE op.do = "copyMode" /\ Goes(Forward(r), r)
    <3>1. Forward(r) \in Seq(Line(r.mode)) /\ Ordered(Forward(r), r)
      BY <2>4, ForwardOrdered
    <3>2. dir'[At("tgt")] # "copy"
      BY <2>1, <2>5 DEF Refused, Seen
    <3>3. todo' = Forward(r) /\ rec' = r
      BY <1>3, <2>5
    <3> QED
      BY <1>1, <2>2, <3>1, <3>2, <3>3, CommittingNow
  <2>6. CASE op.do \notin {"copyMode", "commit"} /\ Goes(Tail(todo), r)
    <3>1. todo' = Tail(todo) /\ rec' = r
      BY <1>3, <2>6
    <3> QED
      BY <1>5, <2>1, <2>2, <2>3, <2>6, <3>1
  <2> QED
    BY <1>9, <2>5, <2>6 DEF Notes, r
<1>10. CASE QuarantineStep \/ Recover \/ Crash
  BY <1>10 DEF QuarantineStep, Recover, Crash, Goes
<1>11. CASE Commit
  <2>1. UNCHANGED <<dir, quar>> /\ rec' = Fresh /\ todo' = Forward(Fresh) /\ dir[At("tgt")] # "copy" /\ \A n \in Names : quar[n] = "none"
    BY <1>11, Beginning DEF Commit, At
  <2>2. Forward(Fresh) \in Seq(Line(Fresh.mode)) /\ Ordered(Forward(Fresh), Fresh)
    BY FreshTyped, ForwardOrdered
  <2> QED
    BY <1>1, <2>1, <2>2, CommittingNow
<1>12. CASE UNCHANGED vars
  <2>1. stage = "commit" /\ todo' = todo /\ rec' = rec /\ UNCHANGED <<dir, quar>>
    BY <1>12 DEF vars
  <2> QED
    BY <1>1, <1>4, <2>1, CommittingNow
<1> QED
  BY <1>6, <1>7, <1>8, <1>9, <1>10, <1>11, <1>12, StepForms

-----------------------------------------------------------------------------
(* A removal is announced before an artifact is isolated for it.            *)

\* What remains of a clean-up, unless it has just announced a removal.
LEMMA ProgramRest ==
  ASSUME NEW S, NEW s \in Seq(S), s # <<>>, Program(s)
  PROVE  /\ s[1].do # "intend" => Program(Tail(s))
         /\ s[1].do = "intend" =>
              /\ Tail(s) # <<>> /\ Program(Tail(Tail(s))) /\ s[1].id # "none"
              /\ Head(Tail(s)).do = "survive" /\ Head(Tail(s)).at = s[1].at /\ Head(Tail(s)).id = s[1].id
<1> DEFINE t == Tail(s)
           u == Tail(t)
<1>1. Len(s) \in Nat \ {0} /\ t \in Seq(S) /\ Len(t) = Len(s) - 1 /\ \A i \in 1..Len(t) : t[i] = s[i+1] /\ i+1 \in 1..Len(s)
  BY Rest
<1>2. CASE s[1].do # "intend"
  <2>1. ASSUME NEW i \in 1..Len(t)
        PROVE  /\ t[i] = s[i+1] /\ i+1 \in 1..Len(s) /\ (i < Len(t) <=> i+1 < Len(s)) /\ (i = Len(t) <=> i+1 = Len(s))
               /\ i < Len(t) => t[i+1] = s[(i+1)+1]
               /\ i > 1 => t[i-1] = s[(i+1)-1]
               /\ i = 1 => (i+1)-1 = 1
    BY <1>1, <2>1
  <2>2. ASSUME NEW i \in 1..Len(t), t[i].do = "survive" PROVE i > 1 /\ t[i-1].do = "intend"
    <3>1. s[(i+1)-1].do = "intend"
      BY <2>1, <2>2 DEF Program
    <3>2. i # 1
      BY <1>2, <2>1, <3>1
    <3>3. i > 1
      BY <1>1, <2>2, <3>2
    <3> QED
      BY <2>1, <3>1, <3>3
  <2> HIDE DEF t
  <2>3. Program(t)
    BY <2>1, <2>2 DEF Program
  <2> QED
    BY <1>2, <2>3 DEF t
<1>3. CASE s[1].do = "intend"
  <2>0. 1 \in 1..Len(s)
    BY <1>1
  <2>1. 1 < Len(s) /\ s[1+1].do = "survive" /\ s[1+1].at = s[1].at /\ s[1+1].id = s[1].id /\ s[1].id # "none"
    BY <1>3, <2>0 DEF Program
  <2>7. 1 \in 1..Len(t)
    BY <1>1, <2>1
  <2>2. t # <<>> /\ Head(t) = s[1+1]
    <3> HIDE DEF t
    <3>1. t[1] = s[1+1]
      BY <1>1, <2>7
    <3>2. t # <<>>
      BY <2>7
    <3> QED
      BY <1>1, <3>1, <3>2, Rest
  <2> HIDE DEF t
  <2>3. Len(t) \in Nat \ {0} /\ Len(u) = Len(t) - 1 /\ \A i \in 1..Len(u) : u[i] = t[i+1] /\ i+1 \in 1..Len(t)
    BY <1>1, <2>2, Rest
  <2>4. ASSUME NEW i \in 1..Len(u)
        PROVE  /\ u[i] = s[i+2] /\ i+2 \in 1..Len(s) /\ (i < Len(u) <=> i+2 < Len(s)) /\ (i = Len(u) <=> i+2 = Len(s))
               /\ i < Len(u) => u[i+1] = s[(i+2)+1]
               /\ i > 1 => u[i-1] = s[(i+2)-1]
               /\ i = 1 => (i+2)-1 = 1+1
    <3>1. i+1 \in 1..Len(t) /\ u[i] = t[i+1] /\ (i+1)+1 \in 1..Len(s) /\ t[i+1] = s[(i+1)+1] /\ (i+1)+1 = i+2
      BY <1>1, <2>3, <2>4
    <3>2. i < Len(u) => i+1 \in 1..Len(u) /\ u[i+1] = s[((i+1)+1)+1] /\ ((i+1)+1)+1 = (i+2)+1
      <4> SUFFICES ASSUME i < Len(u) PROVE i+1 \in 1..Len(u) /\ u[i+1] = s[((i+1)+1)+1] /\ ((i+1)+1)+1 = (i+2)+1
        OBVIOUS
      <4>1. i+1 \in 1..Len(u)
        BY <2>3, <2>4
      <4>2. u[i+1] = t[(i+1)+1] /\ (i+1)+1 \in 1..Len(t)
        BY <2>3, <4>1
      <4> QED
        BY <1>1, <4>1, <4>2
    <3>3. i > 1 => u[i-1] = s[(i+2)-1]
      <4> SUFFICES ASSUME i > 1 PROVE u[i-1] = s[(i+2)-1]
        OBVIOUS
      <4>1. i-1 \in 1..Len(u) /\ (i-1)+1 = i /\ i+1 = (i+2)-1
        BY <2>3, <2>4
      <4>2. u[i-1] = t[i] /\ i \in 1..Len(t)
        BY <2>3, <4>1
      <4> QED
        BY <1>1, <4>1, <4>2
    <3>4. (i < Len(u) <=> i+2 < Len(s)) /\ (i = Len(u) <=> i+2 = Len(s)) /\ (i = 1 => (i+2)-1 = 1+1)
      BY <1>1, <2>3, <2>4
    <3> QED
      BY <3>1, <3>2, <3>3, <3>4
  <2>5. ASSUME NEW i \in 1..Len(u), u[i].do = "survive" PROVE i > 1 /\ u[i-1].do = "intend"
    <3>1. s[(i+2)-1].do = "intend"
      BY <2>4, <2>5 DEF Program
    <3>2. i # 1
      BY <2>1, <2>4, <3>1
    <3>3. i > 1
      BY <2>3, <2>5, <3>2
    <3> QED
      BY <2>4, <3>1, <3>3
  <2> HIDE DEF u
  <2>6. Program(u)
    BY <2>4, <2>5 DEF Program
  <2> QED
    BY <1>3, <2>1, <2>2, <2>6 DEF t, u
<1> QED
  BY <1>2, <1>3

\* The terminal transaction turns to a clean-up of everything but the target.
LEMMA CommitTurns ==
  ASSUME TypeOK, Staged, Ready, Untouched, Noted, Moded, Located, Committing,
         stage = "commit", Head(todo).do = "commit", NEW r, r = Patched(rec, Head(todo))
  PROVE  /\ CleanupLive(r) \in Seq(Bare) /\ CleanupLive(r) # <<>> /\ Program(CleanupLive(r))
         /\ \A n \in Names \ {At("tgt")} : dir[n] # "none" => Clears(CleanupLive(r), n)
         /\ Seen("tgt") = Head(todo).id
<1> DEFINE op == Head(todo)
<1>1. op \in Line(rec.mode) /\ rec = jrnl /\ todo # <<>> /\ op \in Ops /\ op = todo[1] /\ rec \in Records
      /\ Len(todo) \in Nat \ {0}
  BY HeadOfCommit, Ahead DEF TypeOK
<1>2. Seen("tgt") = op.id
  <2> DEFINE shown == Seen("tgt")
  <2>1. Sealed(todo, rec.tgtId, shown, flushed, Untouched)
    BY DEF Ready
  <2>2. 1 \in 1..Len(todo) /\ todo[1].do = "commit"
    BY <1>1
  <2> HIDE DEF shown
  <2>3. SealedAt(todo, 1, rec.tgtId, shown, flushed, Untouched)
    BY <2>1, <2>2 DEF Sealed
  <2>4. shown = todo[1].id
    BY <2>3 DEF SealedAt
  <2> QED
    BY <1>1, <2>4 DEF shown
<1> HIDE DEF op
<1>7. r = Patched(rec, op) /\ op.do = "commit"
  BY DEF op
<1>3. /\ r.mode = rec.mode /\ r.link = rec.link /\ (r.rb <=> rec.rb) /\ (r.priv <=> rec.priv) /\ r \in Records
  <2>1. r \in Records
    BY <1>1, <1>7, PatchedTyped DEF Staged
  <2>2. /\ r.mode = IF op.do = "copyMode" THEN "copy" ELSE rec.mode
        /\ r.rb <=> rec.rb \/ op.do = "noteRollback"
        /\ r.priv <=> rec.priv \/ op.do = "notePrivate"
        /\ r.link = IF op.do = "noteLink" THEN "intended" ELSE IF op.do = "confirmLink" THEN "confirmed" ELSE rec.link
    <3>1. rec \in Records /\ op \in Ops
      BY <1>1
    <3>2. r = Patched(rec, op)
      BY <1>7
    <3> QED
      BY ONLY <3>1, <3>2, PatchedFields
  <2>3. rec.rb \in BOOLEAN /\ rec.priv \in BOOLEAN /\ r.rb \in BOOLEAN /\ r.priv \in BOOLEAN
    BY <1>1, <2>1 DEF Records
  <2> QED
    BY <1>7, <2>1, <2>2, <2>3
<1>4. Knows(r)
  BY <1>1, <1>3 DEF Knows, Noted
<1>5. ~SamePath /\ r.mode = "move" /\ ~Linked(r) => dir["src"] = "none"
  <2> SUFFICES ASSUME ~SamePath, r.mode = "move", ~Linked(r) PROVE dir["src"] = "none"
    OBVIOUS
  <2>1. op.id = "source" /\ Seen("tgt") = dir["tgt"] /\ ~Linked(jrnl)
    BY <1>1, <1>3 DEF Line, Seen, At, SamePath, Linked
  <2> QED
    BY <1>1, <1>2, <1>3, <2>1 DEF Moded
<1>6. dir["priv"] # "none" => Linked(r)
  <2> SUFFICES ASSUME dir["priv"] # "none" PROVE Linked(r)
    OBVIOUS
  <2>1. jrnl.priv /\ jrnl.mode # "move" /\ plan.kind # "inPlace"
    BY DEF Noted, Moded, Bound
  <2>2. op.id = "copy"
    BY <1>1, <2>1 DEF Line
  <2> QED
    BY <1>1, <1>2, <1>3, <2>2 DEF Moded, Linked
<1> QED
  BY <1>2, <1>4, <1>5, <1>6, CleanupLiveClean DEF op

\* Two programs are the same that do the same one after the other.
LEMMA Same ==
  ASSUME NEW S, NEW s \in Seq(S), NEW t \in Seq(S), Len(s) = Len(t), \A i \in 1..Len(s) : s[i] = t[i]
  PROVE  s = t
OBVIOUS

\* Two programs of one operation.
LEMMA Pair == ASSUME NEW x, NEW y PROVE <<x>> \o <<y>> = <<x, y>>
<1> DEFINE S == {x, y}
           s == <<x>> \o <<y>>
           t == <<x, y>>
<1>1. s \in Seq(S) /\ Len(s) = 2 /\ s[1] = x /\ s[2] = y
  OBVIOUS
<1>2. t \in Seq(S) /\ Len(t) = 2 /\ t[1] = x /\ t[2] = y
  OBVIOUS
<1> HIDE DEF S, s, t
<1>3. s = t
  BY <1>1, <1>2, Same
<1> QED
  BY <1>3 DEF s, t

\* Artifacts are isolated and erased only where the journal says so.
LEMMA QuarForms ==
  ASSUME TypeOK, Placed, Staged, [Next]_vars
  PROVE  \/ UNCHANGED quar
         \/ /\ Acts /\ Head(todo).do = "isolate" /\ Head(todo).at \in Names
            /\ quar' = [quar EXCEPT ![Head(todo).at] = dir[Head(todo).at]]
         \/ /\ Acts /\ Head(todo).do = "erase" /\ Head(todo).at \in Names
            /\ quar' = [quar EXCEPT ![Head(todo).at] = "none"]
<1> DEFINE op == Head(todo)
<1>1. CASE Acts
  <2>1. op \in Ops /\ op.do \in FileOps /\ Applied(op)
    BY <1>1 DEF Acts
  <2>2. op.at \in Names
    BY <2>1 DEF Ops
  <2>3. \/ quar' = quar
        \/ op.do = "isolate" /\ quar' = [quar EXCEPT ![op.at] = dir[op.at]]
        \/ op.do = "erase" /\ quar' = [quar EXCEPT ![op.at] = "none"]
    BY <2>1 DEF Applied
  <2> QED
    BY <1>1, <2>2, <2>3
<1>2. CASE Renames \/ Fails \/ Decides \/ Notes \/ QuarantineStep \/ Commit \/ Recover \/ Crash \/ Tamper \/ UNCHANGED vars
  BY <1>2 DEF Renames, Fails, Decides, Notes, QuarantineStep, Commit, Recover, Crash, Tamper, vars, files
<1> QED
  BY <1>1, <1>2, StepForms

\* What the journal says of a removal after a step.
LEMMA RemovalForms ==
  ASSUME TypeOK, Placed, Staged, Announcing, Committing, [Next]_vars, ~Tamper
  PROVE  \/ UNCHANGED <<dir, quar>> /\ jrnl'.removal = jrnl.removal
         \/ jrnl'.removal = jrnl.removal /\ (Acts \/ Renames)
         \/ Commit
         \/ /\ Notes /\ Head(todo).do \in {"intend", "forget"} /\ Program(todo) /\ \A n \in Names : quar[n] = "none"
            /\ UNCHANGED quar
            /\ Head(todo).do = "intend" => /\ jrnl'.removal = [at |-> Head(todo).at, id |-> Head(todo).id]
                                           /\ Head(todo).id # "none"
            /\ Head(todo).do = "forget" => jrnl'.removal = NoRemoval
<1> DEFINE op == Head(todo)
<1>1. CASE Acts \/ Renames
  BY <1>1 DEF Acts, Renames
<1>2. CASE Notes
  <2>1. UNCHANGED <<dir, quar>> /\ jrnl' = Patched(jrnl, op) /\ jrnl \in Records /\ op \in Ops /\ todo # <<>>
    BY <1>2 DEF Notes, TypeOK
  <2>2. jrnl'.removal = IF op.do = "intend" THEN [at |-> op.at, id |-> op.id]
                        ELSE IF op.do = "forget" THEN NoRemoval ELSE jrnl.removal
    BY <2>1, PatchedFields
  <2>3. op.do \in {"intend", "forget"} => stage \in {"cleanup", "recover"}
    BY <2>1, Ahead DEF Forwarding
  <2>4. op.do \in {"intend", "forget"} => Program(todo) /\ \A n \in Names : quar[n] = "none"
    BY <2>3, HeadOfClearing
  <2>5. op.do = "intend" => op.id # "none"
    <3>1. op.do = "intend" => todo[1].id # "none"
      BY <2>1, <2>4, Ahead, ProgramRest
    <3> QED
      BY <2>1, <3>1, Ahead
  <2> QED
    BY <1>2, <2>1, <2>2, <2>4, <2>5
<1>3. CASE QuarantineStep
  BY <1>3 DEF QuarantineStep, files, TypeOK, Records
<1>4. CASE Fails \/ Decides \/ Recover \/ Crash \/ UNCHANGED vars
  BY <1>4 DEF Fails, Decides, Recover, Crash, vars, files
<1> QED
  BY <1>1, <1>2, <1>3, <1>4, StepForms

\* And isolates nothing that the journal does not announce.
LEMMA RemovalStep ==
  ASSUME TypeOK, Placed, Staged, Announcing, Committing, Closed, [Next]_vars, ~Tamper
  PROVE  /\ jrnl'.removal.id = "none" => jrnl'.removal = NoRemoval
         /\ \A n \in Names : quar'[n] # "none" => jrnl'.removal # NoRemoval /\ jrnl'.removal.at = n
<1> DEFINE op == Head(todo)
<1>1. /\ jrnl.removal.id = "none" => jrnl.removal = NoRemoval
      /\ \A n \in Names : quar[n] # "none" => jrnl.removal # NoRemoval /\ jrnl.removal.at = n
  BY DEF Announcing
<1>2. CASE UNCHANGED <<dir, quar>> /\ jrnl'.removal = jrnl.removal
  BY <1>1, <1>2
<1>3. CASE jrnl'.removal = jrnl.removal /\ (Acts \/ Renames)
  <2>1. CASE UNCHANGED quar
    BY <1>1, <1>3, <2>1
  <2>2. CASE Acts /\ op.do = "isolate" /\ op.at \in Names /\ quar' = [quar EXCEPT ![op.at] = dir[op.at]]
    <3>1. stage \in {"cleanup", "recover"}
      BY <2>2, Ahead DEF Acts, Forwarding
    <3>2. jrnl.removal = [at |-> op.at, id |-> op.id] /\ op.id # "none"
      BY <2>2, <3>1, HeadOfClearing
    <3>3. jrnl.removal # NoRemoval /\ jrnl.removal.at = op.at
      BY <3>2 DEF NoRemoval
    <3> QED
      BY <1>1, <1>3, <2>2, <3>3 DEF TypeOK
  <2>3. CASE Acts /\ op.do = "erase" /\ op.at \in Names /\ quar' = [quar EXCEPT ![op.at] = "none"]
    BY <1>1, <1>3, <2>3 DEF TypeOK
  <2> QED
    BY <2>1, <2>2, <2>3, QuarForms
<1>4. CASE Commit
  <2>1. UNCHANGED quar /\ jrnl'.removal = NoRemoval /\ \A n \in Names : quar[n] = "none"
    BY <1>4, Beginning, FreshTyped
  <2> QED
    BY <2>1
<1>5. CASE /\ Notes /\ op.do \in {"intend", "forget"} /\ Program(todo) /\ \A n \in Names : quar[n] = "none"
           /\ UNCHANGED quar
           /\ op.do = "intend" => jrnl'.removal = [at |-> op.at, id |-> op.id] /\ op.id # "none"
           /\ op.do = "forget" => jrnl'.removal = NoRemoval
  BY <1>5
<1> QED
  BY <1>2, <1>3, <1>4, <1>5, RemovalForms

\* A clean-up or a recovery goes on.
LEMMA AnnouncingGoes ==
  ASSUME TypeOK, Placed, Staged, Announcing, [Next]_vars, stage \in {"cleanup", "recover"}, Acts,
         NEW t, t = Tail(todo)
  PROVE  \/ Program(t) /\ \A n \in Names : quar'[n] = "none"
         \/ Removing(t) /\ Head(t).id # "none" /\ jrnl'.removal = [at |-> Head(t).at, id |-> Head(t).id]
<1> DEFINE op == Head(todo)
<1>1. /\ todo # <<>> /\ op.do \in FileOps /\ op \in Clearing /\ op = todo[1] /\ todo \in Seq(Clearing)
      /\ UNCHANGED jrnl /\ dir \in [Names -> Artifacts] /\ quar \in [Names -> Artifacts]
      /\ \A n \in Names : quar[n] # "none" => jrnl.removal # NoRemoval /\ jrnl.removal.at = n
  BY Ahead DEF Acts, Staged, Announcing, TypeOK
<1>2. CASE op.do \in {"move", "flush"}
  <2>1. Program(todo) /\ \A n \in Names : quar[n] = "none"
    BY <1>2, HeadOfClearing
  <2>2. UNCHANGED quar
    BY <1>2, QuarForms
  <2>3. Program(t)
    BY <1>1, <1>2, <2>1, ProgramRest
  <2> QED
    BY <2>1, <2>2, <2>3
<1>3. CASE op.do = "isolate"
  <2>1. Removing(todo) /\ op.id # "none" /\ jrnl.removal = [at |-> op.at, id |-> op.id]
    BY <1>3, HeadOfClearing
  <2>2. Program(Tail(t)) /\ Head(t).do = "erase" /\ Head(t).at = op.at /\ Head(t).id = op.id
    BY <1>3, <2>1 DEF Removing
  <2> QED
    BY <1>1, <2>1, <2>2 DEF Removing
<1>4. CASE op.do = "erase"
  <2>1. Removing(todo) /\ jrnl.removal = [at |-> op.at, id |-> op.id]
    BY <1>4, HeadOfClearing
  <2>2. Program(t)
    BY <1>4, <2>1 DEF Removing
  <2>3. op.at \in Names /\ quar' = [quar EXCEPT ![op.at] = "none"]
    BY <1>1, <1>4 DEF Acts, Applied, Clearing, Ops
  <2>4. \A n \in Names : quar[n] # "none" => n = op.at
    BY <1>1, <2>1
  <2>5. \A n \in Names : quar'[n] = "none"
    BY <1>1, <2>3, <2>4
  <2> QED
    BY <2>2, <2>5
<1> QED
  BY <1>1, <1>2, <1>3, <1>4 DEF FileOps, Clearing

\* So does each step of a clean-up or a recovery.
LEMMA AnnouncingStep ==
  ASSUME IInv, Undecided, Untouched, Located, Noted, Moded, Announcing, Committing, Closed, [Next]_vars, ~Tamper
  PROVE  Announcing'
<1> DEFINE op == Head(todo)
           Quiet == \A n \in Names : quar'[n] = "none"
           Clearing2 == stage' \in {"cleanup", "recover"}
           Goal ==
             \/ Program(todo') /\ (Head(todo').do = "quarantine" \/ Quiet)
             \/ /\ Removing(todo') /\ Head(todo').id # "none"
                /\ jrnl'.removal = [at |-> Head(todo').at, id |-> Head(todo').id]
             \/ todo' = Resuming /\ rec'.removal = jrnl'.removal /\ jrnl'.removal # NoRemoval
<1>1. TypeOK /\ Placed /\ Staged /\ Ready /\ Kept
  BY DEF IInv
<1> SUFFICES ASSUME Clearing2 PROVE Goal
  <2>1. Clearing2 => Goal
    OBVIOUS
  <2> QED
    BY <1>1, <2>1, RemovalStep DEF Announcing, Program, Removing, Resuming
<1> HIDE DEF Goal
<1>2. \A s, r : Goes(s, r) => todo' = s /\ rec' = r /\ stage \in {"cleanup", "recover"}
  BY DEF Goes
<1>3. \A r : Throws(r) => stage = "commit" /\ todo' = <<Op("recover", "src", "none")>>
  BY DEF Throws
<1>4. Program(<<Op("recover", "src", "none")>>)
  BY Single DEF Op
<1>5. stage = "commit" => \A n \in Names : quar[n] = "none"
  BY DEF Committing
<1>6. CASE \E r : Throws(r) /\ (Acts \/ Renames \/ Fails)
  <2>1. stage = "commit" /\ todo' = <<Op("recover", "src", "none")>> /\ todo # <<>>
    BY <1>3, <1>6 DEF Acts, Renames, Fails
  <2>2. op.do \notin {"isolate", "erase"}
    BY <1>1, <2>1, Ahead DEF Forwarding
  <2>3. UNCHANGED quar
    BY <1>1, <2>2, QuarForms
  <2> QED
    BY <1>4, <1>5, <2>1, <2>3 DEF Goal
<1>7. CASE Acts /\ Goes(Tail(todo), rec)
  BY <1>1, <1>2, <1>7, AnnouncingGoes DEF Goal
<1>8. CASE Renames /\ Goes(Tail(todo), rec)
  BY <1>1, <1>2, <1>8, Ahead DEF Renames, Clearing
<1>9. CASE Decides
  <2>1. stage \in {"cleanup", "recover"} /\ UNCHANGED <<jrnl, quar>> /\ todo # <<>> /\ op \in Clearing /\ todo \in Seq(Clearing) /\ op = todo[1]
    BY <1>1, <1>2, <1>9, Ahead DEF Decides, Staged
  <2>2. CASE op.do = "check" /\ Goes(Tail(todo), rec)
    <3>1. Program(todo) /\ \A n \in Names : quar[n] = "none"
      BY <1>1, <2>1, <2>2, HeadOfClearing
    <3>2. Program(Tail(todo))
      BY <2>1, <2>2, <3>1, ProgramRest
    <3> QED
      BY <1>2, <2>1, <2>2, <3>1, <3>2 DEF Goal
  <2>3. CASE Goes(Quarantine, rec)
    <3>1. Program(Quarantine) /\ Head(Quarantine).do = "quarantine"
      BY EndsClean DEF Clean, Quarantine, Op
    <3> QED
      BY <1>2, <2>3, <3>1 DEF Goal
  <2>4. CASE op.do = "survive" /\ \E c : Goes(Removal(op, c) \o Tail(todo), rec)
    <3>1. Removing(todo) /\ op.id # "none" /\ jrnl.removal = [at |-> op.at, id |-> op.id]
      BY <1>1, <2>1, <2>4, HeadOfClearing
    <3>2. Program(Tail(todo)) /\ Tail(todo) \in Seq(Clearing)
      BY <2>1, <2>4, <3>1, Rest DEF Removing
    <3> PICK c : Goes(Removal(op, c) \o Tail(todo), rec)
      BY <2>4
    <3> DEFINE a == Op("isolate", op.at, op.id)
               b == [Op("erase", op.at, op.id) EXCEPT !.to = c[1], !.by = c[2]]
               f == Op("forget", op.at, op.id)
               t == Tail(todo)
               s == <<a, b, f>> \o t
               U == Clearing \cup {f}
    <3>3. todo' = s
      BY <1>2 DEF Removal
    <3>4. a.do = "isolate" /\ a.at = op.at /\ a.id = op.id /\ b.do = "erase" /\ b.at = op.at /\ b.id = op.id /\ f.do = "forget"
      BY DEF Op
    <3>5. Program(<<f>>) /\ Open(<<f>>)
      <4> HIDE DEF f
      <4> QED
        BY <3>4, Single
    <3>6. Program(<<f>> \o t)
      <4>1. <<f>> \in Seq(U) /\ t \in Seq(U)
        BY <3>2, Wider
      <4> HIDE DEF f, t, U
      <4> QED
        BY <3>2, <3>5, <4>1, ProgramsJoined DEF t
    <3>7. Head(s) = a /\ Head(Tail(s)) = b /\ Tail(Tail(s)) = <<f>> \o t /\ Tail(s) # <<>>
      <4> HIDE DEF a, b, f, t
      <4>1. t \in Seq(Clearing)
        BY <3>2 DEF t
      <4> QED
        BY <4>1
    <3> HIDE DEF a, b, f, t, s
    <3>8. Removing(s) /\ Head(s).id # "none" /\ jrnl'.removal = [at |-> Head(s).at, id |-> Head(s).id]
      BY <2>1, <3>1, <3>4, <3>6, <3>7 DEF Removing
    <3> QED
      BY <3>3, <3>8 DEF Goal
  <2>5. CASE op.do = "resume" /\ Goes(<<Op("survive", rec.removal.at, rec.removal.id)>> \o Tail(todo), rec)
    <3>1. todo = Resuming /\ rec.removal = jrnl.removal /\ jrnl.removal # NoRemoval
      BY <1>1, <2>1, <2>5, HeadOfClearing
    <3>2. jrnl.removal.id # "none"
      BY <3>1 DEF Announcing
    <3> DEFINE o == Op("survive", rec.removal.at, rec.removal.id)
               s == <<o, Op("recover", "src", "none")>>
    <3>3. todo' = s
      <4>1. todo' = <<o>> \o Tail(todo)
        BY <1>2, <2>5
      <4>2. Tail(Resuming) = <<Op("recover", "src", "none")>>
        BY DEF Resuming
      <4> QED
        BY <3>1, <4>1, <4>2, Pair
    <3>4. o.do = "survive" /\ o.at = rec.removal.at /\ o.id = rec.removal.id
      BY DEF Op
    <3>5. Head(s) = o /\ Tail(s) = <<Op("recover", "src", "none")>>
      OBVIOUS
    <3>6. jrnl.removal = [at |-> jrnl.removal.at, id |-> jrnl.removal.id]
      BY <1>1 DEF TypeOK, Records
    <3> HIDE DEF o, s
    <3>7. Removing(s) /\ Head(s).id # "none" /\ jrnl'.removal = [at |-> Head(s).at, id |-> Head(s).id]
      BY <1>4, <2>1, <3>1, <3>2, <3>4, <3>5, <3>6 DEF Removing
    <3> QED
      BY <3>3, <3>7 DEF Goal
  <2>6. CASE op.do = "recover" /\ Goes(Recovery(rec), rec)
    <3>1. \A n \in Names : quar[n] = "none"
      BY <1>1, <2>1, <2>6, HeadOfClearing
    <3>2. stage # "idle" /\ (committed => rec.phase = "db_committed")
      BY <1>1, <2>1 DEF Kept
    <3>3. Program(Recovery(rec))
      BY <1>1, <3>1, <3>2, RecoveryClean DEF Clean
    <3> QED
      BY <1>2, <2>1, <2>6, <3>1, <3>3 DEF Goal
  <2> QED
    BY <1>9, <2>1, <2>2, <2>3, <2>4, <2>5, <2>6 DEF Decides, Clearing
<1>10. CASE Notes
  <2>1. UNCHANGED quar /\ todo # <<>> /\ op.do \in JournalOps
    BY <1>10 DEF Notes
  <2>2. CASE op.do = "copyMode" \/ op.do = "commit"
    <3>1. stage = "commit"
      BY <1>1, <2>1, <2>2, Ahead DEF Clearing
    <3>2. op.do = "commit" /\ todo' = CleanupLive(Patched(rec, op))
      BY <1>2, <1>10, <2>2, <3>1 DEF Notes
    <3>3. Program(CleanupLive(Patched(rec, op)))
      BY <1>1, <3>1, <3>2, CommitTurns
    <3> QED
      BY <1>5, <2>1, <3>1, <3>2, <3>3 DEF Goal
  <2>3. CASE op.do \notin {"copyMode", "commit"}
    <3>1. stage \in {"cleanup", "recover"} /\ todo' = Tail(todo)
      BY <1>2, <1>10, <2>3 DEF Notes
    <3>2. Program(todo) /\ \A n \in Names : quar[n] = "none"
      BY <1>1, <2>1, <3>1, HeadOfClearing DEF JournalOps
    <3>3. todo \in Seq(Clearing) /\ op = todo[1] /\ op \in Ops
      BY <1>1, <2>1, <3>1, Ahead DEF Staged
    <3>4. CASE op.do = "intend"
      <4>1. /\ Program(Tail(Tail(todo))) /\ op.id # "none"
            /\ Head(Tail(todo)).do = "survive" /\ Head(Tail(todo)).at = op.at /\ Head(Tail(todo)).id = op.id
        BY <2>1, <3>2, <3>3, <3>4, ProgramRest
      <4>2. jrnl'.removal = [at |-> op.at, id |-> op.id]
        <5>1. jrnl \in Records /\ jrnl' = Patched(jrnl, op)
          BY <1>1, <1>10 DEF Notes, TypeOK
        <5>2. jrnl'.removal = IF op.do = "intend" THEN [at |-> op.at, id |-> op.id]
                              ELSE IF op.do = "forget" THEN NoRemoval ELSE jrnl.removal
          BY <3>3, <5>1, PatchedFields
        <5> QED
          BY <3>4, <5>2
      <4> QED
        BY <3>1, <4>1, <4>2 DEF Goal, Removing
    <3>5. CASE op.do # "intend"
      <4>1. Program(Tail(todo))
        BY <2>1, <3>2, <3>3, <3>5, ProgramRest
      <4> QED
        BY <2>1, <3>1, <3>2, <4>1 DEF Goal
    <3> QED
      BY <3>4, <3>5
  <2> QED
    BY <2>2, <2>3
<1>11. CASE QuarantineStep \/ Commit \/ Crash
  BY <1>11 DEF QuarantineStep, Commit, Crash, Goes
<1>12. CASE Recover
  <2>1. UNCHANGED <<quar, jrnl>> /\ rec' = jrnl
    BY <1>12 DEF Recover, files
  <2>2. CASE jrnl.removal # NoRemoval
    <3>1. todo' = Resuming
      <4>1. todo' = <<Op("resume", "src", "none")>> \o <<Op("recover", "src", "none")>>
        BY <1>12, <2>2 DEF Recover
      <4> QED
        BY <4>1, Pair DEF Resuming
    <3> QED
      BY <2>1, <2>2, <3>1 DEF Goal
  <2>3. CASE jrnl.removal = NoRemoval
    <3>1. todo' = <<Op("recover", "src", "none")>>
      BY <1>12, <2>3 DEF Recover
    <3>2. \A n \in Names : quar[n] = "none"
      BY <2>3 DEF Announcing
    <3> QED
      BY <1>4, <2>1, <3>1, <3>2 DEF Goal
  <2> QED
    BY <2>2, <2>3
<1>13. CASE UNCHANGED vars
  BY <1>13 DEF vars, Announcing, Goal
<1>14. Acts \/ Renames => Goes(Tail(todo), rec) \/ Throws(rec)
  BY DEF Acts, Renames
<1>15. Fails => Throws(rec) \/ Throws(Eager(rec, op))
  BY DEF Fails
<1> QED
  BY <1>1, <1>6, <1>7, <1>8, <1>9, <1>10, <1>11, <1>12, <1>13, <1>14, <1>15, StepForms

-----------------------------------------------------------------------------
(* A journal is closed by the last operation of a program.                  *)

\* What such a program took away is gone when its last operation is done.
LEMMA ClosedStep ==
  ASSUME TypeOK, Placed, Staged, Tidying, Announcing, Closed, [Next]_vars, ~Tamper
  PROVE  Closed'
<1> DEFINE op == Head(todo)
           Over(phase) == phase \in {"none", "cleaned", "quarantined"}
<1>1. stage = "idle" <=> todo = <<>>
  BY DEF TypeOK
<1>2. CASE stage = "idle"
  <2>1. Commit \/ Recover \/ UNCHANGED vars
    BY <1>1, <1>2, StepForms DEF Acts, Renames, Fails, Decides, Notes, QuarantineStep, Crash
  <2>2. CASE Commit
    <3>1. jrnl'.phase = "prepared"
      BY <2>2 DEF Commit, Fresh, NoRecord
    <3> QED
      BY <3>1 DEF Closed
  <2>3. CASE Recover
    <3>1. jrnl'.phase \notin {"none", "cleaned", "quarantined"}
      BY <2>3 DEF Recover, Unfinished
    <3> QED
      BY <3>1 DEF Closed
  <2>4. CASE UNCHANGED vars
    BY <2>4 DEF vars, Closed, Final, At, SamePath
  <2> QED
    BY <2>1, <2>2, <2>3, <2>4
<1>3. CASE stage # "idle"
  <2>1. ~Over(jrnl.phase)
    BY <1>3 DEF Closed
  <2>2. CASE Over(jrnl'.phase)
    <3>1. Notes \/ QuarantineStep
      BY <1>3, <2>1, <2>2, StepForms
         DEF Acts, Renames, Fails, Decides, Commit, Recover, Crash, vars
    <3>2. CASE QuarantineStep
      <4>1. jrnl'.phase = "quarantined" /\ stage' = "idle"
        BY <3>2 DEF QuarantineStep, Goes, TypeOK, Records
      <4> QED
        BY <4>1 DEF Closed
    <3>3. CASE Notes
      <4>1. /\ jrnl \in Records /\ op \in Ops /\ jrnl' = Patched(jrnl, op) /\ UNCHANGED <<plan, dir, quar>>
            /\ committed' = (committed \/ op.do = "commit") /\ todo # <<>>
        BY <3>3 DEF Notes, TypeOK
      <4>2. jrnl'.phase = IF op.do = "advance" THEN op.id ELSE IF op.do = "install" THEN "target_installed"
                          ELSE IF op.do = "commit" THEN "db_committed" ELSE jrnl.phase
        BY <4>1, PatchedFields
      <4>3. op.do = "advance" /\ op.id = "cleaned" /\ jrnl'.phase = "cleaned"
        BY <2>1, <2>2, <4>1, <4>2 DEF Ops
      <4>4. stage \in {"cleanup", "recover"}
        BY <4>1, <4>3, Ahead DEF Forwarding
      <4>5. Program(todo) /\ \A n \in Names : quar[n] = "none"
        BY <4>3, <4>4, HeadOfClearing
      <4>6. op = todo[1] /\ Len(todo) \in Nat \ {0} /\ Len(Tail(todo)) = Len(todo) - 1 /\ Tail(todo) \in Seq(Ops)
        BY <4>1, Ahead
      <4>7. Len(todo) = 1
        <5>1. 1 \in 1..Len(todo)
          BY <4>6
        <5> QED
          BY <4>3, <4>5, <4>6, <5>1 DEF Program
      <4>8. Tail(todo) = <<>>
        <5> DEFINE t == Tail(todo)
        <5>1. t \in Seq(Ops) /\ Len(t) = 0
          BY <4>6, <4>7
        <5> HIDE DEF t
        <5>2. t = <<>>
          BY <5>1
        <5> QED
          BY <5>2 DEF t
      <4>9. stage' = "idle"
        BY <3>3, <4>3, <4>8 DEF Notes, Goes
      <4>10. Closes(todo)
        BY <4>1, <4>3, <4>6, <4>7 DEF Closes
      <4>11. \A n \in Names : ~Clears(todo, n)
        BY <4>3, <4>6, <4>7 DEF Clears, Takes
      <4>12. ~Restores(todo)
        BY <4>3, <4>6, <4>7 DEF Restores, RestoresAt
      <4>13. \A n \in Names \ {Final} : dir[n] = "none"
        BY <4>10, <4>11 DEF Tidying, Tidies
      <4>14. ~committed => dir["src"] = "source"
        BY <4>10, <4>12 DEF Tidying, Tidies, Keeps
      <4>15. Final' = Final /\ committed' = committed
        BY <4>1, <4>3 DEF Final, At, SamePath, TypeOK
      <4> QED
        BY <4>1, <4>3, <4>5, <4>9, <4>13, <4>14, <4>15 DEF Closed
    <3> QED
      BY <3>1, <3>2, <3>3
  <2>3. CASE ~Over(jrnl'.phase)
    BY <2>3 DEF Closed
  <2> QED
    BY <2>2, <2>3
<1> QED
  BY <1>2, <1>3

-----------------------------------------------------------------------------
(* What a program takes away, it still does after each of its steps.        *)

\* A program is its next operation and what follows it.
LEMMA Front ==
  ASSUME NEW S, NEW s \in Seq(S), s # <<>>
  PROVE  s = <<Head(s)>> \o Tail(s) /\ <<Head(s)>> \in Seq(S) /\ Tail(s) \in Seq(S)
<1> DEFINE h == Head(s)
           t == Tail(s)
           u == <<h>> \o t
<1>1. /\ h = s[1] /\ h \in S /\ t \in Seq(S) /\ Len(t) = Len(s) - 1 /\ Len(s) \in Nat \ {0}
      /\ \A i \in 1..(Len(s) - 1) : t[i] = s[i+1]
  BY Rest
<1> HIDE DEF h, t
<1>2. <<h>> \in Seq(S) /\ Len(<<h>>) = 1 /\ <<h>>[1] = h
  BY <1>1
<1>3. /\ u \in Seq(S) /\ Len(u) = 1 + Len(t) /\ (\A i \in 1..1 : u[i] = <<h>>[i])
      /\ \A i \in (1+1)..(1+Len(t)) : u[i] = t[i - 1]
  BY <1>1, <1>2, Joined
<1> HIDE DEF u
<1>4. Len(u) = Len(s) /\ \A i \in 1..Len(s) : u[i] = s[i]
  <2>1. u[1] = s[1] /\ Len(u) = Len(s)
    BY <1>1, <1>2, <1>3
  <2>2. ASSUME NEW i \in 1..Len(s), i # 1 PROVE u[i] = s[i]
    <3>1. i \in (1+1)..(1+Len(t)) /\ i - 1 \in 1..(Len(s) - 1) /\ (i-1)+1 = i
      BY <1>1, <2>2
    <3> QED
      BY <1>1, <1>3, <3>1
  <2> QED
    BY <2>1, <2>2
<1>5. u = s
  BY <1>1, <1>3, <1>4, Same
<1> QED
  BY <1>1, <1>2, <1>5 DEF h, t, u

\* The next operation takes away what it takes away.
LEMMA TidyRest ==
  ASSUME NEW S, todo \in Seq(S), todo # <<>>, Tidying, todo' = Tail(todo), UNCHANGED <<plan, committed>>,
         \A n \in Names \ {Final} : dir'[n] # "none" => dir[n] # "none" /\ ~Takes(Head(todo), n),
         ~committed => /\ dir["src"] = "source" /\ ~Takes(Head(todo), "src") => dir'["src"] = "source"
                       /\ Head(todo).do = "move" /\ Head(todo).to = "src" => dir'["src"] = "source"
  PROVE  Tidying'
<1> DEFINE op == Head(todo)
           h == <<op>>
           t == Tail(todo)
           src == "src"
<1>1. todo = h \o t /\ h \in Seq(S) /\ t \in Seq(S)
  BY Front
<1>2. Final' = Final
  BY DEF Final, At, SamePath
<1> SUFFICES ASSUME Closes(t)
             PROVE  /\ \A n \in Names \ {Final} : dir'[n] # "none" => Clears(t, n)
                    /\ ~committed => (dir'["src"] = "source" /\ Spares(t, src)) \/ Restores(t)
  <2> DEFINE G == /\ \A n \in Names \ {Final} : dir'[n] # "none" => Clears(t, n)
                  /\ ~committed => (dir'["src"] = "source" /\ Spares(t, src)) \/ Restores(t)
  <2>1. Closes(t) => G
    OBVIOUS
  <2>2. (Closes(todo))' <=> Closes(t)
    BY DEF Closes
  <2>3. \A n : Clears(todo, n)' <=> Clears(t, n)
    BY DEF Clears, Takes
  <2>4. (Spares(todo, src)' <=> Spares(t, src)) /\ (Restores(todo)' <=> Restores(t))
    BY DEF Spares, Restores, RestoresAt, Takes
  <2> QED
    BY <1>2, <2>1, <2>2, <2>3, <2>4 DEF Tidying, Tidies, Keeps
<1>3. t # <<>>
  BY DEF Closes
<1> HIDE DEF op, h, t
<1>4. /\ \A n : Clears(todo, n) <=> Clears(h, n) \/ Clears(t, n)
      /\ Spares(todo, src) <=> Spares(h, src) /\ Spares(t, src)
      /\ Closes(todo)
  BY <1>1, <1>3, TakesJoined
<1>5. Restores(todo) <=> Restores(t) \/ (Restores(h) /\ Spares(t, src))
  BY <1>1, RestoresJoined
<1>6. /\ \A n : Clears(h, n) <=> Takes(op, n)
      /\ Spares(h, src) <=> ~Takes(op, src)
      /\ Restores(h) <=> op.do = "move" /\ op.to = "src"
  BY Single DEF h
<1>7. /\ \A n \in Names \ {Final} : dir[n] # "none" => Clears(todo, n)
      /\ ~committed => (dir["src"] = "source" /\ Spares(todo, src)) \/ Restores(todo)
  BY <1>4 DEF Tidying, Tidies, Keeps
<1> QED
  BY <1>4, <1>5, <1>6, <1>7 DEF op

\* Each step leaves a program that does the rest, or starts one that does all of it.
LEMMA TidyingStep ==
  ASSUME IInv, Undecided, Untouched, Neat, [Next]_vars, ~Tamper
  PROVE  Tidying'
<1> DEFINE op == Head(todo)
<1>1. /\ TypeOK /\ Placed /\ Staged /\ Ready /\ Kept
      /\ Tidying /\ Located /\ Noted /\ Moded /\ Committing /\ Announcing /\ Closed
  BY DEF IInv, Neat
<1>2. UNCHANGED plan /\ dir \in [Names -> Artifacts] /\ dir' \in [Names -> Artifacts]
  BY <1>1, FilesStep DEF TypeOK
<1>3. ASSUME ~Closes(todo') PROVE Tidying'
  BY <1>3 DEF Tidying, Tidies, Closes
<1>4. stage' \in {"idle", "commit"} => ~Closes(todo')
  <2>1. TypeOK' /\ Staged'
    BY TypeStep DEF IInv
  <2>2. stage' = "idle" => todo' = <<>>
    BY <2>1 DEF TypeOK
  <2>3. ASSUME stage' = "commit", Closes(todo') PROVE FALSE
    <3>1. todo' \in Seq(Forwarding') /\ todo' # <<>>
      BY <2>1, <2>3 DEF Staged, Closes
    <3>2. todo'[Len(todo')] \in Forwarding'
      <4> DEFINE s == todo'
                 S == Forwarding'
      <4> HIDE DEF s, S
      <4>1. s \in Seq(S) /\ s # <<>>
        BY <3>1 DEF s, S
      <4>2. Len(s) \in 1..Len(s)
        BY <4>1, Rest
      <4>3. s[Len(s)] \in S
        BY <4>1, <4>2
      <4> QED
        BY <4>3 DEF s, S
    <3> QED
      BY <2>3, <3>2 DEF Closes, Forwarding
  <2> QED
    BY <2>2, <2>3 DEF Closes
<1>5. \A s, r : Goes(s, r) => stage' = "idle" \/ (todo' = s /\ stage' = stage)
  BY DEF Goes
<1>6. ~Closes(<<Op("recover", "src", "none")>>) /\ ~Closes(Quarantine) /\ ~Closes(Resuming)
  BY DEF Closes, Op, Quarantine, Resuming
<1>7. \A r : Throws(r) => ~Closes(todo')
  BY <1>4, <1>6 DEF Throws
<1> SUFFICES ASSUME Closes(todo'), stage' \notin {"idle", "commit"} PROVE Tidying'
  BY <1>3, <1>4
<1>8. \A s, r : Goes(s, r) => todo' = s /\ stage \in {"cleanup", "recover"}
  BY <1>1, <1>5 DEF TypeOK
<1>9. todo # <<>> => op = todo[1] /\ todo \in Seq(Ops) /\ (stage # "commit" => op \in Clearing /\ todo \in Seq(Clearing))
  BY <1>1, Ahead DEF Staged, TypeOK
<1>10. CASE Acts
  <2>1. Goes(Tail(todo), rec) /\ todo' = Tail(todo) /\ stage \in {"cleanup", "recover"} /\ todo # <<>> /\ UNCHANGED committed
    BY <1>7, <1>8, <1>10 DEF Acts
  <2>2. op \in Clearing /\ op.do \in {"move", "flush", "isolate", "erase"}
    BY <1>9, <1>10, <2>1 DEF Acts, FileOps, Clearing
  <2>3. CASE op.do \in {"flush", "erase"}
    <3>1. UNCHANGED dir
      BY <1>10, <2>3 DEF Acts, Applied
    <3> QED
      BY <1>1, <1>2, <1>9, <2>1, <2>3, <3>1, TidyRest DEF Takes
  <2>4. CASE op.do = "isolate"
    <3>1. dir' = [dir EXCEPT ![op.at] = "none"]
      BY <1>10, <2>4 DEF Acts, Applied
    <3>2. \A n \in Names : /\ n # op.at => dir'[n] = dir[n]
                           /\ n = op.at => dir'[n] = "none"
      BY <1>2, <3>1
    <3>3. \A n : Takes(op, n) <=> op.at = n
      BY <2>4 DEF Takes
    <3>4. "src" \in Names
      BY DEF Names
    <3> HIDE DEF op
    <3>5. /\ \A n \in Names \ {Final} : dir'[n] # "none" => dir[n] # "none" /\ ~Takes(op, n)
          /\ dir["src"] = "source" /\ ~Takes(op, "src") => dir'["src"] = "source"
      BY <3>2, <3>3, <3>4
    <3> QED
      BY <1>1, <1>2, <1>9, <2>1, <2>4, <3>5, TidyRest DEF op
  <2>5. CASE op.do = "move"
    <3>1. ~committed
      <4>1. committed => todo \in Seq(Sparing)
        BY <1>1, <2>1 DEF Kept, Finishing, FinishingBy
      <4>2. committed => op \in Sparing
        BY <1>9, <2>1, <4>1, Rest
      <4> QED
        BY <2>5, <4>2 DEF Sparing
    <3>2. op.to = "src"
      BY <1>1, <2>1, <2>5, HeadOfClearing
    <3>3. /\ op.to # op.at /\ op.at \in Names /\ dir[op.to] = "none"
          /\ dir' = [dir EXCEPT ![op.at] = "none", ![op.to] = "source"]
      BY <1>1, <1>10, <2>5, DirForms DEF Acts, Renames, FileOps, Applied, Verified, Ops
    <3>4. Final = "src" /\ "src" \in Names
      BY <3>1 DEF Final, Names
    <3>5. \A n : Takes(op, n) <=> op.at = n
      BY <2>5 DEF Takes
    <3> HIDE DEF op
    <3>6. /\ dir'["src"] = "source" /\ dir'[op.at] = "none"
          /\ \A n \in Names : n # "src" /\ n # op.at => dir'[n] = dir[n]
      BY <1>2, <3>2, <3>3, <3>4
    <3>7. \A n \in Names \ {Final} : dir'[n] # "none" => dir[n] # "none" /\ ~Takes(op, n)
      BY <3>4, <3>5, <3>6
    <3> QED
      BY <1>1, <1>2, <1>9, <2>1, <3>6, <3>7, TidyRest DEF op
  <2> QED
    BY <2>2, <2>3, <2>4, <2>5
<1>11. CASE Renames
  BY <1>7, <1>8, <1>9, <1>11 DEF Renames, Clearing
<1>12. CASE Fails
  BY <1>7, <1>12 DEF Fails
<1>13. CASE Decides
  <2>1. stage \in {"cleanup", "recover"} /\ UNCHANGED <<dir, committed>> /\ todo # <<>>
    BY <1>8, <1>13 DEF Decides
  <2>2. CASE op.do = "check" /\ Goes(Tail(todo), rec)
    <3>1. todo' = Tail(todo)
      BY <1>8, <2>2
    <3> QED
      BY <1>1, <1>2, <1>9, <2>1, <2>2, <3>1, TidyRest DEF Takes
  <2>3. CASE Goes(Quarantine, rec)
    BY <1>6, <1>8, <2>3
  <2>4. CASE op.do = "survive" /\ \E c : Goes(Removal(op, c) \o Tail(todo), rec)
    <3> PICK c : Goes(Removal(op, c) \o Tail(todo), rec)
      BY <2>4
    <3> DEFINE t == Tail(todo)
               h == <<op>>
               a == Op("isolate", op.at, op.id)
               b == [Op("erase", op.at, op.id) EXCEPT !.to = c[1], !.by = c[2]]
               f == Op("forget", op.at, op.id)
               g == <<a, b, f>>
               s == g \o t
               U == Clearing \cup {a, b, f}
               src == "src"
    <3>1. todo' = s
      BY <1>8 DEF Removal
    <3>2. a.do = "isolate" /\ a.at = op.at /\ b.do = "erase" /\ f.do = "forget"
      BY DEF Op
    <3>3. todo = h \o t /\ h \in Seq(Clearing) /\ t \in Seq(Clearing)
      BY <1>9, <2>1, Front
    <3>4. t \in Seq(U) /\ g \in Seq(U)
      BY <3>3, Wider
    <3>5. Len(g) = 3 /\ g[1] = a /\ g[2] = b /\ g[3] = f
      OBVIOUS
    <3>6. (\A n : Takes(op, n) <=> op.at = n) /\ op.do # "move"
      BY <2>4 DEF Takes
    <3> HIDE DEF op, t, h, a, b, f, g, s, U
    <3>7. /\ \A n : Clears(g, n) <=> op.at = n
          /\ Spares(g, src) <=> op.at # src
          /\ ~Restores(g) /\ ~Closes(g)
      <4>1. \A i : i \in 1..3 <=> i = 1 \/ i = 2 \/ i = 3
        OBVIOUS
      <4>2. (\A n : Takes(a, n) <=> op.at = n) /\ (\A n : ~Takes(b, n) /\ ~Takes(f, n))
        BY <3>2 DEF Takes
      <4> QED
        BY <3>2, <3>5, <4>1, <4>2 DEF Clears, Spares, Restores, RestoresAt, Closes
    <3>8. t # <<>>
      <4>1. ASSUME t = <<>> PROVE s = g
        BY <3>4, <4>1 DEF s
      <4> QED
        BY <3>1, <3>7, <4>1
    <3>9. /\ \A n : Clears(s, n) <=> Clears(g, n) \/ Clears(t, n)
          /\ Spares(s, src) <=> Spares(g, src) /\ Spares(t, src)
          /\ Closes(s) <=> Closes(t)
          /\ Restores(s) <=> Restores(t) \/ (Restores(g) /\ Spares(t, src))
      BY <3>4, <3>8, TakesJoined, RestoresJoined DEF s, src
    <3>10. /\ \A n : Clears(todo, n) <=> Clears(h, n) \/ Clears(t, n)
           /\ Spares(todo, src) <=> Spares(h, src) /\ Spares(t, src)
           /\ Closes(todo) <=> Closes(t)
           /\ Restores(todo) <=> Restores(t) \/ (Restores(h) /\ Spares(t, src))
      BY <3>3, <3>8, TakesJoined, RestoresJoined DEF src
    <3>11. /\ \A n : Clears(h, n) <=> Takes(op, n)
           /\ Spares(h, src) <=> ~Takes(op, src)
           /\ Restores(h) <=> op.do = "move" /\ op.to = "src"
      BY Single DEF h
    <3>12. Closes(todo)
      BY <3>1, <3>9, <3>10
    <3>13. /\ \A n \in Names \ {Final} : dir[n] # "none" => Clears(todo, n)
           /\ ~committed => (dir["src"] = "source" /\ Spares(todo, src)) \/ Restores(todo)
      BY <1>1, <3>12 DEF Tidying, Tidies, Keeps, src
    <3>14. /\ \A n \in Names \ {Final} : dir[n] # "none" => Clears(s, n)
           /\ ~committed => (dir["src"] = "source" /\ Spares(s, src)) \/ Restores(s)
      BY <3>6, <3>7, <3>9, <3>10, <3>11, <3>13
    <3>15. Final' = Final
      BY <1>2, <2>1 DEF Final, At, SamePath
    <3>16. /\ \A n : Clears(todo, n)' <=> Clears(s, n)
           /\ (Spares(todo, "src")' <=> Spares(s, src)) /\ (Restores(todo)' <=> Restores(s))
      BY <3>1 DEF Clears, Spares, Restores, RestoresAt, Takes, src
    <3> QED
      BY <2>1, <3>14, <3>15, <3>16 DEF Tidying, Tidies, Keeps
  <2>5. CASE op.do = "resume" /\ Goes(<<Op("survive", rec.removal.at, rec.removal.id)>> \o Tail(todo), rec)
    <3>1. todo = Resuming
      BY <1>1, <2>1, <2>5, HeadOfClearing
    <3>2. Tail(Resuming) = <<Op("recover", "src", "none")>>
      BY DEF Resuming
    <3>3. todo' = <<Op("survive", rec.removal.at, rec.removal.id), Op("recover", "src", "none")>>
      BY <1>8, <2>5, <3>1, <3>2, Pair
    <3> QED
      BY <3>3 DEF Closes, Op
  <2>6. CASE op.do = "recover" /\ Goes(Recovery(rec), rec)
    <3>1. \A n \in Names : quar[n] = "none"
      BY <1>1, <2>1, <2>6, HeadOfClearing
    <3>2. stage # "idle" /\ (committed => rec.phase = "db_committed")
      BY <1>1, <2>1 DEF Kept
    <3> DEFINE s == Recovery(rec)
               src == "src"
    <3>3. Tidies(s)
      BY <1>1, <3>1, <3>2, RecoveryClean DEF Clean
    <3>4. todo' = s
      BY <1>8, <2>6
    <3> HIDE DEF s, src
    <3>5. Final' = Final
      BY <1>2, <2>1 DEF Final, At, SamePath
    <3>6. /\ \A n : Clears(todo, n)' <=> Clears(s, n)
          /\ (Spares(todo, "src")' <=> Spares(s, "src")) /\ (Restores(todo)' <=> Restores(s))
      BY <3>4 DEF Clears, Spares, Restores, RestoresAt, Takes
    <3> QED
      BY <2>1, <3>3, <3>4, <3>5, <3>6 DEF Tidying, Tidies, Keeps
  <2> QED
    BY <1>9, <1>13, <2>1, <2>2, <2>3, <2>4, <2>5, <2>6 DEF Decides, Clearing
<1>14. CASE Notes
  <2>1. UNCHANGED dir /\ todo # <<>>
    BY <1>14 DEF Notes
  <2>2. CASE op.do \notin {"copyMode", "commit"}
    <3>1. todo' = Tail(todo) /\ UNCHANGED committed
      BY <1>1, <1>8, <1>14, <2>2 DEF Notes, TypeOK
    <3>2. op.do \notin {"survive", "isolate", "move"}
      BY <1>14 DEF Notes, JournalOps
    <3> QED
      BY <1>1, <1>2, <1>9, <2>1, <3>1, <3>2, TidyRest DEF Takes
  <2>3. CASE op.do = "copyMode"
    BY <1>8, <1>9, <1>14, <2>1, <2>3 DEF Notes, Clearing
  <2>4. CASE op.do = "commit"
    <3>1. stage = "commit"
      BY <1>1, <1>9, <2>1, <2>4, Ahead DEF Clearing
    <3> DEFINE s == CleanupLive(Patched(rec, op))
    <3>2. todo' = s /\ committed'
      BY <1>14, <2>4 DEF Notes
    <3>3. \A n \in Names \ {At("tgt")} : dir[n] # "none" => Clears(s, n)
      BY <1>1, <2>4, <3>1, CommitTurns
    <3> HIDE DEF s
    <3>4. Final' = At("tgt")
      BY <1>2, <3>2 DEF Final, At, SamePath
    <3>5. \A n : Clears(todo, n)' <=> Clears(s, n)
      BY <3>2 DEF Clears, Takes
    <3> QED
      BY <2>1, <3>2, <3>3, <3>4, <3>5 DEF Tidying, Tidies
  <2> QED
    BY <2>2, <2>3, <2>4
<1>15. CASE QuarantineStep \/ Crash
  BY <1>15 DEF QuarantineStep, Crash, Goes
<1>16. CASE Commit
  BY <1>16 DEF Commit
<1>17. CASE Recover
  <2>1. CASE jrnl.removal # NoRemoval
    <3>1. todo' = <<Op("resume", "src", "none")>> \o <<Op("recover", "src", "none")>>
      BY <1>17, <2>1 DEF Recover
    <3>2. todo' = Resuming
      BY <3>1, Pair DEF Resuming
    <3> QED
      BY <1>6, <3>2
  <2>2. CASE jrnl.removal = NoRemoval
    <3>1. todo' = <<Op("recover", "src", "none")>>
      BY <1>17, <2>2 DEF Recover
    <3> QED
      BY <1>6, <3>1
  <2> QED
    BY <2>1, <2>2
<1>18. CASE UNCHANGED vars
  BY <1>1, <1>18 DEF vars, Tidying, Tidies, Closes, Clears, Takes, Keeps, Spares, Restores, RestoresAt, Final, At, SamePath
<1> QED
  BY <1>1, <1>10, <1>11, <1>12, <1>13, <1>14, <1>15, <1>16, <1>17, <1>18, StepForms

-----------------------------------------------------------------------------
\* The seven parts at the beginning.
LEMMA NeatInit == ASSUME Init PROVE Neat
<1>1. /\ dir["src"] = "source" /\ dir["tgt"] = "none" /\ dir["rb"] = "none" /\ dir["priv"] = "none"
      /\ dir["stage"] # "none" => Replaces
      /\ \A n \in Names : quar[n] = "none"
      /\ todo = <<>> /\ stage = "idle" /\ jrnl = NoRecord /\ committed = FALSE
  BY DEF Init, Names
<1>2. Final = "src" /\ At("tgt") \in {"src", "tgt"}
  BY <1>1 DEF Final, At
<1>3. Tidying /\ Located /\ Committing
  BY <1>1 DEF Tidying, Tidies, Closes, Located, Committing
<1>4. Noted /\ Moded
  BY <1>1, <1>2 DEF Noted, Moded, Bound, NoRecord, Seen
<1>5. Announcing
  BY <1>1 DEF Announcing, NoRecord
<1>6. Closed
  BY <1>1, <1>2 DEF Closed, NoRecord, Names
<1> QED
  BY <1>3, <1>4, <1>5, <1>6 DEF Neat

\* Every step of the program keeps the seven parts.
LEMMA NeatStep ==
  ASSUME IInv, Undecided, Untouched => Neat, [Next]_vars
  PROVE  (Untouched => Neat)'
<1> SUFFICES ASSUME Untouched' PROVE Neat'
  OBVIOUS
<1>1. TypeOK /\ Placed /\ Staged
  BY DEF IInv
<1>2. Untouched /\ ~Tamper
  <2>1. tally \in Tallied
    BY <1>1 DEF TypeOK
  <2>2. Tamper => tally'.tampers = tally.tampers + 1 /\ tally.tampers \in 0..MaxTampers
    BY <2>1 DEF Tamper, Tallied
  <2>3. ~Tamper
    BY <2>2 DEF Untouched
  <2>4. Untouched
    BY <1>1, StepKinds DEF Untouched
  <2> QED
    BY <2>3, <2>4
<1>3. Neat
  BY <1>2
<1>4. Tidying /\ Located /\ Noted /\ Moded /\ Committing /\ Announcing /\ Closed /\ UNCHANGED plan
  BY <1>1, <1>3, FilesStep DEF Neat
<1>5. Tidying' /\ Located'
  BY <1>1, <1>2, <1>3, <1>4, TidyingStep, LocatedStep
<1>6. Noted' /\ Moded' /\ Committing'
  BY <1>1, <1>2, <1>4, NotedStep, ModedStep, CommittingStep
<1>7. Announcing' /\ Closed'
  BY <1>1, <1>2, <1>4, AnnouncingStep, ClosedStep
<1> QED
  BY <1>5, <1>6, <1>7 DEF Neat

\* A journal that was closed leaves exactly one artifact behind, whatever failed
\* before: the published one, or the original under its own name.
THEOREM Tidy == Spec => []ClosedIsTidy
<1>1. Init => (Untouched => Neat)
  BY NeatInit
<1>2. IInv /\ Undecided /\ (Untouched => Neat) /\ [Next]_vars => (Untouched => Neat)'
  BY NeatStep
<1>3. IInv /\ (Untouched => Neat) => ClosedIsTidy
  <2> SUFFICES ASSUME IInv, Neat, Untouched, jrnl.phase = "cleaned"
               PROVE  /\ \A n \in Names : quar[n] = "none"
                      /\ \A n \in Names : dir[n] # "none" <=> n = IF committed THEN At("tgt") ELSE "src"
                      /\ ~committed => dir["src"] = "source"
    BY DEF ClosedIsTidy
  <2>1. /\ \A n \in Names : quar[n] = "none"
        /\ \A n \in Names \ {Final} : dir[n] = "none"
        /\ ~committed => dir["src"] = "source"
    BY DEF Neat, Closed
  <2>2. committed => dir[At("tgt")] \in Whole
    BY DEF IInv, Kept, Decided, Seen
  <2>3. dir[Final] # "none"
    BY <2>1, <2>2 DEF Final, Whole
  <2> QED
    BY <2>1, <2>3 DEF Final
<1> QED
  BY <1>1, <1>2, <1>3, Invariance, Undisturbed, PTL DEF Spec

=============================================================================
