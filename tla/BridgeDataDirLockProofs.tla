---------------------- MODULE BridgeDataDirLockProofs ----------------------
(***************************************************************************)
(* The lock of the bridge data directory for any number of starts, of      *)
(* attempts and of I/O errors: who may hold the directory, and what it     *)
(* contains then.                                                          *)
(*                                                                         *)
(* A session that acts lives, and one that lives without the resource is   *)
(* draining beside a closed listener (Fenced).  With a resource that lasts *)
(* to the end of the process the sessions therefore act one at a time, and *)
(* it is enough to follow the lock file of one attempt: not made yet, made *)
(* in its place, whole (Disk).                                             *)
(***************************************************************************)
EXTENDS BridgeDataDirLock, FiniteSetTheorems, TLAPS

\* A session that does anything lives, and has the resource unless it gave a
\* listener up in its shutdown.
Alive(p) ==
  /\ at[p] \notin {"idle", "dead"} => life[p] \in {"up", "closing"} /\ try[p] \in Tries
  /\ life[p] = "off" => at[p] = "idle"
  /\ at[p] = "idle" => try[p] = 0

Fenced(p) ==
  life[p] \in {"up", "closing"} /\ owner # p => resource = "listener" /\ life[p] = "closing"

\* No file is of an attempt that was not made yet.
Past == \A n \in Names : entry[n] # NoFile => entry[n].try <= try[entry[n].by]

\* The lock of this attempt is not made yet, or it is in its place and only there.
Absent(p) ==
  \/ at[p] \in {"look", "recover", "mkguard", "link", "drop", "resume", "rm_lock",
                "rm_stale", "reguard", "rm_guard", "freshguard", "missing"}
  \/ at[p] \in {"create", "replace"} /\ ~half[p]

Finished(p) == at[p] \in {"recheck", "unstale", "unguard", "sync", "held"}

Present(p) == Finished(p) \/ (at[p] \in {"create", "replace"} /\ half[p])

Disk(p) ==
  /\ Absent(p) => \A n \in Names : entry[n] # MyLock(p)
  /\ Present(p) => \A n \in Names : entry[n] = MyLock(p) <=> n = Lock
  /\ Finished(p) => MyLock(p) \in whole
  /\ at[p] \in {"create", "recheck", "sync", "held"} => entry[Guard] = NoFile
  /\ at[p] # "backout"

IInv ==
  /\ TypeOK
  /\ \A p \in Sessions : Alive(p) /\ Fenced(p)
  /\ Past
  /\ resource = "kernel" => \A p \in Sessions : Disk(p)

-----------------------------------------------------------------------------
LEMMA NamesDiffer ==
  /\ Lock \in Names /\ Guard \in Names /\ Lock # Guard
  /\ \A g \in GuardFiles : Stale(g) \in Names /\ Stale(g) # Lock /\ Stale(g) # Guard
  /\ \A g, h : Stale(g) = Stale(h) => g = h
  /\ \A g : Stale(g) # Lock /\ Stale(g) # Guard
BY DEF Names, Lock, Guard, Stale

LEMMA FilesDiffer ==
  /\ \A f \in LockFiles : f \in Files /\ f \notin GuardFiles /\ f # NoFile
  /\ \A f \in GuardFiles : f \in Files /\ f \notin LockFiles /\ f # NoFile
  /\ \A f \in Files : f.by \in Sessions /\ f.try \in Tries
BY NoFileAssumption DEF Files, LockFiles, GuardFiles, File

LEMMA MineTyped ==
  ASSUME NEW p \in Sessions, try[p] \in Tries
  PROVE  /\ MyLock(p) \in LockFiles /\ MyGuard(p) \in GuardFiles
         /\ MyLock(p).by = p /\ MyGuard(p).by = p
         /\ MyLock(p).try = try[p] /\ MyGuard(p).try = try[p]
BY DEF MyLock, MyGuard, File, LockFiles, GuardFiles

Busy == Steps \cup {"held"}

LEMMA ThrowLeads ==
  ASSUME TypeOK, NEW p \in Sessions, NEW r \in BOOLEAN, at[p] \in Steps, Throw(p, r)
  PROVE  /\ at' \in [Sessions -> Steps \cup AtRest]
         /\ at'[p] \in {"failed", "undo_lock", "undo_stale", "undo_guard", "abandon", "stuck"}
         /\ \A q \in Sessions \ {p} : at'[q] = at[q] /\ half'[q] = half[q]
         /\ half' \in [Sessions -> BOOLEAN] /\ ~half'[p]
         /\ claim' \in [Sessions -> BOOLEAN]
         /\ acq' = [acq EXCEPT ![p].dirty = acq'[p].dirty] /\ acq'[p].dirty \in BOOLEAN
<1>1. Handler(p) \in {"failed", "undo_lock", "undo_stale", "undo_guard", "abandon", "stuck"}
  BY DEF Handler, AfterUndoLock
<1>2. {"failed", "undo_lock", "undo_stale", "undo_guard", "abandon", "stuck"} \subseteq Steps \cup AtRest
  BY DEF Steps, Removing, AtRest
<1> DEFINE d == acq[p].dirty \/ r \/ at[p] \in Undoing
<1>3. /\ acq' = [acq EXCEPT ![p].dirty = d] /\ Goto(p, Handler(p))
      /\ claim' = [claim EXCEPT ![p] =
                 CASE at[p] \in {"backout", "abandon"} -> TRUE
                   [] Handler(p) = "failed" -> d
                   [] OTHER -> claim[p]]
  BY DEF Throw
<1>4. acq[p].dirty \in BOOLEAN
  BY DEF TypeOK, Acquisitions
<1>5. d \in BOOLEAN
  BY <1>4
<1> HIDE DEF d
<1> QED
  BY <1>1, <1>2, <1>3, <1>5 DEF Goto, TypeOK, Acquisitions

LEMMA ContinueLeads ==
  ASSUME TypeOK, NEW p \in Sessions, at[p] \in Steps, NEW a, Continue(p, a),
         a \in Acquisitions
  PROVE  /\ at' = [at EXCEPT ![p] = Following(p)]
         /\ at' \in [Sessions -> Steps \cup AtRest]
         /\ Following(p) \notin {"idle", "dead"}
         /\ half' = [half EXCEPT ![p] = FALSE] /\ half' \in [Sessions -> BOOLEAN]
         /\ claim' \in [Sessions -> BOOLEAN]
         /\ acq' = [acq EXCEPT ![p] = a]
         /\ acq' \in [Sessions -> Acquisitions]
<1> DEFINE L == {"recheck", "held", "link", "drop", "replace", "unstale", "unguard", "sync",
                 "rm_stale", "reguard", "rm_guard", "freshguard", "missing", "undo_stale",
                 "undo_guard", "recover", "free", "failed"}
<1>1. Following(p) \in L
  BY DEF Following, AfterReplace, AfterUnguard, AfterUndoLock
<1>2. L \subseteq Steps \cup AtRest /\ "idle" \notin L /\ "dead" \notin L
  BY DEF Steps, Removing, Creating, Reading, AtRest
<1> DEFINE c == CASE at[p] \in {"release", "abandon"} -> FALSE
                  [] at[p] = "undo_guard" -> a.dirty
                  [] OTHER -> claim[p]
<1>3. /\ acq' = [acq EXCEPT ![p] = a] /\ claim' = [claim EXCEPT ![p] = c]
      /\ at' = [at EXCEPT ![p] = Following(p)] /\ half' = [half EXCEPT ![p] = FALSE]
  BY DEF Continue, Goto
<1>4. c \in BOOLEAN
  BY DEF TypeOK, Acquisitions
<1> HIDE DEF c, L
<1> QED
  BY <1>1, <1>2, <1>3, <1>4 DEF TypeOK

\* A step of a session that lives keeps the invariant of the others.
LEMMA StepKeeps ==
  ASSUME IInv, NEW p \in Sessions, TypeOK', Past',
         at[p] \notin {"idle", "dead"}, at'[p] \notin {"idle", "dead"},
         \A q \in Sessions \ {p} : at'[q] = at[q] /\ try'[q] = try[q],
         try'[p] \in Tries, UNCHANGED <<resource, owner, life>>,
         resource = "kernel" => Disk(p)'
  PROVE  IInv'
<1>1. \A q \in Sessions : Alive(q)' /\ Fenced(q)'
  BY DEF IInv, Alive, Fenced
<1>2. ASSUME resource = "kernel", NEW q \in Sessions, q # p
      PROVE  Disk(q)'
  <2>1. life[p] \in {"up", "closing"} /\ owner = p
    BY <1>2 DEF IInv, Alive, Fenced
  <2>2. at[q] \in {"idle", "dead"}
    BY <2>1, <1>2 DEF IInv, Alive, Fenced
  <2> QED
    BY <2>2, <1>2 DEF Disk, Absent, Present, Finished
<1> QED
  BY <1>1, <1>2 DEF IInv

\* An error leads out of every step the invariant speaks of.
LEMMA ThrowKeeps ==
  ASSUME IInv, NEW p \in Sessions, NEW r \in BOOLEAN, at[p] \in Steps, Throw(p, r),
         entry' \in [Names -> Files \cup {NoFile}],
         \A n \in Names : entry'[n] \in {entry[n], NoFile},
         whole' \subseteq Files, faults' \in 0..MaxFaults, Frame
  PROVE  IInv'
<1>1. "idle" \notin Steps /\ "dead" \notin Steps
  BY DEF Steps, Removing, Creating, Reading
<1>2. TypeOK'
  <2>1. entry'[Lock] \notin GuardFiles /\ entry'[Guard] \notin LockFiles
    BY NamesDiffer, FilesDiffer DEF IInv, TypeOK
  <2>2. \A g \in GuardFiles : entry'[Stale(g)] \notin GuardFiles
    BY NamesDiffer, FilesDiffer DEF IInv, TypeOK
  <2>3. acq' \in [Sessions -> Acquisitions]
    <3>1. PICK d \in BOOLEAN : acq' = [acq EXCEPT ![p].dirty = d]
      BY ThrowLeads DEF IInv
    <3>2. acq \in [Sessions -> Acquisitions]
      BY DEF IInv, TypeOK
    <3> QED
      BY <3>1, <3>2 DEF Acquisitions
  <2> QED
    BY ThrowLeads, <2>1, <2>2, <2>3 DEF IInv, TypeOK, Frame
<1>3. Past'
  BY DEF IInv, Past, Frame
<1>4. Disk(p)'
  BY ThrowLeads DEF IInv, Disk, Absent, Present, Finished
<1>5. try'[p] \in Tries
  BY <1>1 DEF IInv, Alive, Frame
<1> QED
  BY <1>1, <1>2, <1>3, <1>4, <1>5, ThrowLeads, StepKeeps DEF IInv, Frame

LEMMA StepsAct == "idle" \notin Steps /\ "dead" \notin Steps
BY DEF Steps, Removing, Creating, Reading

\* The files a session makes in its attempt, and where.
LEMMA Makes ==
  ASSUME TypeOK, NEW p \in Sessions, at[p] \in Creating, try[p] \in Tries
  PROVE  /\ \/ at[p] \in {"create", "replace"} /\ Target(p) = Lock /\ Made(p) = MyLock(p)
            \/ at[p] \in {"mkguard", "freshguard"} /\ Target(p) = Guard /\ Made(p) = MyGuard(p)
         /\ Made(p) \in Files /\ Made(p).by = p /\ Made(p).try = try[p]
BY MineTyped, FilesDiffer DEF Creating, Target, Made

LEMMA CreateKeeps ==
  ASSUME IInv, NEW p \in Sessions, CreateFile(p)
  PROVE  IInv'
<1>1. at[p] \in Creating /\ at[p] \in Steps /\ at[p] \in Steps \cup AtRest
  BY DEF CreateFile, Steps
<1>2. try[p] \in Tries
  BY <1>1, StepsAct DEF IInv, Alive
<1>3. MyLock(p) \in LockFiles /\ MyGuard(p) \in GuardFiles
  BY <1>2, MineTyped
<1>4. CASE /\ entry[Target(p)] = NoFile
           /\ entry' = [entry EXCEPT ![Target(p)] = Made(p)]
           /\ Halfway(p) /\ whole' = whole /\ faults' = faults /\ Frame
  <2>1. TypeOK'
    <3>1. entry' \in [Names -> Files \cup {NoFile}]
      BY <1>1, <1>2, <1>4, Makes DEF IInv, TypeOK
    <3>2. entry'[Lock] \notin GuardFiles /\ entry'[Guard] \notin LockFiles
      BY <1>1, <1>2, <1>3, <1>4, Makes, NamesDiffer, FilesDiffer DEF IInv, TypeOK
    <3>3. \A g \in GuardFiles : entry'[Stale(g)] \notin GuardFiles
      BY <1>1, <1>2, <1>3, <1>4, Makes, NamesDiffer, FilesDiffer DEF IInv, TypeOK
    <3> QED
      BY <1>4, <3>1, <3>2, <3>3 DEF IInv, TypeOK, Halfway, Frame
  <2>2. Past'
    <3> SUFFICES ASSUME NEW n \in Names, entry'[n] # NoFile
                 PROVE  entry'[n].try <= try[entry'[n].by]
      BY <1>4 DEF Past, Frame
    <3>1. CASE n = Target(p)
      <4>1. entry'[n] = Made(p)
        BY <1>4, <3>1 DEF IInv, TypeOK
      <4>2. try[p] <= try[p]
        BY <1>2 DEF Tries
      <4> QED
        BY <4>1, <4>2, <1>1, <1>2, Makes DEF IInv
    <3>2. CASE n # Target(p)
      BY <1>4, <3>2 DEF IInv, TypeOK, Past
    <3> QED
      BY <3>1, <3>2
  <2>3. ASSUME resource = "kernel"
        PROVE  Disk(p)'
    <3>0. /\ at' = at /\ half'[p] /\ MyLock(p)' = MyLock(p) /\ Disk(p)
          /\ entry \in [Names -> Files \cup {NoFile}]
      BY <1>4, <2>3 DEF IInv, TypeOK, Halfway, Frame, MyLock
    <3>1. CASE at[p] \in {"create", "replace"}
      <4>1. Target(p) = Lock /\ Made(p) = MyLock(p)
        BY <1>1, <1>2, <3>1, Makes DEF IInv
      <4>2. \A n \in Names : entry[n] # MyLock(p)
        BY <3>0, <3>1 DEF Disk, Absent, CreateFile
      <4>3. \A n \in Names : entry'[n] = MyLock(p) <=> n = Lock
        BY <1>4, <4>1, <4>2, <3>0, NamesDiffer
      <4>4. at[p] = "create" => entry'[Guard] = NoFile
        BY <1>4, <4>1, <3>0, NamesDiffer DEF Disk
      <4> QED
        BY <3>0, <3>1, <4>3, <4>4 DEF Disk, Absent, Finished, Present
    <3>2. CASE at[p] \in {"mkguard", "freshguard"}
      <4>1. Target(p) = Guard /\ Made(p) = MyGuard(p)
        BY <1>1, <1>2, <3>2, Makes DEF IInv
      <4>2. \A n \in Names : entry[n] # MyLock(p)
        BY <3>0, <3>2 DEF Disk, Absent
      <4>3. \A n \in Names : entry'[n] # MyLock(p)
        BY <1>3, <1>4, <4>1, <4>2, <3>0, FilesDiffer
      <4> QED
        BY <3>0, <3>2, <4>3 DEF Disk, Absent, Finished, Present
    <3> QED
      BY <1>1, <3>1, <3>2 DEF Creating
  <2> QED
    BY <1>1, <1>2, <1>4, <2>1, <2>2, <2>3, StepKeeps, StepsAct DEF Halfway, Frame
<1>5. CASE Goto(p, "recover") /\ at[p] = "create" /\ UNCHANGED <<entry, claim, acq, whole, faults>> /\ Frame
  <2>1. TypeOK'
    BY <1>5 DEF IInv, TypeOK, Goto, Frame, Steps, Reading
  <2>2. Past'
    BY <1>5 DEF IInv, Past, Frame
  <2>3. resource = "kernel" => Disk(p)'
    BY <1>5 DEF IInv, TypeOK, Goto, Disk, Absent, Finished, Present, CreateFile, Frame, MyLock
  <2> QED
    BY <1>1, <1>2, <1>5, <2>1, <2>2, <2>3, StepKeeps, StepsAct DEF IInv, TypeOK, Goto, Frame
<1>6. CASE Throw(p, FALSE) /\ UNCHANGED <<entry, whole, faults>> /\ Frame
  BY <1>1, <1>6, ThrowKeeps DEF IInv, TypeOK
<1> QED
  BY <1>4, <1>5, <1>6 DEF CreateFile

LEMMA WriteKeeps ==
  ASSUME IInv, NEW p \in Sessions, WriteFile(p)
  PROVE  IInv'
<1>1. at[p] \in Creating /\ at[p] \in Steps /\ half[p]
  BY DEF WriteFile, Steps
<1>2. try[p] \in Tries
  BY <1>1, StepsAct DEF IInv, Alive
<1>3. /\ whole' = whole \cup {Made(p)} /\ whole' \subseteq Files
      /\ UNCHANGED <<entry, faults>> /\ Frame
  BY <1>1, <1>2, Makes DEF WriteFile, IInv, TypeOK
<1>4. CASE Continue(p, acq[p])
  <2>0. TypeOK /\ acq[p] \in Acquisitions
    BY DEF IInv, TypeOK
  <2>1. TypeOK'
    BY <1>1, <1>3, <1>4, <2>0, ContinueLeads DEF TypeOK, Frame
  <2>2. Past'
    BY <1>3 DEF IInv, Past, Frame
  <2>3. ASSUME resource = "kernel"
        PROVE  Disk(p)'
    <3>1. /\ at'[p] = Following(p) /\ ~half'[p] /\ MyLock(p)' = MyLock(p) /\ Disk(p)
      BY <1>1, <1>3, <1>4, <2>0, <2>3, ContinueLeads DEF IInv, TypeOK, Frame, MyLock
    <3>2. CASE at[p] \in {"create", "replace"}
      <4>1. Following(p) \in {"recheck", "unstale", "unguard"} /\ (Following(p) = "recheck" => at[p] = "create")
        BY <3>2 DEF Following, AfterReplace
      <4>2. MyLock(p) \in whole'
        BY <1>1, <1>2, <1>3, <3>2, Makes DEF IInv
      <4>3. \A n \in Names : entry'[n] = MyLock(p) <=> n = Lock
        BY <1>1, <1>3, <3>1, <3>2 DEF Disk, Present
      <4> QED
        BY <1>3, <3>1, <4>1, <4>2, <4>3 DEF Disk, Absent, Finished, Present
    <3>3. CASE at[p] \in {"mkguard", "freshguard"}
      <4>1. Following(p) \in {"link", "missing"}
        BY <3>3 DEF Following
      <4> QED
        BY <1>3, <3>1, <3>3, <4>1 DEF Disk, Absent, Finished, Present
    <3> QED
      BY <1>1, <3>2, <3>3 DEF Creating
  <2> QED
    BY <1>1, <1>2, <1>3, <1>4, <2>0, <2>1, <2>2, <2>3, StepKeeps, ContinueLeads, StepsAct DEF Frame, TypeOK
<1>5. CASE Throw(p, entry[Target(p)] = NoFile)
  <2> DEFINE r == entry[Target(p)] = NoFile
  <2>1. r \in BOOLEAN /\ Throw(p, r)
    BY <1>5
  <2> HIDE DEF r
  <2> QED
    BY <1>1, <1>3, <2>1, ThrowKeeps DEF IInv, TypeOK
<1> QED
  BY <1>4, <1>5 DEF WriteFile

LEMMA WriteFailsKeeps ==
  ASSUME IInv, NEW p \in Sessions, WriteFails(p)
  PROVE  IInv'
<1>1. at[p] \in Creating /\ at[p] \in Steps
  BY DEF WriteFails, Steps
<1>2. try[p] \in Tries
  BY <1>1, StepsAct DEF IInv, Alive
<1>3. PICK left \in BOOLEAN, retain \in BOOLEAN :
        /\ entry' = IF left \/ entry[Target(p)] # Made(p)
                     THEN entry ELSE [entry EXCEPT ![Target(p)] = NoFile]
        /\ Throw(p, retain)
  BY DEF WriteFails
<1>4. whole' \subseteq Files /\ faults' \in 0..MaxFaults /\ Frame
  <2>1. whole' \subseteq Files
    BY <1>1, <1>2, Makes DEF WriteFails, IInv, TypeOK
  <2>2. faults' \in 0..MaxFaults
    BY LockAssumption DEF WriteFails, IInv, TypeOK
  <2> QED
    BY <2>1, <2>2 DEF WriteFails
<1>5. entry' \in [Names -> Files \cup {NoFile}] /\ \A n \in Names : entry'[n] \in {entry[n], NoFile}
  BY <1>3 DEF IInv, TypeOK
<1> QED
  BY <1>1, <1>3, <1>4, <1>5, ThrowKeeps

LEMMA CheckKeeps ==
  ASSUME IInv, NEW p \in Sessions, CheckFile(p)
  PROVE  IInv'
<1>1. /\ at[p] \in Removing /\ at[p] \in Steps
      /\ UNCHANGED <<entry, whole, faults>> /\ Frame
  BY DEF CheckFile, Steps, NoChange
<1>2. CASE Halfway(p)
  <2>1. TypeOK'
    BY <1>1, <1>2 DEF IInv, TypeOK, Halfway, Frame
  <2>2. Past'
    BY <1>1 DEF IInv, Past, Frame
  <2>3. resource = "kernel" => Disk(p)'
    <3>1. /\ at' = at /\ MyLock(p)' = MyLock(p) /\ UNCHANGED <<entry, whole>>
          /\ at[p] \notin {"create", "replace"}
      BY <1>1, <1>2 DEF Halfway, Frame, MyLock, Removing
    <3>2. (Absent(p)' <=> Absent(p)) /\ (Finished(p)' <=> Finished(p)) /\ (Present(p)' <=> Present(p))
      BY <3>1 DEF Absent, Finished, Present
    <3>3. Disk(p) <=> Disk(p)'
      BY <3>1, <3>2 DEF Disk
    <3> QED
      BY <3>3 DEF IInv
  <2>4. try[p] \in Tries
    BY <1>1, StepsAct DEF IInv, Alive
  <2> QED
    BY <1>1, <1>2, <2>1, <2>2, <2>3, <2>4, StepKeeps, StepsAct DEF Halfway, Frame
<1>3. CASE Throw(p, FALSE)
  BY <1>1, <1>3, ThrowKeeps DEF IInv, TypeOK
<1> QED
  BY <1>2, <1>3 DEF CheckFile

LEMMA UnlinkKeeps ==
  ASSUME IInv, NEW p \in Sessions, UnlinkFile(p)
  PROVE  IInv'
<1>1. /\ at[p] \in Removing /\ at[p] \in Steps
      /\ UNCHANGED <<whole, resource, owner, life, faults>>
  BY DEF UnlinkFile, Steps
<1>2. CASE Throw(p, FALSE) /\ UNCHANGED <<entry, try>>
  BY <1>1, <1>2, ThrowKeeps DEF IInv, TypeOK, Frame
<1>3. ASSUME NEW a,
             a = [acq[p] EXCEPT
                    !.unlinked = @ \/ at[p] = "drop",
                    !.stale = IF at[p] \in {"rm_stale", "unstale"} THEN NoFile ELSE @],
             entry' = [entry EXCEPT ![NameOf(p)] = NoFile], Continue(p, a),
             IF at[p] = "backout"
               THEN try[p] < MaxTries /\ try' = [try EXCEPT ![p] = @ + 1]
               ELSE UNCHANGED try
      PROVE  IInv'
  <2>0. TypeOK /\ a \in Acquisitions
    <3>1. acq[p] \in Acquisitions
      BY DEF IInv, TypeOK
    <3> QED
      BY <1>3, <3>1 DEF IInv, Acquisitions
  <2>1. /\ entry' \in [Names -> Files \cup {NoFile}]
        /\ \A n \in Names : entry'[n] \in {entry[n], NoFile} /\ (n # NameOf(p) => entry'[n] = entry[n])
    BY <1>3, <2>0 DEF TypeOK
  <2>2. /\ try' \in [Sessions -> 0..MaxTries] /\ try[p] \in Tries /\ try'[p] \in Tries
        /\ \A q \in Sessions : try[q] <= try'[q] /\ (q # p \/ at[p] # "backout" => try'[q] = try[q])
    <3>1. try[p] \in Tries
      BY <1>1, StepsAct DEF IInv, Alive
    <3>2. CASE at[p] = "backout"
      BY <1>3, <2>0, <3>1, <3>2, LockAssumption DEF TypeOK, Tries
    <3>3. CASE at[p] # "backout"
      BY <1>3, <2>0, <3>1, <3>3, LockAssumption DEF TypeOK, Tries
    <3> QED
      BY <3>2, <3>3
  <2>3. TypeOK'
    <3>1. entry'[Lock] \notin GuardFiles /\ entry'[Guard] \notin LockFiles
      BY <2>0, <2>1, NamesDiffer, FilesDiffer DEF TypeOK
    <3>2. \A g \in GuardFiles : entry'[Stale(g)] \notin GuardFiles
      BY <2>0, <2>1, NamesDiffer, FilesDiffer DEF TypeOK
    <3> QED
      BY <1>1, <1>3, <2>0, <2>1, <2>2, <3>1, <3>2, ContinueLeads DEF TypeOK
  <2>4. Past'
    <3> SUFFICES ASSUME NEW n \in Names, entry'[n] # NoFile
                 PROVE  entry'[n].try <= try'[entry'[n].by]
      BY DEF Past
    <3>1. entry'[n] = entry[n] /\ entry[n] \in Files
      BY <2>0, <2>1 DEF TypeOK
    <3>2. entry[n].by \in Sessions /\ entry[n].try \in Nat
      BY <3>1, FilesDiffer DEF Tries
    <3>3. entry[n].try <= try[entry[n].by] /\ try[entry[n].by] <= try'[entry[n].by]
      BY <2>2, <3>1, <3>2 DEF IInv, Past
    <3>4. try[entry[n].by] \in Nat /\ try'[entry[n].by] \in Nat
      BY <2>0, <2>2, <3>2 DEF TypeOK
    <3> QED
      BY <3>1, <3>2, <3>3, <3>4
  <2>5. ASSUME resource = "kernel"
        PROVE  Disk(p)'
    <3>0. at[p] # "backout" /\ Disk(p)
      BY <2>5 DEF IInv, Disk
    <3>1. at'[p] = Following(p) /\ ~half'[p] /\ MyLock(p)' = MyLock(p) /\ whole' = whole
      <4>1. try'[p] = try[p]
        BY <2>2, <3>0
      <4>2. at' = [at EXCEPT ![p] = Following(p)] /\ half' = [half EXCEPT ![p] = FALSE]
        BY <1>1, <1>3, <2>0, ContinueLeads
      <4> QED
        BY <1>1, <2>0, <4>1, <4>2 DEF TypeOK, MyLock
    <3>2. MyLock(p) \in LockFiles /\ MyLock(p) # NoFile
      BY <2>2, MineTyped, FilesDiffer
    <3>3. CASE at[p] \in {"drop", "rm_lock", "rm_stale", "rm_guard"}
      <4>1. Following(p) \in {"replace", "rm_stale", "reguard", "freshguard"}
        BY <3>3 DEF Following
      <4>2. \A n \in Names : entry'[n] # MyLock(p)
        BY <2>1, <3>0, <3>2, <3>3 DEF Disk, Absent
      <4> QED
        BY <3>1, <4>1, <4>2 DEF Disk, Absent, Present, Finished
    <3>4. CASE at[p] \in {"unstale", "unguard"}
      <4>1. /\ Following(p) \in {"unguard", "sync", "held"}
            /\ Following(p) \in {"sync", "held"} => NameOf(p) = Guard
            /\ NameOf(p) \in {Guard, Stale(acq[p].guard)}
        BY <3>4 DEF Following, AfterUnguard, NameOf
      <4>2. NameOf(p) # Lock
        BY <4>1, NamesDiffer
      <4>3. \A n \in Names : entry'[n] = MyLock(p) <=> n = Lock
        <5>1. \A n \in Names : entry[n] = MyLock(p) <=> n = Lock
          <6>1. Present(p)
            BY <3>4 DEF Present, Finished
          <6> QED
            BY <3>0, <6>1 DEF Disk
        <5> QED
          BY <2>1, <3>2, <4>2, <5>1, NamesDiffer
      <4>4. Following(p) \in {"sync", "held"} => entry'[Guard] = NoFile
        BY <1>3, <2>0, <4>1, NamesDiffer DEF TypeOK
      <4> QED
        BY <3>0, <3>1, <3>4, <4>1, <4>3, <4>4 DEF Disk, Absent, Present, Finished
    <3>5. CASE at[p] \in {"undo_lock", "undo_stale", "undo_guard", "abandon", "release"}
      <4>1. Following(p) \in {"undo_stale", "undo_guard", "free", "failed"}
        BY <3>5 DEF Following, AfterUndoLock
      <4> QED
        BY <3>1, <4>1 DEF Disk, Absent, Present, Finished
    <3> QED
      BY <1>1, <3>0, <3>3, <3>4, <3>5 DEF Removing
  <2> QED
    <3>1. /\ at'[p] \notin {"idle", "dead"}
          /\ \A q \in Sessions \ {p} : at'[q] = at[q]
      <4>1. at' = [at EXCEPT ![p] = Following(p)] /\ Following(p) \notin {"idle", "dead"}
        BY <1>1, <1>3, <2>0, ContinueLeads
      <4> QED
        BY <2>0, <4>1 DEF TypeOK
    <3> QED
      BY <1>1, <2>2, <2>3, <2>4, <2>5, <3>1, StepKeeps, StepsAct
<1> QED
  BY <1>1, <1>2, <1>3 DEF UnlinkFile

\* A step that only reads the directory, and leads to s.
LEMMA ReadKeeps ==
  ASSUME IInv, NEW p \in Sessions, at[p] \in Steps \cup {"held"}, NEW s, Goto(p, s),
         s \in (Steps \cup AtRest) \ {"idle", "dead", "backout"},
         UNCHANGED <<entry, whole, faults>>, Frame,
         claim' \in [Sessions -> BOOLEAN],
         acq' \in [Sessions -> Acquisitions],
         resource = "kernel" =>
           \/ at[p] \in {"look", "resume", "recover", "missing", "reguard"}
              /\ s \in {"create", "resume", "mkguard", "rm_lock", "rm_stale", "reguard",
                        "rm_guard", "replace"}
              /\ (s = "create" => entry[Guard] = NoFile)
           \/ at[p] \in {"recheck", "sync", "held"} /\ s = "held"
           \/ s = "release"
  PROVE  IInv'
<1>1. TypeOK'
  BY DEF IInv, TypeOK, Goto, Frame
<1>2. Past'
  BY DEF IInv, Past, Frame
<1>3. at'[p] = s /\ ~half'[p] /\ \A q \in Sessions \ {p} : at'[q] = at[q]
  BY DEF IInv, TypeOK, Goto
<1>4. try[p] \in Tries
  BY StepsAct DEF IInv, Alive
<1>5. ASSUME resource = "kernel" PROVE Disk(p)'
  <2>1. Disk(p) /\ MyLock(p)' = MyLock(p)
    BY <1>5 DEF IInv, Frame, MyLock
  <2>2. CASE /\ at[p] \in {"look", "resume", "recover", "missing", "reguard"}
             /\ s \in {"create", "resume", "mkguard", "rm_lock", "rm_stale", "reguard",
                       "rm_guard", "replace"}
             /\ (s = "create" => entry[Guard] = NoFile)
    BY <1>3, <2>1, <2>2 DEF Disk, Absent, Present, Finished
  <2>3. CASE at[p] \in {"recheck", "sync", "held"} /\ s = "held"
    BY <1>3, <2>1, <2>3 DEF Disk, Absent, Present, Finished
  <2>4. CASE s = "release"
    BY <1>3, <2>1, <2>4 DEF Disk, Absent, Present, Finished
  <2> QED
    BY <1>5, <2>2, <2>3, <2>4
<1> QED
  BY <1>1, <1>2, <1>3, <1>4, <1>5, StepKeeps, StepsAct DEF Frame

LEMMA LinkKeeps ==
  ASSUME IInv, NEW p \in Sessions, LinkStale(p)
  PROVE  IInv'
<1>1. /\ at[p] = "link" /\ at[p] \in Steps /\ whole' = whole /\ faults' = faults /\ Frame
  BY DEF LinkStale, Steps, Reading
<1>2. try[p] \in Tries /\ MyGuard(p) \in GuardFiles
  <2>1. try[p] \in Tries
    BY <1>1, StepsAct DEF IInv, Alive
  <2> QED
    BY <2>1, MineTyped
<1>3. CASE Throw(p, FALSE) /\ UNCHANGED entry
  BY <1>1, <1>3, ThrowKeeps DEF IInv, TypeOK
<1>4. CASE Halfway(p) /\ UNCHANGED entry
  <2>1. TypeOK'
    BY <1>1, <1>4 DEF IInv, TypeOK, Halfway, Frame
  <2>2. Past'
    BY <1>1, <1>4 DEF IInv, Past, Frame
  <2>3. resource = "kernel" => Disk(p)'
    BY <1>1, <1>4 DEF IInv, Halfway, Disk, Absent, Finished, Present, Frame, MyLock
  <2> QED
    BY <1>1, <1>2, <1>4, <2>1, <2>2, <2>3, StepKeeps, StepsAct DEF Halfway, Frame
<1>5. ASSUME NEW a, a = [acq[p] EXCEPT !.stale = acq[p].lock, !.guard = MyGuard(p)],
             Continue(p, a), entry' = [entry EXCEPT ![Stale(MyGuard(p))] = entry[Lock]]
      PROVE  IInv'
  <2>0. TypeOK /\ a \in Acquisitions
    <3>1. acq[p] \in Acquisitions
      BY DEF IInv, TypeOK
    <3> QED
      BY <1>2, <1>5, <3>1 DEF IInv, Acquisitions
  <2>1. at' = [at EXCEPT ![p] = "drop"] /\ half' = [half EXCEPT ![p] = FALSE]
    BY <1>1, <1>5, <2>0, ContinueLeads DEF Following
  <2>2. /\ entry' \in [Names -> Files \cup {NoFile}]
        /\ \A n \in Names : entry'[n] = IF n = Stale(MyGuard(p)) THEN entry[Lock] ELSE entry[n]
    BY <1>5, <2>0, NamesDiffer DEF TypeOK
  <2>3. TypeOK'
    <3>1. /\ entry'[Lock] \notin GuardFiles /\ entry'[Guard] \notin LockFiles
          /\ \A g \in GuardFiles : entry'[Stale(g)] \notin GuardFiles
      BY <1>2, <2>0, <2>2, NamesDiffer DEF TypeOK
    <3> QED
      BY <1>1, <1>5, <2>0, <2>2, <3>1, ContinueLeads DEF TypeOK, Frame
  <2>4. Past'
    BY <1>1, <2>2, NamesDiffer DEF IInv, Past, Frame
  <2>5. ASSUME resource = "kernel"
        PROVE  Disk(p)'
    <3>1. at'[p] = "drop" /\ MyLock(p)' = MyLock(p)
      BY <1>1, <2>0, <2>1 DEF TypeOK, Frame, MyLock
    <3>2. \A n \in Names : entry[n] # MyLock(p)
      BY <1>1, <2>5 DEF IInv, Disk, Absent
    <3>3. \A n \in Names : entry'[n] # MyLock(p)
      BY <2>2, <3>2, NamesDiffer
    <3> QED
      BY <3>1, <3>3 DEF Disk, Absent, Finished, Present
  <2>6. at'[p] = "drop" /\ \A q \in Sessions \ {p} : at'[q] = at[q]
    BY <2>0, <2>1 DEF TypeOK
  <2> QED
    BY <1>1, <1>2, <2>3, <2>4, <2>5, <2>6, StepKeeps, StepsAct DEF Frame
<1> QED
  BY <1>1, <1>3, <1>4, <1>5 DEF LinkStale

LEMMA ReadingKeeps ==
  ASSUME IInv, NEW p \in Sessions,
         \/ Look(p) \/ AssertNoGuard(p) \/ AssertNoLock(p) \/ AssertOwnership(p)
         \/ Recover(p) \/ Resume(p) \/ Reguard(p) \/ Sync(p)
  PROVE  IInv'
<1>0. UNCHANGED <<entry, whole, faults>> /\ Frame
  BY DEF Look, AssertNoGuard, AssertNoLock, AssertOwnership, Recover, Resume, Reguard, Sync, NoChange
<1>1. at[p] \in Reading /\ at[p] \in Steps
  BY DEF Look, AssertNoGuard, AssertNoLock, AssertOwnership, Recover, Resume, Reguard, Sync,
         Reading, Steps
<1>2. whole' \subseteq Files /\ faults' \in 0..MaxFaults /\ entry' \in [Names -> Files \cup {NoFile}]
  BY <1>0 DEF IInv, TypeOK
<1>3. CASE Throw(p, FALSE)
  BY <1>0, <1>1, <1>2, <1>3, ThrowKeeps
<1>4. acq[p] \in Acquisitions
  BY DEF IInv, TypeOK
<1>5. CASE Look(p)
  BY <1>0, <1>1, <1>5, ReadKeeps DEF Look, IInv, TypeOK, Steps, Creating, Reading
<1>6. ASSUME Continue(p, acq[p]), at[p] \in {"recheck", "missing", "reguard", "sync"} PROVE IInv'
  <2>1. Goto(p, Following(p))
    BY <1>6 DEF Continue
  <2>2. Following(p) = IF at[p] = "missing" THEN "replace"
                       ELSE IF at[p] = "reguard" THEN "rm_guard" ELSE "held"
    BY <1>6 DEF Following
  <2>3. {"replace", "rm_guard", "held"} \subseteq (Steps \cup AtRest) \ {"idle", "dead", "backout"}
    BY DEF Steps, Creating, Removing, AtRest
  <2>4. /\ claim' \in [Sessions -> BOOLEAN]
        /\ acq' \in [Sessions -> Acquisitions]
    BY <1>1, <1>4, <1>6, ContinueLeads DEF IInv
  <2> DEFINE s == Following(p)
  <2>5. /\ s \in (Steps \cup AtRest) \ {"idle", "dead", "backout"}
        /\ \/ at[p] \in {"missing", "reguard"} /\ s \in {"replace", "rm_guard"}
           \/ at[p] \in {"recheck", "sync"} /\ s = "held"
    BY <1>6, <2>2, <2>3
  <2> HIDE DEF s
  <2>6. Goto(p, s)
    BY <2>1 DEF s
  <2> QED
    BY <1>0, <1>1, <2>4, <2>5, <2>6, ReadKeeps
<1>7. CASE AssertNoGuard(p)
  <2>1. CASE Continue(p, acq[p])
    BY <1>6, <1>7, <2>1 DEF AssertNoGuard
  <2>2. CASE Goto(p, "backout") /\ UNCHANGED <<claim, acq>> /\ entry[Guard] # NoFile
    <3>1. resource # "kernel"
      BY <1>7, <2>2 DEF AssertNoGuard, IInv, Disk
    <3>2. TypeOK'
      BY <1>0, <2>2 DEF IInv, TypeOK, Goto, Frame, Steps, Removing
    <3>3. Past'
      BY <1>0 DEF IInv, Past, Frame
    <3>4. at'[p] = "backout" /\ \A q \in Sessions \ {p} : at'[q] = at[q]
      BY <2>2 DEF IInv, TypeOK, Goto
    <3>5. try[p] \in Tries
      BY <1>1, StepsAct DEF IInv, Alive
    <3> QED
      BY <1>0, <1>1, <3>1, <3>2, <3>3, <3>4, <3>5, StepKeeps, StepsAct DEF Frame
  <2> QED
    BY <1>7, <2>1, <2>2 DEF AssertNoGuard
<1>8. CASE AssertNoLock(p) \/ Reguard(p) \/ Sync(p)
  BY <1>3, <1>6, <1>8 DEF AssertNoLock, Reguard, Sync
<1>9. CASE AssertOwnership(p)
  <2>1. CASE Halfway(p)
    <3>1. TypeOK'
      BY <1>0, <2>1 DEF IInv, TypeOK, Halfway, Frame
    <3>2. Past'
      BY <1>0 DEF IInv, Past, Frame
    <3>3. resource = "kernel" => Disk(p)'
      BY <1>0, <1>9, <2>1 DEF IInv, Halfway, Disk, Absent, Finished, Present, Frame, MyLock, AssertOwnership
    <3>4. try[p] \in Tries
      BY <1>1, StepsAct DEF IInv, Alive
    <3> QED
      BY <1>0, <1>1, <2>1, <3>1, <3>2, <3>3, <3>4, StepKeeps, StepsAct DEF Halfway, Frame
  <2> QED
    BY <1>3, <1>9, <2>1 DEF AssertOwnership
<1>10. CASE Recover(p)
  <2>1. ASSUME NEW f, f = entry[Lock], Readable(Lock, f, 1), Goto(p, "mkguard"), claim' = claim,
               acq' = [acq EXCEPT ![p] = [Nothing EXCEPT !.lock = f]]
        PROVE  IInv'
    <3>1. f \in LockFiles \cup {NoFile}
      BY <2>1, NamesDiffer DEF IInv, TypeOK, Files
    <3>2. [Nothing EXCEPT !.lock = f] \in Acquisitions
      BY <3>1 DEF Nothing, Acquisitions
    <3>3. /\ claim' \in [Sessions -> BOOLEAN]
          /\ acq' \in [Sessions -> Acquisitions]
      BY <2>1, <3>2 DEF IInv, TypeOK
    <3> QED
      BY <1>0, <1>1, <1>10, <2>1, <3>3, ReadKeeps DEF Recover, Steps, Creating
  <2> QED
    BY <1>3, <1>10, <2>1 DEF Recover
<1>11. CASE Resume(p)
  <2>1. ASSUME NEW g, g = entry[Guard], Readable(Guard, g, 1), NEW a,
               a = [Nothing EXCEPT !.lock = entry[Lock], !.stale = entry[Stale(g)], !.guard = g],
               NEW s, s \in {"rm_lock", "rm_stale", "reguard"}, Goto(p, s), claim' = claim,
               acq' = [acq EXCEPT ![p] = a]
        PROVE  IInv'
    <3>1. g \in GuardFiles
      BY <2>1, NamesDiffer DEF IInv, TypeOK, Files, Readable
    <3>2. entry[Lock] \in LockFiles \cup {NoFile} /\ entry[Stale(g)] \in LockFiles \cup {NoFile}
      BY <3>1, NamesDiffer DEF IInv, TypeOK, Files
    <3>3. a \in Acquisitions
      BY <2>1, <3>1, <3>2 DEF Nothing, Acquisitions
    <3>4. /\ claim' \in [Sessions -> BOOLEAN]
          /\ acq' \in [Sessions -> Acquisitions]
      BY <2>1, <3>3 DEF IInv, TypeOK
    <3> QED
      BY <1>0, <1>1, <1>11, <2>1, <3>4, ReadKeeps DEF Resume, Steps, Removing, Reading
  <2> QED
    BY <1>3, <1>11, <2>1 DEF Resume
<1> QED
  BY <1>5, <1>7, <1>8, <1>9, <1>10, <1>11

LEMMA FailsKeeps ==
  ASSUME IInv, NEW p \in Sessions, Fails(p)
  PROVE  IInv'
<1>1. faults' \in 0..MaxFaults
  BY LockAssumption DEF Fails, IInv, TypeOK
<1> QED
  BY <1>1, ThrowKeeps DEF Fails, NoChange, IInv, TypeOK

\* A new attempt makes files that are not there yet.
LEMMA BeginKeeps ==
  ASSUME IInv, NEW p \in Sessions, Begin(p)
  PROVE  IInv'
<1>1. /\ life[p] = "up" /\ at[p] \in {"idle", "free", "failed"}
      /\ try' = [try EXCEPT ![p] = @ + 1] /\ try[p] < MaxTries
      /\ at' = [at EXCEPT ![p] = "look"] /\ half' = [half EXCEPT ![p] = FALSE]
      /\ UNCHANGED <<entry, whole, resource, owner, life, faults>>
  BY DEF Begin, Goto, NoChange
<1>2. try[p] \in Nat /\ try'[p] = try[p] + 1 /\ try'[p] \in Tries
  BY <1>1, LockAssumption DEF IInv, TypeOK, Tries
<1>3. TypeOK'
  <2>1. Nothing \in Acquisitions
    BY DEF Nothing, Acquisitions
  <2>2. try' \in [Sessions -> 0..MaxTries]
    BY <1>1, LockAssumption DEF IInv, TypeOK
  <2>3. at' \in [Sessions -> Steps \cup AtRest] /\ half' \in [Sessions -> BOOLEAN]
    BY <1>1 DEF IInv, TypeOK, Steps, Reading
  <2>4. /\ claim' \in [Sessions -> BOOLEAN]
        /\ acq' \in [Sessions -> Acquisitions]
    BY <2>1 DEF Begin, IInv, TypeOK
  <2> QED
    BY <1>1, <2>2, <2>3, <2>4 DEF IInv, TypeOK
<1>4. Past'
  <2> SUFFICES ASSUME NEW n \in Names, entry[n] # NoFile
               PROVE  entry[n].try <= try'[entry[n].by]
    BY <1>1 DEF Past
  <2>1. entry[n].by \in Sessions /\ entry[n].try \in Nat
    BY FilesDiffer DEF IInv, TypeOK, Tries
  <2>2. entry[n].try <= try[entry[n].by]
    BY DEF IInv, Past
  <2> QED
    BY <1>1, <1>2, <2>1, <2>2, LockAssumption DEF IInv, TypeOK
<1>5. \A q \in Sessions : Alive(q)' /\ Fenced(q)'
  BY <1>1, <1>2 DEF IInv, TypeOK, Alive, Fenced
<1>6. ASSUME resource = "kernel", NEW q \in Sessions
      PROVE  Disk(q)'
  <2>1. CASE q = p
    <3>1. \A n \in Names : entry'[n] # MyLock(p)'
      <4> SUFFICES ASSUME NEW n \in Names, entry[n] = MyLock(p)'
                   PROVE  FALSE
        BY <1>1
      <4>1. MyLock(p)' = File("lock", p, try'[p])
        BY DEF MyLock
      <4>2. MyLock(p)' \in LockFiles
        BY <1>2, <4>1 DEF LockFiles
      <4>3. entry[n] # NoFile /\ entry[n].by = p /\ entry[n].try = try'[p]
        BY <4>1, <4>2, FilesDiffer DEF File
      <4>4. entry[n].try <= try[p]
        BY <4>3 DEF IInv, Past
      <4> QED
        BY <1>2, <4>3, <4>4
    <3>2. at'[p] = "look"
      BY <1>1 DEF IInv, TypeOK
    <3> QED
      BY <2>1, <3>1, <3>2 DEF Disk, Absent, Present, Finished
  <2>2. CASE q # p
    <3>1. at'[q] = at[q] /\ owner = p
      BY <1>1, <1>6, <2>2 DEF IInv, TypeOK, Fenced
    <3>2. at[q] \in {"idle", "dead"}
      BY <2>2, <3>1, <1>6 DEF IInv, Alive, Fenced
    <3> QED
      BY <3>1, <3>2 DEF Disk, Absent, Present, Finished
  <2> QED
    BY <2>1, <2>2
<1> QED
  BY <1>1, <1>3, <1>4, <1>5, <1>6 DEF IInv

LEMMA ReleaseKeeps ==
  ASSUME IInv, NEW p \in Sessions, Release(p)
  PROVE  IInv'
BY ReadKeeps DEF Release, NoChange, Steps, Removing, IInv, TypeOK

\* The steps of a session's life that leave its acquisition alone.
LEMMA LifeKeeps ==
  ASSUME IInv, NEW p \in Sessions, Boot(p) \/ Quit(p) \/ CloseIngress(p)
  PROVE  IInv'
<1>1. UNCHANGED <<entry, whole, resource, at, half, try, claim, acq, faults>>
  BY DEF Boot, Quit, CloseIngress, NoChange
<1>2. TypeOK'
  BY <1>1 DEF IInv, TypeOK, Boot, Quit, CloseIngress
<1>3. Past'
  BY <1>1 DEF IInv, Past
<1>4. resource' = "kernel" => \A q \in Sessions : Disk(q)'
  <2> SUFFICES ASSUME resource = "kernel", NEW q \in Sessions, Disk(q)
               PROVE  Disk(q)'
    BY <1>1 DEF IInv
  <2> QED
    BY <1>1 DEF Disk, Absent, Present, Finished, MyLock
<1>5. ASSUME NEW q \in Sessions PROVE Alive(q)' /\ Fenced(q)'
  <2>1. CASE Boot(p)
    BY <1>1, <2>1, LockAssumption DEF Boot, IInv, TypeOK, Alive, Fenced, Sessions
  <2>2. CASE Quit(p)
    BY <1>1, <2>2 DEF Quit, IInv, TypeOK, Alive, Fenced
  <2>3. CASE CloseIngress(p)
    BY <1>1, <2>3, LockAssumption DEF CloseIngress, IInv, TypeOK, Alive, Fenced, Sessions
  <2> QED
    BY <2>1, <2>2, <2>3
<1> QED
  BY <1>2, <1>3, <1>4, <1>5 DEF IInv

LEMMA EndsKeeps ==
  ASSUME IInv, NEW p \in Sessions, Ends(p), life[p] \in {"up", "closing"}
  PROVE  IInv'
<1>1. /\ life' = [life EXCEPT ![p] = "gone"]
      /\ owner' = IF owner = p THEN NoSession ELSE owner
      /\ at' = [at EXCEPT ![p] = "dead"] /\ half' = [half EXCEPT ![p] = FALSE]
      /\ UNCHANGED <<entry, whole, resource, try, faults>>
  BY DEF Ends, Goto, NoChange
<1>2. TypeOK'
  <2>1. Nothing \in Acquisitions
    BY DEF Nothing, Acquisitions
  <2>2. /\ claim' \in [Sessions -> BOOLEAN]
        /\ acq' \in [Sessions -> Acquisitions]
    BY <2>1 DEF Ends, IInv, TypeOK
  <2>3. at' \in [Sessions -> Steps \cup AtRest] /\ half' \in [Sessions -> BOOLEAN]
    BY <1>1 DEF IInv, TypeOK, AtRest
  <2> QED
    BY <1>1, <2>2, <2>3 DEF IInv, TypeOK
<1>3. Past'
  BY <1>1 DEF IInv, Past
<1>4. ASSUME NEW q \in Sessions
      PROVE  Alive(q)' /\ Fenced(q)' /\ (resource = "kernel" => Disk(q)')
  <2>1. CASE q = p
    <3>1. at'[q] = "dead" /\ life'[q] = "gone"
      BY <1>1, <2>1 DEF IInv, TypeOK
    <3> QED
      BY <3>1 DEF Alive, Fenced, Disk, Absent, Present, Finished
  <2>2. CASE q # p
    <3>1. /\ at'[q] = at[q] /\ life'[q] = life[q] /\ half'[q] = half[q] /\ try' = try
          /\ (owner = q <=> owner' = q)
      BY <1>1, <2>2, LockAssumption DEF IInv, TypeOK, Sessions
    <3>2. Alive(q)' /\ Fenced(q)'
      BY <1>1, <3>1 DEF IInv, Alive, Fenced
    <3>3. ASSUME resource = "kernel" PROVE Disk(q)'
      BY <1>1, <3>1, <3>3 DEF IInv, Disk, Absent, Present, Finished, MyLock
    <3> QED
      BY <3>2, <3>3
  <2> QED
    BY <2>1, <2>2
<1> QED
  BY <1>1, <1>2, <1>3, <1>4 DEF IInv

LEMMA InitIInv == Init => IInv
<1> SUFFICES ASSUME Init PROVE IInv
  OBVIOUS
<1>1. TypeOK
  <2>1. Nothing \in Acquisitions
    BY DEF Nothing, Acquisitions
  <2>2. "idle" \in Steps \cup AtRest
    BY DEF AtRest
  <2>3. 0 \in 0..MaxTries /\ 0 \in 0..MaxFaults
    BY LockAssumption
  <2>4. NoFile \notin GuardFiles /\ NoFile \notin LockFiles
    BY NoFileAssumption DEF Files
  <2> QED
    BY <2>1, <2>2, <2>3, <2>4, NamesDiffer DEF Init, TypeOK
<1>2. Past
  BY DEF Init, Past
<1>3. \A p \in Sessions : Alive(p) /\ Fenced(p) /\ Disk(p)
  BY DEF Init, Alive, Fenced, Disk, Absent, Present, Finished
<1> QED
  BY <1>1, <1>2, <1>3 DEF IInv

LEMMA NextIInv == IInv /\ [Next]_vars => IInv'
<1> SUFFICES ASSUME IInv, [Next]_vars PROVE IInv'
  OBVIOUS
<1>1. CASE UNCHANGED vars
  <2>1. TypeOK' /\ Past' /\ \A p \in Sessions : Alive(p)' /\ Fenced(p)'
    BY <1>1 DEF vars, IInv, TypeOK, Past, Alive, Fenced
  <2>2. ASSUME resource' = "kernel", NEW p \in Sessions PROVE Disk(p)'
    BY <1>1, <2>2 DEF vars, IInv, Disk, Absent, Present, Finished, MyLock
  <2> QED
    BY <2>1, <2>2 DEF IInv
<1>2. ASSUME NEW p \in Sessions, Progress(p) PROVE IInv'
  BY <1>2, CreateKeeps, WriteKeeps, CheckKeeps, UnlinkKeeps, LinkKeeps, ReadingKeeps DEF Progress
<1>3. ASSUME NEW p \in Sessions,
             \/ WriteFails(p) \/ Fails(p) \/ Boot(p) \/ Begin(p) \/ Quit(p)
             \/ CloseIngress(p) \/ Release(p)
      PROVE  IInv'
  BY <1>3, WriteFailsKeeps, FailsKeeps, LifeKeeps, BeginKeeps, ReleaseKeeps
<1>4. ASSUME NEW p \in Sessions, Exit(p) \/ Crash(p) PROVE IInv'
  BY <1>4, EndsKeeps DEF Exit, Crash
<1> QED
  BY <1>1, <1>2, <1>3, <1>4 DEF Next

-----------------------------------------------------------------------------
\* Type correctness and the inductive invariant, for every number of starts, of
\* attempts and of I/O errors (acquire and release of bridge-data-dir-lock.ts).
THEOREM Invariance == Spec => []IInv
BY InitIInv, NextIInv, PTL DEF Spec

\* Type correctness of the lock and of the shells that take it.
THEOREM TypeCorrect == Spec => []TypeOK
<1>1. IInv => TypeOK
  BY DEF IInv
<1> QED
  BY <1>1, Invariance, PTL

\* Two sessions hold the directory only when the resource is a listener and one
\* of them is still draining after it closed its ingress (server/shutdown.ts).
THEOREM Exclusive == Spec => []OneHolder
<1>1. IInv => OneHolder
  <2> SUFFICES ASSUME IInv, NEW p \in Sessions, NEW q \in Sessions, p # q, Holds(p), Holds(q)
               PROVE  /\ resource = "listener"
                      /\ \E s \in {p, q} : life[s] = "closing" /\ owner # s
    BY DEF OneHolder
  <2>1. life[p] \in {"up", "closing"} /\ life[q] \in {"up", "closing"}
    BY DEF IInv, Alive, Holds
  <2>2. PICK s \in {p, q} : owner # s
    OBVIOUS
  <2> QED
    BY <2>1, <2>2 DEF IInv, Fenced
<1> QED
  BY <1>1, Invariance, PTL

\* While a session with a kernel's resource holds the directory, the lock is its
\* own file, whole and under no other name, and there is no guard (release can
\* therefore check what it unlinks).
THEOREM Named == Spec => []HolderNamed
<1>1. IInv => HolderNamed
  <2> SUFFICES ASSUME IInv, resource = "kernel", NEW p \in Sessions, Holds(p)
               PROVE  Readable(Lock, MyLock(p), 1) /\ entry[Guard] = NoFile
    BY DEF HolderNamed
  <2>1. Disk(p) /\ at[p] = "held" /\ Lock \in Names
    BY NamesDiffer DEF IInv, Holds
  <2>2. MyLock(p) # NoFile
    <3>1. try[p] \in Tries
      BY <2>1 DEF IInv, Alive
    <3> QED
      BY <3>1, MineTyped, FilesDiffer
  <2>3. {n \in Names : entry[n] = MyLock(p)} = {Lock}
    BY <2>1 DEF Disk, Present, Finished
  <2>4. Links(MyLock(p)) = 1
    BY <2>3, FS_Singleton DEF Links
  <2> QED
    BY <2>1, <2>2, <2>3, <2>4 DEF Readable, Disk, Finished
<1> QED
  BY <1>1, Invariance, PTL

-----------------------------------------------------------------------------
(***************************************************************************)
(* What crashes leave in the bridge data directory, and that every session *)
(* which has the resource recovers from it, as long as there was no I/O    *)
(* error.                                                                  *)
(*                                                                         *)
(* Sessions act one at a time, so the directory is described for each step *)
(* of the one that acts (Shape): which guard, which lock and which         *)
(* quarantine are there, and that they are whole.  A shape leaves no check *)
(* of the code a way to fail but a document that was cut off, and its      *)
(* residue is what the next session starts from.                           *)
(***************************************************************************)

(* What the directory looks like at each step of the session that has the    *)
(* resource, as long as there was no I/O error.                             *)

\* No file is this session's.
Foreign(p) == \A n \in Names : entry[n] # NoFile => entry[n].by # p

\* No lock is quarantined.
Clear == \A g \in GuardFiles : entry[Stale(g)] = NoFile

\* The document of the lock or of the guard was cut off by a crash.
Torn == \E n \in {Lock, Guard} : entry[n] # NoFile /\ entry[n] \notin whole

\* What a crash may leave: a quarantined lock is whole, and so is its guard.
Residue ==
  \A g \in GuardFiles : entry[Stale(g)] # NoFile =>
    entry[Guard] = g /\ g \in whole /\ entry[Stale(g)] \in whole

\* The guard is this session's, or the one whose recovery it resumes.
Guarded(p) ==
  /\ at[p] \in {"link", "drop", "replace", "missing", "unstale", "unguard"} =>
       entry[Guard] = MyGuard(p) /\ MyGuard(p) \in whole
  /\ at[p] \in {"mkguard", "freshguard"} =>
       entry[Guard] = IF half[p] THEN MyGuard(p) ELSE NoFile
  /\ at[p] \in {"rm_lock", "rm_stale", "reguard", "rm_guard"} =>
       entry[Guard] = acq[p].guard /\ acq[p].guard # NoFile /\ acq[p].guard \in whole
  /\ at[p] \in {"recover", "release", "free"} => entry[Guard] = NoFile
  /\ at[p] = "resume" => entry[Guard] # NoFile

\* The lock is the one the acquisition has read, or it is out of the way.
Locked(p) ==
  /\ at[p] = "recover" => entry[Lock] # NoFile
  /\ at[p] \in {"mkguard", "link", "drop", "rm_lock"} =>
       entry[Lock] = acq[p].lock /\ acq[p].lock # NoFile
  /\ at[p] \in {"mkguard", "link", "drop"} => acq[p].lock \in whole
  /\ \/ at[p] \in {"rm_stale", "reguard", "rm_guard", "freshguard", "missing", "free"}
     \/ at[p] = "replace" /\ ~half[p]
     => entry[Lock] = NoFile
  /\ at[p] = "release" => entry[Lock] = MyLock(p)

\* The quarantine is the one the acquisition has made or found.
Quarantined(p) ==
  /\ at[p] = "drop" => acq[p].lock = acq[p].stale
  /\ at[p] \in {"drop", "unstale"} => acq[p].guard = MyGuard(p)
  /\ at[p] \in {"drop", "replace", "unstale"} => entry[Stale(MyGuard(p))] = acq[p].stale
  /\ at[p] = "replace" /\ acq[p].stale # NoFile => acq[p].guard = MyGuard(p)
  /\ at[p] \in {"rm_lock", "rm_stale"} => entry[Stale(acq[p].guard)] = acq[p].stale
  /\ at[p] \in {"rm_stale", "unstale"} => acq[p].stale # NoFile
  /\ at[p] \in {"mkguard", "link", "reguard", "rm_guard", "freshguard", "missing", "unguard"} => Clear
  /\ at[p] \in {"mkguard", "link", "reguard", "rm_guard", "freshguard", "missing", "unguard"} =>
       acq[p].stale = NoFile

Shape(p) ==
  /\ at[p] \notin Undoing \cup {"abandon", "backout", "stuck"}
  /\ at[p] = "failed" => Torn
  /\ at[p] \in {"look", "resume", "recover", "failed"} \/ (at[p] = "create" /\ ~half[p]) => Foreign(p)
  /\ Guarded(p) /\ Locked(p) /\ Quarantined(p)

SInv ==
  /\ IInv
  /\ resource = "kernel" /\ faults = 0 => Residue /\ \A p \in Sessions : Shape(p)

-----------------------------------------------------------------------------
LEMMA OneName ==
  ASSUME NEW n \in Names, NEW f, \A m \in Names : entry[m] = f <=> m = n
  PROVE  Links(f) = 1
<1>1. {m \in Names : entry[m] = f} = {n}
  OBVIOUS
<1> QED
  BY <1>1, FS_Singleton DEF Links

LEMMA TwoNames ==
  ASSUME NEW n \in Names, NEW k \in Names, n # k, NEW f,
         \A m \in Names : entry[m] = f <=> m \in {n, k}
  PROVE  Links(f) = 2
<1>1. {m \in Names : entry[m] = f} = {n} \cup {k}
  OBVIOUS
<1>2. IsFiniteSet({n}) /\ Cardinality({n}) = 1
  BY FS_Singleton
<1>3. Cardinality({n} \cup {k}) = 1 + 1
  BY <1>2, FS_AddElement
<1> QED
  BY <1>1, <1>3 DEF Links

LEMMA AllNames ==
  \A n \in Names : n = Lock \/ n = Guard \/ \E g \in GuardFiles : n = Stale(g)
BY DEF Names

\* A guard is under no other name.
LEMMA GuardOnce ==
  ASSUME TypeOK, entry[Guard] # NoFile
  PROVE  entry[Guard] \in GuardFiles /\ Links(entry[Guard]) = 1
<1>1. entry[Guard] \in GuardFiles
  BY NamesDiffer DEF TypeOK, Files
<1>2. \A m \in Names : entry[m] = entry[Guard] <=> m = Guard
  BY <1>1, AllNames, NamesDiffer, FilesDiffer DEF TypeOK
<1> QED
  BY <1>1, <1>2, NamesDiffer, OneName

\* A lock is under its own name, and under one quarantine name at most.
LEMMA LockLinks ==
  ASSUME TypeOK, Residue, NEW f \in LockFiles, NEW g \in GuardFiles,
         Clear \/ entry[Guard] = g
  PROVE  /\ entry[Lock] = f /\ entry[Stale(g)] # f => Links(f) = 1
         /\ entry[Lock] # f /\ entry[Stale(g)] = f => Links(f) = 1
         /\ entry[Lock] = f /\ entry[Stale(g)] = f => Links(f) = 2
<1>1. entry[Guard] # f /\ f # NoFile
  BY FilesDiffer DEF TypeOK
<1>2. \A h \in GuardFiles : entry[Stale(h)] = f => h = g
  BY <1>1 DEF Residue, Clear
<1>3. \A m \in Names : entry[m] = f => m \in {Lock, Stale(g)}
  BY <1>1, <1>2, AllNames
<1>4. Lock \in Names /\ Stale(g) \in Names /\ Lock # Stale(g)
  BY NamesDiffer
<1>5. ASSUME entry[Lock] = f, entry[Stale(g)] # f PROVE Links(f) = 1
  <2>1. \A m \in Names : entry[m] = f <=> m = Lock
    BY <1>3, <1>5
  <2> QED
    BY <1>4, <2>1, OneName
<1>6. ASSUME entry[Lock] # f, entry[Stale(g)] = f PROVE Links(f) = 1
  <2>1. \A m \in Names : entry[m] = f <=> m = Stale(g)
    BY <1>3, <1>6
  <2> QED
    BY <1>4, <2>1, OneName
<1>7. ASSUME entry[Lock] = f, entry[Stale(g)] = f PROVE Links(f) = 2
  <2>1. \A m \in Names : entry[m] = f <=> m \in {Lock, Stale(g)}
    BY <1>3, <1>7
  <2> QED
    BY <1>4, <2>1, TwoNames
<1> QED
  BY <1>5, <1>6, <1>7

LEMMA ClearWithout ==
  ASSUME Residue, entry[Guard] = NoFile
  PROVE  Clear
BY FilesDiffer DEF Residue, Clear

\* What is known of a session that acts.
LEMMA Acting ==
  ASSUME IInv, resource = "kernel", NEW p \in Sessions, at[p] \in Steps \cup {"held"}
  PROVE  /\ TypeOK /\ Disk(p) /\ owner = p /\ try[p] \in Tries
         /\ MyLock(p) \in LockFiles /\ MyGuard(p) \in GuardFiles
         /\ MyLock(p) \in Files /\ MyGuard(p) \in Files
         /\ MyLock(p) # NoFile /\ MyGuard(p) # NoFile
<1>1. TypeOK /\ Disk(p)
  BY DEF IInv
<1>2. try[p] \in Tries /\ life[p] \in {"up", "closing"}
  BY StepsAct DEF IInv, Alive
<1>3. owner = p
  BY <1>2 DEF IInv, Fenced
<1> QED
  BY <1>1, <1>2, <1>3, MineTyped, FilesDiffer

LEMMA CreateShapes ==
  ASSUME IInv, resource = "kernel", Residue, NEW p \in Sessions, Shape(p), CreateFile(p)
  PROVE  Residue' /\ Shape(p)'
<1>1. at[p] \in Creating /\ at[p] \in Steps /\ ~half[p] /\ whole' = whole /\ try' = try
  BY DEF CreateFile, Steps, Frame
<1>2. /\ TypeOK /\ Disk(p) /\ try[p] \in Tries
      /\ MyLock(p) \in LockFiles /\ MyGuard(p) \in GuardFiles
      /\ MyLock(p)' = MyLock(p) /\ MyGuard(p)' = MyGuard(p)
  BY <1>1, Acting DEF MyLock, MyGuard
<1>3. ASSUME entry[Target(p)] # NoFile PROVE at[p] = "create"
  <2>1. at[p] \in {"mkguard", "freshguard"} => entry[Guard] = NoFile
    BY <1>1 DEF Shape, Guarded
  <2>2. at[p] = "replace" => entry[Lock] = NoFile
    BY <1>1 DEF Shape, Locked
  <2> QED
    BY <1>1, <1>3, <2>1, <2>2 DEF Target, Creating
<1>4. CASE /\ entry[Target(p)] = NoFile
           /\ entry' = [entry EXCEPT ![Target(p)] = Made(p)] /\ Halfway(p)
  <2>0. at' = at /\ acq' = acq /\ half'[p]
    BY <1>2, <1>4 DEF TypeOK, Halfway
  <2>1. CASE at[p] \in {"create", "replace"}
    <3>1. Target(p) = Lock /\ Made(p) = MyLock(p)
      BY <2>1 DEF Target, Made
    <3>2. /\ entry'[Guard] = entry[Guard]
          /\ \A g \in GuardFiles : entry'[Stale(g)] = entry[Stale(g)]
      BY <1>2, <1>4, <3>1, NamesDiffer DEF TypeOK
    <3>3. Residue'
      BY <1>1, <3>2 DEF Residue
    <3>4. Guarded(p)' /\ Locked(p)' /\ Quarantined(p)'
      BY <1>1, <1>2, <2>0, <2>1, <3>2 DEF Shape, Guarded, Locked, Quarantined
    <3> QED
      BY <2>0, <2>1, <3>3, <3>4 DEF Shape, Undoing
  <2>2. CASE at[p] \in {"mkguard", "freshguard"}
    <3>1. Target(p) = Guard /\ Made(p) = MyGuard(p)
      BY <2>2 DEF Target, Made
    <3>2. /\ entry'[Lock] = entry[Lock] /\ entry'[Guard] = MyGuard(p)
          /\ \A g \in GuardFiles : entry'[Stale(g)] = entry[Stale(g)]
      BY <1>2, <1>4, <3>1, NamesDiffer DEF TypeOK
    <3>3. Clear /\ Clear'
      BY <2>2, <3>2 DEF Shape, Quarantined, Clear
    <3>4. Residue'
      BY <3>3 DEF Residue, Clear
    <3>5. Guarded(p)' /\ Locked(p)' /\ Quarantined(p)'
      BY <1>1, <1>2, <2>0, <2>2, <3>2, <3>3 DEF Shape, Guarded, Locked, Quarantined
    <3> QED
      BY <2>0, <2>2, <3>4, <3>5 DEF Shape, Undoing
  <2> QED
    BY <1>1, <2>1, <2>2 DEF Creating
<1>5. CASE entry[Target(p)] # NoFile /\ Goto(p, "recover") /\ entry' = entry /\ acq' = acq
  <2>1. at[p] = "create" /\ entry[Lock] # NoFile /\ entry[Guard] = NoFile /\ Foreign(p)
    BY <1>1, <1>2, <1>3, <1>5 DEF Target, Disk, Shape
  <2>2. at'[p] = "recover"
    BY <1>2, <1>5 DEF Goto, TypeOK
  <2>3. Residue' /\ Foreign(p)'
    BY <1>1, <1>5, <2>1 DEF Residue, Foreign
  <2> QED
    BY <1>5, <2>1, <2>2, <2>3 DEF Shape, Undoing, Guarded, Locked, Quarantined
<1> QED
  BY <1>3, <1>4, <1>5 DEF CreateFile

LEMMA WriteShapes ==
  ASSUME IInv, resource = "kernel", Residue, NEW p \in Sessions, Shape(p), WriteFile(p)
  PROVE  Residue' /\ Shape(p)'
<1>1. /\ at[p] \in Creating /\ at[p] \in Steps /\ half[p]
      /\ whole' = whole \cup {Made(p)} /\ entry' = entry /\ try' = try
  BY DEF WriteFile, Steps, Frame
<1>2. /\ TypeOK /\ Disk(p) /\ try[p] \in Tries
      /\ MyLock(p) \in LockFiles /\ MyGuard(p) \in GuardFiles
      /\ MyLock(p)' = MyLock(p) /\ MyGuard(p)' = MyGuard(p)
      /\ MyLock(p) # NoFile /\ MyGuard(p) # NoFile
  BY <1>1, Acting DEF MyLock, MyGuard
<1>3. at[p] \in {"mkguard", "freshguard"} => entry[Guard] = MyGuard(p)
  BY <1>1 DEF Shape, Guarded
<1>4. Links(Made(p)) = 1
  <2>1. CASE at[p] \in {"create", "replace"}
    <3>1. \A n \in Names : entry[n] = MyLock(p) <=> n = Lock
      BY <1>1, <1>2, <2>1 DEF Disk, Present
    <3> QED
      BY <2>1, <3>1, OneName, NamesDiffer DEF Made
  <2>2. CASE at[p] \in {"mkguard", "freshguard"}
    BY <1>2, <1>3, <2>2, GuardOnce DEF Made
  <2> QED
    BY <1>1, <2>1, <2>2 DEF Creating
<1>5. at'[p] = Following(p) /\ acq'[p] = acq[p]
  <2>1. Continue(p, acq[p])
    BY <1>4 DEF WriteFile
  <2> QED
    BY <1>2, <2>1 DEF Continue, Goto, TypeOK
<1>6. Residue'
  BY <1>1 DEF Residue
<1>7. CASE at[p] = "create"
  <2>1. at'[p] = "recheck"
    BY <1>5, <1>7 DEF Following
  <2> QED
    BY <1>6, <2>1 DEF Shape, Undoing, Guarded, Locked, Quarantined
<1>8. CASE at[p] = "mkguard"
  <2>1. at'[p] = "link" /\ Made(p) = MyGuard(p)
    BY <1>5, <1>8 DEF Following, Made
  <2>2. Clear'
    BY <1>1, <1>8 DEF Shape, Quarantined, Clear
  <2> QED
    BY <1>1, <1>2, <1>3, <1>5, <1>6, <1>8, <2>1, <2>2 DEF Shape, Undoing, Guarded, Locked, Quarantined
<1>9. CASE at[p] = "freshguard"
  <2>1. at'[p] = "missing" /\ Made(p) = MyGuard(p)
    BY <1>5, <1>9 DEF Following, Made
  <2>2. Clear'
    BY <1>1, <1>9 DEF Shape, Quarantined, Clear
  <2> QED
    BY <1>1, <1>2, <1>3, <1>5, <1>6, <1>9, <2>1, <2>2 DEF Shape, Undoing, Guarded, Locked, Quarantined
<1>10. CASE at[p] = "replace"
  <2>1. at'[p] = IF acq[p].stale # NoFile THEN "unstale" ELSE "unguard"
    BY <1>5, <1>10 DEF Following, AfterReplace
  <2>2. /\ entry[Guard] = MyGuard(p) /\ MyGuard(p) \in whole
        /\ entry[Stale(MyGuard(p))] = acq[p].stale
        /\ acq[p].stale # NoFile => acq[p].guard = MyGuard(p)
    BY <1>10 DEF Shape, Guarded, Quarantined
  <2>3. ASSUME acq[p].stale = NoFile PROVE Clear'
    BY <1>1, <2>2, <2>3 DEF Residue, Clear
  <2> QED
    BY <1>1, <1>2, <1>5, <1>6, <2>1, <2>2, <2>3 DEF Shape, Undoing, Guarded, Locked, Quarantined
<1> QED
  BY <1>1, <1>7, <1>8, <1>9, <1>10 DEF Creating

\* What is about to be removed is what the acquisition takes it for.
LEMMA Fitting ==
  ASSUME IInv, resource = "kernel", Residue, NEW p \in Sessions, Shape(p), at[p] \in Removing
  PROVE  /\ at[p] \in {"drop", "rm_lock", "rm_stale", "rm_guard", "unstale", "unguard", "release"}
         /\ Fits(p) /\ entry[NameOf(p)] # NoFile
<1>1. at[p] \in {"drop", "rm_lock", "rm_stale", "rm_guard", "unstale", "unguard", "release"}
  BY DEF Removing, Shape, Undoing
<1>2. /\ TypeOK /\ Disk(p) /\ MyLock(p) \in LockFiles /\ MyGuard(p) \in GuardFiles
      /\ MyLock(p) # NoFile /\ MyGuard(p) # NoFile
  BY Acting DEF Steps
<1>3. /\ acq[p].lock \in LockFiles \cup {NoFile} /\ acq[p].stale \in LockFiles \cup {NoFile}
      /\ acq[p].guard \in GuardFiles \cup {NoFile}
  BY <1>2 DEF TypeOK, Acquisitions
<1>4. CASE at[p] = "drop"
  <2>1. /\ entry[Lock] = acq[p].lock /\ acq[p].lock # NoFile /\ acq[p].lock = acq[p].stale
        /\ entry[Stale(MyGuard(p))] = acq[p].stale /\ acq[p].guard = MyGuard(p)
        /\ entry[Guard] = MyGuard(p)
    BY <1>4 DEF Shape, Guarded, Locked, Quarantined
  <2>2. Links(acq[p].lock) = 2
    BY <1>2, <1>3, <2>1, LockLinks
  <2> QED
    BY <1>1, <1>4, <2>1, <2>2 DEF Fits, NameOf, FileOf, LinksOf
<1>5. CASE at[p] \in {"rm_lock", "rm_stale"}
  <2>1. /\ entry[Guard] = acq[p].guard /\ acq[p].guard # NoFile
        /\ entry[Stale(acq[p].guard)] = acq[p].stale
        /\ at[p] = "rm_lock" => entry[Lock] = acq[p].lock /\ acq[p].lock # NoFile
        /\ at[p] = "rm_stale" => entry[Lock] = NoFile /\ acq[p].stale # NoFile
    BY <1>5 DEF Shape, Guarded, Locked, Quarantined
  <2>2. CASE at[p] = "rm_lock"
    <3>1. Links(acq[p].lock) = IF acq[p].lock = acq[p].stale THEN 2 ELSE 1
      BY <1>2, <1>3, <2>1, <2>2, LockLinks
    <3> QED
      BY <1>1, <2>1, <2>2, <3>1 DEF Fits, NameOf, FileOf, LinksOf
  <2>3. CASE at[p] = "rm_stale"
    <3>1. Links(acq[p].stale) = 1
      BY <1>2, <1>3, <2>1, <2>3, LockLinks
    <3> QED
      BY <1>1, <2>1, <2>3, <3>1 DEF Fits, NameOf, FileOf, LinksOf
  <2> QED
    BY <1>5, <2>2, <2>3
<1>6. CASE at[p] \in {"rm_guard", "unguard"}
  <2>1. entry[Guard] = FileOf(p) /\ entry[Guard] # NoFile
    BY <1>2, <1>6 DEF Shape, Guarded, FileOf
  <2>2. Links(FileOf(p)) = 1
    BY <1>2, <2>1, GuardOnce
  <2> QED
    BY <1>1, <1>6, <2>1, <2>2 DEF Fits, NameOf, LinksOf
<1>7. CASE at[p] = "unstale"
  <2>1. /\ entry[Guard] = MyGuard(p) /\ acq[p].guard = MyGuard(p)
        /\ entry[Stale(MyGuard(p))] = acq[p].stale /\ acq[p].stale # NoFile
    BY <1>7 DEF Shape, Guarded, Quarantined
  <2>2. entry[Lock] = MyLock(p) /\ acq[p].stale # MyLock(p)
    <3>1. Present(p)
      BY <1>7 DEF Present, Finished
    <3>2. \A n \in Names : entry[n] = MyLock(p) <=> n = Lock
      BY <1>2, <3>1 DEF Disk
    <3> QED
      BY <1>2, <2>1, <3>2, NamesDiffer
  <2>3. Links(acq[p].stale) = 1
    BY <1>2, <1>3, <2>1, <2>2, LockLinks
  <2> QED
    BY <1>1, <1>7, <2>1, <2>3 DEF Fits, NameOf, FileOf, LinksOf
<1>8. CASE at[p] = "release"
  <2>1. entry[Lock] = MyLock(p) /\ entry[Guard] = NoFile
    BY <1>8 DEF Shape, Guarded, Locked
  <2>2. Clear
    BY <2>1, ClearWithout
  <2>3. Links(MyLock(p)) = 1
    BY <1>2, <2>1, <2>2, LockLinks DEF Clear
  <2> QED
    BY <1>1, <1>2, <1>8, <2>1, <2>3 DEF Fits, NameOf, FileOf, LinksOf
<1> QED
  BY <1>1, <1>4, <1>5, <1>6, <1>7, <1>8

LEMMA CheckShapes ==
  ASSUME IInv, resource = "kernel", Residue, NEW p \in Sessions, Shape(p), CheckFile(p)
  PROVE  Residue' /\ Shape(p)'
<1>1. at[p] \in Removing
  BY DEF CheckFile
<1>2. Fits(p) /\ at[p] \in {"drop", "rm_lock", "rm_stale", "rm_guard", "unstale", "unguard", "release"}
  BY <1>1, Fitting
<1>3. UNCHANGED <<entry, whole, try, at, acq>>
  BY <1>2 DEF CheckFile, NoChange, Frame, Halfway
<1>4. Residue' /\ (Clear => Clear')
  BY <1>3 DEF Residue, Clear
<1>5. MyLock(p)' = MyLock(p) /\ MyGuard(p)' = MyGuard(p)
  BY <1>3 DEF MyLock, MyGuard
<1>6. Guarded(p)' /\ Locked(p)' /\ Quarantined(p)'
  BY <1>2, <1>3, <1>4, <1>5 DEF Shape, Guarded, Locked, Quarantined
<1> QED
  BY <1>2, <1>3, <1>4, <1>6 DEF Shape, Undoing

LEMMA UnlinkShapes ==
  ASSUME IInv, resource = "kernel", Residue, NEW p \in Sessions, Shape(p), UnlinkFile(p)
  PROVE  Residue' /\ Shape(p)'
<1>1. at[p] \in Removing /\ at[p] \in Steps /\ whole' = whole
  BY DEF UnlinkFile, Steps
<1>2. /\ entry[NameOf(p)] # NoFile
      /\ at[p] \in {"drop", "rm_lock", "rm_stale", "rm_guard", "unstale", "unguard", "release"}
  BY <1>1, Fitting
<1>3. /\ TypeOK /\ Disk(p) /\ MyLock(p) \in LockFiles /\ MyGuard(p) \in GuardFiles
      /\ MyLock(p) # NoFile /\ MyGuard(p) # NoFile /\ try' = try
      /\ entry' = [entry EXCEPT ![NameOf(p)] = NoFile]
  BY <1>1, <1>2, Acting DEF UnlinkFile
<1>4. MyLock(p)' = MyLock(p) /\ MyGuard(p)' = MyGuard(p)
  BY <1>3 DEF MyLock, MyGuard
<1>5. /\ at'[p] = Following(p) /\ ~half'[p]
      /\ acq'[p].lock = acq[p].lock /\ acq'[p].guard = acq[p].guard
      /\ acq'[p].stale = IF at[p] \in {"rm_stale", "unstale"} THEN NoFile ELSE acq[p].stale
  <2> DEFINE a == [acq[p] EXCEPT !.unlinked = @ \/ at[p] = "drop",
                 !.stale = IF at[p] \in {"rm_stale", "unstale"} THEN NoFile ELSE @]
  <2>1. Continue(p, a)
    BY <1>2 DEF UnlinkFile
  <2>2. acq[p] \in Acquisitions
    BY <1>3 DEF TypeOK
  <2>3. /\ a.lock = acq[p].lock /\ a.guard = acq[p].guard
        /\ a.stale = IF at[p] \in {"rm_stale", "unstale"} THEN NoFile ELSE acq[p].stale
    BY <2>2 DEF Acquisitions
  <2> HIDE DEF a
  <2>4. acq'[p] = a /\ at'[p] = Following(p) /\ ~half'[p]
    BY <1>3, <2>1 DEF Continue, Goto, TypeOK
  <2> QED
    BY <2>3, <2>4
<1>6. /\ acq[p].lock \in LockFiles \cup {NoFile} /\ acq[p].stale \in LockFiles \cup {NoFile}
      /\ acq[p].guard \in GuardFiles \cup {NoFile}
  BY <1>3 DEF TypeOK, Acquisitions
<1>7. CASE at[p] \in {"drop", "rm_lock", "release"}
  <2>1. /\ entry'[Lock] = NoFile /\ entry'[Guard] = entry[Guard]
        /\ \A g \in GuardFiles : entry'[Stale(g)] = entry[Stale(g)]
    BY <1>3, <1>7, NamesDiffer DEF NameOf, TypeOK
  <2>2. Residue' /\ (Clear => Clear')
    BY <1>1, <2>1 DEF Residue, Clear
  <2>3. CASE at[p] = "drop"
    <3>1. at'[p] = "replace"
      BY <1>5, <2>3 DEF Following
    <3> QED
      BY <1>1, <1>3, <1>4, <1>5, <2>1, <2>2, <2>3, <3>1 DEF Shape, Undoing, Guarded, Locked, Quarantined
  <2>4. CASE at[p] = "rm_lock"
    <3>1. at'[p] = IF acq[p].stale # NoFile THEN "rm_stale" ELSE "reguard"
      BY <1>5, <2>4 DEF Following
    <3>2. /\ entry[Guard] = acq[p].guard /\ acq[p].guard # NoFile /\ acq[p].guard \in whole
          /\ entry[Stale(acq[p].guard)] = acq[p].stale
      BY <2>4 DEF Shape, Guarded, Quarantined
    <3>3. acq[p].stale = NoFile => Clear'
      BY <1>6, <2>1, <3>2 DEF Residue, Clear
    <3>4. acq[p].stale # NoFile => entry'[Stale(acq[p].guard)] = acq[p].stale
      BY <1>6, <2>1, <3>2
    <3> QED
      BY <1>1, <1>5, <2>1, <2>2, <2>4, <3>1, <3>2, <3>3, <3>4 DEF Shape, Undoing, Guarded, Locked, Quarantined
  <2>5. CASE at[p] = "release"
    <3>1. at'[p] = "free" /\ entry[Guard] = NoFile
      BY <1>5, <2>5 DEF Following, Shape, Guarded
    <3> QED
      BY <2>1, <2>2, <3>1 DEF Shape, Undoing, Guarded, Locked, Quarantined
  <2> QED
    BY <1>7, <2>3, <2>4, <2>5
<1>8. CASE at[p] \in {"rm_stale", "unstale"}
  <2>1. /\ entry'[Lock] = entry[Lock] /\ entry'[Guard] = entry[Guard]
        /\ \A g \in GuardFiles : entry'[Stale(g)] \in {entry[Stale(g)], NoFile}
    BY <1>3, <1>8, NamesDiffer DEF NameOf, TypeOK
  <2>2. Residue'
    BY <1>1, <2>1 DEF Residue
  <2>3. entry[Guard] = acq[p].guard /\ acq[p].guard # NoFile /\ acq[p].guard \in whole
    BY <1>3, <1>8 DEF Shape, Guarded, Quarantined
  <2>4. entry'[Stale(acq[p].guard)] = NoFile
    BY <1>3, <1>6, <1>8, <2>3, NamesDiffer DEF NameOf, TypeOK
  <2>5. Clear'
    BY <2>1, <2>2, <2>3, <2>4 DEF Residue, Clear
  <2>6. CASE at[p] = "rm_stale"
    <3>1. at'[p] = "reguard" /\ entry[Lock] = NoFile
      BY <1>5, <2>6 DEF Following, Shape, Locked
    <3> QED
      BY <1>1, <1>5, <2>1, <2>2, <2>3, <2>5, <2>6, <3>1 DEF Shape, Undoing, Guarded, Locked, Quarantined
  <2>7. CASE at[p] = "unstale"
    <3>1. at'[p] = "unguard" /\ acq[p].guard = MyGuard(p)
      BY <1>5, <2>7 DEF Following, Shape, Quarantined
    <3> QED
      BY <1>1, <1>4, <1>5, <2>1, <2>2, <2>3, <2>5, <2>7, <3>1 DEF Shape, Undoing, Guarded, Locked, Quarantined
  <2> QED
    BY <1>8, <2>6, <2>7
<1>9. CASE at[p] \in {"rm_guard", "unguard"}
  <2>1. /\ entry'[Guard] = NoFile /\ entry'[Lock] = entry[Lock]
        /\ \A g \in GuardFiles : entry'[Stale(g)] = entry[Stale(g)]
    BY <1>3, <1>9, NamesDiffer DEF NameOf, TypeOK
  <2>2. Clear /\ Clear' /\ acq[p].stale = NoFile
    BY <1>9, <2>1 DEF Shape, Quarantined, Clear
  <2>3. Residue'
    BY <2>2 DEF Residue, Clear
  <2>4. CASE at[p] = "rm_guard"
    <3>1. at'[p] = "freshguard" /\ entry[Lock] = NoFile
      BY <1>5, <2>4 DEF Following, Shape, Locked
    <3> QED
      BY <1>5, <2>1, <2>2, <2>3, <2>4, <3>1 DEF Shape, Undoing, Guarded, Locked, Quarantined
  <2>5. CASE at[p] = "unguard"
    <3>1. at'[p] \in {"sync", "held"}
      BY <1>5, <2>5 DEF Following, AfterUnguard
    <3> QED
      BY <2>3, <3>1 DEF Shape, Undoing, Guarded, Locked, Quarantined
  <2> QED
    BY <1>9, <2>4, <2>5
<1> QED
  BY <1>2, <1>7, <1>8, <1>9

LEMMA LinkShapes ==
  ASSUME IInv, resource = "kernel", Residue, NEW p \in Sessions, Shape(p), LinkStale(p)
  PROVE  Residue' /\ Shape(p)'
<1>1. at[p] = "link" /\ at[p] \in Steps /\ whole' = whole /\ try' = try
  BY DEF LinkStale, Steps, Reading, Frame
<1>2. /\ TypeOK /\ MyGuard(p) \in GuardFiles /\ MyGuard(p) # NoFile
      /\ MyLock(p)' = MyLock(p) /\ MyGuard(p)' = MyGuard(p)
  BY <1>1, Acting DEF MyLock, MyGuard
<1>3. /\ entry[Guard] = MyGuard(p) /\ MyGuard(p) \in whole
      /\ entry[Lock] = acq[p].lock /\ acq[p].lock # NoFile /\ acq[p].lock \in whole
      /\ Clear /\ acq[p].stale = NoFile
  BY <1>1 DEF Shape, Guarded, Locked, Quarantined
<1>4. CASE ~half[p]
  <2>1. acq[p].lock \in LockFiles
    BY <1>2, <1>3 DEF TypeOK, Acquisitions
  <2>2. Links(acq[p].lock) = 1
    BY <1>2, <1>3, <2>1, LockLinks DEF Clear
  <2>3. Halfway(p) /\ entry' = entry
    BY <1>3, <1>4, <2>2 DEF LinkStale, Readable
  <2>4. at' = at /\ acq' = acq
    BY <2>3 DEF Halfway
  <2>5. Residue' /\ Clear'
    BY <1>1, <1>3, <2>3 DEF Residue, Clear
  <2> QED
    BY <1>1, <1>2, <1>3, <2>3, <2>4, <2>5 DEF Shape, Undoing, Guarded, Locked, Quarantined
<1>5. CASE half[p]
  <2> DEFINE a == [acq[p] EXCEPT !.stale = acq[p].lock, !.guard = MyGuard(p)]
  <2>1. Continue(p, a) /\ entry' = [entry EXCEPT ![Stale(MyGuard(p))] = entry[Lock]]
    BY <1>3, <1>5 DEF LinkStale
  <2>2. a.lock = acq[p].lock /\ a.stale = acq[p].lock /\ a.guard = MyGuard(p)
    BY <1>2 DEF TypeOK, Acquisitions
  <2> HIDE DEF a
  <2>3. acq'[p] = a /\ at'[p] = "drop"
    BY <1>1, <1>2, <2>1 DEF Continue, Goto, TypeOK, Following
  <2>4. /\ entry'[Lock] = entry[Lock] /\ entry'[Guard] = entry[Guard]
        /\ \A g \in GuardFiles : entry'[Stale(g)] = IF g = MyGuard(p) THEN acq[p].lock ELSE NoFile
    BY <1>2, <1>3, <2>1, NamesDiffer DEF TypeOK, Clear
  <2>5. Residue'
    BY <1>1, <1>3, <2>4 DEF Residue
  <2> QED
    BY <1>1, <1>2, <1>3, <2>2, <2>3, <2>4, <2>5 DEF Shape, Undoing, Guarded, Locked, Quarantined
<1> QED
  BY <1>4, <1>5

LEMMA RecoverShapes ==
  ASSUME IInv, resource = "kernel", Residue, NEW p \in Sessions, Shape(p), Recover(p)
  PROVE  Residue' /\ Shape(p)'
<1>1. /\ at[p] = "recover" /\ at[p] \in Steps /\ UNCHANGED <<entry, whole, try>>
  BY DEF Recover, Steps, Reading, Frame, NoChange
<1>2. TypeOK /\ MyGuard(p) \in GuardFiles
  BY <1>1, Acting
<1>3. /\ entry[Guard] = NoFile /\ entry[Lock] # NoFile /\ Foreign(p) /\ Clear
  BY <1>1, ClearWithout DEF Shape, Guarded, Locked
<1>4. Residue' /\ Clear' /\ Foreign(p)'
  BY <1>1, <1>3 DEF Residue, Clear, Foreign
<1>5. /\ entry[Lock] \in LockFiles /\ Links(entry[Lock]) = 1 /\ entry[Lock].by # p
  <2>1. entry[Lock] \in LockFiles
    BY <1>2, <1>3, NamesDiffer DEF TypeOK, Files
  <2>2. Links(entry[Lock]) = 1
    BY <1>2, <1>3, <2>1, LockLinks, FilesDiffer DEF Clear
  <2> QED
    BY <1>3, <2>1, <2>2, NamesDiffer DEF Foreign
<1>6. CASE entry[Lock] \in whole
  <2>1. /\ Goto(p, "mkguard")
        /\ acq' = [acq EXCEPT ![p] = [Nothing EXCEPT !.lock = entry[Lock]]]
    BY <1>3, <1>5, <1>6 DEF Recover, Readable
  <2>2. at'[p] = "mkguard" /\ ~half'[p] /\ acq'[p].lock = entry[Lock] /\ acq'[p].stale = NoFile
    BY <1>2, <2>1 DEF Goto, TypeOK, Nothing
  <2> QED
    BY <1>1, <1>3, <1>4, <1>6, <2>2 DEF Shape, Undoing, Guarded, Locked, Quarantined
<1>7. CASE entry[Lock] \notin whole
  <2>1. Throw(p, FALSE)
    BY <1>7 DEF Recover, Readable
  <2>2. at'[p] = "failed"
    BY <1>1, <1>2, <2>1 DEF Throw, Handler, Goto, TypeOK
  <2>3. Torn'
    BY <1>1, <1>3, <1>7 DEF Torn
  <2> QED
    BY <1>4, <2>2, <2>3 DEF Shape, Undoing, Guarded, Locked, Quarantined
<1> QED
  BY <1>6, <1>7

LEMMA ResumeShapes ==
  ASSUME IInv, resource = "kernel", Residue, NEW p \in Sessions, Shape(p), Resume(p)
  PROVE  Residue' /\ Shape(p)'
<1>1. /\ at[p] = "resume" /\ at[p] \in Steps /\ UNCHANGED <<entry, whole, try>>
  BY DEF Resume, Steps, Reading, Frame, NoChange
<1>2. TypeOK
  BY <1>1, Acting
<1>3. entry[Guard] # NoFile /\ Foreign(p)
  BY <1>1 DEF Shape, Guarded
<1>4. Residue' /\ Foreign(p)'
  BY <1>1, <1>3 DEF Residue, Foreign
<1> DEFINE g == entry[Guard]
<1>5. g \in GuardFiles /\ Links(g) = 1 /\ g.by # p
  BY <1>2, <1>3, GuardOnce, NamesDiffer DEF Foreign
<1>6. /\ entry[Lock] \in LockFiles \cup {NoFile} /\ entry[Stale(g)] \in LockFiles \cup {NoFile}
  BY <1>2, <1>5, NamesDiffer DEF TypeOK, Files
<1>7. ASSUME Torn, Throw(p, FALSE) PROVE Shape(p)'
  <2>1. at'[p] = "failed"
    BY <1>1, <1>2, <1>7 DEF Throw, Handler, Goto, TypeOK
  <2>2. Torn'
    BY <1>1, <1>7 DEF Torn
  <2> QED
    BY <1>4, <2>1, <2>2 DEF Shape, Undoing, Guarded, Locked, Quarantined
<1>8. CASE Torn
  <2>1. ~(Readable(Guard, g, 1) /\ Intact(Lock))
    BY <1>8 DEF Torn, Readable, Intact
  <2>2. Throw(p, FALSE)
    BY <2>1 DEF Resume
  <2> QED
    BY <1>4, <1>7, <1>8, <2>2
<1>9. CASE ~Torn
  <2>1. Readable(Guard, g, 1)
    BY <1>3, <1>5, <1>9 DEF Torn, Readable
  <2>2. Intact(Lock)
    <3>1. CASE entry[Lock] = NoFile
      BY <3>1 DEF Intact
    <3>2. CASE entry[Lock] # NoFile
      <4>1. Links(entry[Lock]) \in {1, 2}
        BY <1>2, <1>5, <1>6, <3>2, LockLinks
      <4> QED
        BY <1>9, <3>2, <4>1 DEF Intact, Readable, Torn
    <3> QED
      BY <3>1, <3>2
  <2>3. Intact(Stale(g))
    <3>1. CASE entry[Stale(g)] = NoFile
      BY <3>1 DEF Intact
    <3>2. CASE entry[Stale(g)] # NoFile
      <4>1. Links(entry[Stale(g)]) \in {1, 2}
        BY <1>2, <1>5, <1>6, <3>2, LockLinks
      <4> QED
        BY <1>5, <3>2, <4>1 DEF Intact, Readable, Residue
    <3> QED
      BY <3>1, <3>2
  <2> DEFINE a == [Nothing EXCEPT !.lock = entry[Lock], !.stale = entry[Stale(g)], !.guard = g]
             s == IF a.lock # NoFile THEN "rm_lock"
                  ELSE IF a.stale # NoFile THEN "rm_stale" ELSE "reguard"
  <2>4. acq' = [acq EXCEPT ![p] = a] /\ Goto(p, s)
    BY <1>5, <2>1, <2>2, <2>3 DEF Resume
  <2>5. a.lock = entry[Lock] /\ a.stale = entry[Stale(g)] /\ a.guard = g
    BY DEF Nothing
  <2> HIDE DEF a
  <2>6. acq'[p] = a /\ at'[p] = s
    BY <1>2, <2>4 DEF Goto, TypeOK
  <2>7. g \in whole
    BY <2>1 DEF Readable
  <2>8. entry[Stale(g)] = NoFile => Clear'
    BY <1>1, <1>4 DEF Residue, Clear
  <2> HIDE DEF g
  <2>9. entry[Guard] = g /\ g # NoFile
    BY <1>3 DEF g
  <2>10. s \in {"rm_lock", "rm_stale", "reguard"}
    OBVIOUS
  <2>11. Guarded(p)'
    BY <1>1, <2>5, <2>6, <2>7, <2>9, <2>10 DEF Guarded
  <2>12. Locked(p)'
    BY <1>1, <2>5, <2>6, <2>10 DEF Locked
  <2>13. Quarantined(p)'
    BY <1>1, <2>5, <2>6, <2>8, <2>10 DEF Quarantined
  <2> QED
    BY <1>4, <2>6, <2>10, <2>11, <2>12, <2>13 DEF Shape, Undoing
<1> QED
  BY <1>8, <1>9

LEMMA ReadingShapes ==
  ASSUME IInv, resource = "kernel", Residue, NEW p \in Sessions, Shape(p),
         \/ Look(p) \/ AssertNoGuard(p) \/ AssertNoLock(p) \/ AssertOwnership(p)
         \/ Reguard(p) \/ Sync(p)
  PROVE  Residue' /\ Shape(p)'
<1>1. at[p] \in Steps /\ UNCHANGED <<entry, whole, try>>
  BY DEF Look, AssertNoGuard, AssertNoLock, AssertOwnership, Reguard, Sync,
         Reading, Steps, NoChange, Frame
<1>2. /\ TypeOK /\ Disk(p) /\ owner = p /\ MyGuard(p) \in GuardFiles
      /\ MyLock(p)' = MyLock(p) /\ MyGuard(p)' = MyGuard(p)
  BY <1>1, Acting DEF MyLock, MyGuard
<1>3. Residue' /\ (Clear => Clear') /\ (Foreign(p) => Foreign(p)')
  BY <1>1 DEF Residue, Clear, Foreign
<1>4. CASE Look(p)
  <2>1. /\ Foreign(p) /\ at'[p] = IF entry[Guard] = NoFile THEN "create" ELSE "resume"
    BY <1>2, <1>4 DEF Look, Goto, TypeOK, Shape
  <2> QED
    BY <1>1, <1>3, <2>1 DEF Shape, Undoing, Guarded, Locked, Quarantined
<1>5. CASE AssertNoGuard(p) \/ Sync(p)
  <2>1. at'[p] = "held"
    <3>1. entry[Guard] = NoFile
      BY <1>2, <1>5 DEF AssertNoGuard, Sync, Disk
    <3>2. Continue(p, acq[p]) /\ at[p] \in {"recheck", "sync"}
      BY <1>5, <3>1 DEF AssertNoGuard, Sync
    <3> QED
      BY <1>2, <3>2 DEF Continue, Goto, TypeOK, Following
  <2> QED
    BY <1>3, <2>1 DEF Shape, Undoing, Guarded, Locked, Quarantined
<1>6. CASE AssertNoLock(p)
  <2>1. /\ at[p] = "missing" /\ entry[Lock] = NoFile /\ Clear /\ acq[p].stale = NoFile
        /\ entry[Guard] = MyGuard(p) /\ MyGuard(p) \in whole
    BY <1>6 DEF AssertNoLock, Shape, Guarded, Locked, Quarantined
  <2>2. Continue(p, acq[p])
    BY <1>6, <2>1 DEF AssertNoLock
  <2>3. at'[p] = "replace" /\ ~half'[p] /\ acq'[p] = acq[p]
    BY <1>2, <2>1, <2>2 DEF Continue, Goto, TypeOK, Following
  <2> QED
    BY <1>1, <1>2, <1>3, <2>1, <2>3 DEF Shape, Undoing, Guarded, Locked, Quarantined, Clear
<1>7. CASE AssertOwnership(p)
  <2>1. Halfway(p) /\ at[p] \in {"recover", "resume"}
    BY <1>2, <1>7 DEF AssertOwnership
  <2>2. at' = at
    BY <2>1 DEF Halfway
  <2> QED
    BY <1>1, <1>3, <2>1, <2>2 DEF Shape, Undoing, Guarded, Locked, Quarantined
<1>8. CASE Reguard(p)
  <2>1. /\ at[p] = "reguard" /\ entry[Guard] = acq[p].guard /\ acq[p].guard # NoFile
        /\ acq[p].guard \in whole /\ entry[Lock] = NoFile /\ Clear /\ acq[p].stale = NoFile
    BY <1>8 DEF Reguard, Shape, Guarded, Locked, Quarantined
  <2>2. Links(acq[p].guard) = 1
    BY <1>2, <2>1, GuardOnce
  <2>3. Continue(p, acq[p])
    BY <1>8, <2>1, <2>2 DEF Reguard, Readable
  <2>4. at'[p] = "rm_guard" /\ acq'[p] = acq[p]
    BY <1>2, <2>1, <2>3 DEF Continue, Goto, TypeOK, Following
  <2> QED
    BY <1>1, <1>3, <2>1, <2>4 DEF Shape, Undoing, Guarded, Locked, Quarantined
<1> QED
  BY <1>4, <1>5, <1>6, <1>7, <1>8

\* An attempt begins with no file of this session: the first one because there
\* was none before, the next ones because of how the last one ended.
LEMMA BeginShapes ==
  ASSUME IInv, resource = "kernel", Residue, NEW p \in Sessions, Shape(p), Begin(p)
  PROVE  Residue' /\ Shape(p)'
<1>1. /\ at[p] \in {"idle", "free", "failed"} /\ UNCHANGED <<entry, whole>>
      /\ at' = [at EXCEPT ![p] = "look"]
  BY DEF Begin, Goto, NoChange
<1>2. TypeOK /\ at'[p] = "look"
  BY <1>1 DEF IInv, TypeOK
<1>3. Foreign(p)
  <2>1. CASE at[p] = "idle"
    <3> SUFFICES ASSUME NEW n \in Names, entry[n] # NoFile, entry[n].by = p
                 PROVE  FALSE
      BY DEF Foreign
    <3>1. entry[n].try \in Tries
      BY <1>2, FilesDiffer DEF TypeOK
    <3>2. entry[n].try <= 0
      BY <2>1 DEF IInv, Past, Alive
    <3> QED
      BY <3>1, <3>2 DEF Tries
  <2>2. CASE at[p] = "free"
    <3>1. entry[Lock] = NoFile /\ entry[Guard] = NoFile
      BY <2>2 DEF Shape, Guarded, Locked
    <3>2. Clear
      BY <3>1, ClearWithout
    <3> QED
      BY <3>1, <3>2, AllNames DEF Foreign, Clear
  <2>3. CASE at[p] = "failed"
    BY <2>3 DEF Shape
  <2> QED
    BY <1>1, <2>1, <2>2, <2>3
<1>4. Residue' /\ Foreign(p)'
  BY <1>1, <1>3 DEF Residue, Foreign
<1> QED
  BY <1>2, <1>4 DEF Shape, Undoing, Guarded, Locked, Quarantined

LEMMA ReleaseShapes ==
  ASSUME IInv, resource = "kernel", Residue, NEW p \in Sessions, Shape(p), Release(p)
  PROVE  Residue' /\ Shape(p)'
<1>1. /\ at[p] = "held" /\ UNCHANGED <<entry, whole, try>> /\ at' = [at EXCEPT ![p] = "release"]
  BY DEF Release, Goto, NoChange, Frame
<1>2. TypeOK /\ Disk(p) /\ MyLock(p)' = MyLock(p)
  BY <1>1, Acting DEF MyLock
<1>3. at'[p] = "release" /\ entry[Lock] = MyLock(p) /\ entry[Guard] = NoFile
  BY <1>1, <1>2, NamesDiffer DEF TypeOK, Disk, Present, Finished
<1>4. Residue'
  BY <1>1 DEF Residue
<1> QED
  BY <1>1, <1>2, <1>3, <1>4 DEF Shape, Undoing, Guarded, Locked, Quarantined

\* The shape depends on the directory and on the session's acquisition only.
LEMMA SameShape ==
  ASSUME UNCHANGED <<entry, whole>>, NEW p \in Sessions, Shape(p),
         at'[p] = at[p], half'[p] = half[p], acq'[p] = acq[p], try'[p] = try[p]
  PROVE  Shape(p)'
<1>1. MyLock(p)' = MyLock(p) /\ MyGuard(p)' = MyGuard(p)
  BY DEF MyLock, MyGuard
<1>2. (Clear <=> Clear') /\ (Foreign(p) <=> Foreign(p)') /\ (Torn <=> Torn')
  BY DEF Clear, Foreign, Torn
<1>3. Guarded(p)'
  BY <1>1 DEF Shape, Guarded
<1>4. Locked(p)'
  BY <1>1 DEF Shape, Locked
<1>5. Quarantined(p)'
  BY <1>1, <1>2 DEF Shape, Quarantined
<1> QED
  BY <1>2, <1>3, <1>4, <1>5 DEF Shape

LEMMA LifeShapes ==
  ASSUME IInv, resource = "kernel", Residue, \A q \in Sessions : Shape(q), NEW p \in Sessions,
         Boot(p) \/ Quit(p) \/ CloseIngress(p) \/ Exit(p) \/ Crash(p)
  PROVE  Residue' /\ \A q \in Sessions : Shape(q)'
<1>1. UNCHANGED <<entry, whole, try>>
  BY DEF Boot, Quit, CloseIngress, Exit, Crash, Ends, NoChange
<1>2. Residue'
  BY <1>1 DEF Residue
<1>3. CASE Boot(p) \/ Quit(p) \/ CloseIngress(p)
  BY <1>1, <1>2, <1>3, SameShape DEF Boot, Quit, CloseIngress
<1>4. CASE Exit(p) \/ Crash(p)
  <2>1. /\ at' = [at EXCEPT ![p] = "dead"] /\ half' = [half EXCEPT ![p] = FALSE]
        /\ acq' = [acq EXCEPT ![p] = Nothing]
    BY <1>4 DEF Exit, Crash, Ends, Goto
  <2>2. ASSUME NEW q \in Sessions PROVE Shape(q)'
    <3>1. CASE q = p
      <4>1. at'[q] = "dead"
        BY <2>1, <3>1 DEF IInv, TypeOK
      <4> QED
        BY <4>1 DEF Shape, Undoing, Guarded, Locked, Quarantined
    <3>2. CASE q # p
      <4>1. at'[q] = at[q] /\ half'[q] = half[q] /\ acq'[q] = acq[q]
        BY <2>1, <3>2 DEF IInv, TypeOK
      <4> QED
        BY <1>1, <4>1, SameShape
    <3> QED
      BY <3>1, <3>2
  <2> QED
    BY <1>2, <2>2
<1> QED
  BY <1>3, <1>4

-----------------------------------------------------------------------------
\* Without an I/O error the directory has, at every step and after every crash,
\* one of the shapes that a recovery expects (recoverExistingLock and
\* resumeInterruptedRecovery), for every number of starts and of attempts.
THEOREM Expected == Spec => []SInv
<1>1. Init => SInv
  <2> SUFFICES ASSUME Init PROVE SInv
    OBVIOUS
  <2>1. Residue
    BY NamesDiffer DEF Init, Residue
  <2>2. ASSUME NEW p \in Sessions PROVE Shape(p)
    BY DEF Init, Shape, Undoing, Guarded, Locked, Quarantined
  <2> QED
    BY <2>1, <2>2, InitIInv DEF SInv
<1>2. SInv /\ [Next]_vars => SInv'
  <2> SUFFICES ASSUME SInv, [Next]_vars PROVE SInv'
    OBVIOUS
  <2>0. IInv /\ IInv'
    BY NextIInv DEF SInv
  <2> SUFFICES ASSUME resource' = "kernel", faults' = 0
               PROVE  Residue' /\ \A q \in Sessions : Shape(q)'
    BY <2>0 DEF SInv
  <2>1. CASE UNCHANGED vars
    <3>1. Residue /\ \A q \in Sessions : Shape(q)
      BY <2>1 DEF vars, SInv
    <3> QED
      BY <2>1, <3>1, SameShape DEF vars, Residue
  <2>2. ASSUME NEW p \in Sessions,
               \/ Progress(p) \/ WriteFails(p) \/ Fails(p) \/ Boot(p) \/ Begin(p) \/ Quit(p)
               \/ CloseIngress(p) \/ Release(p) \/ Exit(p) \/ Crash(p)
        PROVE  Residue' /\ \A q \in Sessions : Shape(q)'
    <3>1. resource = "kernel" /\ faults = 0 /\ ~WriteFails(p) /\ ~Fails(p)
      <4>1. faults \in Nat
        BY <2>0, LockAssumption DEF IInv, TypeOK
      <4>2. ~WriteFails(p) /\ ~Fails(p)
        <5>1. WriteFails(p) \/ Fails(p) => faults' = faults + 1
          BY DEF WriteFails, Fails
        <5> QED
          BY <4>1, <5>1
      <4>3. resource' = resource /\ faults' = faults
        BY <2>2, <4>2 DEF Progress, CreateFile, WriteFile, CheckFile, UnlinkFile, Look,
             AssertNoGuard, AssertNoLock, AssertOwnership, Recover, LinkStale, Resume, Reguard,
             Sync, Frame, Boot, Begin, Quit, CloseIngress, Release, Exit, Crash, Ends
      <4> QED
        BY <4>2, <4>3
    <3>2. Residue /\ \A q \in Sessions : Shape(q)
      BY <3>1 DEF SInv
    <3>3. CASE Boot(p) \/ Quit(p) \/ CloseIngress(p) \/ Exit(p) \/ Crash(p)
      BY <2>0, <3>1, <3>2, <3>3, LifeShapes
    <3>4. CASE Progress(p) \/ Begin(p) \/ Release(p)
      <4>1. Residue' /\ Shape(p)'
        BY <2>0, <3>1, <3>2, <3>4, CreateShapes, WriteShapes, CheckShapes, UnlinkShapes,
           LinkShapes, RecoverShapes, ResumeShapes, ReadingShapes, BeginShapes, ReleaseShapes
           DEF Progress
      <4>2. life'[p] \in {"up", "closing"}
        <5>1. Begin(p) \/ (at[p] \in Steps \cup {"held"} /\ life' = life)
          BY <3>4 DEF Progress, CreateFile, WriteFile, CheckFile, UnlinkFile, Look,
             AssertNoGuard, AssertNoLock, AssertOwnership, Recover, LinkStale, Resume, Reguard,
             Sync, Frame, Release, Steps, Reading
        <5> QED
          BY <2>0, <5>1, StepsAct DEF Begin, IInv, Alive
      <4>3. \A q \in Sessions \ {p} : Shape(q)'
        <5> SUFFICES ASSUME NEW q \in Sessions, q # p PROVE Shape(q)'
          OBVIOUS
        <5>1. at'[q] \in {"idle", "dead"}
          BY <2>0, <4>2 DEF IInv, Alive, Fenced
        <5> QED
          BY <5>1 DEF Shape, Undoing, Guarded, Locked, Quarantined
      <4> QED
        BY <4>1, <4>3
    <3> QED
      BY <2>2, <3>1, <3>3, <3>4
  <2> QED
    BY <2>1, <2>2 DEF Next
<1> QED
  BY <1>1, <1>2, PTL DEF Spec

\* A crash leaves a quarantined lock under the nonce of the guard that is there
\* (the steps of recoverExistingLock keep this order).
THEOREM Quarantine == Spec => []StaleHasGuard
<1>1. SInv => StaleHasGuard
  BY DEF SInv, Residue, StaleHasGuard
<1> QED
  BY <1>1, Expected, PTL

\* Whatever crashes left, and however often they came in the middle of a
\* recovery, the next session acquires the lock unless a document was cut off
\* (acquireBridgeDataDirLock).
THEOREM Recoverable == Spec => []RefusalHasCause
<1>1. SInv => RefusalHasCause
  BY DEF SInv, Shape, Torn, RefusalHasCause
<1> QED
  BY <1>1, Expected, PTL
=============================================================================
