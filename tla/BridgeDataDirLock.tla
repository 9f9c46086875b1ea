-------------------------- MODULE BridgeDataDirLock --------------------------
(***************************************************************************)
(* The lock file of the bridge data directory                              *)
(* (src/core/bridge/bridge-data-dir-lock.ts) and the shells that take it   *)
(* (src/main/bridge, src/server/index.ts, src/server/shutdown.ts).         *)
(*                                                                         *)
(* A session is one run of the program: it owns an exclusive resource of   *)
(* the operating system while it lives and has an ownership epoch of its   *)
(* own.  It makes at most one lock file and one recovery guard in each     *)
(* attempt, so a file is named by its session and its attempt: this is its *)
(* identity (device and inode), its nonce and its epoch.  Every system     *)
(* call on the directory is a step, and a crash or an I/O error may come   *)
(* between any two of them.                                                *)
(***************************************************************************)
EXTENDS Naturals, FiniteSets

CONSTANTS
  Starts,      \* bound: how often the program is started, by kind of resource
  MaxTries,    \* bound: how often one session opens the bridge
  MaxFaults,   \* bound: how many I/O errors there are
  NoFile,      \* a name that is not in the directory
  NoSession    \* the exclusive resource is free

\* The exclusive resource of a shell.  A "kernel" one is Electron's instance lock
\* or the abstract socket of a Linux NAS service: it lasts until the process ends,
\* or is given up last.  A "listener" is the port of the server's control plane.
Resources == {"kernel", "listener"}

ASSUME LockAssumption ==
  /\ Starts \in [Resources -> Nat] /\ MaxTries \in Nat /\ MaxFaults \in Nat
  /\ NoSession \notin Nat

\* The sessions in the order of their start.
Sessions == 1..(Starts["kernel"] + Starts["listener"])
Tries == 1..MaxTries

File(kind, p, n) == [kind |-> kind, by |-> p, try |-> n]
LockFiles == {File("lock", p, n) : p \in Sessions, n \in Tries}
GuardFiles == {File("guard", p, n) : p \in Sessions, n \in Tries}
Files == LockFiles \cup GuardFiles

ASSUME NoFileAssumption == NoFile \notin Files

\* The names of the directory: the lock, the recovery guard, and for the nonce
\* of each guard the name a stale lock is quarantined under.
Lock == [name |-> "lock", nonce |-> NoFile]
Guard == [name |-> "guard", nonce |-> NoFile]
Stale(g) == [name |-> "stale", nonce |-> g]
Names == {Lock, Guard} \cup {Stale(g) : g \in GuardFiles}

VARIABLES
  entry,      \* what file each name of the directory denotes
  whole,      \* the files whose document was written to the end
  resource,   \* what kind of exclusive resource the shells have
  owner,      \* the session that has it
  life,       \* the life of each session
  at,         \* the step of acquire or release each session is about to make
  half,       \* the first of the two calls of that step is done
  try,        \* the attempts to open the bridge so far
  claim,      \* the process has the claim of this directory
  acq,        \* what the acquisition has read and done
  faults      \* the I/O errors so far

vars == <<entry, whole, resource, owner, life, at, half, try, claim, acq, faults>>

MyLock(p) == File("lock", p, try[p])
MyGuard(p) == File("guard", p, try[p])
Links(f) == Cardinality({n \in Names : entry[n] = f})

\* The name denotes this file, with a whole document and that many links.
Readable(n, f, links) ==
  /\ f # NoFile /\ entry[n] = f
  /\ f \in whole /\ Links(f) = links

\* An acquisition that has read nothing: the lock, the quarantined lock and the
\* guard whose nonce names the quarantine; whether the stale lock is unlinked;
\* whether a cleanup failed, so that the claim is retained.
Nothing ==
  [lock |-> NoFile, stale |-> NoFile, guard |-> NoFile, unlinked |-> FALSE, dirty |-> FALSE]

Acquisitions ==
  [lock : LockFiles \cup {NoFile}, stale : LockFiles \cup {NoFile},
   guard : GuardFiles \cup {NoFile}, unlinked : BOOLEAN, dirty : BOOLEAN]

Creating == {"create", "mkguard", "freshguard", "replace"}
Removing == {"drop", "rm_lock", "rm_stale", "rm_guard", "unstale", "unguard",
             "undo_lock", "undo_stale", "undo_guard", "backout", "abandon", "release"}
Reading == {"look", "recheck", "recover", "link", "sync", "resume", "reguard", "missing"}
Steps == Creating \cup Removing \cup Reading
AtRest == {"idle", "held", "failed", "free", "stuck", "dead"}

\* The steps of the catch block of a recovery.
Undoing == {"undo_lock", "undo_stale", "undo_guard"}

Init ==
  /\ entry = [n \in Names |-> NoFile] /\ whole = {}
  /\ resource \in Resources /\ owner = NoSession
  /\ life = [p \in Sessions |-> "off"]
  /\ at = [p \in Sessions |-> "idle"]
  /\ half = [p \in Sessions |-> FALSE]
  /\ try = [p \in Sessions |-> 0]
  /\ claim = [p \in Sessions |-> FALSE]
  /\ acq = [p \in Sessions |-> Nothing]
  /\ faults = 0

-----------------------------------------------------------------------------
(* Where a step leads, and where an error in it leads.                      *)

\* A recovery ends by removing the quarantine, then the guard.
AfterReplace_NoStale(p) == "unguard"
AfterReplace_NoGuard(p) == IF acq[p].stale # NoFile THEN "unstale" ELSE "held"
AfterReplace(p) == IF acq[p].stale # NoFile THEN "unstale" ELSE "unguard"

\* A recovery of its own syncs the directory once more.
AfterUnguard(p) == IF acq[p].guard = MyGuard(p) THEN "sync" ELSE "held"

AfterUndoLock(p) == IF acq[p].stale # NoFile THEN "undo_stale" ELSE "undo_guard"

Following(p) ==
  CASE at[p] = "create" -> "recheck"
    [] at[p] \in {"recheck", "sync"} -> "held"
    [] at[p] = "mkguard" -> "link"
    [] at[p] = "link" -> "drop"
    [] at[p] \in {"drop", "missing"} -> "replace"
    [] at[p] = "replace" -> AfterReplace(p)
    [] at[p] = "unstale" -> "unguard"
    [] at[p] = "unguard" -> AfterUnguard(p)
    [] at[p] = "rm_lock" -> IF acq[p].stale # NoFile THEN "rm_stale" ELSE "reguard"
    [] at[p] = "rm_stale" -> "reguard"
    [] at[p] = "reguard" -> "rm_guard"
    [] at[p] = "rm_guard" -> "freshguard"
    [] at[p] = "freshguard" -> "missing"
    [] at[p] = "undo_lock" -> AfterUndoLock(p)
    [] at[p] = "undo_stale" -> "undo_guard"
    [] at[p] = "backout" -> "recover"
    [] at[p] = "release" -> "free"
    [] OTHER -> "failed"

\* The catch block removes what the recovery has made: lock, quarantine, guard.
Handler(p) ==
  CASE at[p] \in {"unstale", "unguard", "sync"} -> "undo_lock"
    [] at[p] \in {"link", "drop", "replace", "missing", "undo_lock"} -> AfterUndoLock(p)
    [] at[p] = "undo_stale" -> "undo_guard"
    [] at[p] = "recheck" -> "abandon"
    [] at[p] = "release" -> "stuck"
    [] OTHER -> "failed"

Goto(p, s) ==
  /\ at' = [at EXCEPT ![p] = s]
  /\ half' = [half EXCEPT ![p] = FALSE]

Halfway(p) ==
  /\ half' = [half EXCEPT ![p] = TRUE]
  /\ UNCHANGED <<at, claim, acq>>

\* The step succeeds, the acquisition knowing a from now on.  A cleanup that
\* has come to its end gives the claim back unless a part of it failed.
Continue(p, a) ==
  /\ Goto(p, Following(p))
  /\ acq' = [acq EXCEPT ![p] = a]
  /\ claim' = [claim EXCEPT ![p] = CASE at[p] \in {"release", "abandon"} -> FALSE
                                     [] at[p] = "undo_guard" -> a.dirty
                                     [] OTHER -> claim[p]]

\* The step throws; with retain, a RetainModuleClaimError.
Throw(p, retain) ==
  LET dirty == acq[p].dirty \/ retain \/ at[p] \in Undoing IN
  /\ Goto(p, Handler(p))
  /\ acq' = [acq EXCEPT ![p].dirty = dirty]
  /\ claim' = [claim EXCEPT ![p] =
                 CASE at[p] \in {"backout", "abandon"} -> TRUE
                   [] Handler(p) = "failed" -> dirty
                   [] OTHER -> claim[p]]

NoChange == UNCHANGED <<entry, whole>>
Frame == UNCHANGED <<resource, owner, life, try>>
-----------------------------------------------------------------------------
(* createOwnedFile: create exclusively, then write, sync and read back.     *)

Target_Once(p) == IF at[p] = "mkguard" THEN Guard ELSE Lock
Target(p) == IF at[p] \in {"mkguard", "freshguard"} THEN Guard ELSE Lock
Made(p) == IF at[p] \in {"mkguard", "freshguard"} THEN MyGuard(p) ELSE MyLock(p)

\* open(O_CREAT | O_EXCL).  A lock that exists sends acquire to the recovery.
CreateFile(p) ==
  /\ at[p] \in Creating /\ ~half[p]
  /\ \/ /\ entry[Target(p)] = NoFile
        /\ entry' = [entry EXCEPT ![Target(p)] = Made(p)]
        /\ Halfway(p)
     \/ /\ entry[Target(p)] # NoFile /\ at[p] = "create"
        /\ Goto(p, "recover")
        /\ UNCHANGED <<entry, claim, acq>>
     \/ /\ entry[Target(p)] # NoFile /\ at[p] # "create"
        /\ Throw(p, FALSE)
        /\ UNCHANGED entry
  /\ UNCHANGED <<whole, faults>> /\ Frame

\* The document is written; a file that was taken away meanwhile is an error.
WriteFile(p) ==
  /\ at[p] \in Creating /\ half[p]
  /\ whole' = whole \cup {Made(p)}
  /\ IF Links(Made(p)) = 1
       THEN Continue(p, acq[p])
       ELSE Throw(p, entry[Target(p)] = NoFile)
  /\ UNCHANGED <<entry, faults>> /\ Frame

\* An I/O error while the document is written: the file is removed if it can be,
\* and the claim is retained when it cannot, or when the handle does not close.
WriteFails(p) ==
  /\ at[p] \in Creating /\ half[p]
  /\ faults < MaxFaults
  /\ faults' = faults + 1
  /\ whole' \in {whole, whole \cup {Made(p)}}
  /\ \E left, retain \in BOOLEAN :
       /\ left => retain
       /\ entry' = IF left \/ entry[Target(p)] # Made(p)
                     THEN entry ELSE [entry EXCEPT ![Target(p)] = NoFile]
       /\ Throw(p, retain)
  /\ Frame
-----------------------------------------------------------------------------
(* removeOwnedFile and removeObservedPath: check what the name denotes, then *)
(* unlink the name.                                                         *)

NameOf(p) ==
  CASE at[p] \in {"rm_stale", "unstale", "undo_stale"} -> Stale(acq[p].guard)
    [] at[p] \in {"rm_guard", "unguard", "undo_guard"} -> Guard
    [] OTHER -> Lock

FileOf(p) ==
  CASE at[p] \in {"drop", "rm_lock"} -> acq[p].lock
    [] at[p] \in {"rm_stale", "unstale", "undo_stale"} -> acq[p].stale
    [] at[p] = "rm_guard" -> acq[p].guard
    [] at[p] \in {"unguard", "undo_guard"} -> MyGuard(p)
    [] OTHER -> MyLock(p)

\* A lock that is quarantined and not yet unlinked has two names.
LinksOf(p) ==
  IF \/ at[p] = "drop"
     \/ at[p] = "rm_lock" /\ acq[p].lock = acq[p].stale
     \/ at[p] = "undo_stale" /\ ~acq[p].unlinked
  THEN 2 ELSE 1

Fits(p) ==
  /\ entry[NameOf(p)] = FileOf(p)
  /\ Links(FileOf(p)) = LinksOf(p)
  /\ at[p] = "drop" => entry[Stale(acq[p].guard)] = acq[p].stale

CheckFile(p) ==
  /\ at[p] \in Removing /\ ~half[p]
  /\ IF Fits(p) THEN Halfway(p) ELSE Throw(p, FALSE)
  /\ NoChange /\ UNCHANGED faults /\ Frame

\* unlink removes whatever the name denotes by now.  The file made after a
\* backout is another one, with a nonce of its own.
UnlinkFile(p) ==
  /\ at[p] \in Removing /\ half[p]
  /\ IF entry[NameOf(p)] = NoFile
       THEN Throw(p, FALSE) /\ UNCHANGED <<entry, try>>
       ELSE /\ entry' = [entry EXCEPT ![NameOf(p)] = NoFile]
            /\ Continue(p, [acq[p] EXCEPT
                 !.unlinked = @ \/ at[p] = "drop",
                 !.stale = IF at[p] \in {"rm_stale", "unstale"} THEN NoFile ELSE @])
            /\ IF at[p] = "backout"
                 THEN try[p] < MaxTries /\ try' = [try EXCEPT ![p] = @ + 1]
                 ELSE UNCHANGED try
  /\ UNCHANGED <<whole, resource, owner, life, faults>>
-----------------------------------------------------------------------------
(* The steps that read the directory.                                       *)

\* acquire: the claim of the process, then pathExists(guard).  The desktop
\* opens the bridge again when the user switches it on, the server only once.
Begin(p) ==
  /\ life[p] = "up" /\ at[p] \in {"idle", "free", "failed"} /\ ~claim[p]
  /\ try[p] < MaxTries
  /\ try[p] = 0 \/ resource = "kernel"
  /\ try' = [try EXCEPT ![p] = @ + 1]
  /\ claim' = [claim EXCEPT ![p] = TRUE]
  /\ acq' = [acq EXCEPT ![p] = Nothing]
  /\ Goto(p, "look")
  /\ NoChange /\ UNCHANGED <<resource, owner, life, faults>>

Look(p) ==
  /\ at[p] = "look"
  /\ Goto(p, IF entry[Guard] = NoFile THEN "create" ELSE "resume")
  /\ NoChange /\ UNCHANGED <<claim, acq, faults>> /\ Frame

\* assertMissing(guard) after a fresh creation: the lock made in the middle of
\* another one's recovery is taken back, and acquire goes on like one that found
\* a lock.
AssertNoGuard(p) ==
  /\ at[p] = "recheck"
  /\ IF entry[Guard] = NoFile
       THEN Continue(p, acq[p])
       ELSE Goto(p, "backout") /\ UNCHANGED <<claim, acq>>
  /\ NoChange /\ UNCHANGED faults /\ Frame

\* assertMissing(lock) after a resumption.
AssertNoLock(p) ==
  /\ at[p] = "missing"
  /\ IF entry[Lock] = NoFile THEN Continue(p, acq[p]) ELSE Throw(p, FALSE)
  /\ NoChange /\ UNCHANGED faults /\ Frame

\* validateRecoveryAuthority: the session still has the exclusive resource.
AssertOwnership(p) ==
  /\ at[p] \in {"recover", "resume"} /\ ~half[p]
  /\ IF owner = p THEN Halfway(p) ELSE Throw(p, FALSE)
  /\ NoChange /\ UNCHANGED faults /\ Frame

\* recoverExistingLock reads the lock it found: whole, and of another epoch.
Recover(p) ==
  /\ at[p] = "recover" /\ half[p]
  /\ LET f == entry[Lock] IN
     IF Readable(Lock, f, 1) /\ f.by # p
       THEN /\ Goto(p, "mkguard")
            /\ acq' = [acq EXCEPT ![p] = [Nothing EXCEPT !.lock = f]]
            /\ UNCHANGED claim
       ELSE Throw(p, FALSE)
  /\ NoChange /\ UNCHANGED faults /\ Frame

\* The lock is read again and linked to its quarantine name.
LinkStale(p) ==
  /\ at[p] = "link"
  /\ \/ /\ ~half[p]
        /\ IF Readable(Lock, acq[p].lock, 1) THEN Halfway(p) ELSE Throw(p, FALSE)
        /\ UNCHANGED entry
     \/ /\ half[p]
        /\ IF entry[Lock] = NoFile
             THEN Throw(p, FALSE) /\ UNCHANGED entry
             ELSE /\ entry' = [entry EXCEPT ![Stale(MyGuard(p))] = entry[Lock]]
                  /\ Continue(p, [acq[p] EXCEPT !.stale = acq[p].lock, !.guard = MyGuard(p)])
  /\ UNCHANGED <<whole, faults>> /\ Frame

\* A recovery may be resumed from a whole guard of another epoch, when the lock
\* and the quarantine are each absent or whole, with one link or two.
Intact_Single(n) == entry[n] = NoFile \/ Readable(n, entry[n], 1)
Intact(n) ==
  \/ entry[n] = NoFile
  \/ Readable(n, entry[n], 1) \/ Readable(n, entry[n], 2)

\* resumeInterruptedRecovery reads the guard, the lock and the quarantine.
Resume(p) ==
  /\ at[p] = "resume" /\ half[p]
  /\ LET g == entry[Guard] IN
     IF Readable(Guard, g, 1) /\ g.by # p /\ Intact(Lock) /\ Intact(Stale(g))
       THEN LET a == [Nothing EXCEPT !.lock = entry[Lock], !.stale = entry[Stale(g)], !.guard = g]
            IN /\ acq' = [acq EXCEPT ![p] = a]
               /\ Goto(p, IF a.lock # NoFile THEN "rm_lock"
                          ELSE IF a.stale # NoFile THEN "rm_stale" ELSE "reguard")
               /\ UNCHANGED claim
       ELSE Throw(p, FALSE)
  /\ NoChange /\ UNCHANGED faults /\ Frame

\* The guard is read again before it is removed.
Reguard(p) ==
  /\ at[p] = "reguard"
  /\ IF Readable(Guard, acq[p].guard, 1) THEN Continue(p, acq[p]) ELSE Throw(p, FALSE)
  /\ NoChange /\ UNCHANGED faults /\ Frame

\* The last sync of the directory in recoverExistingLock.
Sync(p) ==
  /\ at[p] = "sync"
  /\ Continue(p, acq[p])
  /\ NoChange /\ UNCHANGED faults /\ Frame

\* Any other call of a step fails with an I/O error.
Fails(p) ==
  /\ at[p] \in Steps
  /\ ~(at[p] \in Creating /\ half[p])
  /\ faults < MaxFaults
  /\ faults' = faults + 1
  /\ Throw(p, FALSE)
  /\ NoChange /\ Frame
-----------------------------------------------------------------------------
(* The shells.                                                              *)

\* The program starts: the instance lock, the abstract socket or the control
\* plane's port is taken first, with a fresh epoch.
Boot(p) ==
  /\ life[p] = "off" /\ owner = NoSession /\ p <= Starts[resource]
  /\ \A q \in Sessions : q < p => life[q] # "off"
  /\ owner' = p
  /\ life' = [life EXCEPT ![p] = "up"]
  /\ NoChange /\ UNCHANGED <<resource, at, half, try, claim, acq, faults>>

\* The shutdown begins; it closes the ingress and the bridge side by side.
Quit(p) ==
  /\ life[p] = "up"
  /\ life' = [life EXCEPT ![p] = "closing"]
  /\ NoChange /\ UNCHANGED <<resource, owner, at, half, try, claim, acq, faults>>

\* closeIngress: a resource that is the listener is given up there.
CloseIngress_Any(p) ==
  /\ life[p] = "closing" /\ owner = p
  /\ owner' = NoSession
  /\ NoChange /\ UNCHANGED <<resource, life, at, half, try, claim, acq, faults>>
CloseIngress(p) ==
  /\ life[p] = "closing" /\ owner = p /\ resource = "listener"
  /\ owner' = NoSession
  /\ NoChange /\ UNCHANGED <<resource, life, at, half, try, claim, acq, faults>>

\* closeBridge waits for the acquisition, drains the bridge and releases the
\* lock.  The desktop also releases it when the user switches the bridge off, the
\* server when its trusted registry does not load.
Release(p) ==
  /\ at[p] = "held"
  /\ Goto(p, "release")
  /\ NoChange /\ UNCHANGED <<claim, acq, faults>> /\ Frame

Ends(p) ==
  /\ life' = [life EXCEPT ![p] = "gone"]
  /\ owner' = IF owner = p THEN NoSession ELSE owner
  /\ Goto(p, "dead")
  /\ claim' = [claim EXCEPT ![p] = FALSE]
  /\ acq' = [acq EXCEPT ![p] = Nothing]
  /\ NoChange /\ UNCHANGED <<resource, try, faults>>

\* A kernel's resource is released last, after the bridge is closed.
Exit(p) ==
  /\ life[p] = "closing"
  /\ at[p] \in AtRest \ {"held"}
  /\ Ends(p)

Crash(p) ==
  /\ life[p] \in {"up", "closing"}
  /\ Ends(p)

Progress(p) ==
  \/ CreateFile(p) \/ WriteFile(p) \/ CheckFile(p) \/ UnlinkFile(p)
  \/ Look(p) \/ AssertNoGuard(p) \/ AssertNoLock(p) \/ AssertOwnership(p) \/ Recover(p) \/ LinkStale(p)
  \/ Resume(p) \/ Reguard(p) \/ Sync(p)

Next ==
  \E p \in Sessions :
    \/ Progress(p) \/ WriteFails(p) \/ Fails(p)
    \/ Boot(p) \/ Begin(p) \/ Quit(p) \/ CloseIngress(p) \/ Release(p) \/ Exit(p) \/ Crash(p)

Spec == Init /\ [][Next]_vars
-----------------------------------------------------------------------------
(* Properties.                                                              *)

\* The acquisitions and holders are in one of their steps, the directory names
\* files under names that may denote them.
TypeOK ==
  /\ entry \in [Names -> Files \cup {NoFile}]
  /\ entry[Lock] \notin GuardFiles /\ entry[Guard] \notin LockFiles
  /\ \A g \in GuardFiles : entry[Stale(g)] \notin GuardFiles
  /\ whole \subseteq Files
  /\ resource \in Resources /\ owner \in Sessions \cup {NoSession}
  /\ life \in [Sessions -> {"off", "up", "closing", "gone"}]
  /\ at \in [Sessions -> Steps \cup AtRest]
  /\ half \in [Sessions -> BOOLEAN]
  /\ try \in [Sessions -> 0..MaxTries]
  /\ claim \in [Sessions -> BOOLEAN]
  /\ acq \in [Sessions -> Acquisitions]
  /\ faults \in 0..MaxFaults

Holds(p) == at[p] = "held"

\* Two sessions hold the directory only when the resource is a listener, and
\* all but one of them have given it up in a shutdown that is still draining.
OneHolder ==
  \A p, q \in Sessions : p # q /\ Holds(p) /\ Holds(q) =>
    /\ resource = "listener"
    /\ \E s \in {p, q} : life[s] = "closing" /\ owner # s

\* With a resource that lasts to the end of the process, the lock file of the
\* directory is the holder's, whole and under no other name, and no guard is there.
HolderNamed ==
  resource = "kernel" =>
    \A p \in Sessions : Holds(p) => Readable(Lock, MyLock(p), 1) /\ entry[Guard] = NoFile

\* The residue of a crash is the residue of one recovery: a quarantined lock is
\* under the nonce of the guard that is there, unless there was an I/O error.
StaleHasGuard ==
  resource = "kernel" /\ faults = 0 =>
    \A g \in GuardFiles : entry[Stale(g)] # NoFile => entry[Guard] = g

\* Whatever a crash left, a session that has the resource acquires the lock:
\* it is refused only after an I/O error, or over a document cut off by a crash.
RefusalHasCause ==
  resource = "kernel" /\ faults = 0 =>
    \A p \in Sessions : at[p] \in {"failed", "stuck"} =>
      \E n \in {Lock, Guard} : entry[n] # NoFile /\ entry[n] \notin whole
=============================================================================
