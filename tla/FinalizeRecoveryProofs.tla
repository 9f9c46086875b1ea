------------------------ MODULE FinalizeRecoveryProofs ------------------------
(***************************************************************************)
(* Why a recovery gives up, and why a publication fails.                   *)
(*                                                                         *)
(* The run checks that a journal is quarantined only for a cause.  The     *)
(* invariant that shows it follows every program of a publication nobody   *)
(* interferes with: what the record says (Told), where its files are in    *)
(* each phase (Sited), what its announced removal may take (Pending), what *)
(* each operation still to run may do (Calm), and what it relies on, which *)
(* is there or which an operation before it provides (Met).  An operator   *)
(* that ends in By has the state it reads as its arguments, so that a step *)
(* can be judged in its next state.                                        *)
(*                                                                         *)
(* That a publication fails only when something went wrong is shown by     *)
(* following the one course that it has otherwise (OnTrack).               *)
(***************************************************************************)
EXTENDS FinalizeProofs

\* What a record says of a publication that leaves the original under its name.
Told(r) ==
  /\ ~r.rb /\ r.phase # "source_preserved"
  /\ r.phase = "target_staged" => r.mode = "copy" /\ r.privId = "copy" /\ plan.kind # "inPlace"
  /\ plan.kind = "inPlace" => r.mode = "copy" /\ r.link = "none"
  /\ plan.kind # "inPlace" => r.tgtId \in {"none", LinkId(r)}

Telling == Told(jrnl) /\ (stage # "idle" => Told(rec) /\ rec.phase = jrnl.phase)

\* Where the files of such a publication are in each of its phases.
Sited ==
  /\ dir["src"] \in {"none", "source"}
  /\ ~committed /\ jrnl.mode = "copy" => dir["src"] = "source"
  /\ jrnl.phase = "prepared" =>
       /\ jrnl.tgtId = "none"
       /\ jrnl.mode = "copy" => dir["tgt"] = "none"
  /\ jrnl.phase \in {"target_staged", "target_installed", "db_committed"} => dir["priv"] # "partial"
  /\ jrnl.link = "confirmed" /\ jrnl.phase \in {"prepared", "target_staged"} /\ dir["tgt"] # "none" =>
       dir["tgt"] = LinkId(jrnl) /\ dir[LinkSource(jrnl)] = LinkId(jrnl)
  /\ stage = "commit" => /\ jrnl.mode = "move" /\ Linked(jrnl) => dir["src"] = "source"
                         /\ Replaces => dir["stage"] = "staged"

\* A removal that finds what it is for, and that something survives.
Harmless(op) ==
  /\ dir[op.at] \in {"none", op.id}
  /\ ~committed => /\ op.at # "src" /\ dir["src"] = "source"
                   /\ op.at = At("tgt") /\ Linked(jrnl) => LinkConfirmed(jrnl)

\* The one that the journal announces is such a removal, or was.
Pending ==
  Unfinished /\ jrnl.removal # NoRemoval =>
    /\ Harmless(jrnl.removal)
    /\ quar[jrnl.removal.at] \in {"none", jrnl.removal.id}
    /\ dir[jrnl.removal.at] = "none" \/ quar[jrnl.removal.at] = "none"
    /\ jrnl.removal.at = "priv" /\ Linked(jrnl) /\ ~committed => dir["tgt"] = "none"

\* The operations of such a publication.
Calm(op) ==
  /\ op.do # "noteRollback"
  /\ op.do = "move" => op.at = "tgt"
  /\ op.do = "advance" => op.id # "source_preserved"
  /\ op.do = "check" => op.id \in {"source", "copy", "staged"}
  /\ op.do \in {"noteLink", "link", "confirmLink"} => op.at = LinkSource(rec) /\ op.id = LinkId(rec)
  /\ op.do \in {"intend", "survive"} => Harmless(op)
  /\ op.do \in {"intend", "survive", "isolate"} /\ op.at = "priv" => dir["priv"] # "partial"
  /\ op.do = "quarantine" => stage # "commit" /\ dir["priv"] = "partial"

\* A link whose confirmation was lost.
Doubtful == jrnl.link = "intended" /\ Seen("tgt") # "none"

Calms(s) == \A i \in 1..Len(s) : Calm(s[i])
Calming  == Calms(todo) \/ (todo = Quarantine /\ stage # "commit" /\ Doubtful)

\* What an operation relies on, and what provides it or takes it away.
Relies(op, n, id) ==
  \/ op.do \in {"check", "noteLink", "confirmLink"} /\ n = op.at /\ id = op.id
  \/ op.do = "confirmLink" /\ n = At("tgt") /\ id = op.id
  \/ op.do = "copyMode" /\ n = "src" /\ id = "source"
  \/ op.do = "advance" /\ op.id = "target_staged" /\ n = "priv" /\ id = "copy"
Gives(op, n, id) ==
  \/ op.do \in {"publish", "link"} /\ n = At("tgt") /\ id = op.id
  \/ op.do = "copy" /\ n = "priv" /\ id = "copy"
Drops(op, n) == op.at = n /\ op.do \in {"publish", "move", "survive", "isolate"}

MetAt(s, i, n, id) ==
  \/ dir[n] = id /\ \A k \in 1..(i-1) : ~Drops(s[k], n)
  \/ \E j \in 1..(i-1) : Gives(s[j], n, id) /\ \A k \in (j+1)..(i-1) : ~Drops(s[k], n)
Met(s) == \A i \in 1..Len(s), n \in Names, id \in {"source", "copy", "staged"} :
            Relies(s[i], n, id) => MetAt(s, i, n, id)

\* When a commit publishes, and how.
Due(s, r) ==
  \A i \in 1..Len(s) :
    /\ s[i].do \in {"publish", "copyMode"} =>
         r.link = "none" /\ \A j \in 1..(i-1) : s[j].do \notin {"noteLink", "confirmLink", "publish"}
    /\ s[i].do \in {"publish", "link"} /\ s[i].at = "priv" =>
         r.phase # "prepared" \/ \E j \in 1..(i-1) : s[j].do = "advance"
    /\ s[i].do \in {"open", "copyMode"} \/ (s[i].do = "publish" /\ s[i].at = "src") =>
         r.phase = "prepared" /\ \A j \in 1..(i-1) : s[j].do \notin {"advance", "install"}

\* A private copy is withdrawn after the link that was made from it.
Behind(s) ==
  Linked(jrnl) /\ ~committed =>
    \A i \in 1..Len(s) : s[i].do = "intend" /\ s[i].at = "priv" =>
      dir["tgt"] = "none" \/ \E j \in 1..(i-1) : Takes(s[j], "tgt")

Steady ==
  /\ Telling /\ Sited /\ Pending /\ Calming /\ Met(todo) /\ Behind(todo)
  /\ stage = "commit" => Due(todo, rec)

\* Of a publication that leaves the original alone, and that is left alone.
Given == IInv /\ Undecided /\ Neat /\ Untouched /\ plan.kind # "replaceInPlace"

\* What the proofs below use at every step: types, the stage, and that nothing is put aside
\* (preserveExistingTarget never runs for such a plan).
LEMMA Standing ==
  ASSUME Given, Telling
  PROVE  /\ TypeOK /\ Placed /\ Staged
         /\ dir \in [Names -> Artifacts] /\ quar \in [Names -> Artifacts]
         /\ jrnl \in Records /\ rec \in Records /\ todo \in Seq(Ops)
         /\ (todo = <<>> <=> stage = "idle") /\ stage \in {"idle", "commit", "cleanup", "recover"}
         /\ stage # "idle" => /\ rec.mode = jrnl.mode /\ rec.link = jrnl.link /\ rec.phase = jrnl.phase
                              /\ Unfinished
         /\ stage = "commit" => rec = jrnl /\ jrnl.removal = NoRemoval
         /\ ~jrnl.rb /\ (stage # "idle" => ~rec.rb) /\ dir["rb"] = "none"
         /\ SamePath <=> plan.kind = "inPlace"
         /\ At("tgt") \in {"src", "tgt"} /\ (~SamePath => At("tgt") = "tgt")
         /\ jrnl.phase = "db_committed" => committed
         /\ committed => /\ jrnl.phase \in {"db_committed", "cleaned", "quarantined"}
                         /\ stage # "idle" => jrnl.phase = "db_committed" /\ stage # "commit" /\ rec = jrnl
<1>1. TypeOK /\ Placed /\ Staged
  BY DEF Given, IInv
<1>2. stage # "idle" => rec.mode = jrnl.mode /\ rec.link = jrnl.link /\ rec.phase = jrnl.phase
  BY DEF Given, Neat, Noted, Telling
<1>3. stage # "idle" => Unfinished
  BY DEF Given, Neat, Closed, Unfinished
<1>4. ~jrnl.rb /\ (stage # "idle" => ~rec.rb) /\ dir["rb"] = "none"
  BY DEF Given, Neat, Noted, Telling, Told
<1>5. (SamePath <=> plan.kind = "inPlace") /\ At("tgt") \in {"src", "tgt"} /\ (~SamePath => At("tgt") = "tgt")
  BY DEF Given, SamePath, At
<1>6. committed => /\ jrnl.phase \in {"db_committed", "cleaned", "quarantined"}
                   /\ stage # "idle" => jrnl.phase = "db_committed" /\ stage # "commit" /\ rec = jrnl
  BY DEF Given, IInv, Kept, Decided
<1> QED
  BY <1>1, <1>2, <1>3, <1>4, <1>5, <1>6 DEF Given, TypeOK, Staged, Undecided

\* What the next operation is about.
LEMMA HeadSteady ==
  ASSUME Given, Steady, todo # <<>>
  PROVE  LET op == Head(todo)
         IN  /\ op \in Ops /\ op = todo[1] /\ stage \in {"commit", "cleanup", "recover"}
             /\ op.do # "quarantine" => Calms(todo) /\ Calm(op)
             /\ op.do = "quarantine" => stage # "commit" /\ (dir["priv"] = "partial" \/ Doubtful)
             /\ \A n \in Names, id \in {"source", "copy", "staged"} : Relies(op, n, id) => dir[n] = id
             /\ stage = "commit" => /\ op \in Line(rec.mode) /\ op \in Forwarding
                                    /\ op.do # "move"
                                    /\ op.do \in {"publish", "copyMode"} => rec.link = "none"
                                    /\ op.do \in {"publish", "link"} /\ op.at = "priv" => rec.phase # "prepared"
                                    /\ op.do \in {"open", "copyMode"} => rec.phase = "prepared"
                                    /\ op.do = "link" => rec.link # "none"
             /\ stage # "commit" => op \in Clearing
             /\ op.do = "intend" /\ op.at = "priv" /\ Linked(jrnl) /\ ~committed => dir["tgt"] = "none"
<1> DEFINE op == Head(todo)
<1>1. /\ TypeOK /\ Staged /\ Committing
      /\ stage # "idle" => ~rec.rb
  BY Standing DEF Steady, Given, Neat
<1>2. /\ op \in Ops /\ op = todo[1] /\ stage \in {"commit", "cleanup", "recover"} /\ 1 \in 1..Len(todo)
      /\ stage = "commit" => op \in Forwarding
      /\ stage # "commit" => op \in Clearing
  BY <1>1, Ahead
<1>3. op.do # "quarantine" => Calms(todo) /\ Calm(op)
  <2>1. todo = Quarantine => op.do = "quarantine"
    BY DEF Quarantine, Op
  <2> QED
    BY <1>2, <2>1 DEF Steady, Calming, Calms
<1>4. op.do = "quarantine" => stage # "commit" /\ (dir["priv"] = "partial" \/ Doubtful)
  <2>1. Calms(todo) /\ op.do = "quarantine" => stage # "commit" /\ dir["priv"] = "partial"
    BY <1>2 DEF Calms, Calm
  <2> QED
    BY <2>1 DEF Steady, Calming
<1>0. \A j : j \in 1..(1-1) => FALSE
  OBVIOUS
<1>5. \A n \in Names, id \in {"source", "copy", "staged"} : Relies(op, n, id) => dir[n] = id
  <2>1. ASSUME NEW n \in Names, NEW id \in {"source", "copy", "staged"}, Relies(op, n, id) PROVE dir[n] = id
    <3>1. MetAt(todo, 1, n, id)
      BY <1>2, <2>1 DEF Steady, Met
    <3> QED
      BY <1>0, <3>1 DEF MetAt
  <2> QED
    BY <2>1
<1>6. stage = "commit" => /\ op.do \in {"publish", "copyMode"} => rec.link = "none"
                          /\ op.do \in {"publish", "link"} /\ op.at = "priv" => rec.phase # "prepared"
                          /\ op.do \in {"open", "copyMode"} => rec.phase = "prepared"
  BY <1>0, <1>2 DEF Steady, Due
<1>7. stage = "commit" => op \in Line(rec.mode) /\ op.do # "move" /\ (op.do = "link" => rec.link # "none")
  BY <1>1, HeadOfCommit
<1>8. op.do = "intend" /\ op.at = "priv" /\ Linked(jrnl) /\ ~committed => dir["tgt"] = "none"
  BY <1>0, <1>2 DEF Steady, Behind
<1> QED
  BY <1>2, <1>3, <1>4, <1>5, <1>6, <1>7, <1>8

\* A program that does not give up goes on.
Proceeds ==
  LET op == Head(todo)
  IN  /\ todo # <<>> /\ op \in Ops
      /\ \/ op.do = "check" /\ Goes(Tail(todo), rec)
         \/ /\ op.do = "publish" /\ op.at = "src" /\ dir["src"] = "source" /\ Seen("tgt") = "none"
            /\ Goes(<<Check("src", "source"), Op("copyMode", "src", "none")>>, rec)
         \/ /\ op.do = "publish" /\ dir[op.at] = op.id /\ Seen("tgt") = "none"
            /\ Goes(Linking(op) \o Tail(todo), rec)
         \/ op.do = "survive" /\ \E c : Goes(Removal(op, c) \o Tail(todo), rec)
         \/ /\ op.do = "resume"
            /\ Goes(<<Op("survive", rec.removal.at, rec.removal.id)>> \o Tail(todo), rec)
         \/ op.do = "recover" /\ Goes(Recovery(rec), rec)
      /\ UNCHANGED <<plan, dir, quar, jrnl, committed>>

\* What is to be removed is survived.
LEMMA SurvivesSteady ==
  ASSUME Given, Steady, todo # <<>>, Head(todo).do = "survive"
  PROVE  /\ ~(Linked(rec) /\ Head(todo).at = At("tgt") /\ ~LinkConfirmed(rec))
         /\ \E c \in Survivors(Head(todo)) : dir[c[1]] = c[2]
<1> DEFINE op == Head(todo)
<1>1. Harmless(op) /\ stage \in {"cleanup", "recover"} /\ op \in Clearing /\ op \in Ops
  BY HeadSteady DEF Calm, Forwarding
<1>2. /\ TypeOK /\ Staged /\ Announcing /\ Kept
      /\ rec.mode = jrnl.mode /\ rec.link = jrnl.link /\ rec.phase = jrnl.phase /\ ~rec.rb
      /\ jrnl.phase = "db_committed" => committed
      /\ committed => jrnl.phase = "db_committed" /\ rec = jrnl
      /\ At("tgt") \in {"src", "tgt"}
  BY <1>1, Standing DEF Steady, Given, Neat, IInv
<1>3. op.id # "none" /\ jrnl.removal = [at |-> op.at, id |-> op.id]
  BY <1>1, <1>2, HeadOfClearing
<1> HIDE DEF op
<1>4. CASE ~committed
  <2>1. op.at # "src" /\ dir["src"] = "source" /\ (op.at = At("tgt") /\ Linked(jrnl) => LinkConfirmed(jrnl))
    BY <1>1, <1>4 DEF Harmless
  <2>2. Linked(rec) = Linked(jrnl) /\ LinkConfirmed(rec) = LinkConfirmed(jrnl)
    BY <1>2 DEF Linked, LinkConfirmed
  <2>3. <<"src", "source">> \in Survivors(op)
    BY <1>2, <1>4, <2>1 DEF Survivors
  <2> QED
    BY <2>1, <2>2, <2>3 DEF op
<1>5. CASE committed
  <2>1. op.at # At("tgt")
    <3>1. jrnl.removal # NoRemoval => jrnl.removal.at # At("tgt")
      BY <1>2, <1>5 DEF Kept, Decided
    <3>2. jrnl.removal # NoRemoval /\ jrnl.removal.at = op.at
      BY <1>3 DEF NoRemoval
    <3> QED
      BY <3>1, <3>2
  <2>2. dir[At("tgt")] = rec.tgtId /\ rec.tgtId # "none"
    BY <1>2, <1>5 DEF Kept, Decided, Seen, Given, Whole
  <2>3. <<At("tgt"), Installed(rec)>> \in Survivors(op) /\ Installed(rec) = rec.tgtId
    BY <1>2, <1>5, <2>1, <2>2 DEF Survivors, Installed
  <2> QED
    BY <2>1, <2>2, <2>3 DEF op
<1> QED
  BY <1>4, <1>5

\* So a program gives up only where that was foreseen.
LEMMA SteadyForms ==
  ASSUME Given, Steady, [Next]_vars, ~Tamper
  PROVE  \/ Acts \/ Renames \/ Fails \/ Proceeds \/ Notes
         \/ QuarantineStep \/ Commit \/ Recover \/ Crash \/ UNCHANGED vars
<1> DEFINE op == Head(todo)
<1>1. /\ TypeOK /\ Staged /\ Announcing /\ Telling
      /\ todo # <<>> => op \in Ops
  BY Standing, HeadSteady DEF Steady, Given, Neat
<1>2. CASE CheckStep
  <2>1. todo # <<>> /\ op.do = "check" /\ Goes(IF dir[op.at] = op.id THEN Tail(todo) ELSE Quarantine, rec)
        /\ UNCHANGED <<plan, dir, quar, jrnl, committed>>
    BY <1>2 DEF CheckStep, files
  <2>2. Relies(op, op.at, op.id) /\ op.at \in Names /\ Calm(op)
    BY <1>1, <2>1, HeadSteady DEF Relies, Ops
  <2>3. dir[op.at] = op.id
    BY <2>1, <2>2, HeadSteady DEF Calm
  <2> QED
    BY <1>1, <2>1, <2>3 DEF Proceeds
<1>3. CASE SurviveStep
  <2>1. todo # <<>> /\ op.do = "survive"
    BY <1>3 DEF SurviveStep
  <2>2. /\ ~(Linked(rec) /\ op.at = At("tgt") /\ ~LinkConfirmed(rec))
        /\ {c \in Survivors(op) : dir[c[1]] = c[2]} # {}
    BY <2>1, SurvivesSteady
  <2>3. /\ \E c : Goes(Removal(op, c) \o Tail(todo), rec)
        /\ UNCHANGED <<plan, dir, quar, jrnl, committed>>
    BY <1>3, <2>2 DEF SurviveStep, Removal
  <2> QED
    BY <1>1, <2>1, <2>3 DEF Proceeds
<1>4. CASE ResumeStep
  <2>1. todo # <<>> /\ op.do = "resume" /\ UNCHANGED <<plan, dir, quar, jrnl, committed>>
    BY <1>4 DEF ResumeStep, files
  <2>2. rec.removal = jrnl.removal /\ jrnl.removal # NoRemoval /\ Unfinished
    <3>1. stage \in {"cleanup", "recover"}
      BY <2>1, HeadSteady DEF Forwarding
    <3> QED
      BY <1>1, <2>1, <3>1, HeadOfClearing, Standing
  <2>3. /\ dir[rec.removal.at] \in {"none", rec.removal.id}
        /\ quar[rec.removal.at] \in {"none", rec.removal.id}
        /\ dir[rec.removal.at] = "none" \/ quar[rec.removal.at] = "none"
    BY <2>2 DEF Steady, Pending, Harmless
  <2>4. Goes(<<Op("survive", rec.removal.at, rec.removal.id)>> \o Tail(todo), rec)
    BY <1>4, <2>3 DEF ResumeStep
  <2> QED
    BY <1>1, <2>1, <2>4 DEF Proceeds
<1>5. CASE Publish
  BY <1>1, <1>5, HeadSteady DEF Publish, Renames, Fails, Proceeds, Linking, Ops
<1>6. FileStep => Acts \/ Fails
  BY <1>1 DEF FileStep, Acts, Fails, files
<1>7. JournalStep => Fails \/ Notes
  BY <1>1 DEF JournalStep, Fails, Notes, files
<1>8. RecoverStep => Proceeds
  BY <1>1 DEF RecoverStep, Proceeds, files
<1>9. DeferStep \/ FailStep => Fails
  BY DEF DeferStep, FailStep, Fails, files
<1> QED
  BY <1>2, <1>3, <1>4, <1>5, <1>6, <1>7, <1>8, <1>9 DEF Next, Step

\* A step of such a publication on the files.
Moves ==
  LET op == Head(todo)
  IN  /\ op.do = "move" /\ stage \in {"cleanup", "recover"} /\ ~committed
      /\ dir["src"] = "none" /\ dir' = [dir EXCEPT !["tgt"] = "none", !["src"] = "source"]
Publishes ==
  LET op == Head(todo)
  IN  /\ stage = "commit" /\ ~SamePath /\ ~committed /\ dir["tgt"] = "none"
      /\ op.at = LinkSource(jrnl) /\ op.id = LinkId(jrnl) /\ dir[op.at] = op.id
      /\ op.at = "priv" => jrnl.phase # "prepared"
      /\ \/ op.do = "link" /\ Linked(jrnl) /\ dir' = [dir EXCEPT !["tgt"] = op.id]
         \/ op.do = "publish" /\ jrnl.link = "none" /\ dir' = [dir EXCEPT ![op.at] = "none", !["tgt"] = op.id]
Copies ==
  LET op == Head(todo)
  IN  /\ stage = "commit" /\ ~SamePath /\ ~committed /\ jrnl.mode = "copy"
      /\ \/ /\ op.do = "open" /\ dir["priv"] = "none" /\ jrnl.phase = "prepared"
            /\ dir' = [dir EXCEPT !["priv"] = "partial"]
         \/ op.do = "copy" /\ dir' = [dir EXCEPT !["priv"] = "copy"]
Isolates ==
  LET op == Head(todo)
  IN  /\ op.do = "isolate" /\ stage \in {"cleanup", "recover"} /\ op.at \in Names
      /\ jrnl.removal = [at |-> op.at, id |-> op.id] /\ jrnl.removal # NoRemoval /\ Unfinished
      /\ Harmless(jrnl.removal)
      /\ dir' = [dir EXCEPT ![op.at] = "none"]

\* The steps that change the directory, one form each: rename, link or rename into place,
\* copy, isolate.
LEMMA SteadyDirs ==
  ASSUME Given, Steady, [Next]_vars, ~Tamper
  PROVE  \/ UNCHANGED dir
         \/ /\ Acts \/ Renames
            /\ UNCHANGED <<plan, jrnl, committed>>
            /\ Moves \/ Publishes \/ Copies \/ Isolates
<1> DEFINE op == Head(todo)
<1>1. /\ TypeOK /\ Placed /\ Staged /\ Announcing /\ Kept /\ Noted
      /\ rec \in Records /\ dir \in [Names -> Artifacts]
      /\ stage = "commit" => rec = jrnl /\ ~committed
      /\ SamePath <=> plan.kind = "inPlace"
      /\ At("tgt") \in {"src", "tgt"} /\ (~SamePath => At("tgt") = "tgt")
  BY Standing DEF Steady, Given, Neat, IInv
<1>2. Acts \/ Renames => todo # <<>> /\ UNCHANGED <<plan, jrnl, committed>>
  BY DEF Acts, Renames
<1>3. todo # <<>> => /\ op \in Ops /\ stage \in {"commit", "cleanup", "recover"}
                     /\ stage # "idle" /\ (op.do # "quarantine" => Calm(op))
                     /\ stage # "commit" => op \in Clearing
                     /\ stage = "commit" => /\ op \in Line(jrnl.mode) /\ op \in Forwarding /\ op.do # "move"
                                            /\ op.do = "publish" => jrnl.link = "none"
                                            /\ op.do \in {"publish", "link"} /\ op.at = "priv" => jrnl.phase # "prepared"
                                            /\ op.do = "open" => jrnl.phase = "prepared"
                                            /\ op.do = "link" => jrnl.link # "none"
  BY <1>1, HeadSteady
<1>4. ASSUME Acts, op.do = "move", op.id = "source", op.at \in {"src", "rb", "tgt"},
             op.to \in {"src", "rb"}, dir[op.at] = "source", dir[op.to] = "none",
             dir' = [dir EXCEPT ![op.at] = "none", ![op.to] = "source"]
      PROVE  Moves
  <2>1. op.at = "tgt" /\ stage \in {"cleanup", "recover"}
    BY <1>2, <1>3, <1>4 DEF Calm
  <2>2. op.to = "src"
    BY <1>1, <1>2, <2>1, <1>4, HeadOfClearing
  <2>3. ~committed
    <3>1. committed => todo \in Seq(Sparing)
      BY <1>1, <2>1 DEF Kept, Finishing, FinishingBy
    <3>2. committed => op \in Sparing
      BY <1>2, <1>4, <3>1, Rest
    <3> QED
      BY <1>4, <3>2 DEF Sparing
  <2> QED
    BY <1>4, <2>1, <2>2, <2>3 DEF Moves
<1>5. ASSUME Acts, op.do = "link", dir[op.at] = op.id, dir[At("tgt")] = "none",
             dir' = [dir EXCEPT ![At("tgt")] = op.id]
      PROVE  Publishes
  <2>1. stage = "commit"
    BY <1>2, <1>3, <1>5 DEF Clearing
  <2>2. ~SamePath
    BY <1>1, <1>2, <1>3, <1>5, <2>1 DEF Line
  <2>3. op.at = LinkSource(jrnl) /\ op.id = LinkId(jrnl)
    BY <1>1, <1>2, <1>3, <1>5, <2>1 DEF Calm
  <2> QED
    BY <1>1, <1>2, <1>3, <1>5, <2>1, <2>2, <2>3 DEF Publishes, Linked
<1>6. ASSUME Acts, \/ op.do = "open" /\ dir' = [dir EXCEPT !["priv"] = "partial"]
                   \/ op.do = "copy" /\ dir' = [dir EXCEPT !["priv"] = "copy"]
      PROVE  Copies
  <2>1. stage = "commit"
    BY <1>2, <1>3, <1>6 DEF Clearing
  <2>2. ~SamePath /\ jrnl.mode = "copy"
    BY <1>1, <1>2, <1>3, <1>6, <2>1 DEF Line, Records
  <2>3. op.do = "open" => dir["priv"] = "none"
    BY <1>6 DEF Acts, Verified
  <2> QED
    BY <1>1, <1>2, <1>3, <1>6, <2>1, <2>2, <2>3 DEF Copies
<1>7. ASSUME Acts, op.do = "isolate", op.at \in Names, dir' = [dir EXCEPT ![op.at] = "none"]
      PROVE  Isolates
  <2>1. stage \in {"cleanup", "recover"}
    BY <1>2, <1>3, <1>7 DEF Forwarding
  <2>2. jrnl.removal = [at |-> op.at, id |-> op.id] /\ op.id # "none"
    BY <1>1, <1>7, <2>1, HeadOfClearing
  <2>3. jrnl.removal # NoRemoval /\ Unfinished
    BY <2>1, <2>2, Standing DEF NoRemoval, Steady
  <2>4. Harmless(jrnl.removal)
    BY <2>3 DEF Steady, Pending
  <2> QED
    BY <1>7, <2>1, <2>2, <2>3, <2>4 DEF Isolates
<1>8. ASSUME Renames, dir[op.at] = op.id, dir[At("tgt")] = "none",
             dir' = [dir EXCEPT ![op.at] = "none", ![At("tgt")] = op.id],
             (op.at = "src" /\ op.id = "source") \/ (op.at = "priv" /\ op.id = "copy")
      PROVE  Publishes
  <2>0. op.do = "publish"
    BY <1>8 DEF Renames
  <2>1. stage = "commit"
    BY <1>2, <1>3, <1>8, <2>0 DEF Clearing
  <2>2. ~SamePath
    BY <1>1, <1>2, <1>3, <1>8, <2>0, <2>1 DEF Line
  <2>3. op.at = LinkSource(jrnl) /\ op.id = LinkId(jrnl)
    BY <1>1, <1>2, <1>3, <1>8, <2>0, <2>1, <2>2 DEF Line, LinkSource, LinkId
  <2> QED
    BY <1>1, <1>2, <1>3, <1>8, <2>0, <2>1, <2>2, <2>3 DEF Publishes
<1>9. \/ UNCHANGED dir
      \/ /\ Acts
         /\ \/ /\ op.do = "move" /\ op.id = "source" /\ op.at \in {"src", "rb", "tgt"}
               /\ op.to \in {"src", "rb"} /\ dir[op.at] = "source" /\ dir[op.to] = "none"
               /\ dir' = [dir EXCEPT ![op.at] = "none", ![op.to] = "source"]
            \/ /\ op.do = "link" /\ dir[op.at] = op.id /\ dir[At("tgt")] = "none"
               /\ dir' = [dir EXCEPT ![At("tgt")] = op.id]
            \/ op.do = "open" /\ dir' = [dir EXCEPT !["priv"] = "partial"]
            \/ op.do = "copy" /\ dir' = [dir EXCEPT !["priv"] = "copy"]
            \/ op.do = "isolate" /\ op.at \in Names /\ dir' = [dir EXCEPT ![op.at] = "none"]
      \/ /\ Renames /\ dir[op.at] = op.id /\ dir[At("tgt")] = "none"
         /\ dir' = [dir EXCEPT ![op.at] = "none", ![At("tgt")] = op.id]
         /\ (op.at = "src" /\ op.id = "source") \/ (op.at = "priv" /\ op.id = "copy")
  BY <1>1, DirForms
<1> QED
  BY <1>2, <1>4, <1>5, <1>6, <1>7, <1>8, <1>9

\* The phase and the private identity of a patched record.
LEMMA PatchedPhase ==
  ASSUME NEW r \in Records, NEW op \in Ops
  PROVE  /\ Patched(r, op).phase = IF op.do = "advance" THEN op.id ELSE IF op.do = "install" THEN "target_installed"
                                   ELSE IF op.do = "commit" THEN "db_committed" ELSE r.phase
         /\ Patched(r, op).removal = IF op.do = "intend" THEN [at |-> op.at, id |-> op.id]
                                     ELSE IF op.do = "forget" THEN NoRemoval ELSE r.removal
         /\ Patched(r, op).privId = IF op.do = "advance" /\ op.id = "target_staged" THEN "copy" ELSE r.privId
         /\ Eager(r, op).privId = IF op.do = "advance" /\ op.id = "target_staged" THEN "copy" ELSE r.privId
<1> DEFINE q == Patched(r, op)
<1>1. q = Patched(r, op)
  OBVIOUS
<1>2. /\ q.phase = IF op.do = "advance" THEN op.id ELSE IF op.do = "install" THEN "target_installed"
                   ELSE IF op.do = "commit" THEN "db_committed" ELSE r.phase
      /\ q.removal = IF op.do = "intend" THEN [at |-> op.at, id |-> op.id]
                     ELSE IF op.do = "forget" THEN NoRemoval ELSE r.removal
  <2> HIDE DEF q
  <2> QED
    BY <1>1, PatchedFields
<1>3. Eager(r, op).privId = IF op.do = "advance" /\ op.id = "target_staged" THEN "copy" ELSE r.privId
  BY DEF Eager, Records
<1>4. q.privId = IF op.do = "advance" /\ op.id = "target_staged" THEN "copy" ELSE r.privId
  <2>1. CASE op.do \in {"advance", "install"}
    <3>1. q.privId = Eager(r, op).privId
      BY <2>1 DEF Patched
    <3> QED
      BY <1>3, <3>1
  <2>2. CASE op.do \in {"commit", "intend", "noteLink", "confirmLink", "copyMode"}
    BY <2>2 DEF Patched, Records
  <2>3. CASE op.do \notin {"advance", "install", "commit", "intend", "noteLink", "confirmLink", "copyMode"}
    BY <1>3, <2>3 DEF Patched
  <2> QED
    BY <2>1, <2>2, <2>3
<1> QED
  BY <1>2, <1>3, <1>4

\* What such a record says stays so.
LEMMA ToldKept ==
  ASSUME NEW r \in Records, Told(r), NEW op \in Ops,
         op.do # "noteRollback", op.do = "advance" => op.id # "source_preserved",
         op.do = "advance" /\ op.id = "target_staged" => r.mode = "copy" /\ plan.kind # "inPlace",
         op.do = "install" /\ plan.kind # "inPlace" => op.id = LinkId(r),
         op.do = "copyMode" => r.tgtId = "none",
         op.do \in {"noteLink", "confirmLink"} => plan.kind # "inPlace"
  PROVE  Told(Eager(r, op)) /\ Told(Patched(r, op))
<1> DEFINE e == Eager(r, op)
           q == Patched(r, op)
<1>0. e = Eager(r, op)
  OBVIOUS
<1>1. /\ e.mode = r.mode /\ e.link = r.link /\ e.phase = r.phase
      /\ e.rb <=> r.rb \/ op.do = "noteRollback"
      /\ e.tgtId = IF op.do = "install" THEN op.id ELSE r.tgtId
      /\ e.privId = IF op.do = "advance" /\ op.id = "target_staged" THEN "copy" ELSE r.privId
  <2>1. Eager(r, op).privId = IF op.do = "advance" /\ op.id = "target_staged" THEN "copy" ELSE r.privId
    BY PatchedPhase
  <2> HIDE DEF e
  <2>2. /\ e.mode = r.mode /\ e.link = r.link /\ e.phase = r.phase
        /\ e.rb <=> r.rb \/ op.do = "noteRollback"
        /\ e.tgtId = IF op.do = "install" THEN op.id ELSE r.tgtId
    BY <1>0, EagerFields
  <2> QED
    BY <1>0, <2>1, <2>2
<1>2. /\ q.mode = IF op.do = "copyMode" THEN "copy" ELSE r.mode
      /\ q.rb <=> r.rb \/ op.do = "noteRollback"
      /\ q.link = IF op.do = "noteLink" THEN "intended" ELSE IF op.do = "confirmLink" THEN "confirmed" ELSE r.link
      /\ q.tgtId = IF op.do = "install" THEN op.id ELSE r.tgtId
      /\ q.phase = IF op.do = "advance" THEN op.id ELSE IF op.do = "install" THEN "target_installed"
                   ELSE IF op.do = "commit" THEN "db_committed" ELSE r.phase
      /\ q.privId = IF op.do = "advance" /\ op.id = "target_staged" THEN "copy" ELSE r.privId
  BY PatchedNotes, PatchedPhase
<1> HIDE DEF e, q
<1>3. Told(e)
  BY <1>1 DEF Told, LinkId
<1>4. Told(q)
  <2>1. ~q.rb /\ q.phase # "source_preserved"
    BY <1>2 DEF Told
  <2>2. q.phase = "target_staged" => q.mode = "copy" /\ q.privId = "copy" /\ plan.kind # "inPlace"
    BY <1>2 DEF Told
  <2>3. plan.kind = "inPlace" => q.mode = "copy" /\ q.link = "none"
    BY <1>2 DEF Told
  <2>4. plan.kind # "inPlace" => q.tgtId \in {"none", LinkId(q)}
    BY <1>2 DEF Told, LinkId
  <2> QED
    BY <2>1, <2>2, <2>3, <2>4 DEF Told
<1> QED
  BY <1>3, <1>4 DEF e, q

\* The next operation of such a publication keeps it.
LEMMA HeadTells ==
  ASSUME Given, Steady, todo # <<>>
  PROVE  /\ Told(Eager(rec, Head(todo))) /\ Eager(rec, Head(todo)).phase = rec.phase
         /\ Told(Patched(rec, Head(todo))) /\ Told(Patched(jrnl, Head(todo)))
         /\ Patched(rec, Head(todo)).phase = Patched(jrnl, Head(todo)).phase
<1> DEFINE op == Head(todo)
<1>1. /\ jrnl \in Records /\ rec \in Records /\ op \in Ops /\ stage # "idle"
      /\ rec.mode = jrnl.mode /\ rec.phase = jrnl.phase /\ Told(jrnl) /\ Told(rec)
      /\ stage = "commit" => rec = jrnl
  BY Standing, HeadSteady DEF Steady, Telling
<1>2. /\ op.do # "noteRollback"
      /\ op.do = "advance" => op.id # "source_preserved"
  BY HeadSteady DEF Calm
<1>3. op.do = "advance" /\ op.id = "target_staged" => jrnl.mode = "copy" /\ plan.kind # "inPlace"
  <2>1. op.do = "advance" /\ op.id = "target_staged" => dir["priv"] = "copy"
    BY HeadSteady DEF Relies, Names
  <2>2. dir["priv"] = "copy" => jrnl.priv
    BY DEF Given, Neat, Noted
  <2>3. jrnl.priv => jrnl.mode = "copy" /\ plan.kind # "inPlace"
    BY <1>1 DEF Given, Neat, Moded, Bound, Records
  <2> QED
    BY <2>1, <2>2, <2>3
<1>4. op.do \in {"install", "copyMode", "noteLink", "confirmLink"} => stage = "commit"
  BY HeadSteady DEF Clearing
<1>5. op.do = "install" /\ plan.kind # "inPlace" => op.id = LinkId(jrnl)
  BY <1>1, <1>4, HeadSteady DEF Line, LinkId
<1>6. op.do \in {"noteLink", "confirmLink"} => plan.kind # "inPlace"
  BY <1>1, <1>4, HeadSteady DEF Line
<1>7. op.do = "copyMode" => jrnl.tgtId = "none"
  BY <1>1, <1>4, HeadSteady DEF Steady, Sited
<1>8. LinkId(rec) = LinkId(jrnl)
  BY <1>1 DEF LinkId
<1>9. op.do = "copyMode" => rec.tgtId = "none"
  BY <1>1, <1>4, <1>7
<1> HIDE DEF op
<1>10. Told(Eager(rec, op)) /\ Told(Patched(rec, op)) /\ Told(Patched(jrnl, op))
  BY <1>1, <1>2, <1>3, <1>5, <1>6, <1>7, <1>8, <1>9, ToldKept
<1>11. Eager(rec, op).phase = rec.phase /\ Patched(rec, op).phase = Patched(jrnl, op).phase
  <2> DEFINE e == Eager(rec, op)
  <2>1. e = Eager(rec, op)
    OBVIOUS
  <2> HIDE DEF e
  <2>2. e.phase = rec.phase
    BY <1>1, <2>1, EagerFields
  <2> QED
    BY <1>1, <2>1, <2>2, PatchedPhase
<1> QED
  BY <1>10, <1>11 DEF op

\* Every journal write keeps the record's phase, mode and link what this path can have
\* written (patchJournal).
LEMMA TellingStep ==
  ASSUME Given, Steady, [Next]_vars, ~Tamper
  PROVE  Telling'
<1>1. /\ TypeOK /\ Staged /\ Told(jrnl) /\ (stage # "idle" => Told(rec) /\ rec.phase = jrnl.phase)
      /\ jrnl \in Records /\ UNCHANGED plan /\ TypeOK /\ Placed
  BY Standing, FilesStep DEF Steady, Telling
<1>2. Told(jrnl') /\ (stage' # "idle" => Told(rec') /\ rec'.phase = jrnl'.phase)
  <2>1. CASE UNCHANGED jrnl /\ (stage' # "idle" => stage # "idle" /\ (rec' = rec \/ (todo # <<>> /\ rec' = Eager(rec, Head(todo)))))
    BY <1>1, <2>1, HeadTells
  <2>2. CASE Notes /\ (stage' # "idle" => stage # "idle" /\ rec' = Patched(rec, Head(todo)))
    <3>1. todo # <<>> /\ jrnl' = Patched(jrnl, Head(todo))
      BY <2>2 DEF Notes
    <3> QED
      BY <2>2, <3>1, HeadTells
  <2>3. CASE jrnl' = [jrnl EXCEPT !.phase = "quarantined"] /\ stage' = "idle"
    BY <1>1, <2>3 DEF Told, Records, LinkId
  <2>4. CASE Commit
    <3>1. jrnl' = Fresh /\ rec' = Fresh
      BY <2>4 DEF Commit
    <3>2. Told(Fresh)
      BY DEF Told, Fresh, NoRecord
    <3> QED
      BY <3>1, <3>2
  <2>5. CASE Recover
    BY <1>1, <2>5 DEF Recover
  <2> QED
    BY <1>1, <2>1, <2>2, <2>3, <2>4, <2>5, RecordForms
<1>3. Told(jrnl)' /\ (stage' # "idle" => Told(rec)')
  BY <1>1, <1>2 DEF Told, LinkId
<1> QED
  BY <1>2, <1>3 DEF Telling

\* What a note says, and when it is made.
LEMMA SteadyNotes ==
  ASSUME Given, Steady, Notes
  PROVE  LET op == Head(todo)
         IN  /\ todo # <<>> /\ op \in Ops /\ Calm(op) /\ Calms(todo) /\ stage \in {"commit", "cleanup", "recover"}
             /\ UNCHANGED <<plan, dir, quar>> /\ jrnl' = Patched(jrnl, op) /\ ~Refused(op)
             /\ committed' = (committed \/ op.do = "commit")
             /\ op.do \in {"intend", "forget"} => stage # "commit"
             /\ op.do \notin {"intend", "forget", "advance"} => stage = "commit"
             /\ op.do = "advance" => \/ stage = "commit" /\ op.id = "target_staged" /\ dir["priv"] = "copy"
                                     \/ stage # "commit" /\ op.id = "cleaned"
             /\ jrnl'.mode = IF op.do = "copyMode" THEN "copy" ELSE jrnl.mode
             /\ jrnl'.link = IF op.do = "noteLink" THEN "intended"
                             ELSE IF op.do = "confirmLink" THEN "confirmed" ELSE jrnl.link
             /\ jrnl'.tgtId = IF op.do = "install" THEN op.id ELSE jrnl.tgtId
             /\ jrnl'.phase = IF op.do = "advance" THEN op.id ELSE IF op.do = "install" THEN "target_installed"
                              ELSE IF op.do = "commit" THEN "db_committed" ELSE jrnl.phase
             /\ jrnl'.removal = IF op.do = "intend" THEN [at |-> op.at, id |-> op.id]
                                ELSE IF op.do = "forget" THEN NoRemoval ELSE jrnl.removal
<1> DEFINE op == Head(todo)
<1>1. /\ todo # <<>> /\ op \in Ops /\ op.do \in JournalOps
      /\ UNCHANGED <<plan, dir, quar>> /\ jrnl' = Patched(jrnl, op) /\ ~Refused(op)
      /\ committed' = (committed \/ op.do = "commit") /\ jrnl \in Records
  BY Standing DEF Notes, Steady
<1>2. Calm(op) /\ Calms(todo) /\ stage \in {"commit", "cleanup", "recover"}
  BY <1>1, HeadSteady DEF JournalOps
<1>3. /\ stage = "commit" => op.do \notin {"intend", "forget"} /\ (op.do = "advance" => op.id # "cleaned")
      /\ stage # "commit" => op.do \in {"intend", "forget", "advance"} /\ (op.do = "advance" => op.id = "cleaned")
  BY <1>1, <1>2, HeadSteady DEF Forwarding, Clearing, JournalOps
<1>4. op.do = "advance" => op.id \in {"target_staged", "cleaned"}
  BY <1>1, <1>2 DEF Ops, Calm
<1>5. op.do = "advance" /\ op.id = "target_staged" => dir["priv"] = "copy"
  BY <1>1, HeadSteady DEF Relies, Names
<1> HIDE DEF op
<1>6. /\ jrnl'.mode = IF op.do = "copyMode" THEN "copy" ELSE jrnl.mode
      /\ jrnl'.link = IF op.do = "noteLink" THEN "intended"
                      ELSE IF op.do = "confirmLink" THEN "confirmed" ELSE jrnl.link
      /\ jrnl'.tgtId = IF op.do = "install" THEN op.id ELSE jrnl.tgtId
      /\ jrnl'.phase = IF op.do = "advance" THEN op.id ELSE IF op.do = "install" THEN "target_installed"
                       ELSE IF op.do = "commit" THEN "db_committed" ELSE jrnl.phase
      /\ jrnl'.removal = IF op.do = "intend" THEN [at |-> op.at, id |-> op.id]
                         ELSE IF op.do = "forget" THEN NoRemoval ELSE jrnl.removal
  BY <1>1, PatchedNotes, PatchedPhase
<1> QED
  BY <1>1, <1>2, <1>3, <1>4, <1>5, <1>6 DEF op

\* What Sited says, of a state of the files and of the journal.
SitedBy(d, j, c, running) ==
  /\ d["src"] \in {"none", "source"}
  /\ ~c /\ j.mode = "copy" => d["src"] = "source"
  /\ j.phase = "prepared" =>
       /\ j.tgtId = "none"
       /\ j.mode = "copy" => d["tgt"] = "none"
  /\ j.phase \in {"target_staged", "target_installed", "db_committed"} => d["priv"] # "partial"
  /\ j.link = "confirmed" /\ j.phase \in {"prepared", "target_staged"} /\ d["tgt"] # "none" =>
       d["tgt"] = LinkId(j) /\ d[LinkSource(j)] = LinkId(j)
  /\ running => /\ j.mode = "move" /\ Linked(j) => d["src"] = "source"
                /\ Replaces => d["stage"] = "staged"

\* Each phase the journal records is true of the files: what commit and recover take from
\* it is there.
LEMMA SitedStep ==
  ASSUME Given, Steady, [Next]_vars, ~Tamper
  PROVE  Sited'
<1> DEFINE op == Head(todo)
<1>1. /\ TypeOK /\ Placed /\ Staged /\ Located /\ Noted /\ Moded /\ Closed /\ UNCHANGED plan
      /\ jrnl \in Records /\ dir \in [Names -> Artifacts] /\ SitedBy(dir, jrnl, committed, stage = "commit")
      /\ (SamePath <=> plan.kind = "inPlace") /\ Told(jrnl)
      /\ committed /\ stage # "idle" => jrnl.phase = "db_committed"
  BY Standing, FilesStep DEF Given, Neat, Steady, Sited, SitedBy, Telling
<1>2. SitedBy(dir, jrnl, committed, stage = "commit")' <=> SitedBy(dir', jrnl', committed', stage' = "commit")
  BY <1>1 DEF SitedBy, LinkId, LinkSource, Linked, Replaces
<1>3. jrnl.mode \in {"copy", "move"}
  BY <1>1 DEF Records
<1>4. stage' = "commit" => Commit \/ stage = "commit"
  BY DEF Next, Step, FileStep, Publish, CheckStep, SurviveStep, JournalStep, QuarantineStep, ResumeStep,
         RecoverStep, DeferStep, FailStep, Recover, Crash, Tamper, vars, Goes, Throws
<1>5. CASE Commit
  <2>1. /\ UNCHANGED dir /\ jrnl' = Fresh /\ dir["tgt"] = "none" /\ dir["priv"] = "none" /\ dir["src"] = "source"
    BY <1>1, <1>5, Beginning
  <2>2. Replaces => dir["stage"] = "staged"
    BY <1>5 DEF Commit, Origin, Selected
  <2>3. Fresh.phase = "prepared" /\ Fresh.tgtId = "none" /\ Fresh.link = "none"
    BY DEF Fresh, NoRecord
  <2>4. SitedBy(dir', Fresh, committed', stage' = "commit")
    BY <2>1, <2>2, <2>3 DEF SitedBy, Linked
  <2> QED
    BY <1>2, <2>1, <2>4 DEF Sited, SitedBy
<1>6. CASE ~Commit /\ UNCHANGED <<dir, jrnl, committed>>
  <2>1. SitedBy(dir', jrnl', committed', stage' = "commit")
    BY <1>1, <1>4, <1>6 DEF SitedBy
  <2> QED
    BY <1>2, <2>1 DEF Sited, SitedBy
<1>7. CASE ~Commit /\ UNCHANGED <<jrnl, committed>> /\ (Moves \/ Publishes \/ Copies \/ Isolates)
  <2>1. /\ Linked(jrnl) <=> jrnl.link # "none"
        /\ jrnl.mode = "move" => LinkId(jrnl) = "source" /\ LinkSource(jrnl) = "src"
        /\ jrnl.mode = "copy" => LinkId(jrnl) = "copy" /\ LinkSource(jrnl) = "priv"
    BY DEF Linked, LinkId, LinkSource
  <2>2. CASE Moves
    <3>1. SitedBy(dir', jrnl, committed, stage' = "commit")
      BY <1>1, <1>3, <1>4, <1>7, <2>1, <2>2 DEF Moves, SitedBy, Names
    <3> QED
      BY <1>2, <1>7, <3>1 DEF Sited, SitedBy
  <2>3. CASE Publishes
    <3>1. SitedBy(dir', jrnl, committed, stage' = "commit")
      BY <1>1, <1>3, <2>1, <2>3 DEF Publishes, SitedBy, Names
    <3> QED
      BY <1>2, <1>7, <3>1 DEF Sited, SitedBy
  <2>4. CASE Copies
    <3>1. SitedBy(dir', jrnl, committed, stage' = "commit")
      BY <1>1, <2>1, <2>4 DEF Copies, SitedBy, Names
    <3> QED
      BY <1>2, <1>7, <3>1 DEF Sited, SitedBy
  <2>5. CASE Isolates
    <3> DEFINE n == op.at
    <3>1. /\ dir' = [dir EXCEPT ![n] = "none"] /\ n \in Names /\ stage' # "commit"
          /\ ~committed => n # "src"
          /\ n = "priv" /\ Linked(jrnl) /\ ~committed => dir["tgt"] = "none"
      BY <1>4, <1>7, <2>5 DEF Isolates, Harmless, Steady, Pending
    <3> HIDE DEF n
    <3>2. committed => jrnl.phase = "db_committed"
      BY <1>1, <2>5 DEF Isolates
    <3>3. SitedBy(dir', jrnl, committed, stage' = "commit")
      BY <1>1, <1>3, <2>1, <3>1, <3>2 DEF SitedBy, Names
    <3> QED
      BY <1>2, <1>7, <3>3 DEF Sited, SitedBy
  <2> QED
    BY <1>7, <2>2, <2>3, <2>4, <2>5
<1>8. CASE ~Commit /\ jrnl' = [jrnl EXCEPT !.phase = "quarantined"] /\ stage' = "idle" /\ UNCHANGED <<dir, committed>>
  <2>1. /\ jrnl'.phase = "quarantined" /\ jrnl'.mode = jrnl.mode
    BY <1>1, <1>8 DEF Records
  <2>2. SitedBy(dir', jrnl', committed', stage' = "commit")
    BY <1>1, <1>8, <2>1 DEF SitedBy
  <2> QED
    BY <1>2, <2>2 DEF Sited, SitedBy
<1>9. CASE Notes
  <2> DEFINE j == jrnl'
  <2>1. /\ todo # <<>> /\ op \in Ops /\ UNCHANGED dir /\ ~Refused(op)
        /\ committed' = (committed \/ op.do = "commit")
        /\ op.do \in {"intend", "forget"} => stage # "commit"
        /\ op.do \notin {"intend", "forget", "advance"} => stage = "commit"
        /\ op.do = "advance" => \/ stage = "commit" /\ op.id = "target_staged" /\ dir["priv"] = "copy"
                                \/ stage # "commit" /\ op.id = "cleaned"
        /\ j.mode = IF op.do = "copyMode" THEN "copy" ELSE jrnl.mode
        /\ j.link = IF op.do = "noteLink" THEN "intended"
                    ELSE IF op.do = "confirmLink" THEN "confirmed" ELSE jrnl.link
        /\ j.tgtId = IF op.do = "install" THEN op.id ELSE jrnl.tgtId
        /\ j.phase = IF op.do = "advance" THEN op.id ELSE IF op.do = "install" THEN "target_installed"
                     ELSE IF op.do = "commit" THEN "db_committed" ELSE jrnl.phase
    BY <1>9, SteadyNotes
  <2>2. stage = "commit" => ~committed /\ rec = jrnl
    BY Standing DEF Steady
  <2>3. /\ op.do = "advance" /\ op.id = "target_staged" => jrnl.phase \in {"prepared", "target_staged"}
        /\ op.do = "install" => jrnl.phase = "target_staged" \/ dir["priv"] = "none"
        /\ op.do = "commit" => jrnl.phase = "target_installed"
        /\ op.do = "copyMode" => dir["tgt"] = "none" /\ dir["src"] = "source" /\ jrnl.link = "none"
    <3>1. op.do = "advance" /\ op.id = "target_staged" => jrnl.phase \in {"prepared", "target_staged"}
      BY <1>1, <2>1 DEF Refused, TransitionAllowed, Told
    <3>2. op.do = "install" => jrnl.phase = "target_staged" \/ (jrnl.phase = "prepared" /\ jrnl.mode = "move")
      BY <2>1 DEF Refused, TransitionAllowed
    <3>3. jrnl.mode = "move" => dir["priv"] = "none"
      BY <1>1 DEF Moded, Bound, Noted
    <3>4. op.do = "copyMode" => dir["tgt"] = "none"
      <4>1. op.do = "copyMode" => Seen("tgt") = "none"
        BY <2>1 DEF Refused
      <4> QED
        BY <1>1, <4>1 DEF Located, Seen, At
    <3>5. op.do = "copyMode" => dir["src"] = "source"
      BY <2>1, HeadSteady DEF Relies, Names
    <3>6. op.do = "copyMode" => jrnl.link = "none"
      BY <2>1, <2>2, HeadSteady
    <3> QED
      BY <2>1, <3>1, <3>2, <3>3, <3>4, <3>5, <3>6 DEF Refused
  <2>4. op.do \in {"noteLink", "confirmLink"} =>
          /\ op.at = LinkSource(jrnl) /\ op.id = LinkId(jrnl) /\ dir[op.at] = op.id
          /\ op.do = "confirmLink" => dir["tgt"] = op.id
    <3> SUFFICES ASSUME op.do \in {"noteLink", "confirmLink"}
                 PROVE  /\ op.at = LinkSource(jrnl) /\ op.id = LinkId(jrnl) /\ dir[op.at] = op.id
                        /\ op.do = "confirmLink" => dir["tgt"] = op.id
      OBVIOUS
    <3>1. op.at = LinkSource(jrnl) /\ op.id = LinkId(jrnl)
      BY <2>1, <2>2, HeadSteady DEF Calm
    <3>2. op.at \in Names /\ op.id \in {"source", "copy"}
      BY <3>1 DEF LinkSource, LinkId, Names
    <3>3. dir[op.at] = op.id
      BY <2>1, <3>2, HeadSteady DEF Relies
    <3>4. ~SamePath
      <4>1. op \in Line(jrnl.mode)
        BY <2>1, <2>2, HeadSteady
      <4> QED
        BY <1>1, <4>1 DEF Line
    <3>5. op.do = "confirmLink" => dir["tgt"] = op.id
      BY <2>1, <3>2, <3>4, HeadSteady DEF Relies, At, Names
    <3> QED
      BY <3>1, <3>3, <3>5
  <2>5. stage' = "commit" => stage = "commit"
    BY <1>1, <1>4, <2>1 DEF Commit, TypeOK
  <2> HIDE DEF j, op
  <2>6. SitedBy(dir, j, committed', stage' = "commit")
    <3>1. /\ jrnl.mode = "move" => LinkId(jrnl) = "source" /\ LinkSource(jrnl) = "src"
          /\ jrnl.mode = "copy" => LinkId(jrnl) = "copy" /\ LinkSource(jrnl) = "priv"
          /\ j.mode = jrnl.mode => LinkId(j) = LinkId(jrnl) /\ LinkSource(j) = LinkSource(jrnl)
          /\ Linked(j) <=> j.link # "none"
          /\ Linked(jrnl) <=> jrnl.link # "none"
      BY DEF LinkId, LinkSource, Linked
    <3>2. dir["src"] \in {"none", "source"} /\ (~committed' /\ j.mode = "copy" => dir["src"] = "source")
      BY <1>1, <2>1, <2>3 DEF SitedBy
    <3>3. j.phase = "prepared" => j.tgtId = "none" /\ (j.mode = "copy" => dir["tgt"] = "none")
      BY <1>1, <2>1, <2>3 DEF SitedBy
    <3>4. j.phase \in {"target_staged", "target_installed", "db_committed"} => dir["priv"] # "partial"
      BY <1>1, <2>1, <2>3 DEF SitedBy
    <3>5. j.link = "confirmed" /\ j.phase \in {"prepared", "target_staged"} /\ dir["tgt"] # "none" =>
            dir["tgt"] = LinkId(j) /\ dir[LinkSource(j)] = LinkId(j)
      <4>1. CASE op.do = "copyMode" \/ op.do = "noteLink"
        BY <1>1, <2>1, <2>3, <4>1 DEF SitedBy
      <4>2. CASE op.do = "confirmLink"
        BY <2>1, <2>4, <3>1, <4>2
      <4>3. CASE op.do = "advance"
        BY <1>1, <2>1, <2>3, <3>1, <4>3 DEF SitedBy
      <4>4. CASE op.do \notin {"copyMode", "noteLink", "confirmLink", "advance"}
        BY <1>1, <2>1, <3>1, <4>4 DEF SitedBy
      <4> QED
        BY <4>1, <4>2, <4>3, <4>4
    <3>6. stage' = "commit" => /\ j.mode = "move" /\ Linked(j) => dir["src"] = "source"
                               /\ Replaces => dir["stage"] = "staged"
      <4>1. Replaces /\ stage' = "commit" => dir["stage"] = "staged"
        BY <1>1, <2>5 DEF SitedBy
      <4>2. CASE op.do \in {"noteLink", "confirmLink"}
        BY <1>1, <1>3, <2>1, <2>4, <2>5, <3>1, <4>1, <4>2
      <4>3. CASE op.do \notin {"noteLink", "confirmLink"}
        BY <1>1, <1>3, <2>1, <2>5, <3>1, <4>1, <4>3 DEF SitedBy
      <4> QED
        BY <4>2, <4>3
    <3> QED
      BY <3>2, <3>3, <3>4, <3>5, <3>6 DEF SitedBy
  <2> QED
    BY <1>2, <2>1, <2>6 DEF Sited, SitedBy, j
<1>10. CASE ~Commit /\ (Acts \/ Renames)
  <2>1. UNCHANGED <<jrnl, committed>>
    BY <1>10 DEF Acts, Renames
  <2> QED
    BY <1>6, <1>7, <1>10, <2>1, SteadyDirs
<1>11. CASE ~Commit /\ (Fails \/ Proceeds \/ Recover \/ Crash \/ UNCHANGED vars)
  BY <1>6, <1>11 DEF Fails, Proceeds, Recover, Crash, vars, files
<1>12. CASE ~Commit /\ QuarantineStep
  BY <1>8, <1>12 DEF QuarantineStep, Goes, files
<1> QED
  BY <1>5, <1>9, <1>10, <1>11, <1>12, SteadyForms

\* What Pending says, of a state of the files and of the journal.
PendingBy(d, q, j, c) ==
  j.phase \notin {"none", "cleaned", "quarantined"} /\ j.removal # NoRemoval =>
    /\ d[j.removal.at] \in {"none", j.removal.id}
    /\ ~c => /\ j.removal.at # "src" /\ d["src"] = "source"
             /\ j.removal.at = At("tgt") /\ Linked(j) => LinkConfirmed(j)
    /\ q[j.removal.at] \in {"none", j.removal.id}
    /\ d[j.removal.at] = "none" \/ q[j.removal.at] = "none"
    /\ j.removal.at = "priv" /\ Linked(j) /\ ~c => d["tgt"] = "none"

\* An announced removal stays harmless.
LEMMA PendingStep ==
  ASSUME Given, Steady, [Next]_vars, ~Tamper
  PROVE  Pending'
<1> DEFINE op == Head(todo)
<1>1. /\ TypeOK /\ Placed /\ Staged /\ Announcing /\ Committing /\ UNCHANGED plan
      /\ jrnl \in Records /\ dir \in [Names -> Artifacts] /\ quar \in [Names -> Artifacts]
      /\ stage = "commit" => jrnl.removal = NoRemoval
      /\ At("tgt") \in {"src", "tgt"}
  BY Standing, FilesStep DEF Given, Neat, Steady
<1>2. PendingBy(dir, quar, jrnl, committed)
  BY DEF Steady, Pending, Unfinished, Harmless, PendingBy
<1>3. PendingBy(dir', quar', jrnl', committed') => Pending'
  BY <1>1 DEF Pending, Unfinished, Harmless, PendingBy, At, SamePath, Linked, LinkConfirmed
<1>4. CASE UNCHANGED <<dir, quar, jrnl, committed>>
  BY <1>2, <1>3, <1>4
<1>5. CASE Acts \/ Renames
  <2>1. UNCHANGED <<jrnl, committed>> /\ todo # <<>> /\ op \in Ops
    BY <1>5 DEF Acts, Renames
  <2>2. CASE jrnl.removal = NoRemoval \/ ~Unfinished
    <3>1. PendingBy(dir', quar', jrnl', committed')
      BY <2>1, <2>2 DEF PendingBy, Unfinished
    <3> QED
      BY <1>3, <3>1
  <2>3. CASE jrnl.removal # NoRemoval /\ Unfinished
    <3> DEFINE at == jrnl.removal.at
               id == jrnl.removal.id
    <3>1. /\ at \in Names /\ stage # "commit"
          /\ dir[at] \in {"none", id} /\ quar[at] \in {"none", id} /\ (dir[at] = "none" \/ quar[at] = "none")
          /\ ~committed => at # "src" /\ dir["src"] = "source" /\ (at = At("tgt") /\ Linked(jrnl) => LinkConfirmed(jrnl))
          /\ at = "priv" /\ Linked(jrnl) /\ ~committed => dir["tgt"] = "none"
      BY <1>1, <1>2, <2>3 DEF PendingBy, Records, Unfinished
    <3>2. \/ UNCHANGED dir
          \/ dir' = [dir EXCEPT ![at] = "none"]
      BY <1>1, <2>1, <2>3, <3>1, SteadyDirs DEF Moves, Publishes, Copies, Isolates
    <3>3. \/ UNCHANGED quar
          \/ quar' = [quar EXCEPT ![at] = dir[at]] /\ dir' = [dir EXCEPT ![at] = "none"]
          \/ \E n \in Names : quar' = [quar EXCEPT ![n] = "none"]
      <4>1. CASE Acts /\ op.do = "isolate" /\ op.at \in Names /\ quar' = [quar EXCEPT ![op.at] = dir[op.at]]
        <5>1. stage \in {"cleanup", "recover"}
          BY <2>1, <3>1, HeadSteady DEF Steady
        <5>2. jrnl.removal = [at |-> op.at, id |-> op.id]
          BY <1>1, <4>1, <5>1, HeadOfClearing
        <5>3. dir' = [dir EXCEPT ![op.at] = "none"]
          BY <4>1 DEF Acts, Applied
        <5> QED
          BY <4>1, <5>2, <5>3
      <4> QED
        BY <1>1, <4>1, QuarForms
    <3> HIDE DEF at, id
    <3>4. /\ dir'[at] \in {"none", id} /\ quar'[at] \in {"none", id} /\ (dir'[at] = "none" \/ quar'[at] = "none")
          /\ ~committed => dir'["src"] = "source"
          /\ at = "priv" /\ Linked(jrnl) /\ ~committed => dir'["tgt"] = "none"
      BY <1>1, <3>1, <3>2, <3>3 DEF Names
    <3>5. PendingBy(dir', quar', jrnl', committed')
      BY <2>1, <3>1, <3>4 DEF PendingBy, at, id
    <3> QED
      BY <1>3, <3>5
  <2> QED
    BY <2>2, <2>3
<1>6. CASE Notes
  <2>1. /\ todo # <<>> /\ op \in Ops /\ Calm(op) /\ UNCHANGED <<plan, dir, quar>>
        /\ committed' = (committed \/ op.do = "commit")
        /\ op.do \notin {"intend", "forget", "advance"} => stage = "commit"
        /\ op.do = "advance" => stage = "commit" \/ op.id = "cleaned"
        /\ jrnl'.link = IF op.do = "noteLink" THEN "intended"
                        ELSE IF op.do = "confirmLink" THEN "confirmed" ELSE jrnl.link
        /\ jrnl'.phase = IF op.do = "advance" THEN op.id ELSE IF op.do = "install" THEN "target_installed"
                         ELSE IF op.do = "commit" THEN "db_committed" ELSE jrnl.phase
        /\ jrnl'.removal = IF op.do = "intend" THEN [at |-> op.at, id |-> op.id]
                           ELSE IF op.do = "forget" THEN NoRemoval ELSE jrnl.removal
    BY <1>6, SteadyNotes
  <2>2. CASE op.do # "intend"
    <3>1. jrnl'.removal = NoRemoval \/ jrnl'.phase = "cleaned"
      BY <1>1, <2>1, <2>2
    <3>2. PendingBy(dir', quar', jrnl', committed')
      BY <3>1 DEF PendingBy
    <3> QED
      BY <1>3, <3>2
  <2>3. CASE op.do = "intend"
    <3>1. Harmless(op) /\ op.at \in Names
      BY <2>1, <2>3 DEF Calm, Ops
    <3>2. \A n \in Names : quar[n] = "none"
      <4>1. stage \in {"cleanup", "recover"}
        BY <1>6, <2>3, SteadyNotes
      <4> QED
        BY <1>1, <2>3, <4>1, HeadOfClearing
    <3>3. op.at = "priv" /\ Linked(jrnl) /\ ~committed => dir["tgt"] = "none"
      BY <2>1, <2>3, HeadSteady
    <3>4. /\ jrnl'.removal.at = op.at /\ jrnl'.removal.id = op.id /\ jrnl'.link = jrnl.link /\ jrnl'.phase = jrnl.phase
      BY <2>1, <2>3
    <3>6. committed' <=> committed
      <4>1. op.do # "commit"
        BY <2>3
      <4> HIDE DEF op
      <4> QED
        BY <2>1, <4>1, Zenon
    <3> HIDE DEF op
    <3>5. PendingBy(dir', quar', jrnl', committed')
      BY <2>1, <3>1, <3>2, <3>3, <3>4, <3>6 DEF PendingBy, Harmless, Linked, LinkConfirmed
    <3> QED
      BY <1>3, <3>5
  <2> QED
    BY <2>2, <2>3
<1>7. CASE Commit
  <2>1. jrnl'.removal = NoRemoval
    BY <1>7, FreshTyped DEF Commit
  <2> QED
    BY <1>3, <2>1 DEF PendingBy
<1>8. CASE QuarantineStep
  <2>1. jrnl'.phase = "quarantined"
    BY <1>1, <1>8 DEF QuarantineStep, Records
  <2> QED
    BY <1>3, <2>1 DEF PendingBy
<1>9. CASE Fails \/ Proceeds \/ Recover \/ Crash \/ UNCHANGED vars
  BY <1>4, <1>9 DEF Fails, Proceeds, Recover, Crash, vars, files
<1> QED
  BY <1>5, <1>6, <1>7, <1>8, <1>9, SteadyForms

\* What a recovery of such a publication drops last.
Leftovers == DropPrivate(rec, DropStaging)

\* The programs of such a recovery.
Recovers(s) ==
  \/ s = Defer
  \/ s = Quarantine /\ Doubtful
  \/ committed /\ (s = Leftovers \/ s = Remove("src", "source") \o Leftovers)
  \/ ~committed /\ dir["src"] = "source" /\ s = Leftovers /\ (Linked(jrnl) => dir["tgt"] = "none")
  \/ /\ ~committed /\ dir["src"] = "source" /\ s = Remove("tgt", "copy") \o Leftovers
     /\ ~SamePath /\ dir["tgt"] = "copy" /\ (Linked(jrnl) => LinkConfirmed(jrnl))
  \/ /\ ~committed /\ dir["src"] = "source" /\ s = Remove("tgt", "source") \o (<<Flush("src")>> \o Close)
     /\ ~SamePath /\ dir["tgt"] = "source" /\ (Linked(jrnl) => LinkConfirmed(jrnl))
  \/ ~committed /\ s = <<Flush("src")>> \o Close
  \/ ~committed /\ s = MoveBack("tgt", "source") \o Close

\* It finds what it expects.
LEMMA RecoveryForms ==
  ASSUME Given, Steady, todo # <<>>, Head(todo).do = "recover"
  PROVE  Recovers(Recovery(rec))
<1> DEFINE s == Recovery(rec)
<1>1. /\ TypeOK /\ Placed /\ Staged /\ rec \in Records /\ jrnl \in Records
      /\ stage # "idle" /\ rec.mode = jrnl.mode /\ rec.link = jrnl.link /\ rec.phase = jrnl.phase /\ ~rec.rb
      /\ dir["rb"] = "none" /\ (SamePath <=> plan.kind = "inPlace") /\ Told(rec)
      /\ committed <=> rec.phase = "db_committed"
      /\ committed => rec = jrnl
      /\ rec.phase \in {"prepared", "target_staged", "target_installed", "db_committed"}
  <2>1. stage # "idle"
    BY HeadSteady
  <2>2. rec.phase \in {"prepared", "target_staged", "target_installed", "db_committed"}
    BY <2>1, Standing DEF Steady, Telling, Told, Unfinished, Records, Phases
  <2> QED
    BY <2>1, <2>2, Standing DEF Steady, Telling
<1>2. /\ dir["src"] \in {"none", "source"} /\ dir["tgt"] \in {"none", "source", "copy"}
      /\ dir["priv"] \in {"none", "partial", "copy"}
      /\ plan.kind # "inPlace" => Seen("tgt") = dir["tgt"]
      /\ plan.kind = "inPlace" => Seen("tgt") = dir["src"] /\ rec.mode = "copy" /\ rec.link = "none"
      /\ dir["priv"] # "none" => rec.priv
      /\ InRb(rec) = "none" /\ InPriv(rec) = dir["priv"]
  <2>1. dir["priv"] # "none" => rec.priv
    BY <1>1 DEF Given, Neat, Noted
  <2>2. dir["tgt"] # "foreign"
    BY DEF Given, Undecided, Names
  <2>3. plan.kind # "inPlace" => Seen("tgt") = dir["tgt"]
    BY <1>1 DEF Seen, At
  <2>4. plan.kind = "inPlace" => Seen("tgt") = dir["src"]
    BY <1>1 DEF Seen, At
  <2> QED
    BY <1>1, <2>1, <2>2, <2>3, <2>4 DEF Steady, Sited, Placed, InRb, InPriv, Told
<1>3. /\ ~committed /\ rec.mode = "copy" => dir["src"] = "source"
      /\ rec.phase = "prepared" /\ rec.mode = "copy" => dir["tgt"] = "none"
      /\ rec.phase # "prepared" => dir["priv"] # "partial"
      /\ rec.link = "confirmed" /\ rec.phase \in {"prepared", "target_staged"} /\ dir["tgt"] # "none" =>
           dir["tgt"] = LinkId(rec) /\ dir[LinkSource(rec)] = LinkId(rec)
  BY <1>1 DEF Steady, Sited, LinkId, LinkSource
<1>4. /\ Linked(rec) <=> Linked(jrnl)
      /\ LinkConfirmed(rec) <=> LinkConfirmed(jrnl)
      /\ rec.mode = "move" => /\ LinkId(rec) = "source" /\ plan.kind = "move" /\ dir["priv"] = "none"
                              /\ dir["tgt"] \in {"none", "source"}
                              /\ dir["tgt"] = "source" /\ ~Linked(rec) => dir["src"] = "none"
      /\ rec.mode = "copy" => /\ LinkId(rec) = "copy"
                              /\ plan.kind # "inPlace" => dir["tgt"] # "source"
                              /\ dir["priv"] # "none" /\ dir["tgt"] = "copy" /\ plan.kind # "inPlace" => Linked(rec)
                              /\ plan.kind = "inPlace" => dir["priv"] = "none"
      /\ rec.mode \in {"copy", "move"}
  <2>1. /\ Linked(rec) <=> Linked(jrnl)
        /\ LinkConfirmed(rec) <=> LinkConfirmed(jrnl)
    BY <1>1 DEF Linked, LinkConfirmed
  <2>2. Moded /\ Bound(rec)
    BY <1>1 DEF Given, Neat, Moded
  <2> QED
    BY <1>1, <1>2, <2>1, <2>2 DEF Moded, Bound, LinkId, Records
<1>5. /\ ~committed /\ Linked(rec) /\ Seen("tgt") # "none" /\ ~LinkConfirmed(rec) => Doubtful
      /\ Linked(rec) /\ Seen("tgt") # "none" /\ LinkConfirmed(rec) =>
           ~(/\ rec.phase \in {"prepared", "target_staged"}
             /\ ~(dir[LinkSource(rec)] = LinkId(rec) /\ Seen("tgt") = LinkId(rec)))
      /\ committed => LinkConfirmed(rec)
  BY <1>1, <1>2, <1>3 DEF Linked, LinkConfirmed, Doubtful, Records
<1>6. /\ Settle(InRb(rec), "source", Remove("rb", "source"), Leftovers) = Leftovers
      /\ DropPrivate(rec, Settle(InRb(rec), "source", MoveBack("rb", "source"), DropStaging)) = Leftovers
  BY <1>2 DEF Settle, Leftovers
<1>7. CASE dir["src"] = "none" /\ Seen("tgt") = "none" /\ InRb(rec) = "none" /\ InPriv(rec) = "none"
  BY <1>7 DEF Recovery, Recovers
<1>8. CASE Linked(rec) /\ Seen("tgt") # "none" /\ ~LinkConfirmed(rec)
           /\ ~(dir["src"] = "none" /\ Seen("tgt") = "none" /\ InRb(rec) = "none" /\ InPriv(rec) = "none")
  BY <1>5, <1>8 DEF Recovery, Recovers
<1> DEFINE Goes3 == /\ ~(dir["src"] = "none" /\ Seen("tgt") = "none" /\ InRb(rec) = "none" /\ InPriv(rec) = "none")
                    /\ Seen("tgt") # "none" /\ Linked(rec) => LinkConfirmed(rec)
<1>9. Goes3 =>
        s = IF rec.phase = "db_committed"
            THEN IF Seen("tgt") = "none" THEN Defer
                 ELSE IF Seen("tgt") = Installed(rec) THEN CleanupRecovered(rec) ELSE Quarantine
            ELSE IF rec.phase = "target_staged" THEN RestoreStaged(rec)
            ELSE IF rec.mode = "move" THEN RestoreMovedSource(rec)
            ELSE IF rec.phase = "target_installed" THEN Restore(rec)
            ELSE RestorePrepared(rec)
  <2> SUFFICES ASSUME Goes3
               PROVE  s = IF rec.phase = "db_committed"
                          THEN IF Seen("tgt") = "none" THEN Defer
                               ELSE IF Seen("tgt") = Installed(rec) THEN CleanupRecovered(rec) ELSE Quarantine
                          ELSE IF rec.phase = "target_staged" THEN RestoreStaged(rec)
                          ELSE IF rec.mode = "move" THEN RestoreMovedSource(rec)
                          ELSE IF rec.phase = "target_installed" THEN Restore(rec)
                          ELSE RestorePrepared(rec)
    OBVIOUS
  <2> QED
    BY <1>1, <1>5 DEF Recovery
<1>10. CASE Goes3 /\ committed
  <2>1. Seen("tgt") = rec.tgtId /\ rec.tgtId # "none" /\ Installed(rec) = rec.tgtId
    BY <1>1, <1>10 DEF Given, IInv, Kept, Decided, Whole, Installed
  <2>2. s = CleanupRecovered(rec)
    BY <1>1, <1>9, <1>10, <2>1
  <2>3. rec.mode = "move" /\ ~Linked(rec) => dir["src"] = "none"
    BY <1>1, <1>2, <1>4, <2>1
  <2>4. CleanupRecovered(rec) \in {Leftovers, Remove("src", "source") \o Leftovers}
    <3> DEFINE rest == Settle(InRb(rec), "source", Remove("rb", "source"), Leftovers)
    <3>1. CleanupRecovered(rec) =
            IF rec.mode = "move" /\ ~Linked(rec)
            THEN IF dir["src"] # "none" THEN Quarantine ELSE rest
            ELSE IF SamePath THEN rest
            ELSE Settle(dir["src"], "source", Remove("src", "source"), rest)
      BY DEF CleanupRecovered, Leftovers
    <3>2. rest = Leftovers
      BY <1>6
    <3> HIDE DEF rest
    <3> QED
      BY <1>2, <2>3, <3>1, <3>2 DEF Settle
  <2> QED
    BY <1>10, <2>2, <2>4 DEF Recovers
<1>11. ~committed /\ rec.mode = "copy" /\ Goes3 /\ rec.phase \in {"target_staged", "target_installed"}
       => Recovers(Restore(rec))
  <2> SUFFICES ASSUME ~committed, rec.mode = "copy", Goes3, rec.phase \in {"target_staged", "target_installed"}
               PROVE  Recovers(Restore(rec))
    OBVIOUS
  <2>1. dir["src"] = "source"
    BY <1>3
  <2>2. CASE plan.kind = "inPlace"
    <3>1. Restore(rec) = Leftovers
      BY <1>6, <2>1, <2>2 DEF Restore
    <3>2. ~Linked(jrnl)
      BY <1>1, <1>2, <2>2 DEF Linked
    <3> QED
      BY <2>1, <3>1, <3>2 DEF Recovers
  <2>3. CASE plan.kind # "inPlace"
    <3>1. Installed(rec) = "copy"
      BY <1>1, <1>4, <2>3 DEF Told, Installed, Staged, Recorded, Whole
    <3>2. dir["tgt"] \in {"none", "copy"} /\ Seen("tgt") = dir["tgt"]
      BY <1>2, <1>4, <2>3
    <3>3. Restore(rec) = Settle(Seen("tgt"), Installed(rec), Remove("tgt", Installed(rec)), Leftovers)
      BY <1>6, <2>3 DEF Restore
    <3>4. CASE dir["tgt"] = "none"
      <4>1. Restore(rec) = Leftovers
        BY <3>2, <3>3, <3>4 DEF Settle
      <4> QED
        BY <2>1, <3>4, <4>1 DEF Recovers
    <3>5. CASE dir["tgt"] = "copy"
      <4>1. Restore(rec) = Remove("tgt", "copy") \o Leftovers
        BY <3>1, <3>2, <3>3, <3>5 DEF Settle
      <4>2. Linked(jrnl) => LinkConfirmed(jrnl)
        BY <1>4, <3>2, <3>5
      <4> QED
        BY <1>1, <2>1, <2>3, <3>5, <4>1, <4>2 DEF Recovers
    <3> QED
      BY <3>2, <3>4, <3>5
  <2> QED
    BY <2>2, <2>3
<1>12. CASE Goes3 /\ rec.phase = "target_staged"
  <2>1. rec.mode = "copy" /\ rec.privId = "copy" /\ plan.kind # "inPlace" /\ ~committed
    BY <1>1, <1>12 DEF Told
  <2>2. RestoreStaged(rec) = Restore(rec)
    BY <1>1, <1>2, <1>3, <1>4, <1>12, <2>1 DEF RestoreStaged, Given
  <2> QED
    BY <1>1, <1>9, <1>11, <1>12, <2>1, <2>2
<1>13. CASE Goes3 /\ ~committed /\ rec.phase # "target_staged" /\ rec.mode = "move"
  <2>1. s = RestoreMovedSource(rec) /\ Seen("tgt") = dir["tgt"] /\ ~SamePath
    BY <1>1, <1>2, <1>4, <1>9, <1>13
  <2>2. CASE dir["src"] = "source" /\ dir["tgt"] = "source"
    <3>1. s = Remove("tgt", "source") \o (<<Flush("src")>> \o Close)
      BY <1>4, <1>13, <2>1, <2>2 DEF RestoreMovedSource
    <3>2. Linked(jrnl) => LinkConfirmed(jrnl)
      BY <1>4, <1>13, <2>1, <2>2
    <3> QED
      BY <1>13, <2>1, <2>2, <3>1, <3>2 DEF Recovers
  <2>3. CASE dir["src"] = "source" /\ dir["tgt"] = "none"
    <3>1. s = <<Flush("src")>> \o Close
      BY <1>4, <1>13, <2>1, <2>3 DEF RestoreMovedSource
    <3> QED
      BY <1>13, <3>1 DEF Recovers
  <2>4. CASE dir["src"] = "none"
    <3>1. dir["tgt"] = "source"
      BY <1>2, <1>4, <1>13, <2>1, <2>4
    <3>2. s = MoveBack("tgt", "source") \o Close
      BY <2>1, <2>4, <3>1 DEF RestoreMovedSource
    <3> QED
      BY <1>13, <3>2 DEF Recovers
  <2> QED
    BY <1>2, <1>4, <1>13, <2>2, <2>3, <2>4
<1>14. CASE Goes3 /\ ~committed /\ rec.mode = "copy" /\ rec.phase = "target_installed"
  BY <1>9, <1>11, <1>14
<1>15. CASE Goes3 /\ ~committed /\ rec.mode = "copy" /\ rec.phase = "prepared"
  <2>1. dir["src"] = "source" /\ dir["tgt"] = "none"
    BY <1>3, <1>15
  <2>2. s = RestorePrepared(rec)
    BY <1>9, <1>15
  <2>3. RestorePrepared(rec) = Leftovers
    BY <1>2, <2>1 DEF RestorePrepared, Leftovers
  <2> QED
    BY <1>15, <2>1, <2>2, <2>3 DEF Recovers
<1> QED
  BY <1>1, <1>4, <1>7, <1>8, <1>10, <1>12, <1>13, <1>14, <1>15

\* An operation of a recovery that finds what it expects.
Quiet(op) ==
  /\ op.do # "check" /\ (op.do = "move" => op.at = "tgt")
  /\ op.do \in {"intend", "survive"} => Harmless(op) /\ (op.at = "priv" => dir["priv"] # "partial")
  /\ op.do = "quarantine" => dir["priv"] = "partial"
Quiets(s) == \A i \in 1..Len(s) : Quiet(s[i])

\* One after the other.
LEMMA QuietJoined ==
  ASSUME NEW a \in Seq(Bare), Quiets(a), NEW b \in Seq(Bare), Quiets(b)
  PROVE  a \o b \in Seq(Bare) /\ Quiets(a \o b)
<1> DEFINE s == a \o b
<1>1. s \in Seq(Bare)
  OBVIOUS
<1>2. s = a \o b
  OBVIOUS
<1> HIDE DEF s
<1>3. ASSUME NEW i \in 1..Len(s) PROVE Quiet(s[i])
  <2>1. /\ \A k \in 1..Len(a) : s[k] = a[k]
        /\ \A k \in 1..Len(s) : k \notin 1..Len(a) => k - Len(a) \in 1..Len(b) /\ s[k] = b[k - Len(a)]
    BY <1>2, Halves
  <2> QED
    BY <1>3, <2>1 DEF Quiets
<1> QED
  BY <1>1, <1>3 DEF Quiets, s

\* A removal (intent, isolation, deletion) of something that survives elsewhere is harmless
\* at each of its steps.
LEMMA RemoveQuiet ==
  ASSUME NEW n \in Names, NEW id \in Removable,
         Harmless([at |-> At(n), id |-> id]), At(n) = "priv" => dir["priv"] # "partial"
  PROVE  Remove(n, id) \in Seq(Bare) /\ Quiets(Remove(n, id))
<1> DEFINE s == Remove(n, id)
<1>1. s = <<Op("intend", At(n), id), Op("survive", At(n), id)>>
  BY DEF Remove
<1>2. Quiet(Op("intend", At(n), id)) /\ Quiet(Op("survive", At(n), id))
  BY DEF Quiet, Op, Harmless
<1>3. s \in Seq(Bare)
  BY RemoveTyped
<1> HIDE DEF s
<1>4. Quiets(s)
  <2>1. Len(s) = 2 /\ s[1] = Op("intend", At(n), id) /\ s[2] = Op("survive", At(n), id)
    BY <1>1
  <2>2. \A i \in 1..2 : i = 1 \/ i = 2
    OBVIOUS
  <2> QED
    BY <1>2, <2>1, <2>2 DEF Quiets
<1> QED
  BY <1>3, <1>4 DEF s

\* The closing, deferring and giving-up programs take nothing away (finish, deferCleanup,
\* quarantine).
LEMMA EndsQuiet ==
  /\ Defer \in Seq(Bare) /\ Quiets(Defer) /\ Close \in Seq(Bare) /\ Quiets(Close)
  /\ <<Flush("src")>> \in Seq(Bare) /\ Quiets(<<Flush("src")>>)
  /\ MoveBack("tgt", "source") \in Seq(Bare) /\ Quiets(MoveBack("tgt", "source"))
  /\ Quarantine \in Seq(Bare) /\ (dir["priv"] = "partial" => Quiets(Quarantine))
<1>1. /\ \A op : Len(<<op>>) = 1 /\ <<op>>[1] = op
      /\ \A i : i \in 1..1 => i = 1
  OBVIOUS
<1>2. Quiets(Defer) /\ Quiets(Close) /\ Quiets(<<Flush("src")>>)
  BY <1>1 DEF Quiets, Quiet, Defer, Close, Advance, Flush, Op
<1>3. dir["priv"] = "partial" => Quiets(Quarantine)
  BY <1>1 DEF Quiets, Quiet, Quarantine, Op
<1>4. Quiets(MoveBack("tgt", "source"))
  <2>1. \A i \in 1..2 : i = 1 \/ i = 2
    OBVIOUS
  <2> QED
    BY <2>1 DEF Quiets, Quiet, MoveBack, Move, Flush, Op
<1>5. MoveBack("tgt", "source") \in Seq(Bare)
  BY MoveBackClears DEF Removes
<1>6. <<Flush("src")>> \in Seq(Bare)
  BY LooksClear DEF Looks, Names, Removable
<1> QED
  BY <1>2, <1>3, <1>4, <1>5, <1>6, EndsTyped

\* What is dropped last is there, or was cut off half-way.
LEMMA LeftoversQuiet ==
  ASSUME Given, Steady, todo # <<>>, Head(todo).do = "recover", ~committed => dir["src"] = "source"
  PROVE  Leftovers \in Seq(Bare) /\ Quiets(Leftovers)
<1>1. /\ TypeOK /\ Placed /\ Staged /\ stage # "idle" /\ At("tgt") \in {"src", "tgt"}
      /\ Located /\ InPriv(rec) = dir["priv"]
  <2>1. stage # "idle"
    BY HeadSteady
  <2>2. dir["priv"] # "none" => rec.priv
    BY <2>1 DEF Given, Neat, Noted
  <2> QED
    BY <2>1, <2>2, Standing DEF Given, Neat, Steady, InPriv
<1>2. At("priv") = "priv" /\ At("stage") = "stage" /\ "priv" \in Names /\ "stage" \in Names
      /\ "copy" \in Removable /\ "staged" \in Removable
  BY DEF At, Names, Removable
<1>3. DropStaging \in Seq(Bare) /\ Quiets(DropStaging)
  <2>1. dir["stage"] \in {"none", "staged"} /\ InStage = dir["stage"]
    BY <1>1 DEF Placed, Located, InStage
  <2>2. Harmless([at |-> "stage", id |-> "staged"])
    BY <1>1, <2>1 DEF Harmless
  <2>3. Remove("stage", "staged") \in Seq(Bare) /\ Quiets(Remove("stage", "staged"))
    BY <1>2, <2>2, RemoveQuiet
  <2>4. Remove("stage", "staged") \o Close \in Seq(Bare) /\ Quiets(Remove("stage", "staged") \o Close)
    BY <2>3, EndsQuiet, QuietJoined
  <2> QED
    BY <2>1, <2>4, EndsQuiet DEF DropStaging, Settle
<1>4. CASE dir["priv"] = "copy"
  <2>1. Harmless([at |-> "priv", id |-> "copy"])
    BY <1>1, <1>4 DEF Harmless
  <2>2. Remove("priv", "copy") \in Seq(Bare) /\ Quiets(Remove("priv", "copy"))
    BY <1>2, <1>4, <2>1, RemoveQuiet
  <2>3. Remove("priv", "copy") \o DropStaging \in Seq(Bare) /\ Quiets(Remove("priv", "copy") \o DropStaging)
    BY <1>3, <2>2, QuietJoined
  <2>4. Leftovers = Remove("priv", "copy") \o DropStaging
    BY <1>1, <1>4 DEF Leftovers, DropPrivate, Settle
  <2> QED
    BY <2>3, <2>4
<1>5. CASE dir["priv"] = "none"
  <2>1. Leftovers = DropStaging
    BY <1>1, <1>5 DEF Leftovers, DropPrivate, Settle
  <2> QED
    BY <1>3, <2>1
<1>6. CASE dir["priv"] = "partial"
  <2>1. Leftovers = Quarantine
    BY <1>1, <1>6 DEF Leftovers, DropPrivate, Settle
  <2> QED
    BY <1>6, <2>1, EndsQuiet
<1> QED
  BY <1>1, <1>4, <1>5, <1>6 DEF Placed

\* A recovery gives up only for a cause.
LEMMA RecoveryQuiet ==
  ASSUME Given, Steady, todo # <<>>, Head(todo).do = "recover"
  PROVE  \/ Recovery(rec) = Quarantine /\ Doubtful
         \/ Recovery(rec) \in Seq(Bare) /\ Quiets(Recovery(rec))
<1> DEFINE s == Recovery(rec)
<1>1. Recovers(s)
  BY RecoveryForms
<1>2. /\ "src" \in Names /\ "tgt" \in Names /\ "source" \in Removable /\ "copy" \in Removable
      /\ At("src") = "src" /\ dir["src"] \in {"none", "source"} /\ At("tgt") \in {"src", "tgt"}
      /\ ~SamePath => At("tgt") = "tgt"
  BY DEF Names, Removable, At, Steady, Sited
<1>3. (committed \/ dir["src"] = "source") => Leftovers \in Seq(Bare) /\ Quiets(Leftovers)
  BY LeftoversQuiet
<1>4. <<Flush("src")>> \o Close \in Seq(Bare) /\ Quiets(<<Flush("src")>> \o Close)
  BY EndsQuiet, QuietJoined
<1> HIDE DEF s
<1>5. CASE s = Defer \/ (s = Quarantine /\ Doubtful) \/ s = <<Flush("src")>> \o Close
  BY <1>4, <1>5, EndsQuiet DEF s
<1>6. CASE s = MoveBack("tgt", "source") \o Close
  <2>1. MoveBack("tgt", "source") \o Close \in Seq(Bare) /\ Quiets(MoveBack("tgt", "source") \o Close)
    BY EndsQuiet, QuietJoined
  <2> QED
    BY <1>6, <2>1 DEF s
<1>7. CASE (committed \/ dir["src"] = "source") /\ s = Leftovers
  BY <1>3, <1>7 DEF s
<1>8. CASE committed /\ s = Remove("src", "source") \o Leftovers
  <2>1. Harmless([at |-> "src", id |-> "source"])
    BY <1>2, <1>8 DEF Harmless
  <2>2. Remove("src", "source") \in Seq(Bare) /\ Quiets(Remove("src", "source"))
    BY <1>2, <2>1, RemoveQuiet
  <2>3. Remove("src", "source") \o Leftovers \in Seq(Bare) /\ Quiets(Remove("src", "source") \o Leftovers)
    BY <1>3, <1>8, <2>2, QuietJoined
  <2> QED
    BY <1>8, <2>3 DEF s
<1>9. CASE /\ ~committed /\ dir["src"] = "source" /\ s = Remove("tgt", "copy") \o Leftovers
           /\ ~SamePath /\ dir["tgt"] = "copy" /\ (Linked(jrnl) => LinkConfirmed(jrnl))
  <2>1. Harmless([at |-> "tgt", id |-> "copy"])
    BY <1>2, <1>9 DEF Harmless
  <2>2. Remove("tgt", "copy") \in Seq(Bare) /\ Quiets(Remove("tgt", "copy"))
    BY <1>2, <1>9, <2>1, RemoveQuiet
  <2>3. Remove("tgt", "copy") \o Leftovers \in Seq(Bare) /\ Quiets(Remove("tgt", "copy") \o Leftovers)
    BY <1>3, <1>9, <2>2, QuietJoined
  <2> QED
    BY <1>9, <2>3 DEF s
<1>10. CASE /\ ~committed /\ dir["src"] = "source" /\ s = Remove("tgt", "source") \o (<<Flush("src")>> \o Close)
            /\ ~SamePath /\ dir["tgt"] = "source" /\ (Linked(jrnl) => LinkConfirmed(jrnl))
  <2> DEFINE b == <<Flush("src")>> \o Close
  <2>1. Harmless([at |-> "tgt", id |-> "source"])
    BY <1>2, <1>10 DEF Harmless
  <2>2. Remove("tgt", "source") \in Seq(Bare) /\ Quiets(Remove("tgt", "source"))
    BY <1>2, <1>10, <2>1, RemoveQuiet
  <2>3. b \in Seq(Bare) /\ Quiets(b) /\ s = Remove("tgt", "source") \o b
    BY <1>4, <1>10
  <2> HIDE DEF b
  <2>4. Remove("tgt", "source") \o b \in Seq(Bare) /\ Quiets(Remove("tgt", "source") \o b)
    BY <2>2, <2>3, QuietJoined
  <2> QED
    BY <2>3, <2>4 DEF s
<1> QED
  BY <1>1, <1>5, <1>6, <1>7, <1>8, <1>9, <1>10 DEF Recovers

\* In a recovery, a private copy is withdrawn after the link that was made from it.
LEMMA RecoveryBehind ==
  ASSUME Given, Steady, todo # <<>>, Head(todo).do = "recover"
  PROVE  Behind(Recovery(rec))
<1> DEFINE s == Recovery(rec)
<1>1. Recovers(s)
  BY RecoveryForms
<1>2. s \in Seq(Bare) /\ Leftovers \in Seq(Bare)
  <2>1. s \in Seq(Bare)
    BY Standing, RecoveryTyped DEF Steady
  <2>2. Leftovers \in Seq(Bare)
    <3>1. Remove("priv", "copy") \in Seq(Bare) /\ Remove("stage", "staged") \in Seq(Bare)
      BY RemoveTyped DEF Names, Removable
    <3>2. DropStaging \in Seq(Bare)
      BY <3>1, EndsTyped, SettleTyped DEF DropStaging
    <3> QED
      BY <3>1, <3>2, SettleTyped DEF Leftovers, DropPrivate
  <2> QED
    BY <2>1, <2>2
<1>3. At("tgt") = "tgt" \/ SamePath
  BY DEF At
<1> HIDE DEF s
<1> SUFFICES ASSUME Linked(jrnl), ~committed, dir["tgt"] # "none",
                    NEW i \in 1..Len(s), s[i].do = "intend", s[i].at = "priv"
             PROVE  \E j \in 1..(i-1) : Takes(s[j], "tgt")
  BY DEF Behind, s
<1>4. ~(s = Defer \/ s = Quarantine)
  BY DEF Defer, Quarantine, Op
<1>5. s # <<Flush("src")>> \o Close
  <2> SUFFICES ASSUME s = <<Flush("src")>> \o Close PROVE FALSE
    OBVIOUS
  <2>1. Len(s) = 2 /\ s[1].do = "flush" /\ s[2].do = "advance"
    BY DEF Close, Flush, Advance, Op
  <2>2. i = 1 \/ i = 2
    BY <2>1
  <2> QED
    BY <2>1, <2>2
<1>6. s # MoveBack("tgt", "source") \o Close
  <2> SUFFICES ASSUME s = MoveBack("tgt", "source") \o Close PROVE FALSE
    OBVIOUS
  <2>1. Len(s) = 3 /\ s[1].do = "move" /\ s[2].do = "flush" /\ s[3].do = "advance"
    BY DEF Close, MoveBack, Move, Flush, Advance, Op
  <2>2. i = 1 \/ i = 2 \/ i = 3
    BY <2>1
  <2> QED
    BY <2>1, <2>2
<1>7. ASSUME ~SamePath, NEW id \in Removable, NEW b \in Seq(Bare), s = Remove("tgt", id) \o b
      PROVE  \E j \in 1..(i-1) : Takes(s[j], "tgt")
  <2> DEFINE a == Remove("tgt", id)
  <2>1. a \in Seq(Bare) /\ Len(a) = 2 /\ a[1].at = "tgt" /\ a[2].do = "survive" /\ a[2].at = "tgt"
    BY <1>3, <1>7, RemoveTyped DEF Remove, Op, Names
  <2>2. s = a \o b
    BY <1>7
  <2> HIDE DEF a
  <2>3. \A k \in 1..Len(a) : s[k] = a[k]
    <3>1. a \in Seq(Bare) /\ b \in Seq(Bare)
      BY <1>7, <2>1
    <3> QED
      BY ONLY <3>1, <2>2, Halves
  <2>4. s[1].at = "tgt" /\ s[2].do = "survive" /\ s[2].at = "tgt"
    BY <2>1, <2>3
  <2>5. i # 1 /\ i # 2 /\ i \in Nat
    BY <1>2, <2>4
  <2>6. 2 \in 1..(i-1) /\ Takes(s[2], "tgt")
    BY <2>4, <2>5 DEF Takes
  <2> QED
    BY <2>6
<1>8. Close \in Seq(Bare) /\ <<Flush("src")>> \in Seq(Bare) /\ <<Flush("src")>> \o Close \in Seq(Bare)
      /\ "source" \in Removable /\ "copy" \in Removable
  BY EndsQuiet DEF Removable
<1> QED
  BY <1>1, <1>2, <1>4, <1>5, <1>6, <1>7, <1>8 DEF Recovers

\* The clean-up that follows the decision finds what it expects, in parts
\* that are about different names.
PartOp(op) ==
  /\ op.do \in {"check", "intend", "survive", "advance"} /\ op.at \in Names
  /\ op.do = "check" => op.id \in {"source", "copy", "staged"} /\ dir[op.at] = op.id
  /\ op.do \in {"intend", "survive"} => dir[op.at] \in {"none", op.id} /\ (op.at = "priv" => dir["priv"] # "partial")
  /\ op.do = "advance" => op.id = "cleaned"
Part(s, N) ==
  /\ s \in Seq(Bare)
  /\ \A i \in 1..Len(s) :
       /\ PartOp(s[i]) /\ (s[i].do # "advance" => s[i].at \in N)
       /\ s[i].do = "check" => \A k \in 1..(i-1) : s[k].do = "survive" => s[k].at # s[i].at

\* Two removal programs about different names, one after the other, are one.
LEMMA PartsJoined ==
  ASSUME NEW N, NEW a, Part(a, N), NEW M, NEW b, Part(b, M), N \cap M = {}
  PROVE  Part(a \o b, N \cup M)
<1> DEFINE s == a \o b
<1>1. s \in Seq(Bare) /\ a \in Seq(Bare) /\ b \in Seq(Bare)
  BY DEF Part
<1>2. s = a \o b
  OBVIOUS
<1> HIDE DEF s
<1>3. /\ Len(a) \in Nat /\ Len(b) \in Nat /\ Len(s) = Len(a) + Len(b)
      /\ \A k \in 1..Len(a) : s[k] = a[k]
      /\ \A k \in 1..Len(s) : k \notin 1..Len(a) => k - Len(a) \in 1..Len(b) /\ s[k] = b[k - Len(a)]
  BY <1>1, <1>2, Halves
<1>4. ASSUME NEW i \in 1..Len(s)
      PROVE  PartOp(s[i]) /\ (s[i].do # "advance" => s[i].at \in N \cup M)
  BY <1>3 DEF Part
<1>5. ASSUME NEW i \in 1..Len(s), s[i].do = "check", NEW k \in 1..(i-1), s[k].do = "survive"
      PROVE  s[k].at # s[i].at
  <2>1. CASE i \in 1..Len(a)
    <3>1. k \in 1..Len(a) /\ s[i] = a[i] /\ s[k] = a[k]
      BY <1>3, <2>1
    <3> QED
      BY <1>5, <2>1, <3>1 DEF Part
  <2>2. CASE i \notin 1..Len(a) /\ k \in 1..Len(a)
    <3>1. s[i].at \in M /\ s[k].at \in N
      BY <1>3, <1>5, <2>2 DEF Part
    <3> QED
      BY <3>1
  <2>3. CASE i \notin 1..Len(a) /\ k \notin 1..Len(a)
    <3>1. /\ k \in 1..Len(s) /\ i - Len(a) \in 1..Len(b) /\ k - Len(a) \in 1..((i - Len(a)) - 1)
          /\ s[i] = b[i - Len(a)] /\ s[k] = b[k - Len(a)]
      BY <1>3, <2>3
    <3> QED
      BY <1>5, <3>1 DEF Part
  <2> QED
    BY <2>1, <2>2, <2>3
<1> QED
  BY <1>1, <1>4, <1>5 DEF Part, s

\* A checked removal of a file that is there, and an unchecked one of a file that may be
\* gone.
LEMMA PartsOne ==
  ASSUME NEW n \in Names, NEW id \in {"source", "copy", "staged"}, At(n) = n
  PROVE  /\ dir[n] = id /\ n # "priv" => Part(<<Check(n, id)>> \o Remove(n, id), {n})
         /\ dir[n] \in {"none", id} => Part(Remove(n, id), {n})
         /\ Part(<<>>, {}) /\ Part(Close, {})
<1>1. <<Check(n, id)>> \in Seq(Bare) /\ Remove(n, id) \in Seq(Bare) /\ Close \in Seq(Bare)
  BY LooksClear, RemoveTyped, EndsTyped DEF Looks, Removable
<1>2. id # "partial" /\ (\A i \in 1..3 : i = 1 \/ i = 2 \/ i = 3)
  OBVIOUS
<1>3. ASSUME dir[n] = id, n # "priv" PROVE Part(<<Check(n, id)>> \o Remove(n, id), {n})
  <2> DEFINE s == <<Check(n, id)>> \o Remove(n, id)
  <2>1. s \in Seq(Bare) /\ Len(s) = 3 /\ s[1] = Op("check", n, id) /\ s[2] = Op("intend", n, id) /\ s[3] = Op("survive", n, id)
    BY <1>1 DEF Remove, Check
  <2> HIDE DEF s
  <2>2. PartOp(s[1]) /\ PartOp(s[2]) /\ PartOp(s[3]) /\ s[1].at = n /\ s[2].at = n /\ s[3].at = n
        /\ s[1].do = "check" /\ s[2].do = "intend" /\ s[3].do = "survive"
    BY <1>3, <2>1 DEF PartOp, Op
  <2>3. \A k : k \in 1..(1-1) => FALSE
    OBVIOUS
  <2>4. Part(s, {n})
    BY <1>2, <2>1, <2>2, <2>3 DEF Part
  <2> QED
    BY <2>4 DEF s
<1>4. ASSUME dir[n] \in {"none", id} PROVE Part(Remove(n, id), {n})
  <2> DEFINE s == Remove(n, id)
  <2>1. s \in Seq(Bare) /\ Len(s) = 2 /\ s[1] = Op("intend", n, id) /\ s[2] = Op("survive", n, id)
    BY <1>1 DEF Remove
  <2> HIDE DEF s
  <2>2. PartOp(s[1]) /\ PartOp(s[2]) /\ s[1].at = n /\ s[2].at = n /\ s[1].do = "intend" /\ s[2].do = "survive"
    BY <1>2, <1>4, <2>1 DEF PartOp, Op
  <2>3. \A i \in 1..2 : i = 1 \/ i = 2
    OBVIOUS
  <2>4. Part(s, {n})
    BY <2>1, <2>2, <2>3 DEF Part
  <2> QED
    BY <2>4 DEF s
<1>5. Part(Close, {})
  <2> DEFINE s == Close
  <2>1. s \in Seq(Bare) /\ Len(s) = 1 /\ s[1] = Op("advance", "src", "cleaned")
    BY <1>1 DEF Close, Advance
  <2> HIDE DEF s
  <2>2. PartOp(s[1]) /\ s[1].do = "advance"
    BY <2>1 DEF PartOp, Op, Names
  <2>3. Part(s, {})
    BY <2>1, <2>2 DEF Part
  <2> QED
    BY <2>3 DEF s
<1>6. Part(<<>>, {})
  BY DEF Part
<1> QED
  BY <1>3, <1>4, <1>5, <1>6

\* What runs after the database commit checks and removes distinct names, each about a file
\* it owns (cleanupCommitted).
LEMMA CleanupParts ==
  ASSUME Given, Steady, Notes, Head(todo).do = "commit"
  PROVE  Part(CleanupLive(Patched(rec, Head(todo))), Names)
<1> DEFINE op == Head(todo)
           r  == Patched(rec, op)
           clean(n, id) == <<Check(n, id)>> \o Remove(n, id)
           a == IF ~SamePath /\ (r.mode # "move" \/ Linked(r)) THEN clean("src", "source") ELSE <<>>
           b == IF Linked(r) /\ r.priv THEN Remove("priv", LinkId(r)) ELSE <<>>
           d == IF Replaces THEN clean("stage", "staged") ELSE <<>>
<1>1. /\ todo # <<>> /\ op \in Ops /\ stage = "commit" /\ ~Refused(op) /\ ~committed /\ rec = jrnl
      /\ rec \in Records /\ TypeOK /\ Placed /\ Staged /\ ~rec.rb
  <2>1. stage = "commit" /\ todo # <<>> /\ op \in Ops /\ ~Refused(op)
    BY SteadyNotes
  <2> QED
    BY <2>1, Standing DEF Steady
<1>2. jrnl.phase = "target_installed"
  BY <1>1 DEF Refused
<1>3. r.mode = jrnl.mode /\ r.link = jrnl.link /\ (r.priv <=> jrnl.priv) /\ ~r.rb
  <2>1. /\ r.mode = IF op.do = "copyMode" THEN "copy" ELSE rec.mode
        /\ r.rb <=> rec.rb \/ op.do = "noteRollback"
        /\ r.priv <=> rec.priv \/ op.do = "notePrivate"
        /\ r.link = IF op.do = "noteLink" THEN "intended" ELSE IF op.do = "confirmLink" THEN "confirmed" ELSE rec.link
    <3> HIDE DEF op
    <3> QED
      BY <1>1, PatchedNotes
  <2> QED
    BY <1>1, <2>1
<1>4. /\ dir["src"] \in {"none", "source"} /\ dir["priv"] \in {"none", "copy"} /\ (Replaces => dir["stage"] = "staged")
      /\ jrnl.mode # "move" \/ Linked(jrnl) => dir["src"] = "source"
      /\ jrnl.mode \in {"copy", "move"} /\ Bound(jrnl)
  BY <1>1, <1>2 DEF Steady, Sited, Placed, Records, Given, Neat, Moded
<1>5. /\ {"src", "stage", "priv"} \subseteq Names /\ \A n \in {"src", "stage", "priv"} : At(n) = n
      /\ {"source", "copy", "staged"} = {"source", "copy", "staged"}
  BY DEF Names, At
<1>6. LinkId(r) = LinkId(jrnl) /\ (Linked(r) <=> Linked(jrnl))
  BY <1>3 DEF LinkId, Linked
<1>7. CleanupLive(r) = ((a \o b) \o d) \o Close
  <2>1. ~r.rb
    BY <1>3
  <2>2. CleanupLive(r) = (((a \o b) \o <<>>) \o d) \o Close
    BY <2>1 DEF CleanupLive
  <2>3. (a \o b) \o <<>> = a \o b
    <3>1. a \in Seq(Bare) /\ b \in Seq(Bare)
      <4>1. clean("src", "source") \in Seq(Bare) /\ (\A id \in {"source", "copy"} : Remove("priv", id) \in Seq(Bare))
        BY LooksClear, RemoveTyped DEF Looks, Removable, Names
      <4>2. LinkId(r) \in {"source", "copy"}
        BY DEF LinkId
      <4> QED
        BY <4>1, <4>2
    <3> HIDE DEF a, b
    <3> QED
      BY <3>1
  <2> QED
    BY <2>2, <2>3
<1> HIDE DEF r
<1>8. Part(a, IF ~SamePath /\ (r.mode # "move" \/ Linked(r)) THEN {"src"} ELSE {})
  <2>1. dir["src"] = "source" => Part(clean("src", "source"), {"src"})
    BY <1>5, PartsOne
  <2>2. Part(<<>>, {})
    BY <1>5, PartsOne
  <2> QED
    BY <1>3, <1>4, <1>6, <2>1, <2>2
<1>9. Part(b, IF Linked(r) /\ r.priv THEN {"priv"} ELSE {})
  <2>1. Linked(r) /\ r.priv => LinkId(r) = "copy"
    BY <1>3, <1>4, <1>6 DEF Bound, LinkId
  <2>2. Part(Remove("priv", "copy"), {"priv"}) /\ Part(<<>>, {})
    BY <1>4, <1>5, PartsOne
  <2> QED
    BY <2>1, <2>2
<1>10. Part(d, IF Replaces THEN {"stage"} ELSE {})
  <2>1. dir["stage"] = "staged" => Part(clean("stage", "staged"), {"stage"})
    BY <1>5, PartsOne
  <2>2. Part(<<>>, {})
    BY <1>5, PartsOne
  <2> QED
    BY <1>4, <2>1, <2>2
<1> DEFINE A == IF ~SamePath /\ (r.mode # "move" \/ Linked(r)) THEN {"src"} ELSE {}
           B == IF Linked(r) /\ r.priv THEN {"priv"} ELSE {}
           D == IF Replaces THEN {"stage"} ELSE {}
           e == (a \o b) \o d
<1>11. Part(a, A) /\ Part(b, B) /\ Part(d, D) /\ A \subseteq {"src"} /\ B \subseteq {"priv"} /\ D \subseteq {"stage"}
  BY <1>8, <1>9, <1>10
<1> HIDE DEF a, b, d, A, B, D
<1>12. Part(a \o b, A \cup B)
  <2>1. A \cap B = {}
    BY <1>11
  <2> QED
    BY <1>11, <2>1, PartsJoined
<1>13. Part(e, (A \cup B) \cup D)
  <2>1. (A \cup B) \cap D = {}
    BY <1>11
  <2> QED
    BY <1>11, <1>12, <2>1, PartsJoined
<1> HIDE DEF e
<1>14. Part(e \o Close, ((A \cup B) \cup D) \cup {})
  <2>1. Part(Close, {})
    BY <1>5, PartsOne
  <2> QED
    BY <1>13, <2>1, PartsJoined
<1>15. CleanupLive(r) = e \o Close /\ ((A \cup B) \cup D) \cup {} \subseteq Names
  BY <1>7, <1>11 DEF e, Names
<1>16. Part(CleanupLive(r), ((A \cup B) \cup D) \cup {})
  BY <1>14, <1>15
<1> DEFINE N == ((A \cup B) \cup D) \cup {}
           s == CleanupLive(r)
<1> HIDE DEF N, s
<1>17. Part(s, N) /\ N \subseteq Names
  BY <1>15, <1>16 DEF N, s
<1>18. Part(s, Names)
  BY <1>17 DEF Part
<1> QED
  BY <1>18 DEF s, r

\* How the program of such a publication goes on: it begins,
Begins ==
  /\ stage' = "commit" /\ todo' = Forward(rec') /\ UNCHANGED <<plan, dir>> /\ ~committed'
  /\ rec' \in Records /\ rec'.phase = "prepared" /\ rec'.link = "none"
  /\ dir["src"] = "source"

\* is replaced by another,
Starts ==
  \/ stage' = "recover" /\ todo' \in {<<Op("recover", "src", "none")>>, Resuming}
  \/ /\ Notes /\ Head(todo).do = "commit"
     /\ stage' = "cleanup" /\ todo' = CleanupLive(Patched(rec, Head(todo)))

\* or by more of what is to be done,
Prolongs ==
  LET op == Head(todo)
  IN  /\ todo # <<>> /\ op \in Ops /\ Calms(todo) /\ stage # "idle"
      /\ UNCHANGED <<plan, dir, quar, jrnl, committed, rec, stage>>
      /\ \/ /\ stage = "commit" /\ op.do = "publish" /\ op.at = "src" /\ dir["src"] = "source"
            /\ todo' = <<Check("src", "source"), Op("copyMode", "src", "none")>>
         \/ /\ stage = "commit" /\ op.do = "publish" /\ dir[op.at] = op.id
            /\ todo' = Linking(op) \o Tail(todo)
         \/ /\ stage # "commit" /\ op.do = "survive"
            /\ \E c : todo' = Removal(op, c) \o Tail(todo)
         \/ /\ stage # "commit" /\ op.do = "resume" /\ todo = Resuming
            /\ todo' = <<Op("survive", jrnl.removal.at, jrnl.removal.id)>> \o Tail(todo)
         \/ stage # "commit" /\ op.do = "recover" /\ todo' = Recovery(rec)

\* or the first operation is done.
Shortens ==
  /\ todo # <<>> /\ Head(todo) \in Ops /\ Calms(todo) /\ Calm(Head(todo)) /\ stage # "idle"
  /\ stage' = stage /\ todo' = Tail(todo) /\ UNCHANGED plan
  /\ \/ (Acts \/ Renames) /\ rec' = rec
     \/ Head(todo).do = "check" /\ UNCHANGED <<dir, quar, jrnl, committed, rec>>
     \/ Notes /\ Head(todo).do \notin {"copyMode", "commit"} /\ rec' = Patched(rec, Head(todo))

\* A step that leaves a program running starts one, puts operations in front of it, or
\* finishes its first.
LEMMA SteadyPrograms ==
  ASSUME Given, Steady, [Next]_vars, ~Tamper
  PROVE  todo' = <<>> \/ UNCHANGED vars \/ Begins \/ Starts \/ Prolongs \/ Shortens
<1> SUFFICES ASSUME todo' # <<>> PROVE UNCHANGED vars \/ Begins \/ Starts \/ Prolongs \/ Shortens
  OBVIOUS
<1> DEFINE op == Head(todo)
<1>1. /\ todo # <<>> => /\ stage \in {"commit", "cleanup", "recover"} /\ op \in Ops
                        /\ op.do # "quarantine" => Calms(todo) /\ Calm(op)
                        /\ stage # "commit" => op \in Clearing
                        /\ stage = "commit" => op \in Forwarding
      /\ TypeOK /\ Placed /\ Staged /\ Announcing /\ Closed /\ UNCHANGED plan
  BY Standing, HeadSteady, FilesStep DEF Steady, Given, Neat
<1>2. \A r : Throws(r) => Starts
  BY DEF Throws, Starts
<1>3. CASE Acts
  <2>1. op.do # "quarantine" /\ todo # <<>> /\ (Throws(rec) \/ Goes(Tail(todo), rec))
    BY <1>3 DEF Acts, FileOps
  <2> QED
    BY <1>1, <1>2, <1>3, <2>1 DEF Shortens, Goes
<1>4. CASE Renames
  <2>1. op.do # "quarantine" /\ todo # <<>> /\ (Throws(rec) \/ Goes(Tail(todo), rec))
    BY <1>4 DEF Renames
  <2> QED
    BY <1>1, <1>2, <1>4, <2>1 DEF Shortens, Goes
<1>5. CASE Fails
  BY <1>2, <1>5 DEF Fails
<1>6. CASE Notes
  <2>1. /\ todo # <<>> /\ op.do # "quarantine"
        /\ \/ op.do = "copyMode" /\ Goes(Forward(Patched(rec, op)), Patched(rec, op))
           \/ op.do = "commit" /\ todo' = CleanupLive(Patched(rec, op)) /\ stage' = "cleanup"
           \/ op.do \notin {"copyMode", "commit"} /\ Goes(Tail(todo), Patched(rec, op))
    BY <1>6 DEF Notes, JournalOps
  <2>2. CASE op.do = "copyMode"
    <3>1. /\ todo' = Forward(Patched(rec, op)) /\ rec' = Patched(rec, op) /\ stage' = stage
          /\ UNCHANGED <<plan, dir>> /\ committed' = (committed \/ op.do = "commit")
      BY <1>6, <2>1, <2>2 DEF Goes, Notes
    <3>2. /\ stage = "commit" /\ rec.link = "none" /\ rec.phase = "prepared" /\ dir["src"] = "source"
          /\ rec \in Records /\ Recorded(rec) /\ ~committed
      <4>1. stage = "commit"
        BY <1>6, <2>2, SteadyNotes
      <4>2. dir["src"] = "source"
        BY <2>1, <2>2, HeadSteady DEF Relies, Names
      <4> QED
        BY <2>1, <2>2, <4>1, <4>2, Standing, HeadSteady DEF Steady, Staged
    <3>3. Patched(rec, op) \in Records /\ Patched(rec, op).link = "none" /\ Patched(rec, op).phase = "prepared"
      <4>1. op \in Ops /\ op.do \notin {"noteLink", "confirmLink", "advance", "install", "commit"}
        BY <1>1, <2>1, <2>2
      <4> HIDE DEF op
      <4>2. Patched(rec, op).link = rec.link /\ Patched(rec, op).phase = rec.phase
        BY <3>2, <4>1, PatchedNotes, PatchedPhase
      <4>3. Patched(rec, op) \in Records
        BY <3>2, <4>1, PatchedTyped
      <4> QED
        BY <3>2, <4>2, <4>3
    <3>4. ~committed'
      <4>1. op.do # "commit"
        BY <2>2
      <4> HIDE DEF op
      <4> QED
        BY <3>1, <3>2, <4>1, Zenon
    <3> HIDE DEF op
    <3> QED
      BY <3>1, <3>2, <3>3, <3>4 DEF Begins
  <2>3. CASE op.do = "commit"
    BY <1>6, <2>1, <2>3 DEF Starts
  <2>4. CASE op.do \notin {"copyMode", "commit"}
    BY <1>1, <1>6, <2>1, <2>4 DEF Shortens, Goes
  <2> QED
    BY <2>2, <2>3, <2>4
<1>7. CASE Proceeds
  <2>1. /\ todo # <<>> /\ op.do # "quarantine" /\ UNCHANGED <<plan, dir, quar, jrnl, committed>>
        /\ stage # "idle" /\ Calms(todo) /\ Calm(op) /\ op \in Ops
    BY <1>1, <1>7 DEF Proceeds
  <2>2. \A s : Goes(s, rec) => todo' = s /\ UNCHANGED <<rec, stage>>
    BY DEF Goes
  <2>3. CASE op.do = "check"
    <3>1. Goes(Tail(todo), rec)
      BY <1>7, <2>3 DEF Proceeds
    <3> QED
      BY <2>1, <2>2, <2>3, <3>1 DEF Shortens
  <2>4. CASE op.do = "publish"
    <3>1. stage = "commit"
      BY <1>1, <2>1, <2>4 DEF Clearing
    <3>2. \/ /\ op.at = "src" /\ dir["src"] = "source"
             /\ Goes(<<Check("src", "source"), Op("copyMode", "src", "none")>>, rec)
          \/ dir[op.at] = op.id /\ Goes(Linking(op) \o Tail(todo), rec)
      BY <1>7, <2>4 DEF Proceeds
    <3> QED
      BY <2>1, <2>2, <2>4, <3>1, <3>2 DEF Prolongs
  <2>5. CASE op.do = "survive"
    <3>1. stage # "commit"
      BY <1>1, <2>1, <2>5 DEF Forwarding
    <3>2. PICK c : Goes(Removal(op, c) \o Tail(todo), rec)
      BY <1>7, <2>5 DEF Proceeds
    <3> DEFINE t == Removal(op, c) \o Tail(todo)
    <3>3. todo' = t /\ UNCHANGED <<rec, stage>>
      <4> HIDE DEF t
      <4>1. Goes(t, rec)
        BY <3>2 DEF t
      <4> QED
        BY <2>2, <4>1
    <3>4. \E x : todo' = Removal(op, x) \o Tail(todo)
      BY <3>3
    <3> HIDE DEF t
    <3> QED
      BY <2>1, <2>5, <3>1, <3>3, <3>4 DEF Prolongs
  <2>6. CASE op.do = "resume"
    <3>1. stage \in {"cleanup", "recover"}
      BY <1>1, <2>1, <2>6 DEF Forwarding
    <3>2. Goes(<<Op("survive", rec.removal.at, rec.removal.id)>> \o Tail(todo), rec)
      BY <1>7, <2>6 DEF Proceeds
    <3>3. rec.removal = jrnl.removal /\ todo = Resuming
      BY <1>1, <2>6, <3>1, HeadOfClearing
    <3> QED
      BY <2>1, <2>2, <2>6, <3>1, <3>2, <3>3 DEF Prolongs
  <2>7. CASE op.do = "recover"
    <3>1. stage # "commit"
      BY <1>1, <2>1, <2>7 DEF Forwarding
    <3>2. Goes(Recovery(rec), rec)
      BY <1>7, <2>7 DEF Proceeds
    <3> QED
      BY <2>1, <2>2, <2>7, <3>1, <3>2 DEF Prolongs
  <2> QED
    BY <1>7, <2>3, <2>4, <2>5, <2>6, <2>7 DEF Proceeds
<1>8. CASE Commit
  <2>1. /\ stage' = "commit" /\ todo' = Forward(Fresh) /\ rec' = Fresh /\ UNCHANGED <<plan, dir>>
        /\ ~committed /\ UNCHANGED committed /\ dir["src"] = "source"
    BY <1>8 DEF Commit, files
  <2>2. Fresh \in Records /\ Fresh.phase = "prepared" /\ Fresh.link = "none"
    BY FreshTyped DEF Fresh, NoRecord
  <2> QED
    BY <2>1, <2>2 DEF Begins
<1>9. CASE Recover
  <2>1. <<Op("resume", "src", "none")>> \o <<Op("recover", "src", "none")>> = Resuming
        /\ <<>> \o <<Op("recover", "src", "none")>> = <<Op("recover", "src", "none")>>
    <3> DEFINE x == Op("resume", "src", "none")
               y == Op("recover", "src", "none")
    <3>1. <<x, y>> = Resuming
      BY DEF Resuming
    <3> HIDE DEF x, y
    <3>2. <<x>> \o <<y>> = <<x, y>> /\ <<>> \o <<y>> = <<y>>
      BY Pair
    <3> QED
      BY <3>1, <3>2 DEF x, y
  <2> QED
    BY <1>9, <2>1 DEF Recover, Starts
<1>10. CASE QuarantineStep \/ Crash
  BY <1>10 DEF QuarantineStep, Crash, Goes
<1> QED
  BY <1>3, <1>4, <1>5, <1>6, <1>7, <1>8, <1>9, <1>10, SteadyForms

\* The commits of such publications.
InPlaceProgram ==
  <<Op("check", "src", "source"), Op("flush", "src", "none"), Op("check", "src", "source"),
    Op("install", "tgt", "source"), Op("check", "src", "source"), Op("commit", "tgt", "source")>>
MoveProgram ==
  <<Op("publish", "src", "source"), Op("flush", "tgt", "none"),
    Op("install", "tgt", "source"), Op("check", "tgt", "source"), Op("commit", "tgt", "source")>>
CopyProgram ==
  <<Op("notePrivate", "priv", "none"), Op("open", "priv", Selected), Op("copy", "priv", Selected),
    Op("flush", "priv", "none"), Op("advance", "src", "target_staged"),
    Op("check", "priv", "copy"), Op("publish", "priv", "copy"), Op("flush", "tgt", "none"),
    Op("check", "tgt", "copy"),
    Op("install", "tgt", "copy"), Op("check", "tgt", "copy"), Op("commit", "tgt", "copy")>>

\* Two sequences, one after the other.
LEMMA Chained ==
  ASSUME NEW S, NEW a \in Seq(S), NEW b \in Seq(S), NEW t \in Seq(S), Len(t) = Len(a) + Len(b),
         \A i \in 1..Len(a) : t[i] = a[i], \A i \in 1..Len(b) : t[Len(a) + i] = b[i]
  PROVE  a \o b = t
<1> DEFINE s == a \o b
<1>1. s \in Seq(S) /\ s = a \o b
  OBVIOUS
<1> HIDE DEF s
<1>2. /\ Len(s) = Len(a) + Len(b)
      /\ \A i \in 1..Len(a) : s[i] = a[i]
      /\ \A i \in 1..Len(s) : i \notin 1..Len(a) => i - Len(a) \in 1..Len(b) /\ s[i] = b[i - Len(a)]
      /\ Len(a) \in Nat /\ Len(b) \in Nat
  BY <1>1, Halves
<1>3. ASSUME NEW i \in 1..Len(s) PROVE s[i] = t[i]
  <2>1. CASE i \in 1..Len(a)
    BY <1>2, <2>1
  <2>2. CASE i \notin 1..Len(a)
    <3>1. i - Len(a) \in 1..Len(b) /\ s[i] = b[i - Len(a)] /\ Len(a) + (i - Len(a)) = i
      BY <1>2, <2>2
    <3> QED
      BY <3>1
  <2> QED
    BY <2>1, <2>2
<1>4. s = t
  BY <1>1, <1>2, <1>3, Same
<1> QED
  BY <1>1, <1>4

\* The concatenations that commit builds its programs from: the copy's path.
LEMMA NineAndThree ==
  ASSUME NEW a1, NEW a2, NEW a3, NEW a4, NEW a5, NEW a6, NEW a7, NEW a8, NEW a9, NEW b1, NEW b2, NEW b3
  PROVE  <<a1, a2, a3, a4, a5, a6, a7, a8, a9>> \o <<b1, b2, b3>> =
         <<a1, a2, a3, a4, a5, a6, a7, a8, a9, b1, b2, b3>>
<1> DEFINE S == {a1, a2, a3, a4, a5, a6, a7, a8, a9, b1, b2, b3}
           a == <<a1, a2, a3, a4, a5, a6, a7, a8, a9>>
           b == <<b1, b2, b3>>
           t == <<a1, a2, a3, a4, a5, a6, a7, a8, a9, b1, b2, b3>>
<1>1. a \in Seq(S) /\ b \in Seq(S) /\ t \in Seq(S) /\ Len(a) = 9 /\ Len(b) = 3 /\ Len(t) = 12
  OBVIOUS
<1>2. \A i \in 1..9 : t[i] = a[i]
  OBVIOUS
<1>3. \A i \in 1..3 : t[9 + i] = b[i]
  OBVIOUS
<1> HIDE DEF S, a, b, t
<1>4. /\ Len(t) = Len(a) + Len(b)
      /\ \A i \in 1..Len(a) : t[i] = a[i]
      /\ \A i \in 1..Len(b) : t[Len(a) + i] = b[i]
  BY <1>1, <1>2, <1>3
<1>5. a \o b = t
  BY ONLY <1>1, <1>4, Chained
<1> QED
  BY <1>5 DEF a, b, t

\* The concatenations that commit builds its programs from: the move's path.
LEMMA ThreeAndThree ==
  ASSUME NEW a1, NEW a2, NEW a3, NEW b1, NEW b2, NEW b3
  PROVE  <<a1, a2, a3>> \o <<b1, b2, b3>> = <<a1, a2, a3, b1, b2, b3>>
<1> DEFINE S == {a1, a2, a3, b1, b2, b3}
           a == <<a1, a2, a3>>
           b == <<b1, b2, b3>>
           t == <<a1, a2, a3, b1, b2, b3>>
<1>1. a \in Seq(S) /\ b \in Seq(S) /\ t \in Seq(S) /\ Len(a) = 3 /\ Len(b) = 3 /\ Len(t) = 6
  OBVIOUS
<1>2. (\A i \in 1..3 : t[i] = a[i]) /\ (\A i \in 1..3 : t[3 + i] = b[i])
  OBVIOUS
<1> HIDE DEF S, a, b, t
<1>4. /\ Len(t) = Len(a) + Len(b)
      /\ \A i \in 1..Len(a) : t[i] = a[i]
      /\ \A i \in 1..Len(b) : t[Len(a) + i] = b[i]
  BY <1>1, <1>2
<1>5. a \o b = t
  BY ONLY <1>1, <1>4, Chained
<1> QED
  BY <1>5 DEF a, b, t

\* The concatenations that commit builds its programs from: the path in place.
LEMMA TwoAndThree ==
  ASSUME NEW a1, NEW a2, NEW b1, NEW b2, NEW b3
  PROVE  <<a1, a2>> \o <<b1, b2, b3>> = <<a1, a2, b1, b2, b3>>
<1> DEFINE S == {a1, a2, b1, b2, b3}
           a == <<a1, a2>>
           b == <<b1, b2, b3>>
           t == <<a1, a2, b1, b2, b3>>
<1>1. a \in Seq(S) /\ b \in Seq(S) /\ t \in Seq(S) /\ Len(a) = 2 /\ Len(b) = 3 /\ Len(t) = 5
  OBVIOUS
<1>2. (\A i \in 1..2 : t[i] = a[i]) /\ (\A i \in 1..3 : t[2 + i] = b[i])
  OBVIOUS
<1> HIDE DEF S, a, b, t
<1>4. /\ Len(t) = Len(a) + Len(b)
      /\ \A i \in 1..Len(a) : t[i] = a[i]
      /\ \A i \in 1..Len(b) : t[Len(a) + i] = b[i]
  BY <1>1, <1>2
<1>5. a \o b = t
  BY ONLY <1>1, <1>4, Chained
<1> QED
  BY <1>5 DEF a, b, t

\* The concatenations that commit builds its programs from: nothing staged.
LEMMA NothingAnd ==
  ASSUME NEW a1, NEW a2, NEW a3, NEW a4, NEW a5, NEW a6, NEW a7, NEW a8, NEW a9
  PROVE  <<>> \o <<a1, a2, a3, a4, a5, a6, a7, a8, a9>> = <<a1, a2, a3, a4, a5, a6, a7, a8, a9>>
OBVIOUS

\* What commit runs is one of three programs: in place, move, or copy (commit, publishMove,
\* publishCopy).
LEMMA ForwardForms ==
  ASSUME NEW r \in Records, plan.kind # "replaceInPlace"
  PROVE  \/ plan.kind = "inPlace" /\ Forward(r) = InPlaceProgram
         \/ plan.kind # "inPlace" /\ r.mode = "move" /\ Forward(r) = MoveProgram
         \/ plan.kind # "inPlace" /\ r.mode = "copy" /\ Forward(r) = CopyProgram
<1>1. /\ At("src") = "src" /\ At("priv") = "priv"
      /\ plan.kind = "inPlace" => At("tgt") = "src"
      /\ plan.kind # "inPlace" => At("tgt") = "tgt" /\ ~SamePath
      /\ r.mode \in {"copy", "move"}
  BY DEF At, SamePath, Records
<1>2. CASE plan.kind = "inPlace"
  <2>1. Forward(r) = <<Op("check", "src", "source"), Op("flush", "src", "none"), Op("check", "src", "source")>>
                     \o <<Op("install", "tgt", "source"), Op("check", "src", "source"), Op("commit", "tgt", "source")>>
    BY <1>1, <1>2 DEF Forward, Check, Flush, Install
  <2>2. Forward(r) = InPlaceProgram
    BY <2>1, ThreeAndThree DEF InPlaceProgram
  <2> QED
    BY <1>2, <2>2
<1>3. CASE plan.kind # "inPlace" /\ r.mode = "move"
  <2>1. Forward(r) = <<Op("publish", "src", "source"), Op("flush", "tgt", "none")>>
                     \o <<Op("install", "tgt", "source"), Op("check", "tgt", "source"), Op("commit", "tgt", "source")>>
    BY <1>1, <1>3 DEF Forward, Check, Flush, Install
  <2>2. Forward(r) = MoveProgram
    BY <2>1, TwoAndThree DEF MoveProgram
  <2> QED
    BY <1>3, <2>2
<1>4. CASE plan.kind # "inPlace" /\ r.mode = "copy"
  <2> DEFINE a == <<Op("notePrivate", "priv", "none"), Op("open", "priv", Selected), Op("copy", "priv", Selected),
                    Op("flush", "priv", "none"), Op("advance", "src", "target_staged"),
                    Op("check", "priv", "copy"), Op("publish", "priv", "copy"), Op("flush", "tgt", "none"),
                    Op("check", "tgt", "copy")>>
             b == <<Op("install", "tgt", "copy"), Op("check", "tgt", "copy"), Op("commit", "tgt", "copy")>>
  <2>1. CopyAndPublish = a
    BY <1>1, <1>4 DEF CopyAndPublish, Flush, Check, Advance
  <2>2. Install("copy") = b
    BY <1>1, <1>4 DEF Install, Check
  <2>3. Forward(r) = (<<>> \o CopyAndPublish) \o Install("copy") \/ Forward(r) = <<>> \o (CopyAndPublish \o Install("copy"))
    BY <1>1, <1>4 DEF Forward
  <2>4. <<>> \o CopyAndPublish = a
    BY <2>1, NothingAnd
  <2>5. a \o b = CopyProgram
    BY NineAndThree DEF CopyProgram
  <2>6. <<>> \o CopyProgram = CopyProgram
    <3>1. CopyProgram \in Seq({CopyProgram[i] : i \in 1..12})
      BY DEF CopyProgram
    <3> HIDE DEF a, b
    <3> QED
      BY <3>1
  <2>7. Forward(r) = CopyProgram
    <3> HIDE DEF a, b
    <3> QED
      BY <2>1, <2>2, <2>3, <2>4, <2>5, <2>6
  <2> QED
    BY <1>4, <2>7
<1> QED
  BY <1>1, <1>2, <1>3, <1>4

\* What Calm says, of a state of the files, the records and the program.
CalmBy(op, d, r, j, c, st) ==
  /\ op.do # "noteRollback"
  /\ op.do = "move" => op.at = "tgt"
  /\ op.do = "advance" => op.id # "source_preserved"
  /\ op.do = "check" => op.id \in {"source", "copy", "staged"}
  /\ op.do \in {"noteLink", "link", "confirmLink"} => op.at = LinkSource(r) /\ op.id = LinkId(r)
  /\ op.do \in {"intend", "survive"} =>
       /\ d[op.at] \in {"none", op.id}
       /\ ~c => /\ op.at # "src" /\ d["src"] = "source"
                /\ op.at = At("tgt") /\ Linked(j) => LinkConfirmed(j)
  /\ op.do \in {"intend", "survive", "isolate"} /\ op.at = "priv" => d["priv"] # "partial"
  /\ op.do = "quarantine" => st # "commit" /\ d["priv"] = "partial"
CalmsBy(s, d, r, j, c, st) == \A i \in 1..Len(s) : CalmBy(s[i], d, r, j, c, st)

\* The operations' condition, with the state it reads as arguments: a step is judged in its
\* next state.
LEMMA CalmNow ==
  /\ \A op : Calm(op) <=> CalmBy(op, dir, rec, jrnl, committed, stage)
  /\ \A s : Calms(s) <=> CalmsBy(s, dir, rec, jrnl, committed, stage)
  /\ UNCHANGED plan /\ CalmsBy(todo', dir', rec', jrnl', committed', stage') => Calming'
<1>1. \A op : Calm(op) <=> CalmBy(op, dir, rec, jrnl, committed, stage)
  BY DEF Calm, CalmBy, Harmless
<1>2. \A s : Calms(s) <=> CalmsBy(s, dir, rec, jrnl, committed, stage)
  BY <1>1 DEF Calms, CalmsBy
<1>3. ASSUME UNCHANGED plan, CalmsBy(todo', dir', rec', jrnl', committed', stage') PROVE Calms(todo)'
  BY <1>3 DEF Calms, Calm, CalmsBy, CalmBy, Harmless, At, SamePath, LinkSource, LinkId, Linked, LinkConfirmed
<1> QED
  BY <1>1, <1>2, <1>3 DEF Calming

\* In a commit nothing of it depends on the files.
LEMMA CommitCalm ==
  ASSUME NEW op \in Forwarding, NEW d, NEW e, NEW r, NEW q, r.mode = q.mode, NEW j, NEW k, NEW c, NEW b, NEW st,
         CalmBy(op, d, r, j, c, "commit")
  PROVE  CalmBy(op, e, q, k, b, st)
<1>1. op.do \notin {"intend", "survive", "isolate"}
  BY DEF Forwarding
<1>2. LinkSource(r) = LinkSource(q) /\ LinkId(r) = LinkId(q)
  BY DEF LinkSource, LinkId
<1> QED
  BY <1>1, <1>2 DEF CalmBy

\* The forward program of a commit is calm whatever the files are.
LEMMA ForwardCalm ==
  ASSUME NEW q \in Records, plan.kind # "replaceInPlace", NEW d, NEW r, NEW j, NEW c, NEW st
  PROVE  CalmsBy(Forward(q), d, r, j, c, st)
<1> DEFINE s == Forward(q)
<1>1. \A i \in 1..Len(s) : /\ s[i].do \in {"check", "flush", "install", "commit", "publish", "notePrivate", "open", "copy", "advance"}
                           /\ s[i].do = "check" => s[i].id \in {"source", "copy", "staged"}
                           /\ s[i].do = "advance" => s[i].id = "target_staged"
  <2>1. CASE s = InPlaceProgram
    BY <2>1 DEF InPlaceProgram, Op
  <2>2. CASE s = MoveProgram
    BY <2>2 DEF MoveProgram, Op
  <2>3. CASE s = CopyProgram
    BY <2>3 DEF CopyProgram, Op
  <2> QED
    BY <2>1, <2>2, <2>3, ForwardForms
<1> HIDE DEF s
<1>2. \A i \in 1..Len(s) : CalmBy(s[i], d, r, j, c, st)
  BY <1>1 DEF CalmBy
<1> QED
  BY <1>2 DEF CalmsBy, s

\* A clean-up or a recovery takes away.
LEMMA ClearingCalm ==
  ASSUME NEW op, op.at \in Names, op.do \in {"noteLink", "link", "confirmLink"} => FALSE,
         NEW d \in [Names -> Artifacts], NEW e, NEW r, NEW q, NEW j, NEW k, NEW c, NEW st,
         CalmBy(op, d, r, j, c, st),
         Linked(k) => Linked(j), Linked(k) /\ LinkConfirmed(j) => LinkConfirmed(k),
         NEW n \in Names,
         e = d \/ (e = [d EXCEPT ![n] = "none"] /\ (~c => n # "src") /\ (n = "priv" => d["priv"] # "partial"))
  PROVE  CalmBy(op, e, q, k, c, st)
<1>1. /\ e["src"] = d["src"] \/ c
      /\ e[op.at] \in {"none", d[op.at]}
      /\ e["priv"] = "partial" <=> d["priv"] = "partial"
  BY DEF Names
<1>2. Linked(k) => Linked(j) /\ (LinkConfirmed(j) => LinkConfirmed(k))
  OBVIOUS
<1> QED
  BY <1>1, <1>2 DEF CalmBy

\* Taking the published original back to its name keeps the rest of a compensation harmless
\* (compensate).
LEMMA MovingCalm ==
  ASSUME NEW op, op.do \notin {"noteLink", "link", "confirmLink", "isolate"},
         NEW d \in [Names -> Artifacts], NEW e, NEW r, NEW q, NEW j, NEW k, NEW st,
         CalmBy(op, d, r, j, FALSE, st), d["src"] = "none", e = [d EXCEPT !["tgt"] = "none", !["src"] = "source"]
  PROVE  CalmBy(op, e, q, k, FALSE, st)
<1>1. e["priv"] = d["priv"]
  BY DEF Names
<1> QED
  BY <1>1 DEF CalmBy

\* More in front of the rest of a program.
LEMMA FrontCalm ==
  ASSUME NEW a \in Seq(Ops), NEW b \in Seq(Ops), NEW d, NEW r, NEW j, NEW c, NEW st,
         CalmsBy(a, d, r, j, c, st), CalmsBy(b, d, r, j, c, st), NEW s, s = a \o b
  PROVE  CalmsBy(s, d, r, j, c, st)
<1>1. /\ \A i \in 1..Len(a) : s[i] = a[i]
      /\ \A i \in 1..Len(s) : i \notin 1..Len(a) => i - Len(a) \in 1..Len(b) /\ s[i] = b[i - Len(a)]
  BY Halves
<1>2. ASSUME NEW i \in 1..Len(s) PROVE CalmBy(s[i], d, r, j, c, st)
  BY <1>1 DEF CalmsBy
<1> QED
  BY <1>2 DEF CalmsBy

\* What follows the first operation of a calm program.
LEMMA RestCalm ==
  ASSUME Given, Steady, todo # <<>>, Calms(todo)
  PROVE  /\ CalmsBy(Tail(todo), dir, rec, jrnl, committed, stage) /\ Tail(todo) \in Seq(Ops)
         /\ \A i \in 1..Len(Tail(todo)) :
              /\ i + 1 \in 1..Len(todo) /\ Tail(todo)[i] = todo[i+1] /\ todo[i+1] \in Ops
              /\ CalmBy(todo[i+1], dir, rec, jrnl, committed, stage)
              /\ stage = "commit" => todo[i+1] \in Forwarding
              /\ stage # "commit" => todo[i+1] \in Clearing
<1>1. /\ TypeOK /\ Staged /\ todo \in Seq(Ops) /\ stage \in {"commit", "cleanup", "recover"}
  BY Standing, HeadSteady DEF Steady
<1>2. /\ Len(todo) \in Nat \ {0} /\ Len(Tail(todo)) = Len(todo) - 1 /\ Tail(todo) \in Seq(Ops)
      /\ \A i \in 1..(Len(todo) - 1) : Tail(todo)[i] = todo[i+1]
  BY <1>1, Ahead
<1>3. ASSUME NEW i \in 1..Len(Tail(todo))
      PROVE  /\ i + 1 \in 1..Len(todo) /\ Tail(todo)[i] = todo[i+1] /\ todo[i+1] \in Ops
             /\ CalmBy(todo[i+1], dir, rec, jrnl, committed, stage)
             /\ stage = "commit" => todo[i+1] \in Forwarding
             /\ stage # "commit" => todo[i+1] \in Clearing
  <2>1. i + 1 \in 1..Len(todo) /\ Tail(todo)[i] = todo[i+1]
    BY <1>2, <1>3
  <2>2. CalmBy(todo[i+1], dir, rec, jrnl, committed, stage)
    BY <2>1, CalmNow DEF Calms
  <2>3. stage = "commit" => todo[i+1] \in Forwarding
    BY <1>1, <2>1 DEF Staged
  <2>4. stage # "commit" => todo[i+1] \in Clearing
    BY <1>1, <2>1 DEF Staged
  <2> QED
    BY <1>1, <2>1, <2>2, <2>3, <2>4
<1>4. CalmsBy(Tail(todo), dir, rec, jrnl, committed, stage)
  BY <1>3 DEF CalmsBy
<1> QED
  BY <1>2, <1>3, <1>4

\* The programs that commit, the cleanup and recover start are calm.
LEMMA StartsCalm ==
  ASSUME Given, Steady, Starts
  PROVE  CalmsBy(todo', dir', rec', jrnl', committed', stage')
<1>1. CASE stage' = "recover" /\ todo' \in {<<Op("recover", "src", "none")>>, Resuming}
  BY <1>1 DEF CalmsBy, CalmBy, Resuming, Op
<1>2. CASE Notes /\ Head(todo).do = "commit" /\ todo' = CleanupLive(Patched(rec, Head(todo))) /\ stage' = "cleanup"
  <2>1. Part(todo', Names)
    BY <1>2, CleanupParts
  <2>2. UNCHANGED dir /\ committed'
    BY <1>2 DEF Notes
  <2>3. ASSUME NEW i \in 1..Len(todo') PROVE CalmBy(todo'[i], dir', rec', jrnl', committed', stage')
    <3>1. PartOp(todo'[i])
      BY <2>1, <2>3 DEF Part
    <3> QED
      BY <2>2, <3>1 DEF PartOp, CalmBy
  <2> QED
    BY <2>3 DEF CalmsBy
<1> QED
  BY <1>1, <1>2 DEF Starts

\* The operations that a fallback or a resumed recovery puts in front are calm, or it gives
\* up for a reason.
LEMMA ProlongsCalm ==
  ASSUME Given, Steady, Prolongs
  PROVE  \/ CalmsBy(todo', dir', rec', jrnl', committed', stage')
         \/ todo' = Quarantine /\ stage' # "commit" /\ Doubtful'
<1> DEFINE op == Head(todo)
<1>1. /\ todo # <<>> /\ op \in Ops /\ Calms(todo) /\ Calm(op) /\ stage \in {"commit", "cleanup", "recover"}
      /\ UNCHANGED <<plan, dir, quar, jrnl, committed, rec, stage>>
      /\ TypeOK /\ Placed /\ Staged /\ Announcing /\ dir \in [Names -> Artifacts]
      /\ stage = "commit" => op \in Line(rec.mode)
      /\ rec \in Records
  <2>1. todo # <<>> /\ op \in Ops /\ Calms(todo) /\ UNCHANGED <<plan, dir, quar, jrnl, committed, rec, stage>>
    BY DEF Prolongs
  <2>2. op = todo[1] /\ 1 \in 1..Len(todo)
    BY <2>1, Standing, Ahead DEF Steady
  <2> QED
    BY <2>1, <2>2, Standing, HeadSteady DEF Steady, Given, Neat, Calms
<1>2. CalmsBy(Tail(todo), dir, rec, jrnl, committed, stage) /\ Tail(todo) \in Seq(Ops)
  BY <1>1, RestCalm
<1>3. \A s : CalmsBy(s, dir, rec, jrnl, committed, stage) => CalmsBy(s, dir', rec', jrnl', committed', stage')
  BY <1>1
<1>4. ASSUME NEW a \in Seq(Ops), CalmsBy(a, dir, rec, jrnl, committed, stage), todo' = a \o Tail(todo)
      PROVE  CalmsBy(todo', dir', rec', jrnl', committed', stage')
  <2> DEFINE s == a \o Tail(todo)
  <2>1. CalmsBy(s, dir, rec, jrnl, committed, stage)
    BY <1>2, <1>4, FrontCalm
  <2> HIDE DEF s
  <2>2. CalmsBy(s, dir', rec', jrnl', committed', stage')
    BY <1>3, <2>1
  <2> QED
    BY <1>4, <2>2 DEF s
<1>5. CASE /\ stage = "commit" /\ op.do = "publish" /\ op.at = "src" /\ dir["src"] = "source"
           /\ todo' = <<Check("src", "source"), Op("copyMode", "src", "none")>>
  <2>1. \A i : i \in 1..2 => i = 1 \/ i = 2
    OBVIOUS
  <2> QED
    BY <1>5, <2>1 DEF CalmsBy, CalmBy, Check, Op
<1>6. CASE /\ stage = "commit" /\ op.do = "publish" /\ dir[op.at] = op.id
           /\ todo' = Linking(op) \o Tail(todo)
  <2>1. op.at = LinkSource(rec) /\ op.id = LinkId(rec) /\ op.at \in {"src", "priv"} /\ op.id \in {"source", "copy"}
    BY <1>1, <1>6 DEF Line, LinkSource, LinkId, Ops, Records
  <2>2. At(op.at) = op.at
    BY <2>1 DEF At
  <2> DEFINE a == Linking(op)
  <2>3. a = <<Op("check", op.at, op.id), Op("noteLink", op.at, op.id), Op("link", op.at, op.id),
              Op("confirmLink", op.at, op.id)>>
    BY <2>2 DEF Linking, Check
  <2>4. a \in Seq(Ops)
    <3>1. ASSUME NEW do \in {"check", "noteLink", "link", "confirmLink"} PROVE Op(do, op.at, op.id) \in Ops
      <4>1. op.at \in Names /\ op.id \in Artifacts
            /\ ((op.at = "src" /\ op.id = "source") \/ (op.at = "priv" /\ op.id = "copy"))
        <5>1. op \in Ops /\ op.do = "publish"
          BY <1>1, <1>6
        <5> HIDE DEF op
        <5>2. ((op.at = "src" /\ op.id = "source") \/ (op.at = "priv" /\ op.id = "copy"))
          BY <5>1 DEF Ops
        <5> QED
          BY <5>2 DEF Names, Artifacts
      <4>2. do \in Dos /\ do \notin {"move", "intend", "survive", "isolate", "erase", "install", "commit", "advance"}
        BY <3>1 DEF Dos, JournalOps, FileOps
      <4> HIDE DEF op
      <4> QED
        BY <4>1, <4>2 DEF Op, Ops, Artifacts
    <3>2. /\ Op("check", op.at, op.id) \in Ops /\ Op("noteLink", op.at, op.id) \in Ops
          /\ Op("link", op.at, op.id) \in Ops /\ Op("confirmLink", op.at, op.id) \in Ops
      BY <3>1
    <3> HIDE DEF op, a
    <3> QED
      BY <2>3, <3>2
  <2>5. CalmsBy(a, dir, rec, jrnl, committed, stage)
    <3>1. \A i : i \in 1..4 => i = 1 \/ i = 2 \/ i = 3 \/ i = 4
      OBVIOUS
    <3>2. /\ CalmBy(Op("check", op.at, op.id), dir, rec, jrnl, committed, stage)
          /\ CalmBy(Op("noteLink", op.at, op.id), dir, rec, jrnl, committed, stage)
          /\ CalmBy(Op("link", op.at, op.id), dir, rec, jrnl, committed, stage)
          /\ CalmBy(Op("confirmLink", op.at, op.id), dir, rec, jrnl, committed, stage)
      BY <2>1 DEF CalmBy, Op
    <3> HIDE DEF a
    <3>3. Len(a) = 4 /\ a[1] = Op("check", op.at, op.id) /\ a[2] = Op("noteLink", op.at, op.id)
          /\ a[3] = Op("link", op.at, op.id) /\ a[4] = Op("confirmLink", op.at, op.id)
      BY <2>3
    <3> QED
      BY <3>1, <3>2, <3>3 DEF CalmsBy
  <2> HIDE DEF a
  <2>6. todo' = a \o Tail(todo)
    BY <1>6 DEF a
  <2> QED
    BY <1>4, <2>4, <2>5, <2>6
<1>7. CASE stage # "commit" /\ op.do = "survive" /\ \E c : todo' = Removal(op, c) \o Tail(todo)
  <2>1. PICK c : todo' = Removal(op, c) \o Tail(todo)
    BY <1>7
  <2> DEFINE x == Op("isolate", op.at, op.id)
             y == [Op("erase", op.at, op.id) EXCEPT !.to = c[1], !.by = c[2]]
             z == Op("forget", op.at, op.id)
             a == <<x, y, z>>
             T == Tail(todo)
  <2>2. x.do = "isolate" /\ x.at = op.at /\ y.do = "erase" /\ z.do = "forget"
    BY DEF Op
  <2>3. CalmBy(x, dir, rec, jrnl, committed, stage) /\ CalmBy(y, dir, rec, jrnl, committed, stage)
        /\ CalmBy(z, dir, rec, jrnl, committed, stage)
    <3> HIDE DEF x, y, z
    <3> QED
      BY <1>1, <1>7, <2>2 DEF CalmBy, Calm
  <2>4. todo' = a \o T
    BY <2>1 DEF Removal
  <2> HIDE DEF x, y, z, T
  <2>5. \A i \in 1..Len(todo') : \/ i = 1 /\ todo'[i] = x
                                 \/ i = 2 /\ todo'[i] = y
                                 \/ i = 3 /\ todo'[i] = z
                                 \/ i - 3 \in 1..Len(T) /\ todo'[i] = T[i - 3]
    <3> DEFINE S == Ops \cup {x, y, z}
    <3>1. a \in Seq(S) /\ T \in Seq(S)
      BY <1>2, Wider DEF T
    <3>2. Len(a) = 3 /\ a[1] = x /\ a[2] = y /\ a[3] = z
      OBVIOUS
    <3> HIDE DEF a, S
    <3>3. /\ \A i \in 1..Len(a) : todo'[i] = a[i]
          /\ \A i \in 1..Len(todo') : i \notin 1..Len(a) => i - Len(a) \in 1..Len(T) /\ todo'[i] = T[i - Len(a)]
          /\ Len(todo') = Len(a) + Len(T) /\ Len(T) \in Nat
      BY <2>4, <3>1, Halves
    <3> QED
      BY <3>2, <3>3
  <2>6. ASSUME NEW i \in 1..Len(todo') PROVE CalmBy(todo'[i], dir, rec, jrnl, committed, stage)
    BY <1>2, <2>3, <2>5, <2>6 DEF CalmsBy, T
  <2>7. CalmsBy(todo', dir, rec, jrnl, committed, stage)
    BY <2>6 DEF CalmsBy
  <2> QED
    BY <1>3, <2>7
<1>8. CASE /\ stage # "commit" /\ op.do = "resume" /\ todo = Resuming
           /\ todo' = <<Op("survive", jrnl.removal.at, jrnl.removal.id)>> \o Tail(todo)
  <2> DEFINE x == Op("survive", jrnl.removal.at, jrnl.removal.id)
             a == <<x>>
  <2>1. /\ jrnl.removal # NoRemoval /\ Unfinished /\ jrnl.removal.id \in Removable /\ jrnl.removal.at \in Names
    BY <1>1, <1>8, HeadOfClearing, Standing DEF Steady, Staged, Recorded, Records
  <2>2. Harmless(jrnl.removal)
    BY <2>1 DEF Steady, Pending
  <2>3. CalmBy(x, dir, rec, jrnl, committed, stage)
    BY <2>1, <2>2 DEF CalmBy, Op, Harmless, Removable
  <2>4. x \in Ops
    BY <2>1 DEF Op, Ops, Dos, Removable, Artifacts
  <2> HIDE DEF x
  <2>5. a \in Seq(Ops) /\ CalmsBy(a, dir, rec, jrnl, committed, stage)
    BY <2>3, <2>4 DEF CalmsBy
  <2>6. todo' = a \o Tail(todo)
    BY <1>8 DEF x
  <2> HIDE DEF a
  <2> QED
    BY <1>4, <2>5, <2>6
<1>9. CASE stage # "commit" /\ op.do = "recover" /\ todo' = Recovery(rec)
  <2>1. CASE Recovery(rec) = Quarantine /\ Doubtful
    <3>1. Doubtful'
      BY <1>1, <2>1 DEF Doubtful, Seen, At, SamePath
    <3> QED
      BY <1>1, <1>9, <2>1, <3>1
  <2>2. CASE Recovery(rec) \in Seq(Bare) /\ Quiets(Recovery(rec))
    <3> DEFINE s == Recovery(rec)
    <3>1. s \in Seq(Bare) /\ Quiets(s) /\ Program(s)
      <4>1. \A n \in Names : quar[n] = "none"
        BY <1>1, <1>9, HeadOfClearing
      <4>2. Clean(s)
        BY <1>1, <4>1, RecoveryClean, Standing DEF Given, Neat, Steady
      <4> QED
        BY <2>2, <4>2 DEF Clean
    <3> HIDE DEF s
    <3>2. ASSUME NEW i \in 1..Len(s) PROVE CalmBy(s[i], dir, rec, jrnl, committed, stage)
      <4>1. s[i] \in Bare /\ Quiet(s[i]) /\ s[i].do # "isolate"
        BY <3>1, <3>2 DEF Quiets, Program
      <4> QED
        BY <1>9, <4>1 DEF Bare, Clearing, Quiet, CalmBy, Harmless
    <3>3. CalmsBy(s, dir, rec, jrnl, committed, stage)
      BY <3>2 DEF CalmsBy
    <3> QED
      BY <1>3, <1>9, <3>3 DEF s
  <2> QED
    BY <1>1, <1>9, <2>1, <2>2, RecoveryQuiet
<1> QED
  BY <1>5, <1>6, <1>7, <1>8, <1>9 DEF Prolongs

\* What follows the first operation of a commit.
LEMMA CommitRestCalm ==
  ASSUME Given, Steady, Shortens, stage = "commit"
  PROVE  CalmsBy(Tail(todo), dir', rec', jrnl', committed', stage')
<1> DEFINE op == Head(todo)
<1>1. /\ todo # <<>> /\ op \in Ops /\ Calms(todo) /\ rec \in Records
      /\ rec' = rec \/ (rec' = Patched(rec, op) /\ op.do \notin {"copyMode", "commit"})
  BY Standing DEF Shortens, Steady
<1>2. rec'.mode = rec.mode
  <2> HIDE DEF op
  <2>1. op.do # "copyMode" => Patched(rec, op).mode = rec.mode
    BY <1>1, PatchedNotes
  <2> QED
    BY <1>1, <2>1
<1> DEFINE T == Tail(todo)
<1>3. ASSUME NEW i \in 1..Len(T) PROVE CalmBy(T[i], dir', rec', jrnl', committed', stage')
  <2>1. T[i] \in Forwarding /\ CalmBy(T[i], dir, rec, jrnl, committed, stage)
    BY <1>1, <1>3, RestCalm
  <2> DEFINE x == T[i]
             c == "commit"
             r1 == rec'
             d1 == dir'
             j1 == jrnl'
             c1 == committed'
             s1 == stage'
  <2>2. CalmBy(x, dir, rec, jrnl, committed, c)
    BY <2>1
  <2>3. x \in Forwarding /\ rec.mode = r1.mode
    BY <1>2, <2>1
  <2> HIDE DEF T, x, r1, d1, j1, c1, s1
  <2>4. CalmBy(x, d1, r1, j1, c1, s1)
    BY ONLY <2>2, <2>3, CommitCalm DEF c
  <2> QED
    BY <2>4 DEF x, r1, d1, j1, c1, s1
<1> QED
  BY <1>3 DEF CalmsBy

\* What a note of a clean-up or a recovery leaves as it is.
LEMMA ClearingNotes ==
  ASSUME Given, Steady, Notes, stage # "commit", Head(todo).do \notin {"copyMode", "commit"}
  PROVE  /\ UNCHANGED dir /\ (committed' <=> committed)
         /\ \/ Head(todo).do = "advance" /\ Head(todo).id = "cleaned" /\ Tail(todo) = <<>>
            \/ Head(todo).do \in {"intend", "forget"} /\ UNCHANGED <<quar, plan>>
         /\ Head(todo).do # "advance" => /\ Linked(jrnl') <=> Linked(jrnl)
                                         /\ LinkConfirmed(jrnl') <=> LinkConfirmed(jrnl)
                                         /\ jrnl'.mode = jrnl.mode /\ jrnl'.phase = jrnl.phase
<1> DEFINE op == Head(todo)
<1>1. /\ todo # <<>> /\ op \in Ops /\ UNCHANGED <<plan, dir, quar>>
      /\ committed' = (committed \/ op.do = "commit")
      /\ op.do \in {"intend", "forget", "advance"}
      /\ op.do = "advance" => op.id = "cleaned"
      /\ op.do # "advance" => jrnl'.link = jrnl.link /\ jrnl'.phase = jrnl.phase /\ jrnl'.mode = jrnl.mode
      /\ stage \in {"cleanup", "recover"}
  BY SteadyNotes
<1>2. committed' <=> committed
  <2>1. op.do # "commit" /\ committed' = (committed \/ op.do = "commit")
    BY <1>1
  <2> HIDE DEF op
  <2> QED
    BY <2>1, Zenon
<1>3. op.do = "advance" => Tail(todo) = <<>>
  <2> SUFFICES ASSUME op.do = "advance" PROVE Tail(todo) = <<>>
    OBVIOUS
  <2>1. TypeOK /\ Staged /\ Announcing
    BY Standing DEF Steady, Given, Neat
  <2>2. Program(todo)
    BY <1>1, <2>1, HeadOfClearing
  <2>3. /\ 1 \in 1..Len(todo) /\ Len(todo) \in Nat /\ op = todo[1] /\ Len(Tail(todo)) = Len(todo) - 1 /\ Tail(todo) \in Seq(Ops)
    BY <1>1, <2>1, Ahead
  <2>4. 1 = Len(todo)
    BY <2>2, <2>3 DEF Program
  <2> DEFINE T == Tail(todo)
  <2>5. T \in Seq(Ops) /\ Len(T) = 0
    <3>1. T \in Seq(Ops) /\ Len(T) = Len(todo) - 1 /\ 1 = Len(todo)
      BY <2>3, <2>4
    <3> DEFINE k == Len(todo)
    <3>2. k \in Nat /\ k = 1 /\ Len(T) = k - 1
      BY <2>4, <2>3, <3>1
    <3> HIDE DEF T, k
    <3> QED
      BY <3>1, <3>2
  <2>6. T = <<>>
    <3> HIDE DEF T
    <3> QED
      BY <2>5
  <2> QED
    BY <2>6
<1> QED
  BY <1>1, <1>2, <1>3 DEF Linked, LinkConfirmed

\* What follows the first operation of a clean-up or a recovery.
LEMMA ClearingRestCalm ==
  ASSUME Given, Steady, [Next]_vars, ~Tamper, Shortens, stage # "commit"
  PROVE  CalmsBy(Tail(todo), dir', rec', jrnl', committed', stage')
<1> DEFINE op == Head(todo)
           T  == Tail(todo)
<1> SUFFICES CalmsBy(T, dir', rec', jrnl', committed', stage')
  OBVIOUS
<1>1. /\ todo # <<>> /\ op \in Ops /\ Calms(todo) /\ Calm(op) /\ stage \in {"cleanup", "recover"}
      /\ stage' = stage /\ todo' = T /\ UNCHANGED plan /\ dir \in [Names -> Artifacts]
      /\ TypeOK /\ Staged /\ Announcing
  BY Standing DEF Shortens, Steady, Given, Neat
<1>2. \A i \in 1..Len(T) : /\ CalmBy(T[i], dir, rec, jrnl, committed, stage)
                           /\ T[i] \in Clearing /\ T[i].at \in Names
                           /\ T[i].do \notin {"noteLink", "link", "confirmLink"}
  <2>1. ASSUME NEW i \in 1..Len(T)
        PROVE  CalmBy(T[i], dir, rec, jrnl, committed, stage) /\ T[i] \in Clearing
    BY <1>1, <2>1, RestCalm
  <2>2. \A x \in Clearing : x.at \in Names /\ x.do \notin {"noteLink", "link", "confirmLink"}
    BY DEF Clearing, Ops
  <2> QED
    BY <2>1, <2>2
\* When the files and what is decided stay.
<1>3. ASSUME UNCHANGED dir, committed' <=> committed, Linked(jrnl') <=> Linked(jrnl),
             LinkConfirmed(jrnl') <=> LinkConfirmed(jrnl)
      PROVE  CalmsBy(T, dir', rec', jrnl', committed', stage')
  <2>1. ASSUME NEW i \in 1..Len(T) PROVE CalmBy(T[i], dir', rec', jrnl', committed', stage')
    <3> DEFINE x == T[i]
    <3>1. CalmBy(x, dir, rec, jrnl, committed, stage) /\ x.do \notin {"noteLink", "link", "confirmLink"}
      BY <1>2, <2>1
    <3> HIDE DEF x, T, op
    <3>2. CalmBy(x, dir', rec', jrnl', committed', stage')
      BY <1>1, <1>3, <3>1 DEF CalmBy
    <3> QED
      BY <3>2 DEF x
  <2> QED
    BY <2>1 DEF CalmsBy
<1>4. CASE op.do = "check" /\ UNCHANGED <<dir, quar, jrnl, committed, rec>>
  BY <1>3, <1>4
<1>5. CASE Notes /\ op.do \notin {"copyMode", "commit"}
  <2>1. CASE T = <<>>
    <3> HIDE DEF T, op
    <3> QED
      BY <2>1 DEF CalmsBy
  <2>2. CASE T # <<>>
    <3> HIDE DEF T, op
    <3>1. /\ UNCHANGED dir /\ (committed' <=> committed)
          /\ Linked(jrnl') <=> Linked(jrnl)
          /\ LinkConfirmed(jrnl') <=> LinkConfirmed(jrnl)
      BY <1>5, <2>2, ClearingNotes DEF T, op
    <3> QED
      BY <1>3, <3>1, Zenon
  <2> HIDE DEF T, op
  <2> QED
    BY <2>1, <2>2
<1>6. CASE Acts \/ Renames
  <2>1. CASE UNCHANGED dir
    <3>1. UNCHANGED <<jrnl, committed>>
      BY <1>6 DEF Acts, Renames
    <3> QED
      BY <1>3, <2>1, <3>1
  <2>2. CASE Isolates
    <3>1. /\ op.do = "isolate" /\ op.at \in Names /\ jrnl.removal = [at |-> op.at, id |-> op.id]
          /\ Harmless(jrnl.removal) /\ dir' = [dir EXCEPT ![op.at] = "none"]
          /\ UNCHANGED <<jrnl, committed>>
      BY <1>6, <2>2 DEF Isolates, Acts, Renames
    <3>2. ~committed => op.at # "src"
      BY <3>1 DEF Harmless
    <3>3. op.at = "priv" => dir["priv"] # "partial"
      BY <1>1, <3>1 DEF Calm
    <3>4. ASSUME NEW i \in 1..Len(T) PROVE CalmBy(T[i], dir', rec', jrnl', committed', stage')
      <4> DEFINE x == T[i]
                 n == op.at
                 e == dir'
                 q == rec'
      <4>1. /\ CalmBy(x, dir, rec, jrnl, committed, stage) /\ x.do \notin {"noteLink", "link", "confirmLink"}
            /\ x.at \in Names
        BY <1>2, <3>4
      <4>2. e = [dir EXCEPT ![n] = "none"] /\ (~committed => n # "src") /\ (n = "priv" => dir["priv"] # "partial")
            /\ n \in Names
        BY <3>1, <3>2, <3>3
      <4> HIDE DEF x, T, n, op, e, q
      <4>3. CalmBy(x, e, q, jrnl, committed, stage)
        BY <1>1, <4>1, <4>2, ClearingCalm
      <4> QED
        BY <1>1, <3>1, <4>3 DEF x, e, q
    <3> QED
      BY <3>4 DEF CalmsBy
  <2>3. CASE Moves
    <3>1. /\ op.do = "move" /\ ~committed /\ dir["src"] = "none"
          /\ dir' = [dir EXCEPT !["tgt"] = "none", !["src"] = "source"] /\ UNCHANGED <<jrnl, committed>>
      BY <1>6, <2>3 DEF Moves, Acts, Renames
    <3>2. Program(todo)
      BY <1>1, <3>1, HeadOfClearing
    <3>3. ASSUME NEW i \in 1..Len(T) PROVE CalmBy(T[i], dir', rec', jrnl', committed', stage')
      <4> DEFINE x == T[i]
                 e == dir'
                 q == rec'
      <4>1. CalmBy(x, dir, rec, jrnl, committed, stage) /\ x.do \notin {"noteLink", "link", "confirmLink"}
        BY <1>2, <3>3
      <4>2. x.do # "isolate"
        <5>1. i + 1 \in 1..Len(todo) /\ T[i] = todo[i+1]
          BY <1>1, <3>3, RestCalm
        <5> QED
          BY <3>2, <5>1 DEF Program
      <4>3. e = [dir EXCEPT !["tgt"] = "none", !["src"] = "source"]
        BY <3>1
      <4>4. e["priv"] = dir["priv"] /\ e["src"] = "source"
        BY <1>1, <4>3 DEF Names
      <4> HIDE DEF x, T, op, e, q
      <4>5. CalmBy(x, e, q, jrnl, committed, stage)
        BY <3>1, <4>1, <4>2, <4>4 DEF CalmBy
      <4> QED
        BY <1>1, <3>1, <4>5 DEF x, e, q
    <3> QED
      BY <3>3 DEF CalmsBy
  <2> QED
    BY <1>1, <2>1, <2>2, <2>3, SteadyDirs DEF Publishes, Copies
<1> QED
  BY <1>4, <1>5, <1>6 DEF Shortens

\* It stays calm.
LEMMA CalmingStep ==
  ASSUME Given, Steady, [Next]_vars, ~Tamper
  PROVE  Calming'
<1>1. UNCHANGED plan
  BY Standing, FilesStep DEF Given, Steady
<1>2. CASE todo' = <<>>
  <2>1. CalmsBy(todo', dir', rec', jrnl', committed', stage')
    BY <1>2 DEF CalmsBy
  <2> QED
    BY <1>1, <2>1, CalmNow
<1>3. CASE UNCHANGED vars
  BY <1>3 DEF vars, Steady, Calming, Calms, Calm, Harmless, Doubtful, Seen, At, SamePath, LinkSource, LinkId,
              Linked, LinkConfirmed
<1>4. CASE Begins
  <2>1. CalmsBy(todo', dir', rec', jrnl', committed', stage')
    <3>1. rec' \in Records /\ todo' = Forward(rec') /\ plan.kind # "replaceInPlace"
      BY <1>4 DEF Begins, Given
    <3> QED
      BY <3>1, ForwardCalm
  <2> QED
    BY <1>1, <2>1, CalmNow
<1>5. CASE Starts
  BY <1>1, <1>5, StartsCalm, CalmNow
<1>6. CASE Prolongs
  BY <1>1, <1>6, ProlongsCalm, CalmNow DEF Calming
<1>7. CASE Shortens
  <2>1. todo' = Tail(todo)
    BY <1>7 DEF Shortens
  <2>2. CalmsBy(Tail(todo), dir', rec', jrnl', committed', stage')
    BY <1>7, CommitRestCalm, ClearingRestCalm
  <2> QED
    BY <1>1, <2>1, <2>2, CalmNow
<1> QED
  BY <1>2, <1>3, <1>4, <1>5, <1>6, <1>7, SteadyPrograms

\* What Met says, of a state of the files.
MetAtBy(s, i, n, id, d) ==
  \/ d[n] = id /\ \A k \in 1..(i-1) : ~Drops(s[k], n)
  \/ \E j \in 1..(i-1) : Gives(s[j], n, id) /\ \A k \in (j+1)..(i-1) : ~Drops(s[k], n)
MetBy(s, d) == \A i \in 1..Len(s), n \in Names, id \in {"source", "copy", "staged"} :
                 Relies(s[i], n, id) => MetAtBy(s, i, n, id, d)

\* What a program relies on, with the directory as an argument: a step is judged in its
\* next state.
LEMMA MetNow ==
  /\ \A s : Met(s) <=> MetBy(s, dir)
  /\ UNCHANGED plan /\ MetBy(todo', dir') => Met(todo)'
<1>1. \A s : Met(s) <=> MetBy(s, dir)
  BY DEF Met, MetBy, MetAt, MetAtBy
<1>2. ASSUME UNCHANGED plan, MetBy(todo', dir') PROVE Met(todo)'
  BY <1>2 DEF Met, MetBy, MetAt, MetAtBy, Relies, Gives, Drops, At, SamePath
<1> QED
  BY <1>1, <1>2

\* What remains of a program, when its first operation left the files as it should.
LEMMA MetRest ==
  ASSUME NEW S, NEW s \in Seq(S), s # <<>>, NEW d, NEW e, MetBy(s, d),
         \A n \in Names, id \in {"source", "copy", "staged"} :
           (d[n] = id /\ ~Drops(s[1], n)) \/ Gives(s[1], n, id) => e[n] = id
  PROVE  MetBy(Tail(s), e)
<1> DEFINE t == Tail(s)
<1>1. Len(s) \in Nat \ {0} /\ Len(t) = Len(s) - 1 /\ \A i \in 1..Len(t) : t[i] = s[i+1] /\ i+1 \in 1..Len(s)
  BY Rest
<1> HIDE DEF t
<1>2. ASSUME NEW i \in 1..Len(t), NEW n \in Names, NEW id \in {"source", "copy", "staged"}, Relies(t[i], n, id)
      PROVE  MetAtBy(t, i, n, id, e)
  <2>1. t[i] = s[i+1] /\ i+1 \in 1..Len(s) /\ 1 \in 1..((i+1)-1)
        /\ \A k \in 1..(i-1) : t[k] = s[k+1] /\ k+1 \in 2..((i+1)-1)
    BY <1>1
  <2>2. MetAtBy(s, i+1, n, id, d)
    BY <1>2, <2>1 DEF MetBy
  <2>3. CASE d[n] = id /\ \A k \in 1..((i+1)-1) : ~Drops(s[k], n)
    <3>1. e[n] = id
      BY <2>1, <2>3
    <3>2. \A k \in 1..(i-1) : ~Drops(t[k], n)
      BY <2>1, <2>3
    <3> QED
      BY <3>1, <3>2 DEF MetAtBy
  <2>4. ASSUME NEW j \in 1..((i+1)-1), Gives(s[j], n, id), \A k \in (j+1)..((i+1)-1) : ~Drops(s[k], n)
        PROVE  MetAtBy(t, i, n, id, e)
    <3>1. CASE j = 1
      <4>1. e[n] = id
        BY <2>4, <3>1
      <4>2. \A k \in 1..(i-1) : ~Drops(t[k], n)
        BY <2>1, <2>4, <3>1
      <4> QED
        BY <4>1, <4>2 DEF MetAtBy
    <3>2. CASE j # 1
      <4>1. j-1 \in 1..(i-1) /\ t[j-1] = s[j]
        BY <1>1, <2>4, <3>2
      <4>2. ASSUME NEW k \in ((j-1)+1)..(i-1) PROVE ~Drops(t[k], n)
        <5>1. k \in 1..(i-1) /\ k+1 \in (j+1)..((i+1)-1)
          BY <2>4, <3>2, <4>2
        <5> QED
          BY <2>1, <2>4, <5>1
      <4> QED
        BY <2>4, <4>1, <4>2 DEF MetAtBy
    <3> QED
      BY <3>1, <3>2
  <2> QED
    BY <2>2, <2>3, <2>4 DEF MetAtBy
<1> QED
  BY <1>2 DEF MetBy, t

\* More in place of the first operation.
LEMMA MetFront ==
  ASSUME NEW S, NEW s \in Seq(S), s # <<>>, NEW a \in Seq(S), NEW t, t = a \o Tail(s), NEW d, MetBy(s, d),
         \A i \in 1..Len(a), n \in Names, id \in {"source", "copy", "staged"} :
           Relies(a[i], n, id) => MetAtBy(a, i, n, id, d),
         \A i \in 1..Len(a), n \in Names : Drops(a[i], n) => Drops(s[1], n),
         \A n \in Names, id \in {"source", "copy", "staged"} : Gives(s[1], n, id) =>
           \E j \in 1..Len(a) : Gives(a[j], n, id) /\ \A k \in (j+1)..Len(a) : ~Drops(a[k], n)
  PROVE  MetBy(t, d)
<1> DEFINE b == Tail(s)
           l == Len(a)
<1>1. /\ Len(s) \in Nat \ {0} /\ Len(b) = Len(s) - 1 /\ b \in Seq(S)
      /\ \A i \in 1..Len(b) : b[i] = s[i+1] /\ i+1 \in 1..Len(s)
  BY Rest
<1> HIDE DEF b
<1>2. /\ l \in Nat /\ Len(b) \in Nat /\ Len(t) = l + Len(b)
      /\ \A i \in 1..l : t[i] = a[i]
      /\ \A i \in 1..Len(b) : t[l + i] = b[i]
      /\ \A i \in 1..Len(t) : i \notin 1..l => i - l \in 1..Len(b) /\ t[i] = b[i - l]
  BY <1>1, Halves DEF b
<1> HIDE DEF l
<1>3. ASSUME NEW i \in 1..Len(t), NEW n \in Names, NEW id \in {"source", "copy", "staged"}, Relies(t[i], n, id)
      PROVE  MetAtBy(t, i, n, id, d)
  <2>1. CASE i \in 1..l
    <3>1. MetAtBy(a, i, n, id, d) /\ i \in 1..Len(a)
      BY <1>2, <1>3, <2>1 DEF l
    <3>2. \A k \in 1..(i-1) : t[k] = a[k]
      BY <1>2, <2>1
    <3>3. CASE d[n] = id /\ \A k \in 1..(i-1) : ~Drops(a[k], n)
      BY <3>2, <3>3 DEF MetAtBy
    <3>4. ASSUME NEW j \in 1..(i-1), Gives(a[j], n, id), \A k \in (j+1)..(i-1) : ~Drops(a[k], n)
          PROVE  MetAtBy(t, i, n, id, d)
      <4>1. \A k \in (j+1)..(i-1) : k \in 1..(i-1)
        BY <3>4
      <4> QED
        BY <3>2, <3>4, <4>1 DEF MetAtBy
    <3> QED
      BY <3>1, <3>3, <3>4 DEF MetAtBy
  <2>2. CASE i \notin 1..l
    <3> DEFINE m == i - l
    <3>1. m \in 1..Len(b) /\ t[i] = b[m] /\ b[m] = s[m+1] /\ m+1 \in 1..Len(s) /\ i = l + m
      <4>1. m \in 1..Len(b) /\ t[i] = b[m]
        BY <1>2, <2>2
      <4>2. i = l + m
        BY <1>2, <1>3
      <4> HIDE DEF m
      <4> QED
        BY <1>1, <4>1, <4>2
    <3>2. MetAtBy(s, m+1, n, id, d)
      BY <1>3, <3>1 DEF MetBy
    <3> HIDE DEF m
    \* What is in front of it.
    <3>3. ASSUME NEW k \in 1..(i-1) PROVE (k \in 1..l /\ t[k] = a[k]) \/ (k - l + 1 \in 2..m /\ t[k] = s[k - l + 1])
      <4>1. CASE k \in 1..l
        BY <1>2, <4>1
      <4>2. CASE k \notin 1..l
        <5>1. k \in 1..Len(t)
          BY <1>2, <1>3, <3>3
        <5>2. k - l \in 1..Len(b) /\ t[k] = b[k - l]
          BY <1>2, <4>2, <5>1
        <5>3. b[k - l] = s[(k - l) + 1]
          BY <1>1, <5>2
        <5>4. (k - l) + 1 \in 2..m
          BY <1>2, <3>1, <3>3, <5>2
        <5> QED
          BY <5>2, <5>3, <5>4
      <4> QED
        BY <4>1, <4>2
    <3>4. CASE d[n] = id /\ \A k \in 1..((m+1)-1) : ~Drops(s[k], n)
      <4>1. ASSUME NEW k \in 1..(i-1) PROVE ~Drops(t[k], n)
        <5>1. 1 \in 1..((m+1)-1) /\ \A x \in 2..m : x \in 1..((m+1)-1)
          BY <3>1
        <5>2. ~Drops(s[1], n)
          BY <3>4, <5>1
        <5>3. CASE k \in 1..l /\ t[k] = a[k]
          BY <5>2, <5>3 DEF l
        <5>4. CASE k - l + 1 \in 2..m /\ t[k] = s[k - l + 1]
          BY <3>4, <5>1, <5>4
        <5> QED
          BY <3>3, <5>3, <5>4
      <4> QED
        BY <3>4, <4>1 DEF MetAtBy
    <3>5. ASSUME NEW j \in 1..((m+1)-1), Gives(s[j], n, id), \A k \in (j+1)..((m+1)-1) : ~Drops(s[k], n)
          PROVE  MetAtBy(t, i, n, id, d)
      <4>1. CASE j = 1
        <5>1. PICK x \in 1..Len(a) : Gives(a[x], n, id) /\ \A k \in (x+1)..Len(a) : ~Drops(a[k], n)
          BY <3>5, <4>1
        <5>2. x \in 1..l /\ x \in 1..(i-1) /\ t[x] = a[x] /\ \A k \in (x+1)..l : ~Drops(a[k], n)
          BY <1>2, <3>1, <5>1 DEF l
        <5>3. ASSUME NEW k \in (x+1)..(i-1) PROVE ~Drops(t[k], n)
          <6>1. k \in 1..(i-1) /\ (k \in 1..l => k \in (x+1)..l)
            BY <5>2, <5>3
          <6>2. \A y \in 2..m : ~Drops(s[y], n)
            BY <3>1, <3>5, <4>1
          <6>3. CASE k \in 1..l /\ t[k] = a[k]
            BY <5>2, <6>1, <6>3
          <6>4. CASE k - l + 1 \in 2..m /\ t[k] = s[k - l + 1]
            BY <6>2, <6>4
          <6> QED
            BY <3>3, <6>1, <6>3, <6>4
        <5> QED
          BY <5>1, <5>2, <5>3 DEF MetAtBy
      <4>2. CASE j # 1
        <5> DEFINE x == j - 1 + l
        <5>1. j - 1 \in 1..Len(b) /\ b[j-1] = s[(j-1)+1] /\ (j-1)+1 = j
          BY <1>1, <3>1, <3>5, <4>2
        <5>2. x \in 1..(i-1) /\ t[x] = s[j]
          <6>1. t[l + (j-1)] = b[j-1] /\ l + (j-1) = x
            <7> DEFINE y == j-1
            <7>1. y \in 1..Len(b) /\ y + l = l + y
              BY <1>2, <5>1
            <7> HIDE DEF y
            <7>2. t[l + y] = b[y] /\ l + y = y + l
              BY <1>2, <7>1
            <7> QED
              BY <7>2 DEF y
          <6>2. x \in 1..(i-1)
            BY <1>2, <3>1, <3>5, <4>2
          <6> QED
            BY <5>1, <6>1, <6>2
        <5>3. ASSUME NEW k \in (x+1)..(i-1) PROVE ~Drops(t[k], n)
          <6>1. k \in 1..(i-1) /\ k \notin 1..l /\ k - l \in Nat /\ k - l + 1 > j
            BY <1>2, <3>5, <4>2, <5>3
          <6>2. k - l + 1 \in 2..m /\ t[k] = s[k - l + 1]
            BY <3>3, <6>1
          <6>3. k - l + 1 \in (j+1)..((m+1)-1)
            BY <3>1, <6>1, <6>2
          <6> QED
            BY <3>5, <6>2, <6>3
        <5> HIDE DEF x
        <5> QED
          BY <3>5, <5>2, <5>3 DEF MetAtBy
      <4> QED
        BY <4>1, <4>2
    <3> QED
      BY <3>2, <3>4, <3>5 DEF MetAtBy
  <2> QED
    BY <2>1, <2>2
<1> QED
  BY <1>3 DEF MetBy

\* A program that relies on nothing.
LEMMA IdleMet ==
  ASSUME NEW s, NEW d,
         \A i \in 1..Len(s) : /\ s[i].do \notin {"check", "noteLink", "confirmLink", "copyMode"}
                              /\ s[i].do = "advance" => s[i].id # "target_staged"
  PROVE  MetBy(s, d)
BY DEF MetBy, Relies

\* A commit that begins finds the original and provides the rest.
LEMMA ForwardMet ==
  ASSUME NEW q \in Records, plan.kind # "replaceInPlace", NEW d, d["src"] = "source"
  PROVE  MetBy(Forward(q), d)
<1> DEFINE s == Forward(q)
<1>1. /\ \A n, id : Relies(Op("flush", "src", "none"), n, id) => FALSE
      /\ (plan.kind # "inPlace" => At("tgt") = "tgt")
  BY DEF Relies, Op, At, SamePath
<1>2. CASE s = InPlaceProgram
  <2>1. ASSUME NEW i \in 1..Len(s), NEW n \in Names, NEW id \in {"source", "copy", "staged"}, Relies(s[i], n, id)
        PROVE  MetAtBy(s, i, n, id, d)
    <3>1. n = "src" /\ id = "source"
      BY <1>2, <2>1 DEF InPlaceProgram, Op, Relies
    <3>2. \A k \in 1..6 : ~Drops(s[k], n)
      BY <1>2 DEF InPlaceProgram, Op, Drops
    <3>3. \A k \in 1..(i-1) : k \in 1..6
      BY <1>2, <2>1 DEF InPlaceProgram
    <3> HIDE DEF s
    <3> QED
      BY <3>1, <3>2, <3>3 DEF MetAtBy
  <2> QED
    BY <2>1 DEF MetBy
<1>3. CASE s = MoveProgram /\ plan.kind # "inPlace"
  <2>1. ASSUME NEW i \in 1..Len(s), NEW n \in Names, NEW id \in {"source", "copy", "staged"}, Relies(s[i], n, id)
        PROVE  MetAtBy(s, i, n, id, d)
    <3>1. n = "tgt" /\ id = "source" /\ i = 4
      BY <1>3, <2>1 DEF MoveProgram, Op, Relies
    <3>2. (\A k \in 2..3 : ~Drops(s[k], n)) /\ Gives(s[1], n, id)
      BY <1>1, <1>3, <3>1 DEF MoveProgram, Op, Drops, Gives
    <3> HIDE DEF s
    <3> QED
      BY <3>1, <3>2 DEF MetAtBy
  <2> QED
    BY <2>1 DEF MetBy
<1>4. CASE s = CopyProgram /\ plan.kind # "inPlace"
  <2>1. ASSUME NEW i \in 1..Len(s), NEW n \in Names, NEW id \in {"source", "copy", "staged"}, Relies(s[i], n, id)
        PROVE  MetAtBy(s, i, n, id, d)
    <3>1. id = "copy" /\ ((n = "priv" /\ i \in {5, 6}) \/ (n = "tgt" /\ i \in {9, 11}))
      BY <1>4, <2>1 DEF CopyProgram, Op, Relies
    <3>2. /\ \A k \in 4..5 : ~Drops(s[k], n)
          /\ \A k \in 8..10 : ~Drops(s[k], n)
      BY <1>1, <1>4 DEF CopyProgram, Op, Drops
    <3>3. Gives(s[3], "priv", "copy") /\ Gives(s[7], "tgt", "copy")
      BY <1>1, <1>4 DEF CopyProgram, Op, Gives
    <3> HIDE DEF s
    <3> QED
      BY <3>1, <3>2, <3>3 DEF MetAtBy
  <2> QED
    BY <2>1 DEF MetBy
<1> QED
  BY <1>2, <1>3, <1>4, ForwardForms

\* A program that starts finds what its checks rely on (verifyIdentity), now or by an
\* earlier operation.
LEMMA StartsMet ==
  ASSUME Given, Steady, Starts
  PROVE  MetBy(todo', dir')
<1>1. CASE stage' = "recover" /\ todo' \in {<<Op("recover", "src", "none")>>, Resuming}
  <2>1. \A i \in 1..Len(todo') : todo'[i].do \in {"resume", "recover"}
    BY <1>1 DEF Resuming, Op
  <2> QED
    BY <2>1, IdleMet
<1>2. CASE Notes /\ Head(todo).do = "commit" /\ todo' = CleanupLive(Patched(rec, Head(todo))) /\ stage' = "cleanup"
  <2> DEFINE s == todo'
  <2>1. Part(s, Names) /\ UNCHANGED dir
    BY <1>2, CleanupParts DEF Notes
  <2> HIDE DEF s
  <2>2. ASSUME NEW i \in 1..Len(s), NEW n \in Names, NEW id \in {"source", "copy", "staged"}, Relies(s[i], n, id)
        PROVE  MetAtBy(s, i, n, id, dir)
    <3>1. PartOp(s[i]) /\ Len(s) \in Nat
          /\ (s[i].do = "check" => \A k \in 1..(i-1) : s[k].do = "survive" => s[k].at # s[i].at)
      BY <2>1, <2>2 DEF Part
    <3>2. s[i].do = "check" /\ n = s[i].at /\ id = s[i].id /\ dir[n] = id
      BY <2>2, <3>1 DEF PartOp, Relies
    <3>3. ASSUME NEW k \in 1..(i-1) PROVE ~Drops(s[k], n)
      <4>1. k \in 1..Len(s)
        BY <3>1, <2>2, <3>3
      <4>2. PartOp(s[k])
        BY <2>1, <4>1 DEF Part
      <4> QED
        BY <3>1, <3>2, <3>3, <4>2 DEF PartOp, Drops
    <3> QED
      BY <3>2, <3>3 DEF MetAtBy
  <2>3. MetBy(s, dir)
    BY <2>2 DEF MetBy
  <2> QED
    BY <2>1, <2>3 DEF s
<1> QED
  BY <1>1, <1>2 DEF Starts

\* A link is made from what is published.
LEMMA LinkingMet ==
  ASSUME NEW op, dir[op.at] = op.id, op.do = "publish", At(op.at) = op.at, NEW a, a = Linking(op)
  PROVE  /\ \A i \in 1..Len(a), n \in Names, id \in {"source", "copy", "staged"} :
              Relies(a[i], n, id) => MetAtBy(a, i, n, id, dir)
         /\ \A i \in 1..Len(a), n \in Names : Drops(a[i], n) => Drops(op, n)
         /\ \A n \in Names, id \in {"source", "copy", "staged"} : Gives(op, n, id) =>
              \E j \in 1..Len(a) : Gives(a[j], n, id) /\ \A k \in (j+1)..Len(a) : ~Drops(a[k], n)
<1>1. /\ Len(a) = 4
      /\ a[1].do = "check" /\ a[2].do = "noteLink" /\ a[3].do = "link" /\ a[4].do = "confirmLink"
      /\ a[1].at = op.at /\ a[2].at = op.at /\ a[3].at = op.at /\ a[4].at = op.at
      /\ a[1].id = op.id /\ a[2].id = op.id /\ a[3].id = op.id /\ a[4].id = op.id
  BY DEF Linking, Check, Op
<1>2. \A i : i \in 1..4 => i = 1 \/ i = 2 \/ i = 3 \/ i = 4
  OBVIOUS
<1>3. \A i \in 1..4, n \in Names : ~Drops(a[i], n)
  BY <1>1, <1>2 DEF Drops
<1>4. ASSUME NEW i \in 1..Len(a), NEW n \in Names, NEW id \in {"source", "copy", "staged"}, Relies(a[i], n, id)
      PROVE  MetAtBy(a, i, n, id, dir)
  <2>1. i \in 1..4 /\ \A k \in 1..(i-1) : k \in 1..4
    BY <1>1, <1>4
  <2>2. CASE n = op.at /\ id = op.id
    BY <1>3, <2>1, <2>2 DEF MetAtBy
  <2>3. CASE i = 4 /\ n = At("tgt") /\ id = op.id
    <3>1. Gives(a[3], n, id) /\ 3 \in 1..(i-1) /\ \A k \in (3+1)..(i-1) : FALSE
      BY <1>1, <2>3 DEF Gives
    <3> QED
      BY <3>1 DEF MetAtBy
  <2>4. (n = op.at /\ id = op.id) \/ (i = 4 /\ n = At("tgt") /\ id = op.id)
    BY <1>1, <1>2, <1>4, <2>1 DEF Relies
  <2> QED
    BY <2>2, <2>3, <2>4
<1>5. ASSUME NEW n \in Names, NEW id \in {"source", "copy", "staged"}, Gives(op, n, id)
      PROVE  \E j \in 1..Len(a) : Gives(a[j], n, id) /\ \A k \in (j+1)..Len(a) : ~Drops(a[k], n)
  <2>1. Gives(a[3], n, id)
    BY <1>1, <1>5 DEF Gives
  <2>2. 3 \in 1..Len(a) /\ \A k \in (3+1)..Len(a) : k \in 1..4
    BY <1>1
  <2> QED
    BY <1>3, <2>1, <2>2
<1> QED
  BY <1>1, <1>3, <1>4, <1>5

\* What a removal does relies on nothing more.
LEMMA RemovalMet ==
  ASSUME NEW op, op.do = "survive", NEW c, NEW a, a = Removal(op, c)
  PROVE  /\ \A i \in 1..Len(a), n \in Names, id \in {"source", "copy", "staged"} : ~Relies(a[i], n, id)
         /\ \A i \in 1..Len(a), n \in Names : Drops(a[i], n) => Drops(op, n)
         /\ \A n \in Names, id \in {"source", "copy", "staged"} : ~Gives(op, n, id)
<1>1. /\ Len(a) = 3
      /\ a[1].do = "isolate" /\ a[2].do = "erase" /\ a[3].do = "forget"
      /\ a[1].at = op.at
  <2> DEFINE x == Op("isolate", op.at, op.id)
             y == [Op("erase", op.at, op.id) EXCEPT !.to = c[1], !.by = c[2]]
             z == Op("forget", op.at, op.id)
  <2>1. x.do = "isolate" /\ x.at = op.at /\ y.do = "erase" /\ z.do = "forget"
    BY DEF Op
  <2>2. a = <<x, y, z>>
    BY DEF Removal
  <2> HIDE DEF x, y, z
  <2> QED
    BY <2>1, <2>2
<1>2. \A i : i \in 1..3 => i = 1 \/ i = 2 \/ i = 3
  OBVIOUS
<1>3. \A i \in 1..Len(a) : a[i].do \in {"isolate", "erase", "forget"} /\ (a[i].do = "isolate" => a[i].at = op.at)
  BY <1>1, <1>2
<1> QED
  BY <1>3 DEF Relies, Drops, Gives

\* Operations put in front, a cross-device copy or a link's, find and provide what the rest
\* relies on.
LEMMA ProlongsMet ==
  ASSUME Given, Steady, Prolongs
  PROVE  MetBy(todo', dir')
<1> DEFINE op == Head(todo)
<1>1. /\ todo # <<>> /\ op = todo[1] /\ op \in Ops /\ UNCHANGED dir /\ todo \in Seq(Ops) /\ MetBy(todo, dir)
      /\ TypeOK /\ Staged
      /\ stage = "commit" => op \in Line(rec.mode)
      /\ rec \in Records
  <2>1. todo # <<>>
    BY DEF Prolongs
  <2> QED
    BY <2>1, Standing, HeadSteady, MetNow DEF Steady, Prolongs
<1>2. CASE /\ stage = "commit" /\ op.do = "publish" /\ op.at = "src" /\ dir["src"] = "source"
           /\ todo' = <<Check("src", "source"), Op("copyMode", "src", "none")>>
  <2> DEFINE s == <<Check("src", "source"), Op("copyMode", "src", "none")>>
  <2>1. /\ Len(s) = 2 /\ s[1].do = "check" /\ s[1].at = "src" /\ s[1].id = "source" /\ s[2].do = "copyMode"
    BY DEF Check, Op, At
  <2> HIDE DEF s
  <2>2. \A i : i \in 1..2 => i = 1 \/ i = 2
    OBVIOUS
  <2>3. ASSUME NEW i \in 1..Len(s), NEW n \in Names, NEW id \in {"source", "copy", "staged"}, Relies(s[i], n, id)
        PROVE  MetAtBy(s, i, n, id, dir)
    <3>1. n = "src" /\ id = "source"
      BY <2>1, <2>2, <2>3 DEF Relies
    <3>2. \A k \in 1..(i-1) : ~Drops(s[k], n)
      BY <2>1, <2>2, <2>3 DEF Drops
    <3> QED
      BY <1>2, <3>1, <3>2 DEF MetAtBy
  <2>4. MetBy(s, dir)
    BY <2>3 DEF MetBy
  <2> QED
    BY <1>1, <1>2, <2>4 DEF s
<1>3. CASE /\ stage = "commit" /\ op.do = "publish" /\ dir[op.at] = op.id
           /\ todo' = Linking(op) \o Tail(todo)
  <2>1. op.at \in {"src", "priv"} /\ At(op.at) = op.at
    <3>1. op \in Ops /\ op.do = "publish"
      BY <1>1, <1>3
    <3> HIDE DEF op
    <3>2. op.at \in {"src", "priv"}
      BY <3>1 DEF Ops
    <3> QED
      BY <3>2 DEF At
  <2> DEFINE a == Linking(op)
             t == todo'
             S == Ops \cup {a[i] : i \in 1..4}
  <2>2. a \in Seq(S) /\ t = a \o Tail(todo)
    <3>1. a \in Seq({a[i] : i \in 1..4})
      BY DEF Linking
    <3> HIDE DEF a
    <3> QED
      BY <1>3, <3>1, Wider DEF a
  <2>3. todo \in Seq(S)
    BY <1>1, Wider
  <2>4. op = todo[1] /\ dir[op.at] = op.id /\ op.do = "publish"
    BY <1>1, <1>3
  <2>5. /\ \A i \in 1..Len(a), n \in Names, id \in {"source", "copy", "staged"} :
             Relies(a[i], n, id) => MetAtBy(a, i, n, id, dir)
        /\ \A i \in 1..Len(a), n \in Names : Drops(a[i], n) => Drops(todo[1], n)
        /\ \A n \in Names, id \in {"source", "copy", "staged"} : Gives(todo[1], n, id) =>
             \E j \in 1..Len(a) : Gives(a[j], n, id) /\ \A k \in (j+1)..Len(a) : ~Drops(a[k], n)
    <3> HIDE DEF op
    <3>1. a = Linking(op)
      OBVIOUS
    <3> HIDE DEF a, S, t
    <3> QED
      BY <2>1, <2>4, <3>1, LinkingMet
  <2> HIDE DEF a, S, t, op
  <2>6. MetBy(t, dir)
    BY <1>1, <2>2, <2>3, <2>5, MetFront
  <2> QED
    BY <1>1, <2>6 DEF t
<1>4. CASE stage # "commit" /\ op.do = "survive" /\ \E c : todo' = Removal(op, c) \o Tail(todo)
  <2>1. PICK c : todo' = Removal(op, c) \o Tail(todo)
    BY <1>4
  <2> DEFINE a == Removal(op, c)
             t == todo'
             S == Ops \cup {a[i] : i \in 1..3}
  <2>2. a \in Seq(S) /\ t = a \o Tail(todo)
    <3>1. a \in Seq({a[i] : i \in 1..3})
      BY DEF Removal
    <3> HIDE DEF a
    <3> QED
      BY <2>1, <3>1, Wider DEF a
  <2>3. todo \in Seq(S)
    BY <1>1, Wider
  <2>4. op = todo[1] /\ op.do = "survive"
    BY <1>1, <1>4
  <2>5. /\ \A i \in 1..Len(a), n \in Names, id \in {"source", "copy", "staged"} : ~Relies(a[i], n, id)
        /\ \A i \in 1..Len(a), n \in Names : Drops(a[i], n) => Drops(todo[1], n)
        /\ \A n \in Names, id \in {"source", "copy", "staged"} : ~Gives(todo[1], n, id)
    <3> HIDE DEF op
    <3>1. a = Removal(op, c)
      OBVIOUS
    <3> HIDE DEF a, S, t
    <3> QED
      BY <2>4, <3>1, RemovalMet
  <2> HIDE DEF a, S, t, op
  <2>6. MetBy(t, dir)
    BY <1>1, <2>2, <2>3, <2>5, MetFront
  <2> QED
    BY <1>1, <2>6 DEF t
<1>5. CASE /\ stage # "commit" /\ op.do = "resume" /\ todo = Resuming
           /\ todo' = <<Op("survive", jrnl.removal.at, jrnl.removal.id)>> \o Tail(todo)
  <2> DEFINE x == Op("survive", jrnl.removal.at, jrnl.removal.id)
             y == Op("recover", "src", "none")
  <2>1. x.do = "survive" /\ y.do = "recover" /\ todo' = <<x>> \o <<y>>
    BY <1>5 DEF Op, Resuming
  <2> HIDE DEF x, y
  <2>2. todo' = <<x, y>>
    BY <2>1, Pair
  <2>3. \A i \in 1..Len(todo') : todo'[i].do \in {"survive", "recover"}
    BY <2>1, <2>2
  <2> QED
    BY <2>3, IdleMet
<1>6. CASE stage # "commit" /\ op.do = "recover" /\ todo' = Recovery(rec)
  <2>1. CASE Recovery(rec) = Quarantine
    <3>1. \A i \in 1..Len(todo') : todo'[i].do = "quarantine"
      BY <1>6, <2>1 DEF Quarantine, Op
    <3> QED
      BY <3>1, IdleMet
  <2>2. CASE Recovery(rec) \in Seq(Bare) /\ Quiets(Recovery(rec))
    <3> DEFINE s == Recovery(rec)
    <3>1. s \in Seq(Bare) /\ Quiets(s)
      BY <2>2
    <3> HIDE DEF s
    <3>2. ASSUME NEW i \in 1..Len(s)
          PROVE  /\ s[i].do \notin {"check", "noteLink", "confirmLink", "copyMode"}
                 /\ s[i].do = "advance" => s[i].id # "target_staged"
      <4>1. s[i] \in Bare /\ Quiet(s[i])
        BY <3>1, <3>2 DEF Quiets
      <4> QED
        BY <4>1 DEF Bare, Clearing, Quiet
    <3>3. MetBy(s, dir')
      BY <3>2, IdleMet
    <3> QED
      BY <1>6, <3>3 DEF s
  <2> QED
    BY <1>1, <1>6, <2>1, <2>2, RecoveryQuiet
<1> QED
  BY <1>2, <1>3, <1>4, <1>5, <1>6 DEF Prolongs

\* What an operation does to the files.
LEMMA ShortensMet ==
  ASSUME Given, Steady, [Next]_vars, ~Tamper, Shortens
  PROVE  MetBy(Tail(todo), dir')
<1> DEFINE op == Head(todo)
<1>1. /\ todo # <<>> /\ op = todo[1] /\ op \in Ops /\ todo \in Seq(Ops) /\ MetBy(todo, dir)
      /\ dir \in [Names -> Artifacts] /\ dir["priv"] \in {"none", "partial", "copy"}
      /\ At("tgt") \in Names
  <2>1. todo # <<>>
    BY DEF Shortens
  <2> QED
    BY <2>1, Standing, HeadSteady, MetNow DEF Steady, Placed, Names
<1>2. ASSUME NEW n \in Names, NEW id \in {"source", "copy", "staged"},
             (dir[n] = id /\ ~Drops(op, n)) \/ Gives(op, n, id)
      PROVE  dir'[n] = id
  <2>1. CASE Acts
    <3>1. /\ op.do \in FileOps /\ Verified(op) /\ Applied(op)
      BY <2>1 DEF Acts
    <3>2. CASE op.do = "move"
      <4>1. /\ dir[op.to] = "none" /\ dir' = [dir EXCEPT ![op.at] = "none", ![op.to] = op.id]
        BY <3>1, <3>2 DEF Verified, Applied
      <4>2. n # op.at /\ n # op.to /\ dir[n] = id
        BY <1>2, <3>2, <4>1 DEF Drops, Gives
      <4> HIDE DEF op
      <4> QED
        BY <1>1, <4>1, <4>2
    <3>3. CASE op.do = "link"
      <4>1. /\ dir[At("tgt")] = "none" /\ dir' = [dir EXCEPT ![At("tgt")] = op.id]
        BY <3>1, <3>3 DEF Verified, Applied, Seen
      <4>2. (n = At("tgt") /\ id = op.id) \/ dir[n] = id
        BY <1>2, <3>3 DEF Gives
      <4> HIDE DEF op
      <4> QED
        BY <1>1, <4>1, <4>2
    <3>4. CASE op.do = "open"
      <4>1. /\ dir["priv"] = "none" /\ dir' = [dir EXCEPT !["priv"] = "partial"]
        BY <3>1, <3>4 DEF Verified, Applied
      <4>2. dir[n] = id
        BY <1>2, <3>4 DEF Gives
      <4> HIDE DEF op
      <4> QED
        BY <1>1, <4>1, <4>2
    <3>5. CASE op.do = "copy"
      <4>1. /\ dir' = [dir EXCEPT !["priv"] = "copy"]
        BY <3>1, <3>5 DEF Applied
      <4>2. dir[n] = id \/ (n = "priv" /\ id = "copy")
        BY <1>2, <3>5 DEF Gives
      <4> HIDE DEF op
      <4> QED
        BY <1>1, <4>1, <4>2
    <3>6. CASE op.do = "isolate"
      <4>1. /\ dir' = [dir EXCEPT ![op.at] = "none"]
        BY <3>1, <3>6 DEF Applied
      <4>2. n # op.at /\ dir[n] = id
        BY <1>2, <3>6 DEF Gives, Drops
      <4> HIDE DEF op
      <4> QED
        BY <1>1, <4>1, <4>2
    <3>7. CASE op.do \in {"flush", "erase"}
      <4>1. dir' = dir
        BY <3>1, <3>7 DEF Applied
      <4>2. dir[n] = id
        BY <1>2, <3>7 DEF Gives
      <4> QED
        BY <4>1, <4>2
    <3> QED
      BY <3>1, <3>2, <3>3, <3>4, <3>5, <3>6, <3>7 DEF FileOps
  <2>2. CASE Renames
    <3>1. /\ op.do = "publish" /\ dir[At("tgt")] = "none" /\ dir[op.at] = op.id
          /\ dir' = [dir EXCEPT ![op.at] = "none", ![At("tgt")] = op.id]
      BY <2>2 DEF Renames, Seen
    <3>2. (n = At("tgt") /\ id = op.id) \/ (dir[n] = id /\ n # op.at)
      BY <1>2, <3>1 DEF Gives, Drops
    <3> HIDE DEF op
    <3> QED
      BY <1>1, <3>1, <3>2
  <2>3. CASE (op.do = "check" \/ Notes) /\ UNCHANGED dir
    <3>1. op.do \notin {"publish", "link", "copy"}
      BY <2>3 DEF Notes, JournalOps
    <3> QED
      BY <1>2, <2>3, <3>1 DEF Gives
  <2> QED
    BY <2>1, <2>2, <2>3 DEF Shortens, Notes
<1> HIDE DEF op
<1> QED
  BY <1>1, <1>2, MetRest

\* What it relies on stays or comes to be there.
LEMMA MetStep ==
  ASSUME Given, Steady, [Next]_vars, ~Tamper
  PROVE  Met(todo)'
<1>1. UNCHANGED plan
  BY Standing, FilesStep DEF Given, Steady
<1>2. CASE todo' = <<>>
  <2>1. MetBy(todo', dir')
    BY <1>2 DEF MetBy
  <2> QED
    BY <1>1, <2>1, MetNow
<1>3. CASE UNCHANGED vars
  <2>1. MetBy(todo, dir) /\ UNCHANGED <<todo, dir>>
    BY <1>3, MetNow DEF vars, Steady
  <2>2. MetBy(todo', dir')
    BY <2>1
  <2> QED
    BY <1>1, <2>2, MetNow
<1>4. CASE Begins
  <2>1. rec' \in Records /\ todo' = Forward(rec') /\ plan.kind # "replaceInPlace" /\ dir'["src"] = "source"
    BY <1>4 DEF Begins, Given
  <2>2. MetBy(todo', dir')
    BY <2>1, ForwardMet
  <2> QED
    BY <1>1, <2>2, MetNow
<1>5. CASE Shortens
  <2>1. todo' = Tail(todo)
    BY <1>5 DEF Shortens
  <2>2. MetBy(Tail(todo), dir')
    BY <1>5, ShortensMet
  <2> QED
    BY <1>1, <2>1, <2>2, MetNow
<1> QED
  BY <1>1, <1>2, <1>3, <1>4, <1>5, StartsMet, ProlongsMet, MetNow, SteadyPrograms

\* What remains of a commit, with what its first operation noted.
LEMMA DueRest ==
  ASSUME NEW S, NEW s \in Seq(S), s # <<>>, NEW r, Due(s, r), NEW q,
         s[1].do \notin {"noteLink", "confirmLink"} => q.link = r.link,
         r.phase # "prepared" \/ s[1].do = "advance" => q.phase # "prepared",
         s[1].do \notin {"advance", "install"} => q.phase = r.phase
  PROVE  Due(Tail(s), q)
<1> DEFINE t == Tail(s)
<1>1. Len(s) \in Nat \ {0} /\ Len(t) = Len(s) - 1 /\ \A i \in 1..Len(t) : t[i] = s[i+1] /\ i+1 \in 1..Len(s)
  BY Rest
<1> HIDE DEF t
<1>2. ASSUME NEW i \in 1..Len(t), NEW j \in 1..((i+1)-1)
      PROVE  j = 1 \/ (j - 1 \in 1..(i-1) /\ t[j-1] = s[j])
  BY <1>1, <1>2
<1>3. ASSUME NEW i \in 1..Len(t)
      PROVE  /\ 1 \in 1..((i+1)-1)
             /\ \A j \in 1..(i-1) : j+1 \in 1..((i+1)-1) /\ t[j] = s[j+1]
  BY <1>1
<1>4. ASSUME NEW i \in 1..Len(t), t[i].do \in {"publish", "copyMode"}
      PROVE  q.link = "none" /\ \A j \in 1..(i-1) : t[j].do \notin {"noteLink", "confirmLink", "publish"}
  <2>1. t[i] = s[i+1] /\ i+1 \in 1..Len(s)
    BY <1>1
  <2>2. r.link = "none" /\ \A j \in 1..((i+1)-1) : s[j].do \notin {"noteLink", "confirmLink", "publish"}
    BY <1>4, <2>1 DEF Due
  <2> QED
    BY <1>3, <2>2
<1>5. ASSUME NEW i \in 1..Len(t), t[i].do \in {"publish", "link"}, t[i].at = "priv"
      PROVE  q.phase # "prepared" \/ \E j \in 1..(i-1) : t[j].do = "advance"
  <2>1. t[i] = s[i+1] /\ i+1 \in 1..Len(s)
    BY <1>1
  <2>2. r.phase # "prepared" \/ \E j \in 1..((i+1)-1) : s[j].do = "advance"
    BY <1>5, <2>1 DEF Due
  <2> QED
    BY <1>2, <2>2
<1>6. ASSUME NEW i \in 1..Len(t), t[i].do \in {"open", "copyMode"} \/ (t[i].do = "publish" /\ t[i].at = "src")
      PROVE  q.phase = "prepared" /\ \A j \in 1..(i-1) : t[j].do \notin {"advance", "install"}
  <2>1. t[i] = s[i+1] /\ i+1 \in 1..Len(s)
    BY <1>1
  <2>2. r.phase = "prepared" /\ \A j \in 1..((i+1)-1) : s[j].do \notin {"advance", "install"}
    BY <1>6, <2>1 DEF Due
  <2> QED
    BY <1>3, <2>2
<1>7. Due(t, q)
  BY <1>4, <1>5, <1>6 DEF Due
<1> QED
  BY <1>7 DEF t

\* A publication that is done by a link.
LEMMA DueLink ==
  ASSUME NEW S, NEW s \in Seq(S), s # <<>>, NEW r, Due(s, r), s[1].do = "publish",
         NEW at, NEW id, at = "priv" => r.phase # "prepared",
         NEW t,
         t = <<Op("check", at, id), Op("noteLink", at, id), Op("link", at, id), Op("confirmLink", at, id)>> \o Tail(s)
  PROVE  Due(t, r)
<1> DEFINE b == Tail(s)
<1>1. /\ b \in Seq(S) /\ Len(s) \in Nat \ {0} /\ Len(b) = Len(s) - 1
      /\ \A i \in 1..Len(b) : b[i] = s[i+1] /\ i+1 \in 1..Len(s)
  BY Rest
<1> HIDE DEF b
<1>2. ASSUME NEW i \in 1..Len(b) PROVE b[i].do \notin {"publish", "copyMode"}
  <2>1. b[i] = s[i+1] /\ i+1 \in 1..Len(s) /\ 1 \in 1..((i+1)-1)
    BY <1>1
  <2> QED
    BY <2>1 DEF Due
<1>3. /\ Len(b) \in Nat /\ Len(t) = 4 + Len(b)
      /\ t[1] = Op("check", at, id) /\ t[2] = Op("noteLink", at, id)
      /\ t[3] = Op("link", at, id) /\ t[4] = Op("confirmLink", at, id)
      /\ \A i \in 5..(4 + Len(b)) : t[i] = b[i - 4]
  BY <1>1, InFront DEF b
<1>4. /\ t[1].do = "check" /\ t[2].do = "noteLink" /\ t[3].do = "link" /\ t[4].do = "confirmLink"
      /\ t[3].at = at
  BY <1>3 DEF Op
<1>5. ASSUME NEW i \in 1..Len(t)
      PROVE  i \in {1, 2, 3, 4} \/ (i \in 5..(4 + Len(b)) /\ i - 4 \in 1..Len(b) /\ t[i] = b[i - 4])
  BY <1>3, <1>5
<1>6. \A i \in 1..Len(t) : t[i].do \notin {"publish", "copyMode"}
  BY <1>2, <1>4, <1>5
<1>7. ASSUME NEW i \in 1..Len(t), t[i].do \in {"publish", "link"}, t[i].at = "priv"
      PROVE  r.phase # "prepared" \/ \E j \in 1..(i-1) : t[j].do = "advance"
  <2>1. CASE i \in {1, 2, 3, 4}
    BY <1>4, <1>7, <2>1
  <2>2. CASE i \in 5..(4 + Len(b)) /\ i - 4 \in 1..Len(b) /\ t[i] = b[i - 4]
    <3> DEFINE m == i - 4
    <3>1. m \in 1..Len(b) /\ t[i] = b[m] /\ b[m] = s[m+1] /\ m+1 \in 1..Len(s) /\ i = m + 4
      <4>1. m \in 1..Len(b) /\ t[i] = b[m] /\ i = m + 4
        BY <2>2
      <4> HIDE DEF m
      <4> QED
        BY <1>1, <4>1
    <3> HIDE DEF m
    <3>2. r.phase # "prepared" \/ \E j \in 1..((m+1)-1) : s[j].do = "advance"
      BY <1>7, <3>1 DEF Due
    <3>3. ASSUME NEW j \in 1..((m+1)-1), s[j].do = "advance" PROVE \E k \in 1..(i-1) : t[k].do = "advance"
      <4>1. j # 1
        BY <3>3
      <4>2. j - 1 \in 1..Len(b) /\ b[j-1] = s[j]
        BY <1>1, <3>1, <3>3, <4>1
      <4>3. (j + 3) \in 5..(4 + Len(b)) /\ (j + 3) - 4 = j - 1 /\ j + 3 \in 1..(i-1)
        BY <3>1, <3>3, <4>1, <4>2
      <4>4. t[j + 3] = b[j - 1]
        BY <1>3, <4>3
      <4> QED
        BY <3>3, <4>2, <4>3, <4>4
    <3> QED
      BY <3>2, <3>3
  <2> QED
    BY <1>5, <2>1, <2>2
<1>8. ASSUME NEW i \in 1..Len(t), t[i].do = "open"
      PROVE  r.phase = "prepared" /\ \A j \in 1..(i-1) : t[j].do \notin {"advance", "install"}
  <2>1. i \in 5..(4 + Len(b)) /\ i - 4 \in 1..Len(b) /\ t[i] = b[i - 4]
    BY <1>4, <1>5, <1>8
  <2> DEFINE m == i - 4
  <2>2. m \in 1..Len(b) /\ t[i] = b[m] /\ i = m + 4
    BY <2>1
  <2> HIDE DEF m
  <2>3. b[m] = s[m+1] /\ m+1 \in 1..Len(s)
    BY <1>1, <2>2
  <2>4. r.phase = "prepared" /\ \A j \in 1..((m+1)-1) : s[j].do \notin {"advance", "install"}
    BY <1>8, <2>2, <2>3 DEF Due
  <2>5. ASSUME NEW j \in 1..(i-1) PROVE t[j].do \notin {"advance", "install"}
    <3>1. j \in 1..Len(t)
      BY <1>3, <1>8, <2>5
    <3>2. CASE j \in {1, 2, 3, 4}
      BY <1>4, <3>2
    <3>3. CASE j \in 5..(4 + Len(b)) /\ j - 4 \in 1..Len(b) /\ t[j] = b[j - 4]
      <4> DEFINE k == j - 4
      <4>1. k \in 1..Len(b) /\ t[j] = b[k] /\ k + 1 \in 1..((m+1)-1)
        BY <2>2, <2>5, <3>3
      <4> HIDE DEF k
      <4>2. b[k] = s[k+1]
        BY <1>1, <4>1
      <4> QED
        BY <2>4, <4>1, <4>2
    <3> QED
      BY <1>5, <3>1, <3>2, <3>3
  <2> QED
    BY <2>4, <2>5
<1> QED
  BY <1>6, <1>7, <1>8 DEF Due

\* A commit that begins publishes when its time has come.
LEMMA ForwardDue ==
  ASSUME NEW q \in Records, plan.kind # "replaceInPlace", q.phase = "prepared", q.link = "none"
  PROVE  Due(Forward(q), q)
<1> DEFINE s == Forward(q)
<1> SUFFICES Due(s, q)
  OBVIOUS
<1>1. CASE s = InPlaceProgram
  <2>1. \A i \in 1..Len(s) : s[i].do \in {"check", "flush", "install", "commit"}
    BY <1>1 DEF InPlaceProgram, Op
  <2> HIDE DEF s
  <2> QED
    BY <2>1 DEF Due
<1>2. CASE s = MoveProgram
  <2>1. /\ \A i \in 1..Len(s) : i = 1 \/ s[i].do \in {"check", "flush", "install", "commit"}
        /\ s[1].do = "publish" /\ s[1].at = "src"
    BY <1>2 DEF MoveProgram, Op
  <2>2. \A j : j \in 1..(1-1) => FALSE
    OBVIOUS
  <2> HIDE DEF s
  <2> QED
    BY <2>1, <2>2 DEF Due
<1>3. CASE s = CopyProgram
  <2>1. /\ \A i \in 1..Len(s) : /\ s[i].do \in {"publish", "copyMode"} => i = 7
                                /\ s[i].do = "open" => i = 2
                                /\ s[i].do # "link"
        /\ s[7].at = "priv" /\ s[5].do = "advance" /\ s[7].do = "publish"
        /\ s[1].do = "notePrivate"
    BY <1>3 DEF CopyProgram, Op
  <2>2. \A j \in 1..6 : s[j].do \notin {"noteLink", "confirmLink", "publish"}
    BY <1>3 DEF CopyProgram, Op
  <2>3. (\A j : j \in 1..(7-1) => j \in 1..6) /\ (\A j : j \in 1..(2-1) => j = 1) /\ 5 \in 1..(7-1)
    OBVIOUS
  <2> HIDE DEF s
  <2> QED
    BY <2>1, <2>2, <2>3 DEF Due
<1> QED
  BY <1>1, <1>2, <1>3, ForwardForms

\* A commit publishes when its time has come.
LEMMA DueStep ==
  ASSUME Given, Steady, [Next]_vars, ~Tamper, stage' = "commit"
  PROVE  Due(todo', rec')
<1> DEFINE op == Head(todo)
<1>1. todo \in Seq(Ops) /\ TypeOK /\ Staged /\ rec \in Records
  BY Standing DEF Steady
<1>2. CASE todo' = <<>>
  BY <1>2 DEF Due
<1>3. CASE UNCHANGED vars
  <2>1. UNCHANGED <<todo, rec, stage>>
    BY <1>3 DEF vars
  <2>2. Due(todo, rec)
    BY <2>1 DEF Steady
  <2> QED
    BY <2>1, <2>2
<1>4. CASE Begins
  <2>1. /\ rec' \in Records /\ todo' = Forward(rec') /\ plan.kind # "replaceInPlace"
        /\ rec'.phase = "prepared" /\ rec'.link = "none"
    BY <1>4 DEF Begins, Given
  <2> QED
    BY <2>1, ForwardDue
<1>5. ASSUME todo # <<>>, stage = "commit"
      PROVE  /\ op = todo[1] /\ op \in Ops /\ Due(todo, rec) /\ op \in Line(rec.mode)
             /\ op.do = "publish" /\ op.at = "priv" => rec.phase # "prepared"
             /\ op.do = "publish" => rec.link = "none"
             /\ op.do = "publish" /\ op.at = "src" => rec.phase = "prepared"
  <2>1. 1 \in 1..Len(todo) /\ \A j : j \in 1..(1-1) => FALSE
    BY <1>1, <1>5, Ahead
  <2>2. op = todo[1] /\ op \in Ops /\ Due(todo, rec) /\ op \in Line(rec.mode)
    BY <1>5, HeadSteady DEF Steady
  <2>3. op.do = "publish" /\ op.at = "src" => rec.phase = "prepared"
    BY <2>1, <2>2 DEF Due
  <2> QED
    BY <1>5, <2>2, <2>3, HeadSteady
<1>6. CASE Prolongs
  <2>1. /\ todo # <<>> /\ stage = "commit" /\ rec' = rec
        /\ \/ /\ op.do = "publish" /\ op.at = "src"
              /\ todo' = <<Check("src", "source"), Op("copyMode", "src", "none")>>
           \/ op.do = "publish" /\ todo' = Linking(op) \o Tail(todo)
    BY <1>6 DEF Prolongs
  <2>2. /\ op = todo[1] /\ op \in Ops /\ Due(todo, rec) /\ op.do = "publish"
        /\ op.at = "priv" => rec.phase # "prepared"
        /\ rec.link = "none"
        /\ op.at = "src" => rec.phase = "prepared"
    BY <1>5, <2>1
  <2>3. CASE op.at = "src" /\ todo' = <<Check("src", "source"), Op("copyMode", "src", "none")>>
    <3> DEFINE s == <<Check("src", "source"), Op("copyMode", "src", "none")>>
    <3>1. Len(s) = 2 /\ s[1].do = "check" /\ s[2].do = "copyMode"
      BY DEF Check, Op
    <3>2. (\A i : i \in 1..2 => i = 1 \/ i = 2) /\ \A j : j \in 1..(2-1) => j = 1
      OBVIOUS
    <3> HIDE DEF s
    <3>3. Due(s, rec)
      BY <2>2, <2>3, <3>1, <3>2 DEF Due
    <3> QED
      BY <2>1, <2>3, <3>3 DEF s
  <2>4. CASE todo' = Linking(op) \o Tail(todo)
    <3>1. At(op.at) = op.at
      <4>1. op \in Ops /\ op.do = "publish"
        BY <2>2
      <4> HIDE DEF op
      <4>2. op.at \in {"src", "priv"}
        BY <4>1 DEF Ops
      <4> QED
        BY <4>2 DEF At
    <3> DEFINE at == op.at
               id == op.id
               t == todo'
    <3>2. t = <<Op("check", at, id), Op("noteLink", at, id), Op("link", at, id), Op("confirmLink", at, id)>> \o Tail(todo)
      BY <2>4, <3>1 DEF Linking, Check
    <3>3. at = "priv" => rec.phase # "prepared"
      BY <2>2
    <3>4. Due(todo, rec) /\ todo[1].do = "publish" /\ todo # <<>>
      BY <2>1, <2>2
    <3> HIDE DEF at, id, t, op
    <3>5. Due(t, rec)
      BY <1>1, <3>2, <3>3, <3>4, DueLink
    <3> QED
      BY <2>1, <3>5 DEF t
  <2> QED
    BY <2>1, <2>3, <2>4
<1>7. CASE Shortens
  <2>1. /\ todo # <<>> /\ stage = "commit" /\ todo' = Tail(todo)
        /\ \/ rec' = rec /\ op.do # "advance"
           \/ rec' = Patched(rec, op)
    BY <1>7 DEF Shortens, Acts, Renames, FileOps
  <2>2. op = todo[1] /\ op \in Ops /\ Due(todo, rec)
    BY <1>5, <2>1
  <2> HIDE DEF op
  <2>3. /\ op.do \notin {"noteLink", "confirmLink"} => rec'.link = rec.link
        /\ rec.phase # "prepared" \/ op.do = "advance" => rec'.phase # "prepared"
        /\ op.do \notin {"advance", "install", "commit"} => rec'.phase = rec.phase
    <3>1. CASE rec' = rec /\ op.do # "advance"
      BY <3>1
    <3>2. CASE rec' = Patched(rec, op)
      <4>1. op.do = "advance" => op.id # "prepared"
        BY <2>2 DEF Ops
      <4> QED
        BY <1>1, <2>2, <3>2, <4>1, PatchedNotes, PatchedPhase
    <3> QED
      BY <2>1, <3>1, <3>2
  <2>4. op.do = "commit" => rec' = rec
    BY <1>7, <2>2 DEF Shortens, op
  <2> DEFINE q == rec'
  <2>5. /\ todo[1].do \notin {"noteLink", "confirmLink"} => q.link = rec.link
        /\ rec.phase # "prepared" \/ todo[1].do = "advance" => q.phase # "prepared"
        /\ todo[1].do \notin {"advance", "install"} => q.phase = rec.phase
    BY <2>2, <2>3, <2>4
  <2> HIDE DEF q
  <2>6. Due(Tail(todo), q)
    BY <1>1, <2>1, <2>2, <2>5, DueRest
  <2> QED
    BY <2>1, <2>6 DEF q
<1>8. CASE Starts
  BY <1>8 DEF Starts
<1> QED
  BY <1>2, <1>3, <1>4, <1>6, <1>7, <1>8, SteadyPrograms

\* What Behind says, of a state of the journal and of the files.
BehindBy(s, j, c, d) ==
  Linked(j) /\ ~c =>
    \A i \in 1..Len(s) : s[i].do = "intend" /\ s[i].at = "priv" =>
      d["tgt"] = "none" \/ \E k \in 1..(i-1) : Takes(s[k], "tgt")

\* The order of a compensation's removals, with the state it reads as arguments.
LEMMA BehindNow ==
  /\ \A s : Behind(s) <=> BehindBy(s, jrnl, committed, dir)
  /\ BehindBy(todo', jrnl', committed', dir') => Behind(todo)'
<1>1. \A s : Behind(s) <=> BehindBy(s, jrnl, committed, dir)
  BY DEF Behind, BehindBy
<1>2. ASSUME BehindBy(todo', jrnl', committed', dir') PROVE Behind(todo)'
  BY <1>2 DEF Behind, BehindBy, Linked, Takes
<1> QED
  BY <1>1, <1>2

\* A program that announces no removal.
LEMMA NoneBehind ==
  ASSUME NEW s, \A i \in 1..Len(s) : s[i].do # "intend", NEW j, NEW c, NEW d
  PROVE  BehindBy(s, j, c, d)
BY DEF BehindBy

\* What remains of one, when its first operation left the target as it should.
LEMMA BehindRest ==
  ASSUME NEW S, NEW s \in Seq(S), s # <<>>, NEW j, NEW c, NEW d, BehindBy(s, j, c, d),
         NEW k, NEW b, NEW e, Linked(k) /\ ~b => Linked(j) /\ ~c,
         Linked(k) /\ ~b => (d["tgt"] = "none" \/ Takes(s[1], "tgt") => e["tgt"] = "none")
  PROVE  BehindBy(Tail(s), k, b, e)
<1> DEFINE t == Tail(s)
<1>1. Len(s) \in Nat \ {0} /\ Len(t) = Len(s) - 1 /\ \A i \in 1..Len(t) : t[i] = s[i+1] /\ i+1 \in 1..Len(s)
  BY Rest
<1> HIDE DEF t
<1>2. ASSUME NEW i \in 1..Len(t), NEW x \in 1..((i+1)-1)
      PROVE  x = 1 \/ (x - 1 \in 1..(i-1) /\ t[x-1] = s[x])
  BY <1>1, <1>2
<1>3. ASSUME Linked(k) /\ ~b, NEW i \in 1..Len(t), t[i].do = "intend", t[i].at = "priv"
      PROVE  e["tgt"] = "none" \/ \E x \in 1..(i-1) : Takes(t[x], "tgt")
  <2>1. t[i] = s[i+1] /\ i+1 \in 1..Len(s)
    BY <1>1
  <2>2. d["tgt"] = "none" \/ \E x \in 1..((i+1)-1) : Takes(s[x], "tgt")
    BY <1>3, <2>1 DEF BehindBy
  <2> QED
    BY <1>2, <1>3, <2>2
<1>4. BehindBy(t, k, b, e)
  BY <1>3 DEF BehindBy
<1> QED
  BY <1>4 DEF t

\* What a removal does in place of its second operation.
LEMMA BehindRemoval ==
  ASSUME NEW S, NEW s \in Seq(S), s # <<>>, NEW j, NEW c, NEW d, BehindBy(s, j, c, d),
         s[1].do = "survive", NEW m, NEW t, t = Removal(s[1], m) \o Tail(s)
  PROVE  BehindBy(t, j, c, d)
<1> DEFINE x == Op("isolate", s[1].at, s[1].id)
           y == [Op("erase", s[1].at, s[1].id) EXCEPT !.to = m[1], !.by = m[2]]
           z == Op("forget", s[1].at, s[1].id)
           a == <<x, y, z>>
           b == Tail(s)
           T == S \cup {x, y, z}
<1>1. x.do = "isolate" /\ x.at = s[1].at /\ y.do = "erase" /\ z.do = "forget"
  BY DEF Op
<1>2. t = a \o b
  BY DEF Removal
<1> HIDE DEF x, y, z
<1>3. a \in Seq(T) /\ Len(a) = 3 /\ a[1] = x /\ a[2] = y /\ a[3] = z
  OBVIOUS
<1>4. /\ b \in Seq(S) /\ Len(s) \in Nat \ {0} /\ Len(b) = Len(s) - 1
      /\ \A i \in 1..Len(b) : b[i] = s[i+1] /\ i+1 \in 1..Len(s)
  BY Rest
<1> HIDE DEF a, b
<1>5. b \in Seq(T)
  BY <1>4, Wider
<1> HIDE DEF T
<1>6. /\ Len(b) \in Nat /\ Len(t) = 3 + Len(b)
      /\ \A i \in 1..3 : t[i] = a[i]
      /\ \A i \in 1..Len(b) : t[3 + i] = b[i]
      /\ \A i \in 1..Len(t) : i \notin 1..3 => i - 3 \in 1..Len(b) /\ t[i] = b[i - 3]
  <2>1. a \in Seq(T)
    BY <1>3
  <2>2. /\ Len(b) \in Nat /\ Len(t) = Len(a) + Len(b)
        /\ \A i \in 1..Len(a) : t[i] = a[i]
        /\ \A i \in 1..Len(b) : t[Len(a) + i] = b[i]
        /\ \A i \in 1..Len(t) : i \notin 1..Len(a) => i - Len(a) \in 1..Len(b) /\ t[i] = b[i - Len(a)]
    BY ONLY <1>2, <1>5, <2>1, Halves
  <2> QED
    BY <1>3, <2>2
<1>7. ASSUME Linked(j) /\ ~c, NEW i \in 1..Len(t), t[i].do = "intend", t[i].at = "priv"
      PROVE  d["tgt"] = "none" \/ \E k \in 1..(i-1) : Takes(t[k], "tgt")
  <2>1. t[1] = x /\ t[2] = y /\ t[3] = z
    BY <1>3, <1>6
  <2>2. i \notin 1..3
    <3>1. i \in 1..3 => i = 1 \/ i = 2 \/ i = 3
      OBVIOUS
    <3> QED
      BY <1>1, <1>7, <2>1, <3>1
  <2> DEFINE n == i - 3
  <2>3. n \in 1..Len(b) /\ t[i] = b[n] /\ i = n + 3
    BY <1>6, <2>2
  <2> HIDE DEF n
  <2>4. b[n] = s[n+1] /\ n+1 \in 1..Len(s)
    BY <1>4, <2>3
  <2>5. d["tgt"] = "none" \/ \E k \in 1..((n+1)-1) : Takes(s[k], "tgt")
    BY <1>7, <2>3, <2>4 DEF BehindBy
  <2>6. ASSUME NEW k \in 1..((n+1)-1), Takes(s[k], "tgt") PROVE \E l \in 1..(i-1) : Takes(t[l], "tgt")
    <3>1. CASE k = 1
      <4>1. Takes(t[1], "tgt") /\ 1 \in 1..(i-1)
        BY <1>1, <2>1, <2>3, <2>6, <3>1 DEF Takes
      <4> QED
        BY <4>1
    <3>2. CASE k # 1
      <4> DEFINE l == k - 1
      <4>1. l \in 1..Len(b) /\ k = l + 1 /\ 3 + l \in 1..(i-1)
        BY <1>4, <2>3, <2>6, <3>2
      <4> HIDE DEF l
      <4>2. b[l] = s[k] /\ t[3 + l] = b[l]
        BY <1>4, <1>6, <4>1
      <4> QED
        BY <2>6, <4>1, <4>2
    <3> QED
      BY <3>1, <3>2
  <2> QED
    BY <2>5, <2>6
<1> QED
  BY <1>7 DEF BehindBy

\* What is put in front keeps the withdrawal of a private copy behind that of the link made
\* from it.
LEMMA ProlongsBehind ==
  ASSUME Given, Steady, Prolongs
  PROVE  BehindBy(todo', jrnl', committed', dir')
<1> DEFINE op == Head(todo)
<1>1. /\ todo # <<>> /\ op = todo[1] /\ op \in Ops /\ UNCHANGED <<dir, jrnl, committed>> /\ todo \in Seq(Ops)
      /\ BehindBy(todo, jrnl, committed, dir) /\ TypeOK /\ Staged
  <2>1. todo # <<>>
    BY DEF Prolongs
  <2> QED
    BY <2>1, Standing, HeadSteady, BehindNow DEF Steady, Prolongs
<1>2. CASE /\ stage = "commit" /\ op.do = "publish" /\ op.at = "src" /\ dir["src"] = "source"
           /\ todo' = <<Check("src", "source"), Op("copyMode", "src", "none")>>
  <2>1. \A i \in 1..Len(todo') : todo'[i].do \in {"check", "copyMode"}
    BY <1>2 DEF Check, Op
  <2> QED
    BY <2>1, NoneBehind
<1>3. CASE /\ stage = "commit" /\ op.do = "publish" /\ dir[op.at] = op.id
           /\ todo' = Linking(op) \o Tail(todo)
  <2> DEFINE t == todo'
             b == Tail(todo)
             w == Check(op.at, op.id)
             x == Op("noteLink", op.at, op.id)
             y == Op("link", op.at, op.id)
             z == Op("confirmLink", op.at, op.id)
  <2>1. w.do = "check" /\ x.do = "noteLink" /\ y.do = "link" /\ z.do = "confirmLink"
    BY DEF Check, Op
  <2>2. t = <<w, x, y, z>> \o b /\ b \in Seq(Forwarding)
    BY <1>1, <1>3, Ahead DEF Linking
  <2> HIDE DEF t, b, w, x, y, z
  <2>3. /\ Len(b) \in Nat /\ Len(t) = 4 + Len(b)
        /\ t[1] = w /\ t[2] = x /\ t[3] = y /\ t[4] = z
        /\ \A i \in 5..(4 + Len(b)) : t[i] = b[i - 4]
    BY <2>2, InFront
  <2>4. ASSUME NEW i \in 1..Len(t) PROVE t[i].do # "intend"
    <3>1. i \in {1, 2, 3, 4} \/ (i \in 5..(4 + Len(b)) /\ i - 4 \in 1..Len(b))
      BY <2>3, <2>4
    <3>2. CASE i \in {1, 2, 3, 4}
      BY <2>1, <2>3, <3>2
    <3>3. CASE i \in 5..(4 + Len(b)) /\ i - 4 \in 1..Len(b)
      <4>1. t[i] \in Forwarding
        BY <2>2, <2>3, <3>3
      <4> QED
        BY <4>1 DEF Forwarding
    <3> QED
      BY <3>1, <3>2, <3>3
  <2> QED
    BY <2>4, NoneBehind DEF t
<1>4. CASE stage # "commit" /\ op.do = "survive" /\ \E c : todo' = Removal(op, c) \o Tail(todo)
  <2>1. PICK m : todo' = Removal(op, m) \o Tail(todo)
    BY <1>4
  <2> DEFINE t == todo'
  <2>2. t = Removal(todo[1], m) \o Tail(todo) /\ todo[1].do = "survive"
    BY <1>1, <1>4, <2>1
  <2> HIDE DEF t
  <2>3. BehindBy(t, jrnl, committed, dir)
    BY <1>1, <2>2, BehindRemoval
  <2> QED
    BY <1>1, <2>3 DEF t
<1>5. CASE /\ stage # "commit" /\ op.do = "resume" /\ todo = Resuming
           /\ todo' = <<Op("survive", jrnl.removal.at, jrnl.removal.id)>> \o Tail(todo)
  <2> DEFINE x == Op("survive", jrnl.removal.at, jrnl.removal.id)
             y == Op("recover", "src", "none")
  <2>1. x.do = "survive" /\ y.do = "recover" /\ todo' = <<x>> \o <<y>>
    BY <1>5 DEF Op, Resuming
  <2> HIDE DEF x, y
  <2>2. todo' = <<x, y>>
    BY <2>1, Pair
  <2>3. \A i \in 1..Len(todo') : todo'[i].do # "intend"
    BY <2>1, <2>2
  <2> QED
    BY <2>3, NoneBehind
<1>6. CASE stage # "commit" /\ op.do = "recover" /\ todo' = Recovery(rec)
  <2> DEFINE s == Recovery(rec)
  <2>1. Behind(s)
    BY <1>1, <1>6, RecoveryBehind
  <2> HIDE DEF s
  <2>2. BehindBy(s, jrnl, committed, dir)
    BY <2>1, BehindNow
  <2> QED
    BY <1>1, <1>6, <2>2 DEF s
<1> QED
  BY <1>2, <1>3, <1>4, <1>5, <1>6 DEF Prolongs

\* Finishing an operation keeps the withdrawal of a private copy behind that of the link
\* made from it.
LEMMA ShortensBehind ==
  ASSUME Given, Steady, [Next]_vars, ~Tamper, Shortens
  PROVE  BehindBy(Tail(todo), jrnl', committed', dir')
<1> DEFINE op == Head(todo)
           T  == Tail(todo)
<1>1. /\ todo # <<>> /\ op = todo[1] /\ op \in Ops /\ todo \in Seq(Ops)
      /\ BehindBy(todo, jrnl, committed, dir) /\ TypeOK /\ Staged /\ Announcing
      /\ dir \in [Names -> Artifacts] /\ stage \in {"commit", "cleanup", "recover"}
  <2>1. todo # <<>>
    BY DEF Shortens
  <2> QED
    BY <2>1, Standing, HeadSteady, BehindNow DEF Steady, Given, Neat
<1>2. CASE stage = "commit"
  <2>1. T \in Seq(Forwarding)
    BY <1>1, <1>2, Ahead
  <2> HIDE DEF T
  <2>2. \A i \in 1..Len(T) : T[i].do # "intend"
    BY <2>1 DEF Forwarding
  <2>3. BehindBy(T, jrnl', committed', dir')
    BY <2>2, NoneBehind
  <2> QED
    BY <2>3 DEF T
<1>3. CASE stage # "commit" /\ T = <<>>
  <2> HIDE DEF T
  <2>1. \A i \in 1..Len(T) : T[i].do # "intend"
    BY <1>3
  <2>2. BehindBy(T, jrnl', committed', dir')
    BY <2>1, NoneBehind
  <2> QED
    BY <2>2 DEF T
<1>4. CASE stage # "commit" /\ T # <<>>
  <2>1. Linked(jrnl') /\ ~committed' => Linked(jrnl) /\ ~committed
    <3>1. CASE UNCHANGED <<jrnl, committed>>
      BY <3>1
    <3>2. CASE Notes /\ op.do \notin {"copyMode", "commit"}
      BY <1>4, <3>2, ClearingNotes
    <3> QED
      BY <3>1, <3>2 DEF Shortens, Acts, Renames
  <2>2. dir["tgt"] = "none" \/ Takes(op, "tgt") => dir'["tgt"] = "none"
    <3>1. CASE op.do = "check" \/ (Notes /\ op.do \notin {"copyMode", "commit"})
      <4>1. UNCHANGED dir
        BY <3>1 DEF Shortens, Notes, Acts, Renames, FileOps
      <4>2. ~Takes(op, "tgt")
        BY <3>1 DEF Takes, Notes, JournalOps
      <4> QED
        BY <4>1, <4>2
    <3>2. CASE Acts \/ Renames
      <4>1. CASE Moves
        BY <1>1, <4>1 DEF Moves, Names
      <4>2. CASE Isolates
        <5>1. op.do = "isolate" /\ op.at \in Names /\ dir' = [dir EXCEPT ![op.at] = "none"]
          BY <4>2 DEF Isolates
        <5> HIDE DEF op
        <5> QED
          BY <1>1, <5>1 DEF Takes, Names
      <4>3. CASE UNCHANGED dir
        <5>1. Takes(op, "tgt") => op.do = "isolate" \/ op.do = "move"
          BY <3>2 DEF Acts, Renames, FileOps, Takes
        <5>2. op.do = "isolate" => Acts /\ Applied(op) /\ op.at \in Names
          BY <1>1, <3>2 DEF Acts, Renames, Ops
        <5>3. op.do = "move" => Acts /\ Applied(op) /\ op.to = "src" /\ op.at \in Names
          <6>1. op.do = "move" => op.to = "src"
            BY <1>1, <1>4, HeadOfClearing
          <6> QED
            BY <1>1, <3>2, <6>1 DEF Acts, Renames, Ops
        <5>4. op.do = "isolate" => dir' = [dir EXCEPT ![op.at] = "none"]
          BY <5>2 DEF Applied
        <5>5. op.do = "move" => dir' = [dir EXCEPT ![op.at] = "none", ![op.to] = op.id]
          BY <5>3 DEF Applied
        <5> HIDE DEF op
        <5> QED
          BY <1>1, <4>3, <5>1, <5>2, <5>3, <5>4, <5>5 DEF Takes, Names
      <4> QED
        BY <1>1, <1>4, <4>1, <4>2, <4>3, SteadyDirs DEF Publishes, Copies
    <3> QED
      BY <3>1, <3>2 DEF Shortens
  <2> DEFINE k == jrnl'
             b == committed'
             e == dir'
  <2>3. /\ Linked(k) /\ ~b => Linked(jrnl) /\ ~committed
        /\ dir["tgt"] = "none" \/ Takes(todo[1], "tgt") => e["tgt"] = "none"
    BY <1>1, <2>1, <2>2
  <2> HIDE DEF k, b, e, op, T
  <2>4. BehindBy(Tail(todo), k, b, e)
    BY <1>1, <2>3, BehindRest
  <2> QED
    BY <2>4 DEF k, b, e
<1> QED
  BY <1>2, <1>3, <1>4

\* The private copy stays behind the link.
LEMMA BehindStep ==
  ASSUME Given, Steady, [Next]_vars, ~Tamper
  PROVE  Behind(todo)'
<1>1. CASE todo' = <<>>
  BY <1>1, NoneBehind, BehindNow
<1>2. CASE UNCHANGED vars
  <2>1. BehindBy(todo, jrnl, committed, dir) /\ UNCHANGED <<todo, dir, jrnl, committed>>
    BY <1>2, BehindNow DEF vars, Steady
  <2>2. BehindBy(todo', jrnl', committed', dir')
    BY <2>1
  <2> QED
    BY <2>2, BehindNow
<1>3. CASE Begins
  <2> DEFINE s == Forward(rec')
  <2>1. rec' \in Records /\ todo' = s /\ plan.kind # "replaceInPlace"
    BY <1>3 DEF Begins, Given
  <2>2. \A i \in 1..Len(s) : s[i].do # "intend"
    <3>1. s = InPlaceProgram \/ s = MoveProgram \/ s = CopyProgram
      BY <2>1, ForwardForms
    <3> HIDE DEF s
    <3>2. CASE s = InPlaceProgram
      BY <3>2 DEF InPlaceProgram, Op
    <3>3. CASE s = MoveProgram
      BY <3>3 DEF MoveProgram, Op
    <3>4. CASE s = CopyProgram
      BY <3>4 DEF CopyProgram, Op
    <3> QED
      BY <3>1, <3>2, <3>3, <3>4
  <2> HIDE DEF s
  <2>3. BehindBy(s, jrnl', committed', dir')
    BY <2>2, NoneBehind
  <2> QED
    BY <2>1, <2>3, BehindNow
<1>4. CASE Starts
  <2>1. CASE stage' = "recover" /\ todo' \in {<<Op("recover", "src", "none")>>, Resuming}
    <3>1. \A i \in 1..Len(todo') : todo'[i].do # "intend"
      BY <2>1 DEF Resuming, Op
    <3> QED
      BY <3>1, NoneBehind, BehindNow
  <2>2. CASE Notes /\ Head(todo).do = "commit"
    <3>1. committed'
      BY <2>2 DEF Notes
    <3>2. BehindBy(todo', jrnl', committed', dir')
      BY <3>1 DEF BehindBy
    <3> QED
      BY <3>2, BehindNow
  <2> QED
    BY <1>4, <2>1, <2>2 DEF Starts
<1>5. CASE Prolongs
  BY <1>5, ProlongsBehind, BehindNow
<1>6. CASE Shortens
  <2>1. todo' = Tail(todo)
    BY <1>6 DEF Shortens
  <2> QED
    BY <1>6, <2>1, ShortensBehind, BehindNow
<1> QED
  BY <1>1, <1>2, <1>3, <1>4, <1>5, <1>6, SteadyPrograms

\* At first there is nothing that could be wrong.
LEMMA SteadyInit == ASSUME Init PROVE Steady
<1>1. /\ dir["src"] = "source" /\ jrnl = NoRecord /\ todo = <<>> /\ stage = "idle" /\ committed = FALSE
  BY DEF Init, Names
<1>2. /\ ~jrnl.rb /\ jrnl.phase = "none" /\ jrnl.mode = "copy" /\ jrnl.link = "none" /\ jrnl.tgtId = "none"
  BY <1>1 DEF NoRecord
<1>3. Telling
  BY <1>1, <1>2 DEF Telling, Told
<1>4. Sited
  BY <1>1, <1>2 DEF Sited
<1>5. Pending
  BY <1>2 DEF Pending, Unfinished
<1>6. Calming
  BY <1>1 DEF Calming, Calms
<1>7. Met(todo)
  BY <1>1 DEF Met
<1>8. Behind(todo)
  BY <1>1 DEF Behind
<1> QED
  BY <1>1, <1>3, <1>4, <1>5, <1>6, <1>7, <1>8 DEF Steady

\* All of this stays so.
LEMMA SteadyStep ==
  ASSUME Given, Steady, [Next]_vars, ~Tamper
  PROVE  Steady'
<1>1. Telling' /\ Sited' /\ Pending'
  BY TellingStep, SitedStep, PendingStep
<1>2. Calming' /\ Met(todo)' /\ Behind(todo)'
  BY CalmingStep, MetStep, BehindStep
<1>3. ASSUME stage' = "commit" PROVE Due(todo, rec)'
  BY <1>3, DueStep DEF Due
<1> QED
  BY <1>1, <1>2, <1>3 DEF Steady

\* A recovery that gave up had a reason.
Reasoned == jrnl.phase = "quarantined" => dir["priv"] = "partial" \/ Doubtful

\* A recovery writes the phase quarantined only in front of one of the two reasons, and
\* both stay true after it.
LEMMA ReasonedStep ==
  ASSUME Given, Steady, Reasoned, [Next]_vars, ~Tamper
  PROVE  Reasoned'
<1> SUFFICES ASSUME jrnl'.phase = "quarantined" PROVE dir'["priv"] = "partial" \/ Doubtful'
  BY DEF Reasoned
<1>1. /\ TypeOK /\ Placed /\ Staged /\ Closed /\ UNCHANGED plan /\ jrnl \in Records
      /\ (todo = <<>> <=> stage = "idle")
  BY Standing, FilesStep DEF Given, Neat, Steady
<1>2. \* What stays as it is stays explained.
      (dir["priv"] = "partial" \/ Doubtful) /\ UNCHANGED dir /\ jrnl'.link = jrnl.link
        => dir'["priv"] = "partial" \/ Doubtful'
  BY <1>1 DEF Doubtful, Seen, At, SamePath
<1>3. CASE jrnl.phase = "quarantined"
  <2>1. todo = <<>> /\ stage = "idle"
    BY <1>1, <1>3 DEF Closed
  <2>2. UNCHANGED vars
    BY <1>3, <2>1, SteadyForms DEF Acts, Renames, Fails, Proceeds, Notes, QuarantineStep, Commit, Recover,
                                   Unfinished, Crash
  <2> QED
    BY <1>2, <1>3, <2>2 DEF vars, Reasoned
<1>4. CASE jrnl.phase # "quarantined"
  <2>1. ~(UNCHANGED jrnl)
    BY <1>4
  <2>2. ~Commit
    BY FreshTyped DEF Commit, Fresh, NoRecord
  <2>3. ~Notes
    <3>1. SUFFICES ASSUME Notes PROVE FALSE
      OBVIOUS
    <3>2. /\ jrnl'.phase = IF Head(todo).do = "advance" THEN Head(todo).id
                           ELSE IF Head(todo).do = "install" THEN "target_installed"
                           ELSE IF Head(todo).do = "commit" THEN "db_committed" ELSE jrnl.phase
          /\ Head(todo).do = "advance" => Head(todo).id \in {"target_staged", "cleaned"}
      BY <3>1, SteadyNotes
    <3> QED
      BY <1>4, <3>2
  <2>4. QuarantineStep
    BY <2>1, <2>2, <2>3, SteadyForms DEF Acts, Renames, Fails, Proceeds, Recover, Crash, vars
  <2>5. todo # <<>> /\ Head(todo).do = "quarantine" /\ UNCHANGED dir
        /\ jrnl' = [jrnl EXCEPT !.phase = "quarantined"]
    BY <2>4 DEF QuarantineStep, files
  <2>6. jrnl'.link = jrnl.link
    BY <1>1, <2>5 DEF Records
  <2> QED
    BY <1>2, <2>5, <2>6, HeadSteady
<1> QED
  BY <1>3, <1>4

\* What holds until another program touches the public names.
Explained == Untouched /\ plan.kind # "replaceInPlace" => Steady /\ Reasoned

\* One step of the specification, of any actor: the two parts stay true until another
\* program touches a name.
LEMMA ExplainedStep ==
  ASSUME IInv, Undecided, Untouched => Neat, Explained, [Next]_vars
  PROVE  Explained'
<1> SUFFICES ASSUME Untouched', plan'.kind # "replaceInPlace" PROVE Steady' /\ Reasoned'
  BY DEF Explained
<1>1. TypeOK /\ Placed /\ Staged
  BY DEF IInv
<1>2. Untouched /\ ~Tamper
  <2>1. tally \in Tallied
    BY <1>1 DEF TypeOK
  <2>2. Tamper => tally'.tampers = tally.tampers + 1 /\ tally.tampers \in 0..MaxTampers
    BY <2>1 DEF Tamper, Tallied
  <2>3. ~Tamper
    BY <2>2 DEF Untouched
  <2>4. Untouched
    BY <1>1, StepKinds DEF Untouched
  <2> QED
    BY <2>3, <2>4
<1>3. UNCHANGED plan
  BY <1>1, FilesStep
<1>4. Given /\ Steady /\ Reasoned
  BY <1>2, <1>3 DEF Given, Explained
<1> QED
  BY <1>2, <1>4, SteadyStep, ReasonedStep

\* Recovery gives up only for a reason it cannot see through: a name touched by
\* another program, a private copy cut off half-way, or a hard link whose
\* confirmation was lost; for every plan but the replacement in place, and any
\* number of crashes and errors (recover, requireExactIdentity, compensate).
THEOREM QuarantinesExplained == Spec => []QuarantineExplained
<1>1. Init => (Untouched => Neat)
  BY NeatInit
<1>2. IInv /\ Undecided /\ (Untouched => Neat) /\ [Next]_vars => (Untouched => Neat)'
  BY NeatStep
<1>3. Init => Explained
  <2> SUFFICES ASSUME Init PROVE Explained
    OBVIOUS
  <2>1. jrnl.phase = "none"
    BY DEF Init, NoRecord
  <2> QED
    BY <2>1, SteadyInit DEF Explained, Reasoned
<1>4. IInv /\ Undecided /\ (Untouched => Neat) /\ Explained /\ [Next]_vars => Explained'
  BY ExplainedStep
<1>5. Explained => QuarantineExplained
  BY DEF Explained, Reasoned, Doubtful, QuarantineExplained, QuarantineHasCause
<1> QED
  BY <1>1, <1>2, <1>3, <1>4, <1>5, Invariance, Undisturbed, PTL DEF Spec

-----------------------------------------------------------------------------
(***************************************************************************)
(* Why a publication fails.  A commit in which no operation fails, that no *)
(* crash interrupts and nobody disturbs has one course for each plan, so   *)
(* the invariant names the operations it has still to do, and what the     *)
(* journal and the names show then (OnTrack).  Each operation finds what   *)
(* it expects there and goes on, up to the terminal transaction.           *)
(***************************************************************************)

\* The rest of a program, from its k-th operation on.
From(s, k) == SubSeq(s, k, Len(s))

\* The programs of a commit that publishes under another name, operation by
\* operation: the copy's, and the detours of a link and of another device.
CopyLine ==
  <<Op("notePrivate", "priv", "none"), Op("open", "priv", Selected), Op("copy", "priv", Selected),
    Op("flush", "priv", "none"), Op("advance", "src", "target_staged"),
    Op("check", "priv", "copy"), Op("publish", "priv", "copy"),
    Op("flush", At("tgt"), "none"), Op("check", At("tgt"), "copy"),
    Op("install", "tgt", "copy"), Op("check", At("tgt"), "copy"), Op("commit", "tgt", "copy")>>
LinkOps(at, id) ==
  <<Op("check", at, id), Op("noteLink", at, id), Op("link", at, id), Op("confirmLink", at, id)>>
MoveLinks ==
  <<Op("check", "src", "source"), Op("noteLink", "src", "source"), Op("link", "src", "source"),
    Op("confirmLink", "src", "source")>>
CopyLinks ==
  <<Op("check", "priv", "copy"), Op("noteLink", "priv", "copy"), Op("link", "priv", "copy"),
    Op("confirmLink", "priv", "copy")>>
Crossing == <<Op("check", "src", "source"), Op("copyMode", "src", "none")>>

\* Where such a commit is, when nothing went wrong: what it has still to do, and
\* what its journal and its names show then.
OnMove(k) ==
  /\ todo = From(MoveProgram, k) /\ jrnl.mode = "move"
  /\ jrnl.phase = IF k <= 3 THEN "prepared" ELSE "target_installed"
  /\ k = 1 => dir["src"] = "source" /\ dir["tgt"] = "none" /\ dir["priv"] = "none"
  /\ k > 1 => dir["tgt"] = "source"
OnMoveLink(k) ==
  /\ todo = From(MoveLinks, k) \o From(MoveProgram, 2)
  /\ jrnl.mode = "move" /\ jrnl.phase = "prepared"
  /\ dir["src"] = "source" /\ dir["tgt"] = IF k <= 3 THEN "none" ELSE "source"
OnCross(k) ==
  /\ todo = From(Crossing, k) /\ jrnl.phase = "prepared"
  /\ dir["src"] = "source" /\ dir["tgt"] = "none" /\ dir["priv"] = "none"
OnCopy(k) ==
  /\ todo = From(CopyLine, k) /\ jrnl.mode = "copy"
  /\ jrnl.phase = IF k > 10 THEN "target_installed" ELSE IF k > 5 THEN "target_staged"
                  ELSE IF plan.kind = "replaceInPlace" THEN "source_preserved" ELSE "prepared"
  /\ k <= 3 => dir[Origin] = Selected
  /\ k <= 2 => dir["priv"] = "none"
  /\ k \in 4..7 => dir["priv"] = "copy"
  /\ Seen("tgt") = IF k <= 7 THEN "none" ELSE "copy"
OnCopyLink(k) ==
  /\ todo = From(CopyLinks, k) \o From(CopyLine, 8)
  /\ jrnl.mode = "copy" /\ jrnl.phase = "target_staged" /\ dir["priv"] = "copy"
  /\ Seen("tgt") = IF k <= 3 THEN "none" ELSE "copy"
OnPreserve(k) ==
  /\ todo = From(PreserveSource, k) \o CopyLine /\ jrnl.mode = "copy" /\ jrnl.phase = "prepared"
  /\ dir["stage"] = "staged" /\ dir["priv"] = "none"
  /\ k <= 2 => dir["src"] = "source" /\ dir["rb"] = "none"
  /\ k > 2 => dir["src"] = "none" /\ dir["rb"] = "source"

\* Nothing has begun yet.
Unbegun ==
  /\ stage = "idle" /\ jrnl.phase = "none"
  /\ dir = [n \in Names |-> IF n = "src" THEN "source"
                            ELSE IF n = "stage" /\ Replaces THEN "staged" ELSE "none"]

Underway ==
  /\ stage = "commit"
  /\ \/ plan.kind = "move" /\ \/ \E k \in 1..5 : OnMove(k)
                              \/ \E k \in 1..4 : OnMoveLink(k)
                              \/ \E k \in 1..2 : OnCross(k)
     \/ \E k \in 1..12 : OnCopy(k)
     \/ \E k \in 1..4 : OnCopyLink(k)
     \/ plan.kind = "replaceInPlace" /\ \E k \in 1..4 : OnPreserve(k)

\* No operation failed, nothing crashed, nobody interfered; and the plan is one
\* that can succeed.
Smooth  == tally.faults + tally.crashes + tally.tampers = 0
Hopeful == plan.kind # "inPlace" /\ (plan.kind = "replaceInPlace" => plan.fs # "noRename")
OnTrack == Smooth /\ Hopeful => committed \/ Unbegun \/ Underway

\* An undisturbed step of a commit.
Onward == TypeOK /\ Staged /\ stage = "commit" /\ Smooth /\ Hopeful /\ [Next]_vars /\ Smooth'

\* The k-th operation is the next one, and the rest follows it.
LEMMA Position ==
  ASSUME NEW S, NEW s \in Seq(S), NEW b \in Seq(S), NEW k \in 1..Len(s)
  PROVE  /\ From(s, k) \o b # <<>> /\ Head(From(s, k) \o b) = s[k]
         /\ Tail(From(s, k) \o b) = From(s, k + 1) \o b
         /\ Tail(From(s, k) \o b) = <<>> <=> k = Len(s) /\ b = <<>>
<1> DEFINE a == From(s, k)
           t == From(s, k + 1)
<1>1. /\ a \in Seq(S) /\ Len(a) = Len(s) - k + 1 /\ \A i \in 1..Len(a) : a[i] = s[k + i - 1]
      /\ t \in Seq(S) /\ Len(t) = Len(s) - k /\ \A i \in 1..Len(t) : t[i] = s[k + i]
      /\ Len(s) \in Nat /\ k \in Nat /\ k >= 1 /\ k <= Len(s)
  BY DEF From
<1> HIDE DEF a, t
<1>2. a # <<>> /\ Head(a) = s[k]
  BY <1>1
<1>3. Tail(a) = t
  <2>1. Tail(a) \in Seq(S) /\ Len(Tail(a)) = Len(t) /\ \A i \in 1..Len(t) : Tail(a)[i] = a[i + 1]
    <3>1. /\ Tail(a) \in Seq(S) /\ Len(Tail(a)) = Len(a) - 1
          /\ \A i \in 1..(Len(a) - 1) : Tail(a)[i] = a[i+1]
      BY <1>1, <1>2, Rest
    <3>2. Len(a) - 1 = Len(t)
      BY <1>1
    <3> QED
      BY <3>1, <3>2
  <2> DEFINE u == Tail(a)
  <2>2. u \in Seq(S) /\ Len(u) = Len(t) /\ \A i \in 1..Len(t) : u[i] = a[i + 1]
    BY <2>1
  <2> HIDE DEF u
  <2>3. ASSUME NEW i \in 1..Len(t) PROVE a[i + 1] = s[k + i] /\ t[i] = s[k + i]
    <3>1. i + 1 \in 1..Len(a) /\ k + (i + 1) - 1 = k + i
      BY <1>1
    <3> QED
      BY <1>1, <3>1
  <2>4. \A i \in 1..Len(u) : u[i] = t[i]
    BY <2>2, <2>3
  <2>5. u = t
    BY <1>1, <2>2, <2>4, Same
  <2> QED
    BY <2>5 DEF u
<1>4. a \o b # <<>> /\ Head(a \o b) = Head(a) /\ Tail(a \o b) = Tail(a) \o b
  BY <1>1, <1>2
<1>5. t \o b = <<>> <=> Len(t) = 0 /\ b = <<>>
  BY <1>1
<1>6. Len(t) = 0 <=> k = Len(s)
  BY <1>1
<1> QED
  <2>1. /\ a \o b # <<>> /\ Head(a \o b) = s[k] /\ Tail(a \o b) = t \o b
        /\ Tail(a \o b) = <<>> <=> k = Len(s) /\ b = <<>>
    BY <1>2, <1>3, <1>4, <1>5, <1>6
  <2> QED
    BY <2>1 DEF a, t

\* The same of a program that is all there is, and where it ends.
LEMMA Alone ==
  ASSUME NEW S, NEW s \in Seq(S), NEW k \in 1..Len(s)
  PROVE  /\ From(s, k) # <<>> /\ Head(From(s, k)) = s[k] /\ Tail(From(s, k)) = From(s, k + 1)
         /\ Tail(From(s, k)) = <<>> <=> k = Len(s)
<1>1. \A b \in Seq(S) :
        /\ From(s, k) \o b # <<>> /\ Head(From(s, k) \o b) = s[k]
        /\ Tail(From(s, k) \o b) = From(s, k + 1) \o b
        /\ Tail(From(s, k) \o b) = <<>> <=> k = Len(s) /\ b = <<>>
  BY Position
<1>2. /\ <<>> \in Seq(S)
      /\ From(s, k) \o <<>> = From(s, k) /\ From(s, k + 1) \o <<>> = From(s, k + 1)
  BY DEF From
<1> QED
  BY <1>1, <1>2

\* A detour, and the program that it comes back to.
LEMMA Detour ==
  ASSUME NEW S, NEW s \in Seq(S), NEW b \in Seq(S), NEW k \in 1..Len(s), b # <<>>
  PROVE  /\ From(s, k) \o b # <<>> /\ Head(From(s, k) \o b) = s[k] /\ Tail(From(s, k) \o b) # <<>>
         /\ Tail(From(s, k) \o b) = From(s, k + 1) \o b
         /\ k = Len(s) => Tail(From(s, k) \o b) = b
<1>1. k = Len(s) => From(s, k + 1) \o b = b
  BY DEF From
<1>2. /\ From(s, k) \o b # <<>> /\ Head(From(s, k) \o b) = s[k]
      /\ Tail(From(s, k) \o b) = From(s, k + 1) \o b
      /\ Tail(From(s, k) \o b) = <<>> <=> k = Len(s) /\ b = <<>>
  BY Position
<1> QED
  BY <1>1, <1>2

\* A program begins with its first operation; what is left of it is a program.
LEMMA Bounds ==
  ASSUME NEW S, NEW s \in Seq(S)
  PROVE  From(s, 1) = s /\ \A k \in 1..Len(s) : From(s, k) \in Seq(S) /\ From(s, k) # <<>>
<1>1. From(s, 1) = s /\ \A k \in 1..Len(s) : From(s, k) \in Seq(S) /\ Len(From(s, k)) = Len(s) - k + 1
  BY DEF From
<1>2. \A k \in 1..Len(s) : Len(s) - k + 1 # 0
  OBVIOUS
<1> QED
  BY <1>1, <1>2

\* The programs are what their operations make of them.
LEMMA LinesTyped ==
  /\ MoveProgram \in Seq(Ops) /\ Len(MoveProgram) = 5
  /\ CopyLine \in Seq(Ops) /\ Len(CopyLine) = 12
  /\ Crossing \in Seq(Ops) /\ Len(Crossing) = 2
  /\ PreserveSource \in Seq(Ops) /\ Len(PreserveSource) = 4
  /\ MoveLinks \in Seq(Ops) /\ Len(MoveLinks) = 4
  /\ CopyLinks \in Seq(Ops) /\ Len(CopyLinks) = 4
<1>1. MoveProgram \in Seq(Ops) /\ Len(MoveProgram) = 5
  BY DEF MoveProgram, Ops, Op, Dos, FileOps, JournalOps, Names, Artifacts, Phases, Removable, Whole
<1>2. CopyLine \in Seq(Ops) /\ Len(CopyLine) = 12
  <2> DEFINE at == At("tgt")
             sel == Selected
  <2>1. at \in Names /\ sel \in Artifacts
    BY DEF At, Names, Selected, Artifacts
  <2> HIDE DEF at, sel
  <2>2. /\ {Op("notePrivate", "priv", "none"), Op("open", "priv", sel), Op("copy", "priv", sel),
             Op("flush", "priv", "none"), Op("advance", "src", "target_staged"),
             Op("check", "priv", "copy")} \subseteq Ops
        /\ {Op("publish", "priv", "copy"), Op("flush", at, "none"),
             Op("check", at, "copy"), Op("install", "tgt", "copy"), Op("commit", "tgt", "copy")} \subseteq Ops
    BY <2>1 DEF Ops, Op, Dos, FileOps, JournalOps, Names, Artifacts, Phases, Removable, Whole
  <2> QED
    BY <2>2 DEF CopyLine, at, sel
<1>3. Crossing \in Seq(Ops) /\ Len(Crossing) = 2
  BY DEF Crossing, Ops, Op, Dos, FileOps, JournalOps, Names, Artifacts, Phases, Removable, Whole
<1>4. PreserveSource \in Seq(Ops) /\ Len(PreserveSource) = 4
  BY DEF PreserveSource, Move, Flush, Advance, At, Ops, Op, Dos, FileOps, JournalOps, Names, Artifacts, Phases, Removable, Whole
<1>5. /\ MoveLinks \in Seq(Ops) /\ Len(MoveLinks) = 4
      /\ CopyLinks \in Seq(Ops) /\ Len(CopyLinks) = 4
  BY DEF MoveLinks, CopyLinks, Ops, Op, Dos, FileOps, JournalOps, Names, Artifacts, Phases, Removable, Whole
<1> QED
  BY <1>1, <1>2, <1>3, <1>4, <1>5

\* An operation, what it is about and the identity it expects.
Does(op, do, at, id) == op.do = do /\ op.at = at /\ op.id = id

\* Their operations one by one.
LEMMA LineOps ==
  /\ Does(MoveProgram[1], "publish", "src", "source") /\ Does(MoveProgram[2], "flush", "tgt", "none")
  /\ Does(MoveProgram[3], "install", "tgt", "source") /\ Does(MoveProgram[4], "check", "tgt", "source")
  /\ Does(MoveProgram[5], "commit", "tgt", "source")
  /\ Does(CopyLine[1], "notePrivate", "priv", "none") /\ Does(CopyLine[2], "open", "priv", Selected)
  /\ Does(CopyLine[3], "copy", "priv", Selected) /\ Does(CopyLine[4], "flush", "priv", "none")
  /\ Does(CopyLine[5], "advance", "src", "target_staged") /\ Does(CopyLine[6], "check", "priv", "copy")
  /\ Does(CopyLine[7], "publish", "priv", "copy") /\ Does(CopyLine[8], "flush", At("tgt"), "none")
  /\ Does(CopyLine[9], "check", At("tgt"), "copy") /\ Does(CopyLine[10], "install", "tgt", "copy")
  /\ Does(CopyLine[11], "check", At("tgt"), "copy") /\ Does(CopyLine[12], "commit", "tgt", "copy")
  /\ Does(Crossing[1], "check", "src", "source") /\ Does(Crossing[2], "copyMode", "src", "none")
  /\ Does(MoveLinks[1], "check", "src", "source") /\ Does(MoveLinks[2], "noteLink", "src", "source")
  /\ Does(MoveLinks[3], "link", "src", "source") /\ Does(MoveLinks[4], "confirmLink", "src", "source")
  /\ Does(CopyLinks[1], "check", "priv", "copy") /\ Does(CopyLinks[2], "noteLink", "priv", "copy")
  /\ Does(CopyLinks[3], "link", "priv", "copy") /\ Does(CopyLinks[4], "confirmLink", "priv", "copy")
  /\ Does(PreserveSource[1], "noteRollback", "rb", "none")
  /\ Does(PreserveSource[2], "move", "src", "source") /\ PreserveSource[2].to = "rb"
  /\ Does(PreserveSource[3], "flush", "rb", "none")
  /\ Does(PreserveSource[4], "advance", "src", "source_preserved")
BY DEF MoveProgram, CopyLine, Crossing, MoveLinks, CopyLinks, PreserveSource, Does, Op, Move, Flush, Advance, At

\* A step of a commit that is not disturbed does its next operation.
LEMMA OnwardStep ==
  ASSUME Onward
  PROVE  UNCHANGED plan /\ UNCHANGED tally /\ rec = jrnl
         /\ dir \in [Names -> Artifacts] /\ jrnl \in Records
         /\ (UNCHANGED vars \/ FileStep \/ Publish \/ CheckStep \/ SurviveStep \/ JournalStep
             \/ QuarantineStep \/ ResumeStep \/ RecoverStep \/ DeferStep)
<1>1. tally \in Tallied /\ stage = "commit" /\ rec = jrnl /\ dir \in [Names -> Artifacts] /\ jrnl \in Records
  BY DEF Onward, TypeOK, Staged
<1>2. tally.faults = 0 /\ tally.crashes = 0 /\ tally.tampers = 0
  BY <1>1 DEF Onward, Smooth, Tallied
<1>3. ~Fault
  BY <1>1, <1>2 DEF Fault, Onward, Smooth, Tallied
<1>4. ~Crash /\ ~Tamper
  BY <1>1, <1>2 DEF Crash, Tamper, Onward, Smooth, Tallied
<1>5. ~FailStep /\ ~Commit /\ ~Recover
  BY <1>1, <1>3 DEF FailStep, Commit, Recover
<1>6. UNCHANGED vars \/ Step
  BY <1>4, <1>5 DEF Onward, Next
<1>7. UNCHANGED plan /\ UNCHANGED tally
  BY <1>3, <1>5, <1>6 DEF vars, Step, FileStep, Publish, CheckStep, SurviveStep, JournalStep,
                          QuarantineStep, ResumeStep, RecoverStep, DeferStep
<1> QED
  BY <1>1, <1>5, <1>6, <1>7 DEF Step

\* The file operation whose files are as it expects goes on (renameNoReplace,
\* linkNoReplace, copyFile, syncFile).
LEMMA FileOn ==
  ASSUME Onward, todo # <<>>, Head(todo).do \in {"move", "link", "open", "copy", "flush"},
         Verified(Head(todo)), Tail(todo) # <<>>
  PROVE  UNCHANGED vars \/ (/\ Applied(Head(todo)) /\ todo' = Tail(todo) /\ stage' = "commit"
                            /\ UNCHANGED <<plan, jrnl, committed>>)
<1>1. UNCHANGED vars \/ FileStep
  BY OnwardStep DEF Publish, CheckStep, SurviveStep, JournalStep, QuarantineStep, ResumeStep, RecoverStep,
                    DeferStep, JournalOps
<1>2. stage = "commit" /\ ~Survived(Head(todo)) /\ ~Fault
  BY OnwardStep DEF Onward, Survived, Fault, TypeOK, Tallied
<1> QED
  BY <1>1, <1>2 DEF FileStep, Goes

\* A check that finds what it looks for (requireExactIdentity).
LEMMA CheckOn ==
  ASSUME Onward, todo # <<>>, Head(todo).do = "check", dir[Head(todo).at] = Head(todo).id, Tail(todo) # <<>>
  PROVE  UNCHANGED vars \/ (/\ todo' = Tail(todo) /\ stage' = "commit"
                            /\ UNCHANGED <<plan, dir, jrnl, committed>>)
<1>1. UNCHANGED vars \/ CheckStep
  BY OnwardStep DEF FileStep, Publish, SurviveStep, JournalStep, QuarantineStep, ResumeStep, RecoverStep,
                    DeferStep, JournalOps, FileOps
<1>2. stage = "commit"
  BY DEF Onward
<1> QED
  BY <1>1, <1>2 DEF CheckStep, Goes, files

\* A journal write that is accepted (patchJournal, transition).
LEMMA NoteOn ==
  ASSUME Onward, todo # <<>>, Head(todo).do \in JournalOps, ~Refused(Head(todo)),
         Head(todo).do \in {"copyMode", "commit"} \/ Tail(todo) # <<>>
  PROVE  UNCHANGED vars \/ (/\ jrnl' = Patched(jrnl, Head(todo)) /\ UNCHANGED <<plan, dir>>
                            /\ Head(todo).do = "commit" => committed'
                            /\ Head(todo).do # "commit" => stage' = "commit" /\ UNCHANGED committed
                            /\ Head(todo).do = "copyMode" => todo' = Forward(Patched(jrnl, Head(todo)))
                            /\ Head(todo).do \notin {"copyMode", "commit"} => todo' = Tail(todo))
<1>1. UNCHANGED vars \/ JournalStep
  BY OnwardStep DEF FileStep, Publish, CheckStep, SurviveStep, QuarantineStep, ResumeStep, RecoverStep,
                    DeferStep, JournalOps, FileOps
<1>2. stage = "commit" /\ rec = jrnl /\ jrnl \in Records /\ committed \in BOOLEAN
  BY OnwardStep DEF Onward, TypeOK
<1>3. Head(todo).do = "copyMode" => Patched(jrnl, Head(todo)) \in Records
  BY <1>2 DEF Patched, Eager, Records
<1>4. Head(todo).do = "copyMode" => Forward(Patched(jrnl, Head(todo))) # <<>>
  BY <1>3, ForwardTyped
<1> QED
  BY <1>1, <1>2, <1>4 DEF JournalStep, Goes, files

\* A publication that finds the artifact and a free target: by a rename, by a
\* hard link, or by a private copy on the other device (publish).
LEMMA PublishOn ==
  ASSUME Onward, todo # <<>>, Head(todo).do = "publish", dir[Head(todo).at] = Head(todo).id,
         Seen("tgt") = "none", Tail(todo) # <<>>, Head(todo).at \in {"src", "priv"}
  PROVE  UNCHANGED vars \/ (/\ stage' = "commit" /\ UNCHANGED <<plan, jrnl, committed>>
                            /\ \/ /\ todo' = Tail(todo)
                                  /\ dir' = [dir EXCEPT ![Head(todo).at] = "none", ![At("tgt")] = Head(todo).id]
                               \/ /\ UNCHANGED dir
                                  /\ todo' = LinkOps(Head(todo).at, Head(todo).id) \o Tail(todo)
                               \/ /\ UNCHANGED dir /\ Head(todo).at = "src" /\ todo' = Crossing)
<1> DEFINE op == Head(todo)
<1>1. UNCHANGED vars \/ Publish
  BY OnwardStep DEF FileStep, CheckStep, SurviveStep, JournalStep, QuarantineStep, ResumeStep, RecoverStep,
                    DeferStep, JournalOps, FileOps
<1>2. stage = "commit" /\ ~Fault
  BY OnwardStep DEF Onward, Fault, TypeOK, Tallied
<1>3. /\ <<Check(op.at, op.id), Op("noteLink", op.at, op.id), Op("link", op.at, op.id),
           Op("confirmLink", op.at, op.id)>> = LinkOps(op.at, op.id)
      /\ <<Check("src", "source"), Op("copyMode", "src", "none")>> = Crossing
  BY DEF LinkOps, Crossing, Check, At
<1>4. LinkOps(op.at, op.id) \o Tail(todo) # <<>> /\ Crossing # <<>>
  <2>1. Tail(todo) \in Seq(Ops)
    BY DEF Onward, Staged
  <2>2. LinkOps(op.at, op.id) \in Seq({Op("check", op.at, op.id), Op("noteLink", op.at, op.id),
                                       Op("link", op.at, op.id), Op("confirmLink", op.at, op.id)})
        /\ Len(LinkOps(op.at, op.id)) = 4
    BY DEF LinkOps
  <2>3. Len(LinkOps(op.at, op.id) \o Tail(todo)) = Len(LinkOps(op.at, op.id)) + Len(Tail(todo))
        /\ Len(Tail(todo)) \in Nat
    BY <2>1, <2>2
  <2> QED
    BY <2>2, <2>3 DEF Crossing
<1>5. CASE Publish
  <2> HIDE DEF op
  <2>1. \/ Goes(Crossing, rec) /\ UNCHANGED dir /\ op.at = "src"
        \/ Goes(LinkOps(op.at, op.id) \o Tail(todo), rec) /\ UNCHANGED dir
        \/ Goes(Tail(todo), rec) /\ dir' = [dir EXCEPT ![op.at] = "none", ![At("tgt")] = op.id]
    BY <1>2, <1>3, <1>5 DEF Publish, op
  <2>2. UNCHANGED <<plan, jrnl, committed>>
    BY <1>5 DEF Publish
  <2> QED
    BY <1>2, <1>4, <2>1, <2>2 DEF Goes, op
<1> QED
  BY <1>1, <1>5

\* What is made durable is there.
LEMMA FlushOn ==
  ASSUME Onward, todo # <<>>, Head(todo).do = "flush", dir[Head(todo).at] # "none", Tail(todo) # <<>>
  PROVE  UNCHANGED vars \/ (todo' = Tail(todo) /\ stage' = "commit" /\ UNCHANGED <<plan, jrnl, dir, committed>>)
<1>1. Verified(Head(todo))
  BY DEF Verified
<1>2. Applied(Head(todo)) => UNCHANGED dir
  BY DEF Applied
<1> QED
  BY <1>1, <1>2, FileOn

\* A link to what is there, under a free name.
LEMMA LinkOn ==
  ASSUME Onward, todo # <<>>, Head(todo).do = "link", dir[Head(todo).at] = Head(todo).id, Seen("tgt") = "none",
         Tail(todo) # <<>>
  PROVE  UNCHANGED vars \/ (/\ todo' = Tail(todo) /\ stage' = "commit" /\ UNCHANGED <<plan, jrnl, committed>>
                            /\ dir' = [dir EXCEPT ![At("tgt")] = Head(todo).id])
<1>1. Verified(Head(todo))
  BY DEF Verified
<1>2. Applied(Head(todo)) => dir' = [dir EXCEPT ![At("tgt")] = Head(todo).id]
  BY DEF Applied
<1> QED
  BY <1>1, <1>2, FileOn

\* What is published is noted, whole and by its journal's leave.
LEMMA InstallOn ==
  ASSUME Onward, todo # <<>>, Head(todo).do = "install", Tail(todo) # <<>>,
         jrnl.phase = "target_staged" \/ (jrnl.phase = "prepared" /\ jrnl.mode = "move")
  PROVE  UNCHANGED vars \/ (/\ todo' = Tail(todo) /\ stage' = "commit" /\ UNCHANGED <<plan, dir, committed>>
                            /\ jrnl'.phase = "target_installed" /\ jrnl'.mode = jrnl.mode)
<1>1. ~Refused(Head(todo)) /\ Head(todo).do \in JournalOps
  BY DEF Refused, TransitionAllowed, JournalOps
<1>2. Patched(jrnl, Head(todo)).phase = "target_installed" /\ Patched(jrnl, Head(todo)).mode = jrnl.mode
  BY OnwardStep DEF Patched, Eager, Records
<1> QED
  BY <1>1, <1>2, NoteOn

\* A note that leaves the phase and the mode as they are: of the rollback, of the
\* private copy, of a link and of its confirmation.
LEMMA NotedOn ==
  ASSUME Onward, todo # <<>>, Tail(todo) # <<>>,
         Head(todo).do \in {"noteRollback", "notePrivate", "noteLink", "confirmLink"},
         Head(todo).do = "noteLink" => Seen("tgt") = "none"
  PROVE  UNCHANGED vars \/ (/\ todo' = Tail(todo) /\ stage' = "commit" /\ UNCHANGED <<plan, dir, committed>>
                            /\ jrnl'.phase = jrnl.phase /\ jrnl'.mode = jrnl.mode)
<1>1. ~Refused(Head(todo)) /\ Head(todo).do \in JournalOps
  BY DEF Refused, JournalOps
<1>2. Patched(jrnl, Head(todo)).phase = jrnl.phase /\ Patched(jrnl, Head(todo)).mode = jrnl.mode
  BY OnwardStep DEF Patched, Eager, Records
<1> QED
  BY <1>1, <1>2, NoteOn

\* The next phase.
LEMMA AdvanceOn ==
  ASSUME Onward, todo # <<>>, Tail(todo) # <<>>, Head(todo).do = "advance",
         TransitionAllowed(jrnl, Head(todo).id)
  PROVE  UNCHANGED vars \/ (/\ todo' = Tail(todo) /\ stage' = "commit" /\ UNCHANGED <<plan, dir, committed>>
                            /\ jrnl'.phase = Head(todo).id /\ jrnl'.mode = jrnl.mode)
<1>1. ~Refused(Head(todo)) /\ Head(todo).do \in JournalOps
  BY DEF Refused, JournalOps
<1>2. Patched(jrnl, Head(todo)).phase = Head(todo).id /\ Patched(jrnl, Head(todo)).mode = jrnl.mode
  BY OnwardStep DEF Patched, Eager, Records
<1> QED
  BY <1>1, <1>2, NoteOn

\* The terminal transaction.
LEMMA CommitOn ==
  ASSUME Onward, todo # <<>>, Head(todo).do = "commit", jrnl.phase = "target_installed"
  PROVE  UNCHANGED vars \/ committed'
BY NoteOn DEF Refused, JournalOps

\* Where a program that is under way is, it still is when nothing happens.
LEMMA StillOn ==
  ASSUME UNCHANGED vars, Underway
  PROVE  Underway'
<1>1. UNCHANGED <<plan, dir, jrnl, todo, stage>>
  BY DEF vars
<1>2. /\ CopyLine' = CopyLine /\ PreserveSource' = PreserveSource
      /\ Seen("tgt")' = Seen("tgt") /\ Origin' = Origin /\ Selected' = Selected
  BY <1>1 DEF CopyLine, PreserveSource, Move, Op, Flush, Advance, Seen, At, SamePath, Origin, Selected, Replaces
<1>3. \A k : /\ OnMove(k) => OnMove(k)'
             /\ OnMoveLink(k) => OnMoveLink(k)'
             /\ OnCross(k) => OnCross(k)'
  BY <1>1 DEF OnMove, OnMoveLink, OnCross
<1>5. \A k : OnPreserve(k) => OnPreserve(k)'
  BY <1>1, <1>2 DEF OnPreserve, From
<1>6. \A k : OnCopyLink(k) => OnCopyLink(k)'
  BY <1>1, <1>2 DEF OnCopyLink, From
<1>4. \A k : OnCopy(k) => OnCopy(k)'
  BY <1>1, <1>2 DEF OnCopy, From
<1> QED
  BY <1>1, <1>3, <1>4, <1>5, <1>6 DEF Underway

\* A move goes on: renamed into place, made durable, noted, looked at and
\* committed (publishMove, commitPrepared).
LEMMA MoveOn ==
  ASSUME Onward, plan.kind = "move", NEW k \in 1..5, OnMove(k)
  PROVE  committed' \/ Underway'
<1> DEFINE op == Head(todo)
<1>1. /\ todo # <<>> /\ op = MoveProgram[k] /\ Tail(todo) = From(MoveProgram, k + 1)
      /\ (Tail(todo) = <<>> <=> k = 5)
  <2>1. MoveProgram \in Seq(Ops) /\ Len(MoveProgram) = 5 /\ todo = From(MoveProgram, k)
    BY LinesTyped DEF OnMove
  <2> QED
    BY <2>1, Alone
<1>2. UNCHANGED plan /\ At("tgt") = "tgt" /\ Seen("tgt") = dir["tgt"] /\ dir \in [Names -> Artifacts]
  BY OnwardStep DEF At, SamePath, Seen
<1>3. ASSUME UNCHANGED vars PROVE Underway'
  <2>1. Underway
    BY DEF Underway, Onward
  <2> QED
    BY <1>3, <2>1, StillOn
<1>4. ASSUME NEW j \in 1..5, stage' = "commit", OnMove(j)' PROVE Underway'
  BY <1>2, <1>4 DEF Underway
<1>5. CASE k = 1
  <2>1. /\ op = MoveProgram[1] /\ Tail(todo) = From(MoveProgram, 2)
        /\ dir["src"] = "source" /\ dir["tgt"] = "none" /\ dir["priv"] = "none"
        /\ jrnl.phase = "prepared" /\ jrnl.mode = "move"
    BY <1>1, <1>5 DEF OnMove
  <2>2. op.do = "publish" /\ op.at = "src" /\ op.id = "source"
    BY <2>1, LineOps DEF Does
  <2>3. \/ UNCHANGED vars
        \/ (/\ stage' = "commit" /\ UNCHANGED <<plan, jrnl, committed>>
            /\ \/ todo' = Tail(todo) /\ dir' = [dir EXCEPT ![op.at] = "none", ![At("tgt")] = op.id]
               \/ UNCHANGED dir /\ todo' = LinkOps(op.at, op.id) \o Tail(todo)
               \/ UNCHANGED dir /\ todo' = Crossing)
    BY <1>1, <1>2, <1>5, <2>1, <2>2, PublishOn
  <2>4. CASE stage' = "commit" /\ UNCHANGED <<plan, jrnl>> /\ todo' = Tail(todo)
             /\ dir' = [dir EXCEPT ![op.at] = "none", ![At("tgt")] = op.id]
    <3>1. dir'["tgt"] = "source"
      BY <1>2, <2>2, <2>4 DEF Names
    <3>2. OnMove(2)'
      BY <2>1, <2>4, <3>1 DEF OnMove
    <3> QED
      BY <1>4, <2>4, <3>2
  <2>5. CASE stage' = "commit" /\ UNCHANGED <<plan, jrnl, dir>> /\ todo' = LinkOps(op.at, op.id) \o Tail(todo)
    <3>1. todo' = From(MoveLinks, 1) \o From(MoveProgram, 2)
      <4>1. MoveLinks = LinkOps(op.at, op.id)
        BY <2>2 DEF MoveLinks, LinkOps
      <4>2. From(MoveLinks, 1) = MoveLinks
        BY LinesTyped, Bounds
      <4> QED
        BY <2>1, <2>5, <4>1, <4>2
    <3>2. jrnl'.mode = "move" /\ jrnl'.phase = "prepared" /\ dir'["src"] = "source" /\ dir'["tgt"] = "none"
      BY <2>1, <2>5
    <3>3. OnMoveLink(1)'
      BY <3>1, <3>2 DEF OnMoveLink
    <3> QED
      BY <1>2, <2>5, <3>3 DEF Underway
  <2>6. CASE stage' = "commit" /\ UNCHANGED <<plan, jrnl, dir>> /\ todo' = Crossing
    <3>1. From(Crossing, 1) = Crossing
      BY LinesTyped, Bounds
    <3>2. OnCross(1)'
      BY <2>1, <2>6, <3>1 DEF OnCross
    <3> QED
      BY <1>2, <2>6, <3>2 DEF Underway
  <2> QED
    BY <1>3, <2>3, <2>4, <2>5, <2>6
<1>6. CASE k = 2
  <2>1. /\ op = MoveProgram[2] /\ Tail(todo) = From(MoveProgram, 3) /\ Tail(todo) # <<>> /\ dir["tgt"] = "source"
        /\ jrnl.phase = "prepared" /\ jrnl.mode = "move"
    BY <1>1, <1>6 DEF OnMove
  <2>2. UNCHANGED vars \/ (todo' = Tail(todo) /\ stage' = "commit" /\ UNCHANGED <<plan, dir, jrnl>>)
    BY <1>1, <2>1, LineOps, FlushOn DEF Does
  <2>3. ~(UNCHANGED vars) => OnMove(3)' /\ stage' = "commit"
    BY <2>1, <2>2 DEF OnMove
  <2> QED
    BY <1>3, <1>4, <2>3
<1>7. CASE k = 3
  <2>1. /\ op = MoveProgram[3] /\ Tail(todo) = From(MoveProgram, 4) /\ Tail(todo) # <<>> /\ dir["tgt"] = "source"
        /\ jrnl.phase = "prepared" /\ jrnl.mode = "move"
    BY <1>1, <1>7 DEF OnMove
  <2>2. UNCHANGED vars \/ (/\ todo' = Tail(todo) /\ stage' = "commit" /\ UNCHANGED <<plan, dir>>
                           /\ jrnl'.phase = "target_installed" /\ jrnl'.mode = jrnl.mode)
    BY <1>1, <2>1, LineOps, InstallOn DEF Does
  <2>3. ~(UNCHANGED vars) => OnMove(4)' /\ stage' = "commit"
    BY <2>1, <2>2 DEF OnMove
  <2> QED
    BY <1>3, <1>4, <2>3
<1>8. CASE k = 4
  <2>1. /\ op = MoveProgram[4] /\ Tail(todo) = From(MoveProgram, 5) /\ Tail(todo) # <<>> /\ dir["tgt"] = "source"
        /\ jrnl.phase = "target_installed" /\ jrnl.mode = "move"
    BY <1>1, <1>8 DEF OnMove
  <2>2. UNCHANGED vars \/ (todo' = Tail(todo) /\ stage' = "commit" /\ UNCHANGED <<plan, dir, jrnl>>)
    BY <1>1, <2>1, LineOps, CheckOn DEF Does
  <2>3. ~(UNCHANGED vars) => OnMove(5)' /\ stage' = "commit"
    BY <2>1, <2>2 DEF OnMove
  <2> QED
    BY <1>3, <1>4, <2>3
<1>9. CASE k = 5
  <2>1. op = MoveProgram[5] /\ jrnl.phase = "target_installed"
    BY <1>1, <1>9 DEF OnMove
  <2> QED
    BY <1>1, <1>3, <2>1, LineOps, CommitOn DEF Does
<1> QED
  BY <1>5, <1>6, <1>7, <1>8, <1>9

\* The detour of its link: looked at, announced, made and confirmed (the hard
\* link of publishMove).
LEMMA MoveLinkOn ==
  ASSUME Onward, plan.kind = "move", NEW k \in 1..4, OnMoveLink(k)
  PROVE  Underway'
<1> DEFINE op == Head(todo)
           b  == From(MoveProgram, 2)
<1>1. /\ todo # <<>> /\ op = MoveLinks[k] /\ Tail(todo) = From(MoveLinks, k + 1) \o b /\ Tail(todo) # <<>>
      /\ k = 4 => Tail(todo) = b
  <2>1. b \in Seq(Ops) /\ b # <<>>
    <3>1. MoveProgram \in Seq(Ops) /\ 2 \in 1..Len(MoveProgram)
      BY LinesTyped
    <3> QED
      BY <3>1, Bounds
  <2>2. MoveLinks \in Seq(Ops) /\ Len(MoveLinks) = 4 /\ todo = From(MoveLinks, k) \o b
    BY LinesTyped DEF OnMoveLink
  <2> HIDE DEF b
  <2>3. /\ From(MoveLinks, k) \o b # <<>> /\ Head(From(MoveLinks, k) \o b) = MoveLinks[k]
        /\ Tail(From(MoveLinks, k) \o b) # <<>>
        /\ Tail(From(MoveLinks, k) \o b) = From(MoveLinks, k + 1) \o b
        /\ k = 4 => Tail(From(MoveLinks, k) \o b) = b
    <3>1. k \in 1..Len(MoveLinks) /\ (k = 4 => k = Len(MoveLinks))
      BY <2>2
    <3> QED
      BY <2>1, <2>2, <3>1, Detour
  <2> QED
    BY <2>2, <2>3
<1> HIDE DEF b
<1>2. /\ UNCHANGED plan /\ At("tgt") = "tgt" /\ Seen("tgt") = dir["tgt"] /\ dir \in [Names -> Artifacts]
      /\ jrnl.mode = "move" /\ jrnl.phase = "prepared" /\ dir["src"] = "source"
      /\ dir["tgt"] = IF k <= 3 THEN "none" ELSE "source"
  BY OnwardStep DEF At, SamePath, Seen, OnMoveLink
<1>3. ASSUME UNCHANGED vars PROVE Underway'
  <2>1. Underway
    BY DEF Underway, Onward
  <2> QED
    BY <1>3, <2>1, StillOn
<1>4. ASSUME NEW j \in 1..4, k = j - 1, stage' = "commit", todo' = Tail(todo),
             jrnl'.mode = "move", jrnl'.phase = "prepared",
             dir'["src"] = "source", dir'["tgt"] = IF j <= 3 THEN "none" ELSE "source"
      PROVE  Underway'
  <2>1. todo' = From(MoveLinks, j) \o b
    BY <1>1, <1>4
  <2>2. OnMoveLink(j)'
    BY <1>4, <2>1 DEF OnMoveLink, b
  <2> QED
    BY <1>2, <1>4, <2>2 DEF Underway
<1>5. CASE k = 1
  <2>1. op = MoveLinks[1]
    BY <1>1, <1>5
  <2>2. UNCHANGED vars \/ (todo' = Tail(todo) /\ stage' = "commit" /\ UNCHANGED <<plan, dir, jrnl>>)
    BY <1>1, <1>2, <2>1, LineOps, CheckOn DEF Does
  <2> QED
    BY <1>2, <1>3, <1>4, <1>5, <2>2
<1>6. CASE k = 2
  <2>1. op = MoveLinks[2]
    BY <1>1, <1>6
  <2>2. UNCHANGED vars \/ (/\ todo' = Tail(todo) /\ stage' = "commit" /\ UNCHANGED <<plan, dir>>
                           /\ jrnl'.phase = jrnl.phase /\ jrnl'.mode = jrnl.mode)
    BY <1>1, <1>2, <1>6, <2>1, LineOps, NotedOn DEF Does
  <2> QED
    BY <1>2, <1>3, <1>4, <1>6, <2>2
<1>7. CASE k = 3
  <2>1. op = MoveLinks[3]
    BY <1>1, <1>7
  <2>2. op.do = "link" /\ op.at = "src" /\ op.id = "source"
    BY <2>1, LineOps DEF Does
  <2>3. UNCHANGED vars \/ (/\ todo' = Tail(todo) /\ stage' = "commit" /\ UNCHANGED <<plan, jrnl>>
                           /\ dir' = [dir EXCEPT ![At("tgt")] = op.id])
    BY <1>1, <1>2, <1>7, <2>2, LinkOn
  <2>4. dir' = [dir EXCEPT ![At("tgt")] = op.id] => dir'["src"] = "source" /\ dir'["tgt"] = "source"
    BY <1>2, <2>2 DEF Names
  <2> QED
    BY <1>2, <1>3, <1>4, <1>7, <2>3, <2>4
<1>8. CASE k = 4
  <2>1. op = MoveLinks[4] /\ dir["tgt"] = "source"
    BY <1>1, <1>2, <1>8
  <2>2. UNCHANGED vars \/ (/\ todo' = Tail(todo) /\ stage' = "commit" /\ UNCHANGED <<plan, dir>>
                           /\ jrnl'.phase = jrnl.phase /\ jrnl'.mode = jrnl.mode)
    BY <1>1, <2>1, LineOps, NotedOn DEF Does
  <2>3. Tail(todo) = From(MoveProgram, 2)
    BY <1>1, <1>8 DEF b
  <2>4. ASSUME ~(UNCHANGED vars) PROVE OnMove(2)' /\ stage' = "commit"
    <3>1. /\ todo' = From(MoveProgram, 2) /\ jrnl'.mode = "move" /\ jrnl'.phase = "prepared"
          /\ dir'["tgt"] = "source" /\ stage' = "commit"
      BY <1>2, <2>1, <2>2, <2>3, <2>4
    <3> QED
      BY <3>1 DEF OnMove
  <2>5. OnMove(2)' /\ stage' = "commit" => Underway'
    BY <1>2 DEF Underway
  <2> QED
    BY <1>3, <2>4, <2>5
<1> QED
  BY <1>5, <1>6, <1>7, <1>8

\* The copy's program as commit puts it together.
LEMMA CopyWhole ==
  /\ CopyAndPublish \o Install("copy") = CopyLine
  /\ <<>> \o CopyAndPublish \o Install("copy") = CopyLine
<1>1. CopyAndPublish =
        <<Op("notePrivate", "priv", "none"), Op("open", "priv", Selected), Op("copy", "priv", Selected),
          Op("flush", "priv", "none"), Op("advance", "src", "target_staged"),
          Op("check", "priv", "copy"), Op("publish", "priv", "copy"),
          Op("flush", At("tgt"), "none"), Op("check", At("tgt"), "copy")>>
  BY DEF CopyAndPublish, Flush, Check, Advance, Op, At
<1>2. Install("copy") = <<Op("install", "tgt", "copy"), Op("check", At("tgt"), "copy"), Op("commit", "tgt", "copy")>>
  BY DEF Install, Check
<1>3. <<>> \o CopyAndPublish = CopyAndPublish
  BY <1>1, NothingAnd
<1>4. CopyAndPublish \o Install("copy") = CopyLine
  <2>1. <<Op("notePrivate", "priv", "none"), Op("open", "priv", Selected), Op("copy", "priv", Selected),
          Op("flush", "priv", "none"), Op("advance", "src", "target_staged"),
          Op("check", "priv", "copy"), Op("publish", "priv", "copy"),
          Op("flush", At("tgt"), "none"), Op("check", At("tgt"), "copy")>>
        \o <<Op("install", "tgt", "copy"), Op("check", At("tgt"), "copy"), Op("commit", "tgt", "copy")>> = CopyLine
    BY NineAndThree DEF CopyLine
  <2> QED
    BY <1>1, <1>2, <2>1
<1> QED
  <2> DEFINE a == CopyAndPublish
             b == Install("copy")
  <2>1. a \o b = CopyLine /\ <<>> \o a = a
    BY <1>3, <1>4
  <2> HIDE DEF a, b
  <2>2. <<>> \o a \o b = CopyLine
    BY <2>1
  <2> QED
    BY <2>1, <2>2 DEF a, b

\* A file that is made or written under the private name (materialize).
LEMMA PrivateOn ==
  ASSUME Onward, todo # <<>>, Head(todo).do \in {"open", "copy"}, dir[Origin] = Head(todo).id,
         Head(todo).do = "open" => dir["priv"] = "none", Tail(todo) # <<>>
  PROVE  UNCHANGED vars \/ (/\ todo' = Tail(todo) /\ stage' = "commit" /\ UNCHANGED <<plan, jrnl, committed>>
                            /\ dir' = [dir EXCEPT !["priv"] = IF Head(todo).do = "open" THEN "partial" ELSE "copy"])
<1>1. Verified(Head(todo))
  BY DEF Verified
<1>2. Applied(Head(todo)) => dir' = [dir EXCEPT !["priv"] = IF Head(todo).do = "open" THEN "partial" ELSE "copy"]
  BY DEF Applied
<1> QED
  BY <1>1, <1>2, FileOn

\* The phase in which a copy that is not disturbed does its j-th operation.
CopyPhase(j) ==
  IF j > 10 THEN "target_installed" ELSE IF j > 5 THEN "target_staged"
  ELSE IF plan.kind = "replaceInPlace" THEN "source_preserved" ELSE "prepared"

\* Where the names of a copy are.
LEMMA CopyNames ==
  ASSUME Onward
  PROVE  /\ dir \in [Names -> Artifacts] /\ At("tgt") \in {"src", "tgt"} /\ Origin \in {"src", "stage"}
         /\ Seen("tgt") = dir[At("tgt")] /\ At("priv") = "priv"
         /\ UNCHANGED plan /\ At("tgt")' = At("tgt") /\ Origin' = Origin /\ Selected' = Selected
         /\ CopyLine' = CopyLine /\ PreserveSource' = PreserveSource
<1>1. UNCHANGED plan /\ dir \in [Names -> Artifacts]
  BY OnwardStep
<1>2. CopyLine' = CopyLine
  BY <1>1 DEF CopyLine, Selected, Replaces, At, SamePath
<1>3. PreserveSource' = PreserveSource
  BY <1>1 DEF PreserveSource, Move, Op, Flush, Advance, At, SamePath
<1> QED
  BY <1>1, <1>2, <1>3 DEF At, SamePath, Origin, Selected, Replaces, Seen

\* What is under the names when a copy is at its j-th operation.
LEMMA CopyArrives ==
  ASSUME Onward, NEW j \in 1..12, stage' = "commit", todo' = From(CopyLine, j), jrnl'.mode = "copy",
         jrnl'.phase = CopyPhase(j),
         j <= 3 => dir'[Origin] = Selected,
         j <= 2 => dir'["priv"] = "none", j \in 4..7 => dir'["priv"] = "copy",
         dir'[At("tgt")] = IF j <= 7 THEN "none" ELSE "copy"
  PROVE  Underway'
<1>1. UNCHANGED plan /\ At("tgt")' = At("tgt") /\ Origin' = Origin /\ Selected' = Selected /\ CopyLine' = CopyLine
  BY CopyNames
<1>2. todo' = From(CopyLine', j)
  BY <1>1
<1>3. /\ jrnl'.phase = IF j > 10 THEN "target_installed" ELSE IF j > 5 THEN "target_staged"
                       ELSE IF plan'.kind = "replaceInPlace" THEN "source_preserved" ELSE "prepared"
      /\ j <= 3 => dir'[Origin'] = Selected'
      /\ Seen("tgt")' = IF j <= 7 THEN "none" ELSE "copy"
  BY <1>1 DEF CopyPhase, Seen
<1>4. OnCopy(j)'
  BY <1>2, <1>3 DEF OnCopy, From
<1> QED
  BY <1>4 DEF Underway

\* A copy goes on: noted, made, made durable, staged, published, made durable
\* again, noted, looked at and committed (publishCopy, commitPrepared).
LEMMA CopyOn ==
  ASSUME Onward, NEW k \in 1..12, OnCopy(k)
  PROVE  committed' \/ Underway'
<1> DEFINE op == Head(todo)
           tgt == At("tgt")
<1>1. /\ todo # <<>> /\ op = CopyLine[k] /\ Tail(todo) = From(CopyLine, k + 1)
      /\ (Tail(todo) = <<>> <=> k = 12)
  <2>1. CopyLine \in Seq(Ops) /\ Len(CopyLine) = 12 /\ todo = From(CopyLine, k)
    BY LinesTyped DEF OnCopy
  <2> QED
    BY <2>1, Alone
<1>2. /\ dir \in [Names -> Artifacts] /\ tgt \in {"src", "tgt"} /\ Origin \in {"src", "stage"} /\ Seen("tgt") = dir[tgt]
      /\ UNCHANGED plan
  BY CopyNames
<1>3. ASSUME UNCHANGED vars PROVE Underway'
  <2>1. Underway
    BY DEF Underway, Onward
  <2> QED
    BY <1>3, <2>1, StillOn
<1>4. /\ jrnl.mode = "copy" /\ jrnl.phase = CopyPhase(k) /\ (k <= 3 => dir[Origin] = Selected)
      /\ (k <= 2 => dir["priv"] = "none") /\ (k \in 4..7 => dir["priv"] = "copy")
      /\ dir[tgt] = IF k <= 7 THEN "none" ELSE "copy"
  BY <1>2 DEF OnCopy, CopyPhase
<1> HIDE DEF tgt
<1>5. ASSUME NEW j \in 1..12, j = k + 1, stage' = "commit", todo' = Tail(todo), jrnl'.mode = "copy",
             jrnl'.phase = CopyPhase(j), j <= 3 => dir'[Origin] = Selected,
             j <= 2 => dir'["priv"] = "none", j \in 4..7 => dir'["priv"] = "copy",
             dir'[tgt] = IF j <= 7 THEN "none" ELSE "copy"
      PROVE  Underway'
  BY <1>1, <1>5, CopyArrives DEF tgt
<1>6. ASSUME k < 12, CopyPhase(k) = CopyPhase(k + 1), k # 2, k # 3, k # 7,
             UNCHANGED vars \/ (/\ todo' = Tail(todo) /\ stage' = "commit" /\ UNCHANGED dir
                                /\ jrnl'.phase = jrnl.phase /\ jrnl'.mode = jrnl.mode)
      PROVE  Underway'
  <2>1. k + 1 \in 1..12
    BY <1>6
  <2>2. CASE /\ todo' = Tail(todo) /\ stage' = "commit" /\ UNCHANGED dir
             /\ jrnl'.phase = jrnl.phase /\ jrnl'.mode = jrnl.mode
    <3>1. /\ jrnl'.mode = "copy" /\ jrnl'.phase = CopyPhase(k + 1) /\ (k + 1 <= 3 => dir'[Origin] = Selected)
          /\ (k + 1 <= 2 => dir'["priv"] = "none") /\ (k + 1 \in 4..7 => dir'["priv"] = "copy")
          /\ dir'[tgt] = IF k + 1 <= 7 THEN "none" ELSE "copy"
      BY <1>4, <1>6, <2>2
    <3> QED
      BY <1>5, <2>1, <2>2, <3>1
  <2> QED
    BY <1>3, <1>6, <2>2
<1>7. CASE k = 1
  <2>1. op = CopyLine[1] /\ Tail(todo) # <<>> /\ CopyPhase(k) = CopyPhase(k + 1)
    BY <1>1, <1>7 DEF CopyPhase
  <2>2. UNCHANGED vars \/ (/\ todo' = Tail(todo) /\ stage' = "commit" /\ UNCHANGED <<plan, dir, committed>>
                           /\ jrnl'.phase = jrnl.phase /\ jrnl'.mode = jrnl.mode)
    BY <1>1, <2>1, LineOps, NotedOn DEF Does
  <2> QED
    BY <1>6, <1>7, <2>1, <2>2
<1>8. CASE k = 2
  <2>1. op.do = "open" /\ op.id = Selected /\ Tail(todo) # <<>>
    BY <1>1, <1>8, LineOps DEF Does
  <2>2. UNCHANGED vars \/ (/\ todo' = Tail(todo) /\ stage' = "commit" /\ UNCHANGED <<plan, jrnl, committed>>
                           /\ dir' = [dir EXCEPT !["priv"] = IF op.do = "open" THEN "partial" ELSE "copy"])
    BY <1>1, <1>4, <1>8, <2>1, PrivateOn
  <2>3. ASSUME dir' = [dir EXCEPT !["priv"] = IF op.do = "open" THEN "partial" ELSE "copy"]
        PROVE  dir'[Origin] = Selected /\ dir'[tgt] = "none"
    BY <1>2, <1>4, <1>8, <2>3 DEF Names
  <2>4. CopyPhase(3) = CopyPhase(k)
    BY <1>8 DEF CopyPhase
  <2> QED
    BY <1>3, <1>4, <1>5, <1>8, <2>2, <2>3, <2>4
<1>9. CASE k = 3
  <2>1. op.do = "copy" /\ op.id = Selected /\ Tail(todo) # <<>>
    BY <1>1, <1>9, LineOps DEF Does
  <2>2. UNCHANGED vars \/ (/\ todo' = Tail(todo) /\ stage' = "commit" /\ UNCHANGED <<plan, jrnl, committed>>
                           /\ dir' = [dir EXCEPT !["priv"] = IF op.do = "open" THEN "partial" ELSE "copy"])
    BY <1>1, <1>4, <1>9, <2>1, PrivateOn
  <2>3. ASSUME dir' = [dir EXCEPT !["priv"] = IF op.do = "open" THEN "partial" ELSE "copy"]
        PROVE  dir'["priv"] = "copy" /\ dir'[tgt] = "none"
    BY <1>2, <1>4, <1>9, <2>1, <2>3 DEF Names
  <2>4. CopyPhase(4) = CopyPhase(k)
    BY <1>9 DEF CopyPhase
  <2> QED
    BY <1>3, <1>4, <1>5, <1>9, <2>2, <2>3, <2>4
<1>10. CASE k = 4
  <2>1. op = CopyLine[4] /\ Tail(todo) # <<>> /\ CopyPhase(k) = CopyPhase(k + 1) /\ dir["priv"] = "copy"
    BY <1>1, <1>4, <1>10 DEF CopyPhase
  <2>2. UNCHANGED vars \/ (todo' = Tail(todo) /\ stage' = "commit" /\ UNCHANGED <<plan, jrnl, dir, committed>>)
    BY <1>1, <2>1, LineOps, FlushOn DEF Does
  <2> QED
    BY <1>6, <1>10, <2>1, <2>2
<1>11. CASE k = 5
  <2>1. op.do = "advance" /\ op.id = "target_staged" /\ Tail(todo) # <<>>
    BY <1>1, <1>11, LineOps DEF Does
  <2>2. jrnl.phase \in {"source_preserved", "prepared"} /\ CopyPhase(6) = "target_staged"
    BY <1>4, <1>11 DEF CopyPhase
  <2>3. UNCHANGED vars \/ (/\ todo' = Tail(todo) /\ stage' = "commit" /\ UNCHANGED <<plan, dir, committed>>
                           /\ jrnl'.phase = "target_staged" /\ jrnl'.mode = jrnl.mode)
    BY <1>1, <2>1, <2>2, AdvanceOn DEF TransitionAllowed
  <2> QED
    BY <1>3, <1>4, <1>5, <1>11, <2>2, <2>3
<1>12. CASE k = 6
  <2>1. op = CopyLine[6] /\ Tail(todo) # <<>> /\ CopyPhase(k) = CopyPhase(k + 1) /\ dir["priv"] = "copy"
    BY <1>1, <1>4, <1>12 DEF CopyPhase
  <2>2. UNCHANGED vars \/ (todo' = Tail(todo) /\ stage' = "commit" /\ UNCHANGED <<plan, dir, jrnl, committed>>)
    BY <1>1, <2>1, LineOps, CheckOn DEF Does
  <2> QED
    BY <1>6, <1>12, <2>1, <2>2
<1>13. CASE k = 7
  <2>1. op.do = "publish" /\ op.at = "priv" /\ op.id = "copy" /\ Tail(todo) # <<>> /\ Tail(todo) = From(CopyLine, 8)
    BY <1>1, <1>13, LineOps DEF Does
  <2>2. dir["priv"] = "copy" /\ dir[tgt] = "none" /\ Seen("tgt") = "none" /\ CopyPhase(8) = CopyPhase(k)
        /\ CopyPhase(k) = "target_staged"
    BY <1>2, <1>4, <1>13 DEF CopyPhase
  <2>3. \/ UNCHANGED vars
        \/ (/\ stage' = "commit" /\ UNCHANGED <<plan, jrnl, committed>>
            /\ \/ todo' = Tail(todo) /\ dir' = [dir EXCEPT ![op.at] = "none", ![tgt] = op.id]
               \/ UNCHANGED dir /\ todo' = LinkOps(op.at, op.id) \o Tail(todo))
    BY <1>1, <2>1, <2>2, PublishOn DEF tgt
  <2>4. CASE /\ stage' = "commit" /\ UNCHANGED jrnl /\ todo' = Tail(todo)
             /\ dir' = [dir EXCEPT ![op.at] = "none", ![tgt] = op.id]
    <3>1. dir'[tgt] = "copy"
      BY <1>2, <2>1, <2>4 DEF Names
    <3> QED
      BY <1>4, <1>5, <1>13, <2>2, <2>4, <3>1
  <2>5. CASE stage' = "commit" /\ UNCHANGED jrnl /\ UNCHANGED dir /\ todo' = LinkOps(op.at, op.id) \o Tail(todo)
    <3>1. todo' = From(CopyLinks, 1) \o From(CopyLine, 8)
      <4>1. CopyLinks = LinkOps(op.at, op.id)
        BY <2>1 DEF CopyLinks, LinkOps
      <4>2. From(CopyLinks, 1) = CopyLinks
        BY LinesTyped, Bounds
      <4> QED
        BY <2>1, <2>5, <4>1, <4>2
    <3>2. CopyLine' = CopyLine /\ At("tgt")' = tgt
      BY CopyNames DEF tgt
    <3>3. todo' = From(CopyLinks, 1) \o From(CopyLine', 8) /\ Seen("tgt")' = "none"
          /\ jrnl'.mode = "copy" /\ jrnl'.phase = "target_staged" /\ dir'["priv"] = "copy"
      BY <1>4, <1>13, <2>2, <2>5, <3>1, <3>2 DEF Seen
    <3>4. OnCopyLink(1)'
      BY <3>3 DEF OnCopyLink, From
    <3> QED
      BY <2>5, <3>4 DEF Underway
  <2> QED
    BY <1>3, <2>3, <2>4, <2>5
<1>14. CASE k = 8 \/ k = 9 \/ k = 11
  <2>1. /\ op = CopyLine[8] \/ op = CopyLine[9] \/ op = CopyLine[11]
        /\ Tail(todo) # <<>> /\ CopyPhase(k) = CopyPhase(k + 1) /\ dir[tgt] = "copy" /\ k < 12 /\ k # 2 /\ k # 3 /\ k # 7
    BY <1>1, <1>4, <1>14 DEF CopyPhase
  <2>2. op.at = tgt /\ (op.do = "flush" \/ (op.do = "check" /\ op.id = "copy"))
    BY <2>1, LineOps DEF Does, tgt
  <2>3. UNCHANGED vars \/ (todo' = Tail(todo) /\ stage' = "commit" /\ UNCHANGED <<plan, jrnl, dir, committed>>)
    BY <1>1, <2>1, <2>2, FlushOn, CheckOn
  <2> QED
    BY <1>6, <2>1, <2>3
<1>15. CASE k = 10
  <2>1. op.do = "install" /\ Tail(todo) # <<>>
    BY <1>1, <1>15, LineOps DEF Does
  <2>2. jrnl.phase = "target_staged" /\ CopyPhase(11) = "target_installed"
    BY <1>4, <1>15 DEF CopyPhase
  <2>3. UNCHANGED vars \/ (/\ todo' = Tail(todo) /\ stage' = "commit" /\ UNCHANGED <<plan, dir, committed>>
                           /\ jrnl'.phase = "target_installed" /\ jrnl'.mode = jrnl.mode)
    BY <1>1, <2>1, <2>2, InstallOn
  <2> QED
    BY <1>3, <1>4, <1>5, <1>15, <2>2, <2>3
<1>16. CASE k = 12
  <2>1. op = CopyLine[12] /\ jrnl.phase = "target_installed"
    BY <1>1, <1>4, <1>16 DEF CopyPhase
  <2> QED
    BY <1>1, <1>3, <2>1, LineOps, CommitOn DEF Does
<1> QED
  BY <1>7, <1>8, <1>9, <1>10, <1>11, <1>12, <1>13, <1>14, <1>15, <1>16

\* The detour of a copy's link (the hard link of the private copy).
LEMMA CopyLinkOn ==
  ASSUME Onward, NEW k \in 1..4, OnCopyLink(k)
  PROVE  Underway'
<1> DEFINE op  == Head(todo)
           b   == From(CopyLine, 8)
           tgt == At("tgt")
<1>1. /\ todo # <<>> /\ op = CopyLinks[k] /\ Tail(todo) = From(CopyLinks, k + 1) \o b /\ Tail(todo) # <<>>
      /\ k = 4 => Tail(todo) = b
  <2>1. b \in Seq(Ops) /\ b # <<>>
    <3>1. CopyLine \in Seq(Ops) /\ 8 \in 1..Len(CopyLine)
      BY LinesTyped
    <3> QED
      BY <3>1, Bounds
  <2>2. CopyLinks \in Seq(Ops) /\ Len(CopyLinks) = 4 /\ todo = From(CopyLinks, k) \o b
    BY LinesTyped DEF OnCopyLink
  <2> HIDE DEF b
  <2>3. /\ From(CopyLinks, k) \o b # <<>> /\ Head(From(CopyLinks, k) \o b) = CopyLinks[k]
        /\ Tail(From(CopyLinks, k) \o b) # <<>>
        /\ Tail(From(CopyLinks, k) \o b) = From(CopyLinks, k + 1) \o b
        /\ k = 4 => Tail(From(CopyLinks, k) \o b) = b
    <3>1. k \in 1..Len(CopyLinks) /\ (k = 4 => k = Len(CopyLinks))
      BY <2>2
    <3> QED
      BY <2>1, <2>2, <3>1, Detour
  <2> QED
    BY <2>2, <2>3
<1>2. /\ dir \in [Names -> Artifacts] /\ tgt \in {"src", "tgt"} /\ Seen("tgt") = dir[tgt] /\ UNCHANGED plan
      /\ CopyLine' = CopyLine /\ At("tgt")' = tgt
      /\ jrnl.mode = "copy" /\ jrnl.phase = "target_staged" /\ dir["priv"] = "copy"
      /\ dir[tgt] = IF k <= 3 THEN "none" ELSE "copy"
  BY CopyNames DEF OnCopyLink
<1>3. ASSUME UNCHANGED vars PROVE Underway'
  <2>1. Underway
    BY DEF Underway, Onward
  <2> QED
    BY <1>3, <2>1, StillOn
<1> HIDE DEF b, tgt
<1>4. ASSUME NEW j \in 1..4, k = j - 1, stage' = "commit", todo' = Tail(todo), jrnl'.mode = "copy",
             jrnl'.phase = "target_staged", dir'["priv"] = "copy", dir'[tgt] = IF j <= 3 THEN "none" ELSE "copy"
      PROVE  Underway'
  <2>1. todo' = From(CopyLinks, j) \o From(CopyLine', 8)
    <3>1. j = k + 1 /\ From(CopyLine', 8) = b
      BY <1>2, <1>4 DEF b
    <3> QED
      BY <1>1, <1>4, <3>1
  <2>2. Seen("tgt")' = IF j <= 3 THEN "none" ELSE "copy"
    BY <1>2, <1>4 DEF Seen
  <2>3. OnCopyLink(j)'
    BY <1>4, <2>1, <2>2 DEF OnCopyLink, From
  <2> QED
    BY <1>4, <2>3 DEF Underway
<1>5. CASE k = 1
  <2>1. op = CopyLinks[1]
    BY <1>1, <1>5
  <2>2. UNCHANGED vars \/ (todo' = Tail(todo) /\ stage' = "commit" /\ UNCHANGED <<plan, dir, jrnl>>)
    BY <1>1, <1>2, <2>1, LineOps, CheckOn DEF Does
  <2> QED
    BY <1>2, <1>3, <1>4, <1>5, <2>2
<1>6. CASE k = 2
  <2>1. op = CopyLinks[2]
    BY <1>1, <1>6
  <2>2. UNCHANGED vars \/ (/\ todo' = Tail(todo) /\ stage' = "commit" /\ UNCHANGED <<plan, dir>>
                           /\ jrnl'.phase = jrnl.phase /\ jrnl'.mode = jrnl.mode)
    BY <1>1, <1>2, <1>6, <2>1, LineOps, NotedOn DEF Does
  <2> QED
    BY <1>2, <1>3, <1>4, <1>6, <2>2
<1>7. CASE k = 3
  <2>1. op.do = "link" /\ op.at = "priv" /\ op.id = "copy"
    BY <1>1, <1>7, LineOps DEF Does
  <2>2. UNCHANGED vars \/ (/\ todo' = Tail(todo) /\ stage' = "commit" /\ UNCHANGED <<plan, jrnl>>
                           /\ dir' = [dir EXCEPT ![tgt] = op.id])
    BY <1>1, <1>2, <1>7, <2>1, LinkOn DEF tgt
  <2>3. dir' = [dir EXCEPT ![tgt] = op.id] => dir'["priv"] = "copy" /\ dir'[tgt] = "copy"
    BY <1>2, <2>1 DEF Names
  <2> QED
    BY <1>2, <1>3, <1>4, <1>7, <2>2, <2>3
<1>8. CASE k = 4
  <2>1. op = CopyLinks[4] /\ dir[tgt] = "copy"
    BY <1>1, <1>2, <1>8
  <2>2. UNCHANGED vars \/ (/\ todo' = Tail(todo) /\ stage' = "commit" /\ UNCHANGED <<plan, dir>>
                           /\ jrnl'.phase = jrnl.phase /\ jrnl'.mode = jrnl.mode)
    <3>1. op.do = "confirmLink"
      BY <2>1, LineOps DEF Does
    <3> QED
      BY <1>1, <3>1, NotedOn
  <2>3. Tail(todo) = From(CopyLine, 8)
    BY <1>1, <1>8 DEF b
  <2>4. ASSUME todo' = Tail(todo), stage' = "commit", UNCHANGED dir, jrnl'.phase = jrnl.phase, jrnl'.mode = jrnl.mode
        PROVE  Underway'
    <3>1. CopyPhase(8) = "target_staged"
      BY DEF CopyPhase
    <3>2. dir'[At("tgt")] = "copy"
      BY <2>1, <2>4 DEF tgt
    <3> QED
      BY <1>2, <2>3, <2>4, <3>1, <3>2, CopyArrives
  <2> QED
    BY <1>3, <2>2, <2>4
<1> QED
  BY <1>5, <1>6, <1>7, <1>8

\* The detour of a move to another device: the original is looked at again and
\* the journal becomes a copy's (the crossDevice branch of publishMove).
LEMMA CrossOn ==
  ASSUME Onward, plan.kind = "move", NEW k \in 1..2, OnCross(k)
  PROVE  Underway'
<1> DEFINE op == Head(todo)
<1>1. /\ todo # <<>> /\ op = Crossing[k] /\ Tail(todo) = From(Crossing, k + 1) /\ (Tail(todo) = <<>> <=> k = 2)
  <2>1. Crossing \in Seq(Ops) /\ Len(Crossing) = 2 /\ todo = From(Crossing, k)
    BY LinesTyped DEF OnCross
  <2> QED
    BY <2>1, Alone
<1>2. /\ UNCHANGED plan /\ At("tgt") = "tgt" /\ Seen("tgt") = dir["tgt"] /\ jrnl \in Records
      /\ jrnl.phase = "prepared" /\ dir["src"] = "source" /\ dir["tgt"] = "none" /\ dir["priv"] = "none"
      /\ Origin = "src" /\ Selected = "source" /\ ~SamePath
  BY OnwardStep DEF At, SamePath, Seen, OnCross, Origin, Selected, Replaces
<1>3. ASSUME UNCHANGED vars PROVE Underway'
  <2>1. Underway
    BY DEF Underway, Onward
  <2> QED
    BY <1>3, <2>1, StillOn
<1>4. CASE k = 1
  <2>1. op = Crossing[1] /\ Tail(todo) = From(Crossing, 2) /\ Tail(todo) # <<>>
    BY <1>1, <1>4
  <2>2. UNCHANGED vars \/ (todo' = Tail(todo) /\ stage' = "commit" /\ UNCHANGED <<plan, dir, jrnl>>)
    BY <1>1, <1>2, <2>1, LineOps, CheckOn DEF Does
  <2>3. ASSUME todo' = Tail(todo), stage' = "commit", UNCHANGED <<plan, dir, jrnl>> PROVE Underway'
    <3>1. /\ todo' = From(Crossing, 2) /\ jrnl'.phase = "prepared"
          /\ dir'["src"] = "source" /\ dir'["tgt"] = "none" /\ dir'["priv"] = "none"
      BY <1>2, <2>1, <2>3
    <3>2. OnCross(2)'
      BY <3>1 DEF OnCross
    <3> QED
      BY <1>2, <2>3, <3>2 DEF Underway
  <2> QED
    BY <1>3, <2>2, <2>3
<1>5. CASE k = 2
  <2>1. op.do = "copyMode"
    BY <1>1, <1>5, LineOps DEF Does
  <2>2. ~Refused(op) /\ op.do \in JournalOps
    BY <1>2, <2>1 DEF Refused, JournalOps
  <2>3. UNCHANGED vars \/ (/\ jrnl' = Patched(jrnl, op) /\ stage' = "commit" /\ UNCHANGED <<plan, dir>>
                           /\ todo' = Forward(Patched(jrnl, op)))
    BY <1>1, <2>1, <2>2, NoteOn
  <2>4. Patched(jrnl, op).mode = "copy" /\ Patched(jrnl, op).phase = "prepared"
    BY <1>2, <2>1 DEF Patched, Eager, Records
  <2>5. Forward(Patched(jrnl, op)) = <<>> \o CopyAndPublish \o Install("copy")
    BY <1>2, <2>4 DEF Forward
  <2>6. Forward(Patched(jrnl, op)) = CopyLine
    BY <2>5, CopyWhole
  <2>7. From(CopyLine, 1) = CopyLine /\ CopyPhase(1) = "prepared"
    BY LinesTyped, Bounds DEF CopyPhase
  <2>8. ASSUME jrnl' = Patched(jrnl, op), stage' = "commit", UNCHANGED <<plan, dir>>, todo' = Forward(Patched(jrnl, op))
        PROVE  Underway'
    <3>1. /\ todo' = From(CopyLine, 1) /\ jrnl'.mode = "copy" /\ jrnl'.phase = CopyPhase(1)
          /\ dir'[Origin] = Selected /\ dir'["priv"] = "none" /\ dir'[At("tgt")] = "none"
      BY <1>2, <2>4, <2>6, <2>7, <2>8
    <3> QED
      BY <2>8, <3>1, CopyArrives
  <2> QED
    BY <1>3, <2>3, <2>8
<1> QED
  BY <1>4, <1>5

\* An original that is replaced in place is moved to the rollback first
\* (preserveExistingTarget).
LEMMA PreserveOn ==
  ASSUME Onward, plan.kind = "replaceInPlace", NEW k \in 1..4, OnPreserve(k)
  PROVE  Underway'
<1> DEFINE op == Head(todo)
<1>1. /\ todo # <<>> /\ op = PreserveSource[k] /\ Tail(todo) = From(PreserveSource, k + 1) \o CopyLine
      /\ Tail(todo) # <<>>
      /\ k = 4 => Tail(todo) = CopyLine
  <2>1. CopyLine \in Seq(Ops) /\ Len(CopyLine) = 12 /\ CopyLine # <<>>
    <3>1. CopyLine \in Seq(Ops) /\ Len(CopyLine) = 12
      BY LinesTyped
    <3>2. From(CopyLine, 1) = CopyLine /\ 1 \in 1..Len(CopyLine)
      BY <3>1, Bounds
    <3>3. From(CopyLine, 1) # <<>>
      BY <3>1, <3>2, Bounds
    <3> QED
      BY <3>1, <3>2, <3>3
  <2>2. PreserveSource \in Seq(Ops) /\ Len(PreserveSource) = 4 /\ todo = From(PreserveSource, k) \o CopyLine
    BY LinesTyped DEF OnPreserve
  <2> DEFINE b == CopyLine
             p == PreserveSource
  <2>3. b \in Seq(Ops) /\ b # <<>> /\ p \in Seq(Ops) /\ k \in 1..Len(p) /\ (k = 4 => k = Len(p))
    BY <2>1, <2>2
  <2>4. todo = From(p, k) \o b
    BY <2>2
  <2> HIDE DEF b, p
  <2>5. /\ todo # <<>> /\ op = p[k] /\ Tail(todo) # <<>>
        /\ Tail(todo) = From(p, k + 1) \o b
        /\ k = 4 => Tail(todo) = b
    BY <2>3, <2>4, Detour
  <2> QED
    BY <2>5 DEF b, p
<1>2. /\ UNCHANGED plan /\ dir \in [Names -> Artifacts] /\ CopyLine' = CopyLine /\ PreserveSource' = PreserveSource
      /\ At("tgt") = "src" /\ Origin = "stage" /\ Selected = "staged" /\ plan.fs # "noRename"
      /\ jrnl.mode = "copy" /\ jrnl.phase = "prepared" /\ dir["stage"] = "staged" /\ dir["priv"] = "none"
      /\ k <= 2 => dir["src"] = "source" /\ dir["rb"] = "none"
      /\ k > 2 => dir["src"] = "none" /\ dir["rb"] = "source"
  BY CopyNames DEF OnPreserve, At, SamePath, Origin, Selected, Replaces, Onward, Hopeful
<1>3. ASSUME UNCHANGED vars PROVE Underway'
  <2>1. Underway
    BY DEF Underway, Onward
  <2> QED
    BY <1>3, <2>1, StillOn
<1>4. ASSUME NEW j \in 1..4, k = j - 1, stage' = "commit", todo' = Tail(todo), jrnl'.mode = "copy",
             jrnl'.phase = "prepared", dir'["stage"] = "staged", dir'["priv"] = "none",
             j <= 2 => dir'["src"] = "source" /\ dir'["rb"] = "none",
             j > 2 => dir'["src"] = "none" /\ dir'["rb"] = "source"
      PROVE  Underway'
  <2>1. todo' = From(PreserveSource', j) \o CopyLine'
    <3>1. j = k + 1
      BY <1>4
    <3> QED
      BY <1>1, <1>2, <1>4, <3>1
  <2>2. OnPreserve(j)'
    BY <1>4, <2>1 DEF OnPreserve, From
  <2> QED
    BY <1>2, <1>4, <2>2 DEF Underway
<1>5. CASE k = 1
  <2>1. op.do = "noteRollback"
    BY <1>1, <1>5, LineOps DEF Does
  <2>2. UNCHANGED vars \/ (/\ todo' = Tail(todo) /\ stage' = "commit" /\ UNCHANGED <<plan, dir>>
                           /\ jrnl'.phase = jrnl.phase /\ jrnl'.mode = jrnl.mode)
    BY <1>1, <2>1, NotedOn
  <2> QED
    BY <1>2, <1>3, <1>4, <1>5, <2>2
<1>6. CASE k = 2
  <2>1. op.do = "move" /\ op.at = "src" /\ op.id = "source" /\ op.to = "rb"
    BY <1>1, <1>6, LineOps DEF Does
  <2>2. Verified(op)
    <3>1. dir[op.at] = op.id /\ dir[op.to] = "none" /\ plan.fs # "noRename"
      BY <1>2, <1>6, <2>1
    <3> QED
      BY <2>1, <3>1 DEF Verified
  <2>3. UNCHANGED vars \/ (Applied(op) /\ todo' = Tail(todo) /\ stage' = "commit" /\ UNCHANGED <<plan, jrnl, committed>>)
    BY <1>1, <2>1, <2>2, FileOn
  <2>4. Applied(op) => dir' = [dir EXCEPT !["src"] = "none", !["rb"] = "source"]
    BY <2>1 DEF Applied
  <2>5. Applied(op) => dir'["src"] = "none" /\ dir'["rb"] = "source" /\ dir'["stage"] = "staged" /\ dir'["priv"] = "none"
    BY <1>2, <2>4 DEF Names
  <2> QED
    BY <1>2, <1>3, <1>4, <1>6, <2>3, <2>5
<1>7. CASE k = 3
  <2>1. op.do = "flush" /\ op.at = "rb" /\ dir["rb"] # "none"
    BY <1>1, <1>2, <1>7, LineOps DEF Does
  <2>2. UNCHANGED vars \/ (todo' = Tail(todo) /\ stage' = "commit" /\ UNCHANGED <<plan, jrnl, dir, committed>>)
    BY <1>1, <2>1, FlushOn
  <2> QED
    BY <1>2, <1>3, <1>4, <1>7, <2>2
<1>8. CASE k = 4
  <2>1. op.do = "advance" /\ op.id = "source_preserved" /\ Tail(todo) = CopyLine
    BY <1>1, <1>8, LineOps DEF Does
  <2>2. UNCHANGED vars \/ (/\ todo' = Tail(todo) /\ stage' = "commit" /\ UNCHANGED <<plan, dir, committed>>
                           /\ jrnl'.phase = "source_preserved" /\ jrnl'.mode = jrnl.mode)
    BY <1>1, <1>2, <2>1, AdvanceOn DEF TransitionAllowed
  <2>3. From(CopyLine, 1) = CopyLine /\ CopyPhase(1) = "source_preserved"
    BY LinesTyped, Bounds DEF CopyPhase
  <2>4. ASSUME todo' = Tail(todo), stage' = "commit", UNCHANGED dir,
               jrnl'.phase = "source_preserved", jrnl'.mode = jrnl.mode
        PROVE  Underway'
    <3>1. /\ todo' = From(CopyLine, 1) /\ jrnl'.mode = "copy" /\ jrnl'.phase = CopyPhase(1)
          /\ dir'[Origin] = Selected /\ dir'["priv"] = "none" /\ dir'[At("tgt")] = "none"
      BY <1>2, <1>8, <2>1, <2>3, <2>4
    <3> QED
      BY <2>4, <3>1, CopyArrives
  <2> QED
    BY <1>3, <2>2, <2>4
<1> QED
  BY <1>5, <1>6, <1>7, <1>8

\* A commit that begins with nothing touched is under way.
LEMMA BeginOn ==
  ASSUME TypeOK, Unbegun, Hopeful, Commit
  PROVE  Underway'
<1>1. /\ jrnl' = Fresh /\ stage' = "commit" /\ todo' = Forward(Fresh) /\ UNCHANGED <<plan, dir>>
      /\ plan.kind # "inPlace" /\ plan.kind \in Kinds
  BY FinalizeAssumption DEF Commit, Hopeful, TypeOK, files
<1>2. /\ dir["src"] = "source" /\ dir["tgt"] = "none" /\ dir["priv"] = "none" /\ dir["rb"] = "none"
      /\ dir[Origin] = Selected
      /\ Replaces => dir["stage"] = "staged"
  BY DEF Unbegun, Names, Origin, Selected
<1>3. Fresh \in Records /\ Fresh.phase = "prepared" /\ Fresh.mode = IF plan.kind = "move" THEN "move" ELSE "copy"
  BY FreshTyped DEF Fresh, NoRecord
<1>4. CASE plan.kind = "move"
  <2>1. Forward(Fresh) = MoveProgram
    BY <1>3, <1>4, ForwardForms
  <2>2. From(MoveProgram, 1) = MoveProgram
    BY LinesTyped, Bounds
  <2>3. /\ todo' = From(MoveProgram, 1) /\ jrnl'.mode = "move" /\ jrnl'.phase = "prepared"
        /\ dir'["src"] = "source" /\ dir'["tgt"] = "none" /\ dir'["priv"] = "none"
    BY <1>1, <1>2, <1>3, <1>4, <2>1, <2>2
  <2>4. OnMove(1)'
    BY <2>3 DEF OnMove
  <2> QED
    BY <1>1, <1>4, <2>4 DEF Underway
<1>5. UNCHANGED CopyLine /\ UNCHANGED PreserveSource /\ At("tgt")' = At("tgt") /\ Origin' = Origin /\ Selected' = Selected
  <2>1. CopyLine' = CopyLine
    BY <1>1 DEF CopyLine, Selected, Replaces, At, SamePath
  <2>2. PreserveSource' = PreserveSource
    BY <1>1 DEF PreserveSource, Move, Op, Flush, Advance, At, SamePath
  <2> QED
    BY <1>1, <2>1, <2>2 DEF At, SamePath, Origin, Selected, Replaces
<1>6. CASE plan.kind \in {"copy", "replaceElsewhere"}
  <2>1. Forward(Fresh) = CopyLine /\ At("tgt") = "tgt"
    BY <1>3, <1>6, CopyWhole DEF Forward, SamePath, At
  <2>2. From(CopyLine, 1) = CopyLine
    BY LinesTyped, Bounds
  <2>3. /\ todo' = From(CopyLine', 1) /\ jrnl'.mode = "copy" /\ jrnl'.phase = "prepared" /\ plan'.kind # "replaceInPlace"
        /\ dir'[Origin'] = Selected' /\ Seen("tgt")' = "none" /\ dir'["priv"] = "none"
    BY <1>1, <1>2, <1>3, <1>5, <1>6, <2>1, <2>2 DEF Seen
  <2>4. OnCopy(1)'
    BY <2>3 DEF OnCopy, From
  <2> QED
    BY <1>1, <2>4 DEF Underway
<1>7. CASE plan.kind = "replaceInPlace"
  <2>1. Forward(Fresh) = PreserveSource \o CopyLine
    <3>1. Forward(Fresh) = PreserveSource \o CopyAndPublish \o Install("copy")
      BY <1>3, <1>7 DEF Forward, SamePath
    <3>2. PreserveSource \o CopyAndPublish \o Install("copy") = PreserveSource \o (CopyAndPublish \o Install("copy"))
      <4> DEFINE S == Ops \cup {CopyAndPublish[i] : i \in 1..9} \cup {Install("copy")[i] : i \in 1..3}
                 p == PreserveSource
                 a == CopyAndPublish
                 b == Install("copy")
      <4>1. a \in Seq(S) /\ b \in Seq(S)
        BY DEF CopyAndPublish, Install
      <4>2. p \in Seq(S)
        <5>1. p \in Seq(Ops) /\ Ops \subseteq S
          BY LinesTyped
        <5> HIDE DEF S, p
        <5> QED
          BY <5>1
      <4> HIDE DEF S, p, a, b
      <4>3. p \o a \o b = p \o (a \o b)
        BY <4>1, <4>2
      <4> QED
        BY <4>3 DEF p, a, b
    <3> QED
      BY <3>1, <3>2, CopyWhole
  <2>2. From(PreserveSource, 1) = PreserveSource
    BY LinesTyped, Bounds
  <2>3. /\ todo' = From(PreserveSource', 1) \o CopyLine' /\ jrnl'.mode = "copy" /\ jrnl'.phase = "prepared"
        /\ dir'["stage"] = "staged" /\ dir'["priv"] = "none" /\ dir'["src"] = "source" /\ dir'["rb"] = "none"
    BY <1>1, <1>2, <1>3, <1>5, <1>7, <2>1, <2>2 DEF Replaces
  <2>4. OnPreserve(1)'
    BY <2>3 DEF OnPreserve, From
  <2> QED
    BY <1>1, <1>7, <2>4 DEF Underway
<1> QED
  BY <1>1, <1>4, <1>6, <1>7 DEF Kinds

\* One step of an undisturbed publication.
LEMMA OnTrackStep ==
  ASSUME IInv, OnTrack, [Next]_vars
  PROVE  OnTrack'
<1>1. TypeOK /\ Placed /\ Staged /\ tally \in Tallied /\ committed \in BOOLEAN
  BY DEF IInv, TypeOK
<1>2. UNCHANGED plan
  BY <1>1, FilesStep
<1> SUFFICES ASSUME Smooth', Hopeful' PROVE committed' \/ Unbegun' \/ Underway'
  BY DEF OnTrack
<1>3. Hopeful
  BY <1>2 DEF Hopeful
<1>4. Smooth
  <2>1. /\ tally'.faults >= tally.faults /\ tally'.crashes >= tally.crashes /\ tally'.tampers >= tally.tampers
        /\ tally'.faults \in Nat /\ tally'.crashes \in Nat /\ tally'.tampers \in Nat
    <3>1. UNCHANGED tally \/ Fault \/ Crash \/ Tamper
      BY DEF vars, Next, Step, FileStep, Publish, CheckStep, SurviveStep, JournalStep, QuarantineStep, ResumeStep,
             RecoverStep, DeferStep, FailStep, Commit, Recover
    <3> QED
      BY <1>1, <3>1 DEF Tallied, Fault, Crash, Tamper
  <2> QED
    BY <1>1, <2>1 DEF Smooth, Tallied
<1>5. committed \/ Unbegun \/ Underway
  BY <1>3, <1>4 DEF OnTrack
<1>6. CASE committed
  BY <1>6 DEF vars, Next, Step, FileStep, Publish, CheckStep, SurviveStep, JournalStep, QuarantineStep, ResumeStep,
             RecoverStep, DeferStep, FailStep, Commit, Recover, Crash, Tamper
<1>7. CASE Unbegun
  <2>1. todo = <<>> /\ stage = "idle" /\ ~Unfinished
    BY <1>1, <1>7 DEF TypeOK, Unbegun, Unfinished
  <2>2. ~Tamper
    BY <1>1, <1>4 DEF Tamper, Smooth, Tallied
  <2>3. UNCHANGED vars \/ Commit
    BY <2>1, <2>2 DEF Next, Step, FileStep, Publish, CheckStep, SurviveStep, JournalStep, QuarantineStep, ResumeStep,
                      RecoverStep, DeferStep, FailStep, Recover, Crash
  <2>4. UNCHANGED vars => Unbegun'
    BY <1>7 DEF Unbegun, vars, Replaces
  <2> QED
    BY <1>1, <1>3, <1>7, <2>3, <2>4, BeginOn
<1>8. CASE Underway
  <2>1. Onward
    BY <1>1, <1>3, <1>4, <1>8 DEF Onward, Underway
  <2> QED
    BY <1>8, <2>1, MoveOn, MoveLinkOn, CrossOn, CopyOn, CopyLinkOn, PreserveOn DEF Underway
<1> QED
  BY <1>5, <1>6, <1>7, <1>8

\* A publication fails only when something went wrong: an operation, a crash, or
\* another program.  This holds for every plan that can succeed at all: a
\* replacement in place needs the rename that refuses to replace
\* (preserveExistingTarget), and no limit on faults and crashes is needed.
THEOREM FailuresExplained ==
  Spec => []((plan.kind = "replaceInPlace" => plan.fs # "noRename") => FailureExplained)
<1>1. Init => OnTrack
  BY DEF Init, OnTrack, Unbegun, NoRecord
<1>2. IInv /\ OnTrack /\ [Next]_vars => OnTrack'
  BY OnTrackStep
<1>3. IInv /\ OnTrack => ((plan.kind = "replaceInPlace" => plan.fs # "noRename") => FailureExplained)
  <2> SUFFICES ASSUME IInv, OnTrack, Hopeful, Settled, ~committed
               PROVE  tally.faults + tally.crashes + tally.tampers > 0
    BY DEF FailureExplained, FailureHasCause, Hopeful
  <2>1. ~Unbegun /\ ~Underway
    BY DEF Settled, Unbegun, Underway
  <2>2. ~Smooth
    BY <2>1 DEF OnTrack
  <2>3. tally \in Tallied
    BY DEF IInv, TypeOK
  <2> QED
    BY <2>2, <2>3, FinalizeAssumption DEF Smooth, Tallied
<1> QED
  BY <1>1, <1>2, <1>3, Invariance, PTL DEF Spec

=============================================================================
