------------------------- MODULE PostDeliveryProofs -------------------------
(***************************************************************************)
(* Post-task delivery for any deliveries, plugins, executions, limits and  *)
(* quotas: no delivery is executed twice at the same time, a guest runs    *)
(* the installed version of an enabled plugin only, and what happens to a  *)
(* delivery implements AtLeastOnce.                                        *)
(*                                                                         *)
(* The argument is about one execution at a time (Sound): which row it     *)
(* holds, and how its lease stands to the policy barrier of its plugin.    *)
(* A step changes one execution, or changes rows or a policy in a way that *)
(* the executions it does not touch cannot notice (Unaffected).            *)
(***************************************************************************)
EXTENDS PostDelivery, TLAPS

States    == Open \cup Outcomes \cup {"none", "refused"}
Mutations == {"none", "disable", "disabled", "upgrade", "upgraded"}
Row       == [st : States, version : Int, attempts : Int, waits : BOOLEAN,
              old : BOOLEAN, kept : BOOLEAN]
Policy    == [on : BOOLEAN, version : Int]
Slot      == [at : {"idle", "permit", "held", "ready", "running", "exited", "failed",
                    "rejected"},
              d : Deliveries \cup {0}, p : Plugins \cup {0}, mode : {"closed", "half_open"},
              attempt : Int, mine : BOOLEAN, lease : {"none", "live", "aborted"}]
Loop      == [at : {"off", "list", "try", "claim", "wait", "tail"}, todo : SUBSET Plugins,
              cursor : Plugins \cup {0}, claimed : Int, launched : BOOLEAN]

Typed ==
  /\ rows \in [Deliveries -> Row]
  /\ policy \in [Plugins -> Policy]
  /\ mutation \in [Plugins -> Mutations]
  /\ slots \in [Slots -> Slot]
  /\ DOMAIN breakers = Plugins
  /\ loop \in Loop

\* What is true of each execution.
RowOf(w) == rows[slots[w].d]
Now(w)   == policy[slots[w].p]

Holds(w) == slots[w].at \notin {"idle", "permit"} =>
  /\ slots[w].d \in Deliveries /\ slots[w].p = PluginOf[slots[w].d]
  /\ RowOf(w).st \in {"delivering"} \cup Outcomes

Current(w) == Now(w).on /\ RowOf(w).version = Now(w).version

LiveLease(w) == slots[w].lease = "live" =>
  /\ slots[w].at \in {"ready", "running"}
  /\ Current(w) /\ mutation[slots[w].p] = "none" /\ RowOf(w).st = "delivering"

Guest(w) == slots[w].at = "running" =>
  Current(w) /\ mutation[slots[w].p] \notin {"disabled", "upgraded"}

\* A claim that has lost its row to a change is one that acquire() refuses.
Claim(w) == slots[w].at = "held" /\ slots[w].lease = "none" =>
  \/ RowOf(w).st = "delivering"
  \/ mutation[slots[w].p] \notin {"disabled", "upgraded"} /\ ~Current(w)

Exit(w) == slots[w].at = "exited" => slots[w].d \in ran

Permit(w) == slots[w].at = "permit" => slots[w].p \in Plugins

Sound(w) == Permit(w) /\ Holds(w) /\ LiveLease(w) /\ Guest(w) /\ Claim(w) /\ Exit(w)

Fresh    == up = "recovering" => \A w \in Slots : slots[w] = Idle
Disabled == \A p \in Plugins : mutation[p] = "disabled" => ~policy[p].on

IInv == Typed /\ Fresh /\ Disabled /\ RowHeldOnce /\ \A w \in Slots : Sound(w)

-----------------------------------------------------------------------------
(* Rows.                                                                    *)

\* D comes to an outcome, no other row changes its state.
SettlesTo(D, outcome) ==
  /\ rows' \in [Deliveries -> Row]
  /\ \A d \in Deliveries : rows'[d].version = rows[d].version
  /\ \A d \in Deliveries : rows'[d].st = IF d \in D THEN outcome ELSE rows[d].st

LEMMA PrunedRows ==
  ASSUME NEW rs \in [Deliveries -> Row], NEW gone
  PROVE  /\ Pruned(rs, gone) \in [Deliveries -> Row]
         /\ \A d \in Deliveries : /\ Pruned(rs, gone)[d].st = rs[d].st
                                  /\ Pruned(rs, gone)[d].version = rs[d].version
                                  /\ Pruned(rs, gone)[d].attempts = rs[d].attempts
BY DEF Pruned, Row

LEMMA SettledRow ==
  ASSUME NEW row \in Row, NEW outcome \in Outcomes
  PROVE  /\ Settle(row, outcome) \in Row /\ Settle(row, outcome).st = outcome
         /\ Settle(row, outcome).version = row.version
         /\ Settle(row, outcome).attempts = row.attempts
BY DEF Settle, Row, States

LEMMA LeasedRow ==
  ASSUME NEW row \in Row
  PROVE  /\ Leased(row) \in Row /\ Leased(row).st = "delivering"
         /\ Leased(row).version = row.version /\ Leased(row).attempts = row.attempts + 1
<1>1. row.attempts + 1 \in Int /\ "delivering" \in States
  BY DEF Row, States, Open
<1> QED
  BY <1>1 DEF Leased, Row

LEMMA TerminalizesSettles ==
  ASSUME Typed, NEW D, NEW p, NEW outcome \in Outcomes, Terminalizes(D, p, outcome)
  PROVE  SettlesTo(D, outcome)
<1> DEFINE settled == [d \in Deliveries |-> IF d \in D THEN Settle(rows[d], outcome) ELSE rows[d]]
<1>1. settled \in [Deliveries -> Row]
  BY SettledRow DEF Typed
<1>2. \A d \in Deliveries : /\ settled[d].version = rows[d].version
                            /\ settled[d].st = IF d \in D THEN outcome ELSE rows[d].st
  BY SettledRow DEF Typed
<1>3. PICK gone : rows' = Pruned(settled, gone)
  BY DEF Terminalizes
<1> HIDE DEF settled
<1> QED
  BY <1>1, <1>2, <1>3, PrunedRows DEF SettlesTo

-----------------------------------------------------------------------------
(* Types.                                                                   *)

\* An execution holds a delivery, for the plugin it belongs to.
LEMMA Executes ==
  ASSUME IInv, NEW w \in Slots, slots[w].at \notin {"idle", "permit"}
  PROVE  slots[w].d \in Deliveries /\ slots[w].p \in Plugins /\ RowOf(w) \in Row
BY DeliveryAssumption DEF IInv, Sound, Holds, Typed, RowOf

LEMMA NoRowTyped == NoRow \in Row
BY DEF NoRow, Row, States

LEMMA IdleTyped == Idle \in Slot
BY DEF Idle, Slot

LEMMA OffTyped == Off \in Loop
BY DEF Off, Loop

LEMMA DoneTyped ==
  ASSUME Typed, NEW w \in Slots, Done(w)
  PROVE  slots' \in [Slots -> Slot] /\ loop' \in Loop
BY IdleTyped DEF Typed, Done, Woken, Loop

LEMMA EndedTyped == ASSUME Typed PROVE Ended \in Loop /\ Waits \in Loop
<1>1. Waits \in Loop
  BY DEF Waits, Typed, Loop
<1>2. \A k \in {"off", "tail"}, n \in Int :
        [loop EXCEPT !.at = k, !.claimed = n, !.todo = {}, !.launched = FALSE] \in Loop
  BY DEF Typed, Loop
<1>3. (IF Known = {} THEN "off" ELSE "tail") \in {"off", "tail"} /\ 0 \in Int
  OBVIOUS
<1>4. Ended \in Loop
  BY <1>2, <1>3, Zenon DEF Ended
<1> QED
  BY <1>1, <1>4

LEMMA ListedTyped == ASSUME Typed, NEW n \in Int PROVE Listed(n) \in Loop
<1>1. Ended \in Loop /\ Waits \in Loop
  BY EndedTyped
<1>2. Claimable \subseteq Plugins
  BY DEF Claimable
<1>3. [loop EXCEPT !.at = "try", !.todo = Claimable, !.claimed = n, !.launched = FALSE] \in Loop
  BY <1>2 DEF Typed, Loop
<1> QED
  BY <1>1, <1>3 DEF Listed

LEMMA TypedAdmit ==
  ASSUME IInv, NEW d \in Deliveries, Admit(d)
  PROVE  Typed'
<1> DEFINE p == PluginOf[d]
           row == [NoRow EXCEPT !.version = policy[p].version]
<1>1. row \in Row /\ "dead_letter" \in Outcomes
  <2>1. policy[p].version \in Int
    BY DeliveryAssumption DEF IInv, Typed, Policy
  <2> QED
    BY <2>1, NoRowTyped DEF Row, Outcomes
<1>2. [row EXCEPT !.st = "pending", !.kept = TRUE] \in Row /\ [row EXCEPT !.st = "refused"] \in Row
  BY <1>1 DEF Row, States, Open
<1> HIDE DEF row
<1>3. Settle(row, "dead_letter") \in Row
  BY <1>1, SettledRow
<1>4. rows' \in [Deliveries -> Row]
  <2>1. CASE rows' = [rows EXCEPT ![d] = [row EXCEPT !.st = "pending", !.kept = TRUE]]
    BY <1>2, <2>1 DEF IInv, Typed
  <2>2. CASE rows' = [rows EXCEPT ![d] = [row EXCEPT !.st = "refused"]]
    BY <1>2, <2>2 DEF IInv, Typed
  <2>3. CASE \E gone : rows' = Pruned([rows EXCEPT ![d] = Settle(row, "dead_letter")], gone)
    <3>1. [rows EXCEPT ![d] = Settle(row, "dead_letter")] \in [Deliveries -> Row]
      BY <1>3 DEF IInv, Typed
    <3>2. PICK gone : rows' = Pruned([rows EXCEPT ![d] = Settle(row, "dead_letter")], gone)
      BY <2>3
    <3> QED BY <3>1, <3>2, PrunedRows
  <2> QED
    BY <2>1, <2>2, <2>3 DEF Admit, row
<1> QED
  BY <1>4 DEF Admit, IInv, Typed, plugins

LEMMA TypedAcquire ==
  ASSUME IInv, NEW w \in Slots, AcquirePermit(w)
  PROVE  Typed'
<1>1. PICK p \in NextPlugin :
        \/ /\ \E mode \in {"closed", "half_open"} :
                slots' = [slots EXCEPT ![w] = [Idle EXCEPT !.at = "permit", !.p = p, !.mine = TRUE,
                                                         !.mode = mode]]
           /\ loop' = [loop EXCEPT !.at = "claim", !.todo = @ \ {p}, !.cursor = p]
           /\ DOMAIN breakers' = Plugins
        \/ /\ loop' = [loop EXCEPT !.todo = @ \ {p}, !.cursor = p]
           /\ UNCHANGED <<slots, breakers>>
  BY DEF AcquirePermit, IInv, Typed
<1>2. p \in Plugins
  BY DEF NextPlugin, Least, Todo, IInv, Typed, Loop
<1>3. loop' \in Loop /\ DOMAIN breakers' = Plugins
  BY <1>1, <1>2 DEF IInv, Typed, Loop
<1>4. slots' \in [Slots -> Slot]
  <2>1. \A mode \in {"closed", "half_open"} :
          [Idle EXCEPT !.at = "permit", !.p = p, !.mine = TRUE, !.mode = mode] \in Slot
    BY <1>2, IdleTyped DEF Slot
  <2> QED
    BY <1>1, <2>1 DEF IInv, Typed
<1> QED
  BY <1>3, <1>4 DEF AcquirePermit, IInv, Typed, plugins

LEMMA TypedClaim ==
  ASSUME IInv, NEW w \in Slots, ClaimRow(w)
  PROVE  Typed'
<1> DEFINE p == slots[w].p
           late == Before(p)
           settled == [d \in Deliveries |-> IF d \in late THEN Settle(rows[d], "dead_letter")
                                       ELSE IF d \in First(p) THEN Leased(rows[d]) ELSE rows[d]]
<1>1. settled \in [Deliveries -> Row]
  <2>1. \A d \in Deliveries : Leased(rows[d]) \in Row
    BY LeasedRow DEF IInv, Typed
  <2> QED
    BY <2>1, SettledRow DEF IInv, Typed, Outcomes
<1>2. rows' \in [Deliveries -> Row]
  <2>1. CASE UNCHANGED rows
    BY <2>1 DEF IInv, Typed
  <2>2. CASE \E gone : rows' = Pruned(settled, gone)
    BY <1>1, <2>2, PrunedRows
  <2> HIDE DEF settled
  <2> QED
    BY <2>1, <2>2 DEF ClaimRow, settled
<1>3. slots' \in [Slots -> Slot]
  <2>1. CASE slots' = [slots EXCEPT ![w] = Idle]
    BY <2>1, IdleTyped DEF IInv, Typed
  <2>2. CASE \E d \in First(p) : slots' = [slots EXCEPT ![w].at = "held", ![w].d = d,
                                                        ![w].attempt = rows[d].attempts + 1]
    <3>1. PICK d \in First(p) : slots' = [slots EXCEPT ![w].at = "held", ![w].d = d,
                                                        ![w].attempt = rows[d].attempts + 1]
      BY <2>2
    <3>2. d \in Deliveries
      BY DEF First, Least, Good, Due, Of
    <3>3. rows[d].attempts + 1 \in Int
      BY <3>2 DEF IInv, Typed, Row
    <3> DEFINE n == rows[d].attempts + 1
               s == [slots[w] EXCEPT !.at = "held", !.d = d, !.attempt = n]
    <3>4. slots \in [Slots -> Slot] /\ slots[w] \in Slot
      BY DEF IInv, Typed
    <3>5. slots' = [slots EXCEPT ![w] = s]
      BY <3>1
    <3> HIDE DEF n
    <3>6. n \in Int
      BY <3>3 DEF n
    <3>7. s \in Slot
      BY <3>2, <3>4, <3>6 DEF Slot
    <3> HIDE DEF s
    <3> QED
      BY <3>4, <3>5, <3>7
  <2> QED
    BY <2>1, <2>2 DEF ClaimRow
<1>4. loop' \in Loop
  <2>1. loop \in Loop
    BY DEF IInv, Typed
  <2>2. \/ loop' = [loop EXCEPT !.at = "try"]
        \/ loop' = [loop EXCEPT !.at = "try", !.launched = TRUE, !.claimed = loop.claimed + 1]
    BY DEF ClaimRow
  <2>3. [loop EXCEPT !.at = "try"] \in Loop
    BY <2>1 DEF Loop
  <2>4. [loop EXCEPT !.at = "try", !.launched = TRUE, !.claimed = loop.claimed + 1] \in Loop
    <3> DEFINE n == loop.claimed + 1
    <3>1. n \in Int
      BY <2>1 DEF Loop
    <3> HIDE DEF n
    <3>2. [loop EXCEPT !.at = "try", !.launched = TRUE, !.claimed = n] \in Loop
      BY <2>1, <3>1 DEF Loop
    <3> QED
      BY <3>2 DEF n
  <2> QED
    BY <2>2, <2>3, <2>4
<1>5. DOMAIN breakers' = Plugins
  BY DEF ClaimRow, ReleasePermit, IInv, Typed
<1> QED
  BY <1>2, <1>3, <1>4, <1>5 DEF ClaimRow, IInv, Typed, plugins

LEMMA TypedBatchFails == ASSUME IInv, BatchFails PROVE Typed'
<1>1. slots' \in [Slots -> Slot]
  <2>1. ASSUME NEW v \in Slots PROVE [slots[v] EXCEPT !.mine = FALSE] \in Slot
    <3>1. slots[v] \in Slot
      BY DEF IInv, Typed
    <3> QED
      BY <3>1 DEF Slot
  <2> QED
    BY <2>1, IdleTyped DEF BatchFails
<1>2. loop' \in Loop
  <2>1. loop' = [Off EXCEPT !.cursor = loop.cursor] /\ loop \in Loop
    BY DEF BatchFails, IInv, Typed
  <2>2. loop.cursor \in Plugins \cup {0}
    BY <2>1 DEF Loop
  <2> QED
    BY <2>1, <2>2, OffTyped DEF Loop
<1> QED
  BY <1>1, <1>2 DEF BatchFails, ReleasePermit, IInv, Typed, plugins

\* The end of an execution, whatever becomes of its row.
LEMMA TypedDone ==
  ASSUME IInv, NEW w \in Slots, Done(w), UNCHANGED <<policy, mutation>>,
         rows' \in [Deliveries -> Row], DOMAIN breakers' = Plugins
  PROVE  Typed'
BY DoneTyped DEF IInv, Typed

LEMMA DeadLetterRows ==
  ASSUME IInv, NEW w \in Slots, NEW outcome \in Outcomes, DeadLetter(w, outcome)
  PROVE  /\ DOMAIN breakers' = Plugins
         /\ \/ OwnsLease(w) /\ SettlesTo({slots[w].d}, outcome)
            \/ UNCHANGED rows
BY TerminalizesSettles DEF DeadLetter, CloseBreaker, database, IInv, Typed

LEMMA CompleteRows ==
  ASSUME IInv, NEW w \in Slots, Complete(w)
  PROVE  /\ DOMAIN breakers' = Plugins
         /\ \/ OwnsLease(w) /\ SettlesTo({slots[w].d}, "delivered")
            \/ UNCHANGED rows
BY TerminalizesSettles DEF Complete, CloseBreaker, database, IInv, Typed, Outcomes

LEMMA RetryRows ==
  ASSUME IInv, NEW w \in Slots, Retry(w)
  PROVE  /\ DOMAIN breakers' = Plugins
         /\ \/ OwnsLease(w) /\ SettlesTo({slots[w].d}, "dead_letter")
            \/ OwnsLease(w) /\ SettlesTo({slots[w].d}, "pending")
            \/ UNCHANGED rows
<1>1. slots[w].d \in Deliveries /\ RowOf(w) \in Row
  BY Executes DEF Retry
<1>2. CASE DeadLetter(w, "dead_letter")
  BY <1>2, DeadLetterRows DEF Outcomes
<1>3. CASE /\ OwnsLease(w)
           /\ rows' = [rows EXCEPT ![slots[w].d] = [RowOf(w) EXCEPT !.st = "pending", !.waits = TRUE]]
           /\ DOMAIN breakers' = Plugins
  <2>1. [RowOf(w) EXCEPT !.st = "pending", !.waits = TRUE] \in Row
    BY <1>1 DEF Row, States, Open
  <2> QED
    BY <1>1, <1>3, <2>1 DEF SettlesTo, IInv, Typed, Row, RowOf
<1> QED
  BY <1>2, <1>3 DEF Retry, RowOf, database, IInv, Typed

-----------------------------------------------------------------------------
(* Executions that a step does not touch, or ends.                          *)

Bare(w) == slots[w].at = "idle" /\ slots[w].lease # "live"

LEMMA BareSound == ASSUME NEW w \in Slots, Bare(w) PROVE Sound(w)
BY DEF Bare, Sound, Permit, Holds, LiveLease, Guest, Claim, Exit

LEMMA IdleBare == ASSUME NEW w \in Slots, slots[w] = Idle PROVE Bare(w)
BY DEF Bare, Idle

LEMMA Unaffected ==
  ASSUME NEW w \in Slots, Sound(w), ran \subseteq ran',
         slots'[w].at = slots[w].at, slots'[w].d = slots[w].d,
         slots'[w].p = slots[w].p, slots'[w].lease = slots[w].lease,
         slots[w].at \notin {"idle", "permit"} =>
           /\ rows'[slots[w].d].st = rows[slots[w].d].st
           /\ rows'[slots[w].d].version = rows[slots[w].d].version
           /\ policy'[slots[w].p] = policy[slots[w].p]
           /\ mutation'[slots[w].p] = mutation[slots[w].p]
  PROVE  Sound(w)'
<1>1. CASE slots[w].at \in {"idle", "permit"}
  BY <1>1 DEF Sound, Permit, Holds, LiveLease, Guest, Claim, Exit
<1>2. CASE slots[w].at \notin {"idle", "permit"}
  <2>1. RowOf(w)'.st = RowOf(w).st /\ RowOf(w)'.version = RowOf(w).version /\ Now(w)' = Now(w)
    BY <1>2 DEF RowOf, Now
  <2> QED
    BY <1>2, <2>1 DEF Sound, Permit, Holds, LiveLease, Guest, Claim, Exit, Current
<1> QED
  BY <1>1, <1>2

\* No execution is touched.
LEMMA SlotsKept ==
  ASSUME IInv, Typed', Fresh', UNCHANGED <<slots, policy, mutation>>, ran \subseteq ran',
         \A w \in Working : /\ rows'[slots[w].d].st = rows[slots[w].d].st
                            /\ rows'[slots[w].d].version = rows[slots[w].d].version
  PROVE  IInv'
<1>1. \A w \in Slots : Sound(w)'
  BY Unaffected DEF IInv, Working, Busy
<1> QED
  BY <1>1 DEF IInv, Disabled, RowHeldOnce, Working, Busy

\* One execution goes on with the row it holds.
LEMMA OneGoesOn ==
  ASSUME IInv, NEW w \in Slots, NEW s \in Slot, slots' = [slots EXCEPT ![w] = s],
         slots[w].at \notin {"idle", "permit"}, s.at # "permit", s.d = slots[w].d, s.p = slots[w].p,
         up # "recovering", UNCHANGED <<rows, policy, mutation, up, breakers, loop>>,
         ran \subseteq ran',
         LiveLease(w)', Guest(w)', Claim(w)', Exit(w)'
  PROVE  IInv'
<1>1. slots'[w] = s /\ \A v \in Slots \ {w} : slots'[v] = slots[v]
  BY DEF IInv, Typed
<1>2. \A v \in Slots \ {w} : Sound(v)'
  BY <1>1, Unaffected DEF IInv
<1>3. Holds(w)'
  BY <1>1 DEF IInv, Sound, Holds, RowOf
<1>4. RowHeldOnce'
  BY <1>1 DEF IInv, RowHeldOnce, Working, Busy
<1>5. Typed'
  BY DEF IInv, Typed
<1> QED
  BY <1>1, <1>2, <1>3, <1>4, <1>5 DEF IInv, Fresh, Disabled, Sound, Permit

\* One execution ends, and nobody else holds its row.
LEMMA OneEnds ==
  ASSUME IInv, NEW w \in Slots, Done(w), slots[w].at \notin {"idle", "permit"},
         up # "recovering", UNCHANGED <<policy, mutation, up, ran>>, DOMAIN breakers' = Plugins,
         UNCHANGED rows \/ \E outcome : SettlesTo({slots[w].d}, outcome)
  PROVE  IInv'
<1>1. slots'[w] = Idle /\ \A v \in Slots \ {w} : slots'[v] = slots[v]
  BY DEF IInv, Typed, Done
<1>2. Typed'
  BY TypedDone DEF IInv, Typed, SettlesTo
<1>3. \A v \in Slots \ {w} : v \in Working =>
        /\ rows'[slots[v].d].st = rows[slots[v].d].st
        /\ rows'[slots[v].d].version = rows[slots[v].d].version
  <2> SUFFICES ASSUME NEW v \in Slots \ {w}, v \in Working,
                      NEW outcome, SettlesTo({slots[w].d}, outcome)
               PROVE  /\ rows'[slots[v].d].st = rows[slots[v].d].st
                      /\ rows'[slots[v].d].version = rows[slots[v].d].version
    OBVIOUS
  <2>1. slots[v].d # slots[w].d /\ slots[v].d \in Deliveries
    BY DEF IInv, RowHeldOnce, Sound, Holds, Working, Busy
  <2> QED
    BY <2>1 DEF SettlesTo
<1>4. \A v \in Slots : Sound(v)'
  <2>1. Sound(w)'
    BY <1>1, BareSound, IdleBare DEF Bare, Idle, Sound, Permit, Holds, LiveLease, Guest, Claim, Exit
  <2>2. \A v \in Slots \ {w} : Sound(v)'
    BY <1>1, <1>3, Unaffected DEF IInv, Working, Busy
  <2> QED
    BY <2>1, <2>2
<1>5. RowHeldOnce'
  BY <1>1 DEF IInv, RowHeldOnce, Working, Busy, Idle
<1> QED
  BY <1>2, <1>4, <1>5 DEF IInv, Fresh, Disabled

-----------------------------------------------------------------------------
(* The steps.                                                               *)

LEMMA InitSound == Init => IInv
<1> SUFFICES ASSUME Init PROVE IInv
  OBVIOUS
<1>1. Typed
  <2>1. rows \in [Deliveries -> Row] /\ slots \in [Slots -> Slot]
    BY NoRowTyped, IdleTyped DEF Init
  <2>2. policy \in [Plugins -> Policy]
    <3>1. [on |-> TRUE, version |-> 1] \in Policy
      BY DEF Policy
    <3> QED
      BY <3>1 DEF Init
  <2> QED
    BY <2>1, <2>2, OffTyped DEF Typed, Init, Mutations
<1>2. \A w \in Slots : slots[w] = Idle
  BY DEF Init
<1>3. \A w \in Slots : Sound(w)
  BY <1>2, IdleBare, BareSound
<1>4. RowHeldOnce
  BY <1>2 DEF RowHeldOnce, Working, Busy, Idle
<1> QED
  BY <1>1, <1>2, <1>3, <1>4 DEF IInv, Fresh, Disabled, Init

\* Admission: a candidate that was none is nobody's row.
LEMMA AdmitSound == ASSUME IInv, NEW d \in Deliveries, Admit(d) PROVE IInv'
<1> DEFINE p == PluginOf[d]
           row == [NoRow EXCEPT !.version = policy[p].version]
<1>1. \A e \in Deliveries \ {d} : rows'[e].st = rows[e].st /\ rows'[e].version = rows[e].version
  <2>1. CASE \E r : rows' = [rows EXCEPT ![d] = r]
    BY <2>1 DEF IInv, Typed
  <2>2. CASE \E gone : rows' = Pruned([rows EXCEPT ![d] = Settle(row, "dead_letter")], gone)
    <3>1. PICK gone : rows' = Pruned([rows EXCEPT ![d] = Settle(row, "dead_letter")], gone)
      BY <2>2
    <3> QED
      BY <3>1 DEF IInv, Typed, Row, Pruned
  <2> QED
    BY <2>1, <2>2 DEF Admit
<1>2. \A w \in Working : slots[w].d \in Deliveries \ {d}
  BY DEF Admit, IInv, Sound, Holds, RowOf, Working, Busy, Outcomes
<1>3. Fresh'
  BY DEF Admit, IInv, Fresh
<1> QED
  BY <1>1, <1>2, <1>3, TypedAdmit, SlotsKept DEF Admit, plugins

\* Steps of the loop, of time and of maintenance keep what the executions see.
SameRows ==
  /\ rows' \in [Deliveries -> Row]
  /\ \A d \in Deliveries : rows'[d].st = rows[d].st /\ rows'[d].version = rows[d].version

LEMMA LoopSound ==
  ASSUME IInv, UNCHANGED <<plugins, slots, ran>>, SameRows \/ UNCHANGED rows,
         DOMAIN breakers' = Plugins, loop' \in Loop, up' # "recovering" \/ up' = up
  PROVE  IInv'
<1>1. Typed' /\ Fresh'
  BY DEF IInv, Typed, Fresh, SameRows, plugins
<1>2. \A w \in Working : slots[w].d \in Deliveries
  BY Executes DEF Working, Busy
<1> QED
  BY <1>1, <1>2, SlotsKept DEF SameRows, plugins

LEMMA QuietSound ==
  ASSUME IInv,
         \/ Wake \/ ListPlugins \/ EndOfList \/ Stop \/ Maintain
         \/ \E p \in Plugins : PauseEnds(p) \/ WindowEnds(p)
         \/ \E d \in Deliveries : RetryDue(d) \/ GrowsOld(d)
  PROVE  IInv'
<1>1. Typed /\ loop.claimed \in Int /\ 0 \in Int
  BY DEF IInv, Typed, Loop
<1>2. Ended \in Loop /\ Waits \in Loop /\ Listed(0) \in Loop /\ Listed(loop.claimed) \in Loop
  BY <1>1, ListedTyped, EndedTyped
<1>3. CASE Wake \/ ListPlugins \/ EndOfList
  <2>1. loop' \in Loop
    BY <1>2, <1>3 DEF Wake, ListPlugins, EndOfList
  <2>2. UNCHANGED <<plugins, slots, ran, rows, breakers, up>>
    BY <1>3 DEF Wake, ListPlugins, EndOfList, database, plugins
  <2> QED
    BY <1>1, <2>1, <2>2, LoopSound DEF Typed
<1>4. CASE Stop
  BY <1>1, <1>4, LoopSound DEF Stop, database, Typed
<1>5. CASE Maintain
  <2>1. SameRows
    BY <1>1, <1>5, PrunedRows DEF Maintain, SameRows, Typed
  <2> QED
    BY <1>1, <1>5, <2>1, LoopSound DEF Maintain, Typed
<1>6. ASSUME NEW p \in Plugins, PauseEnds(p) \/ WindowEnds(p) PROVE IInv'
  BY <1>1, <1>6, LoopSound DEF PauseEnds, WindowEnds, Typed
<1>7. ASSUME NEW d \in Deliveries, RetryDue(d) \/ GrowsOld(d) PROVE IInv'
  <2>1. SameRows
    <3>1. CASE RetryDue(d)
      BY <1>1, <3>1 DEF RetryDue, SameRows, Typed, Row
    <3>2. CASE GrowsOld(d)
      <4>1. rows' = [rows EXCEPT ![d].old = TRUE]
        BY <3>2 DEF GrowsOld
      <4> QED
        BY <1>1, <4>1 DEF SameRows, Typed, Row
    <3> QED
      BY <1>7, <3>1, <3>2
  <2> QED
    BY <1>1, <1>7, <2>1, LoopSound DEF RetryDue, GrowsOld, Typed
<1> QED
  BY <1>3, <1>4, <1>5, <1>6, <1>7

LEMMA AcquireSound == ASSUME IInv, NEW w \in Slots, AcquirePermit(w) PROVE IInv'
<1>1. /\ slots[w].at = "idle" /\ up # "recovering"
      /\ UNCHANGED <<rows, policy, mutation, up, ran>>
      /\ \A v \in Slots \ {w} : slots'[v] = slots[v]
      /\ \/ slots'[w] = slots[w]
         \/ slots'[w].at = "permit" /\ slots'[w].lease = "none" /\ slots'[w].p \in Plugins
  <2>1. PICK p \in NextPlugin :
          \/ \E mode : slots' = [slots EXCEPT ![w] =
                [Idle EXCEPT !.at = "permit", !.p = p, !.mine = TRUE, !.mode = mode]]
          \/ UNCHANGED slots
    BY DEF AcquirePermit
  <2>2. p \in Plugins
    BY DEF NextPlugin, Least, Todo, IInv, Typed, Loop
  <2> DEFINE s(mode) == [Idle EXCEPT !.at = "permit", !.p = p, !.mine = TRUE, !.mode = mode]
  <2>3. \A mode : s(mode).at = "permit" /\ s(mode).lease = "none" /\ s(mode).p = p
    BY DEF Idle
  <2>4. slots \in [Slots -> Slot]
    BY DEF IInv, Typed
  <2> HIDE DEF s
  <2>5. /\ \A v \in Slots \ {w} : slots'[v] = slots[v]
        /\ \/ slots'[w] = slots[w]
           \/ slots'[w].at = "permit" /\ slots'[w].lease = "none" /\ slots'[w].p \in Plugins
    <3>1. CASE UNCHANGED slots
      BY <3>1
    <3>2. ASSUME NEW mode, slots' = [slots EXCEPT ![w] = s(mode)]
          PROVE  /\ \A v \in Slots \ {w} : slots'[v] = slots[v]
                 /\ slots'[w].at = "permit" /\ slots'[w].lease = "none" /\ slots'[w].p \in Plugins
      <4>1. slots'[w] = s(mode) /\ \A v \in Slots \ {w} : slots'[v] = slots[v]
        BY <2>4, <3>2
      <4> QED
        BY <2>2, <2>3, <4>1
    <3>3. UNCHANGED slots \/ \E mode : slots' = [slots EXCEPT ![w] = s(mode)]
      BY <2>1 DEF s
    <3> QED
      BY <3>1, <3>2, <3>3
  <2> QED
    BY <2>5 DEF AcquirePermit, plugins, Running
<1>2. \A v \in Slots \ {w} : Sound(v)'
  BY <1>1, Unaffected DEF IInv
<1>3. Sound(w)'
  <2>1. CASE slots'[w] = slots[w]
    BY <1>1, <2>1, Unaffected DEF IInv
  <2>2. CASE slots'[w].at = "permit" /\ slots'[w].lease = "none" /\ slots'[w].p \in Plugins
    BY <2>2 DEF Sound, Permit, Holds, LiveLease, Guest, Claim, Exit
  <2> QED
    BY <1>1, <2>1, <2>2
<1>4. RowHeldOnce'
  BY <1>1 DEF IInv, RowHeldOnce, Working, Busy
<1> QED
  BY <1>1, <1>2, <1>3, <1>4, TypedAcquire DEF IInv, Fresh, Disabled

\* The claimed row was pending, so nobody held it.
LEMMA ClaimSound == ASSUME IInv, NEW w \in Slots, ClaimRow(w) PROVE IInv'
<1> DEFINE p == slots[w].p
           late == Before(p)
           settled == [d \in Deliveries |-> IF d \in late THEN Settle(rows[d], "dead_letter")
                                       ELSE IF d \in First(p) THEN Leased(rows[d]) ELSE rows[d]]
<1>1. /\ slots[w].at = "permit" /\ up # "recovering"
      /\ UNCHANGED <<policy, mutation, up, ran>>
      /\ \A v \in Slots \ {w} : slots'[v] = slots[v]
  BY DEF ClaimRow, IInv, Typed, plugins, Running
<1>2. \A d \in late \cup First(p) : rows[d].st = "pending" /\ d \in Deliveries
  BY DEF Before, First, Least, Good, Due, Of
<1>3. /\ \A d \in Deliveries \ (late \cup First(p)) :
            rows'[d].st = rows[d].st /\ rows'[d].version = rows[d].version
      /\ \A d \in First(p) : ~Stopping => rows'[d].st = "delivering"
  <2>1. CASE UNCHANGED rows /\ Stopping
    BY <2>1
  <2>2. CASE \E gone : rows' = Pruned(settled, gone)
    <3>1. PICK gone : rows' = Pruned(settled, gone)
      BY <2>2
    <3>2. \A d \in First(p) : d \in Deliveries /\ d \notin late
      BY DEF Before, First, Least, Good, Due, Of
    <3>3. /\ settled \in [Deliveries -> Row]
          /\ \A d \in First(p) : settled[d].st = "delivering"
          /\ \A d \in Deliveries \ (late \cup First(p)) : settled[d] = rows[d]
      BY <3>2, SettledRow, LeasedRow DEF IInv, Typed, Outcomes
    <3> HIDE DEF settled
    <3> QED
      BY <3>1, <3>2, <3>3, PrunedRows
  <2> HIDE DEF settled
  <2> QED
    BY <2>1, <2>2 DEF ClaimRow, settled
<1>4. \A v \in Working : slots[v].d \in Deliveries \ (late \cup First(p))
  BY <1>2 DEF IInv, Sound, Holds, RowOf, Working, Busy, Outcomes
<1>5. \A v \in Slots \ {w} : Sound(v)'
  BY <1>1, <1>3, <1>4, Unaffected DEF IInv, Working, Busy
<1>6. CASE slots'[w] = Idle
  <2>1. Sound(w)'
    BY <1>6 DEF Idle, Sound, Permit, Holds, LiveLease, Guest, Claim, Exit
  <2>2. RowHeldOnce'
    BY <1>1, <1>6 DEF IInv, RowHeldOnce, Working, Busy, Idle
  <2> QED
    BY <1>1, <1>5, <2>1, <2>2, TypedClaim DEF IInv, Fresh, Disabled
<1>7. CASE /\ ~Stopping
           /\ \E d \in First(p) : /\ slots'[w].at = "held" /\ slots'[w].d = d
                                  /\ slots'[w].p = p /\ slots'[w].lease = slots[w].lease
  <2>1. PICK d \in First(p) : /\ slots'[w].at = "held" /\ slots'[w].d = d
                              /\ slots'[w].p = p /\ slots'[w].lease = slots[w].lease
    BY <1>7
  <2>2. d \in Deliveries /\ p \in Plugins /\ PluginOf[d] = p
    BY <1>1, DeliveryAssumption DEF First, Least, Good, Due, Of, Global, Plugins, IInv, Sound, Permit
  <2>3. Sound(w)'
    BY <1>1, <1>3, <1>7, <2>1, <2>2 DEF IInv, Sound, Permit, Holds, LiveLease, Guest, Claim, Exit, RowOf
  <2>4. RowHeldOnce'
    BY <1>1, <1>4, <2>1 DEF IInv, RowHeldOnce, Working, Busy
  <2> QED
    BY <1>1, <1>5, <2>3, <2>4, TypedClaim DEF IInv, Fresh, Disabled
<1>8. QED
  <2>1. CASE /\ ~Stopping
             /\ \E d \in First(p) : slots' = [slots EXCEPT ![w].at = "held", ![w].d = d,
                                                           ![w].attempt = rows[d].attempts + 1]
    <3>1. PICK d \in First(p) : slots' = [slots EXCEPT ![w].at = "held", ![w].d = d,
                                                        ![w].attempt = rows[d].attempts + 1]
      BY <2>1
    <3>2. /\ slots'[w].at = "held" /\ slots'[w].d = d
          /\ slots'[w].p = p /\ slots'[w].lease = slots[w].lease
      BY <3>1 DEF IInv, Typed, Slot
    <3> QED
      BY <1>7, <2>1, <3>2
  <2>2. CASE slots' = [slots EXCEPT ![w] = Idle]
    BY <1>6, <2>2 DEF IInv, Typed
  <2> QED
    BY <2>1, <2>2 DEF ClaimRow

LEMMA BatchFailsSound == ASSUME IInv, BatchFails PROVE IInv'
<1>1. /\ UNCHANGED <<rows, policy, mutation, ran, up>> /\ up # "recovering"
      /\ \A w \in Slots : IF slots[w].at = "permit" THEN slots'[w] = Idle
                          ELSE /\ slots'[w].at = slots[w].at /\ slots'[w].d = slots[w].d
                               /\ slots'[w].p = slots[w].p /\ slots'[w].lease = slots[w].lease
  BY DEF BatchFails, IInv, Typed, Slot, plugins, Running
<1>2. \A w \in Slots : Sound(w)'
  <2> TAKE w \in Slots
  <2>1. CASE slots[w].at = "permit"
    BY <1>1, <2>1 DEF Idle, Sound, Permit, Holds, LiveLease, Guest, Claim, Exit
  <2>2. CASE slots[w].at # "permit"
    BY <1>1, <2>2, Unaffected DEF IInv
  <2> QED
    BY <2>1, <2>2
<1>3. RowHeldOnce'
  BY <1>1 DEF IInv, RowHeldOnce, Working, Busy, Idle
<1> QED
  BY <1>1, <1>2, <1>3, TypedBatchFails DEF IInv, Fresh, Disabled

\* The ends of an execution.
LEMMA EndsSound ==
  ASSUME IInv, NEW w \in Slots,
         Refuse(w) \/ Reject(w) \/ Complete(w) \/ Retry(w) \/ StoreFails(w)
  PROVE  IInv'
<1>1. /\ Done(w) /\ slots[w].at \notin {"idle", "permit"} /\ up # "recovering"
      /\ UNCHANGED <<policy, mutation, up, ran>>
  BY DEF Refuse, Reject, Complete, Retry, StoreFails, Running, plugins
<1>2. /\ DOMAIN breakers' = Plugins
      /\ UNCHANGED rows \/ \E outcome : SettlesTo({slots[w].d}, outcome)
  <2>1. CASE Refuse(w) \/ Reject(w)
    BY <2>1, DeadLetterRows DEF Refuse, Reject, Refusal, Outcomes
  <2>2. CASE Complete(w) \/ Retry(w)
    BY <2>2, CompleteRows, RetryRows
  <2>3. CASE StoreFails(w)
    BY <2>3 DEF StoreFails, database, IInv, Typed
  <2> QED
    BY <2>1, <2>2, <2>3
<1> QED
  BY <1>1, <1>2, OneEnds

\* A lease is granted to a row that is still its own: a change that took the
\* row away has aborted the claim or left another policy behind.
LEMMA AuthorizeSound == ASSUME IInv, NEW w \in Slots, Authorize(w) PROVE IInv'
<1> DEFINE s(at, lease) == [slots[w] EXCEPT !.at = at, !.lease = lease]
<1>1. /\ slots[w].at = "held" /\ Refusal(w) = "none" /\ up # "recovering"
      /\ UNCHANGED <<rows, policy, mutation, up, breakers, loop, ran>>
  BY DEF Authorize, Running, database, plugins
<1>2. ASSUME NEW at \in {"failed", "ready"}, NEW lease \in {"none", "live"}
      PROVE  /\ s(at, lease) \in Slot /\ s(at, lease).at = at /\ s(at, lease).lease = lease
             /\ s(at, lease).d = slots[w].d /\ s(at, lease).p = slots[w].p
  <2>1. slots[w] \in Slot
    BY DEF IInv, Typed
  <2>2. s(at, lease) \in Slot
    BY <2>1 DEF Slot
  <2>3. /\ s(at, lease).at = at /\ s(at, lease).lease = lease
        /\ s(at, lease).d = slots[w].d /\ s(at, lease).p = slots[w].p
    BY <2>1 DEF Slot
  <2> QED
    BY <2>2, <2>3
<1>3. CASE slots' = [slots EXCEPT ![w] = s("failed", "none")]
  <2>1. LiveLease(w)' /\ Guest(w)' /\ Claim(w)' /\ Exit(w)'
    BY <1>2, <1>3 DEF IInv, Typed, LiveLease, Guest, Claim, Exit
  <2> HIDE DEF s
  <2> QED
    BY <1>1, <1>2, <1>3, <2>1, OneGoesOn
<1>4. CASE /\ slots' = [slots EXCEPT ![w] = s("ready", "live")]
           /\ mutation[slots[w].p] = "none" /\ slots[w].lease # "aborted"
  <2>1. Current(w) /\ RowOf(w).st = "delivering"
    <3>1. Current(w)
      BY <1>1 DEF Refusal, Current, RowOf, Now
    <3>2. slots[w].lease = "none"
      BY <1>1, <1>4 DEF IInv, Typed, Slot, Sound, LiveLease
    <3> QED
      BY <1>1, <3>1, <3>2 DEF IInv, Sound, Claim
  <2>2. slots'[w] = s("ready", "live")
    BY <1>4 DEF IInv, Typed
  <2> HIDE DEF s
  <2>3. LiveLease(w)' /\ Guest(w)' /\ Claim(w)' /\ Exit(w)'
    BY <1>1, <1>2, <1>4, <2>1, <2>2 DEF LiveLease, Guest, Claim, Exit, Current, RowOf, Now
  <2> QED
    BY <1>1, <1>2, <1>4, <2>3, OneGoesOn
<1> QED
  BY <1>3, <1>4 DEF Authorize

LEMMA GuestSound ==
  ASSUME IInv, NEW w \in Slots, Invoke(w) \/ GuestExits(w) \/ GuestFails(w)
  PROVE  IInv'
<1>1. /\ slots[w].at \in {"ready", "running"} /\ up # "recovering"
      /\ UNCHANGED <<rows, policy, mutation, up, breakers, loop>>
  BY DEF Invoke, GuestExits, GuestFails, Running, database, plugins
<1>2. ASSUME NEW at \in {"running", "exited", "failed", "rejected"}, NEW lease \in {"none", "live"}
      PROVE  LET s == [slots[w] EXCEPT !.at = at, !.lease = lease]
             IN  /\ s \in Slot /\ s.at = at /\ s.lease = lease
                 /\ s.d = slots[w].d /\ s.p = slots[w].p
  <2> DEFINE s == [slots[w] EXCEPT !.at = at, !.lease = lease]
  <2>1. slots[w] \in Slot
    BY DEF IInv, Typed
  <2>2. s \in Slot
    BY <2>1 DEF Slot
  <2>3. /\ s.at = at /\ s.lease = lease
        /\ s.d = slots[w].d /\ s.p = slots[w].p
    BY <2>1 DEF Slot
  <2> QED
    BY <2>2, <2>3
<1>3. CASE Invoke(w)
  <2> DEFINE s == [slots[w] EXCEPT !.at = "running", !.lease = "live"]
  <2>1. slots' = [slots EXCEPT ![w] = s] /\ slots[w].lease = "live" /\ UNCHANGED ran
    BY <1>3 DEF Invoke, IInv, Typed, Slot
  <2>2. /\ s \in Slot /\ s.at = "running" /\ s.lease = "live"
        /\ s.d = slots[w].d /\ s.p = slots[w].p
    BY <1>2
  <2> HIDE DEF s
  <2>3. slots'[w] = s
    BY <2>1 DEF IInv, Typed
  <2>4. LiveLease(w)' /\ Guest(w)' /\ Claim(w)' /\ Exit(w)'
    BY <1>1, <2>1, <2>2, <2>3
    DEF IInv, Sound, LiveLease, Guest, Claim, Exit, Current, RowOf, Now
  <2> QED
    BY <1>1, <2>1, <2>2, <2>4, OneGoesOn
<1>4. CASE GuestExits(w)
  <2> DEFINE s == [slots[w] EXCEPT !.at = "exited", !.lease = "none"]
  <2>1. slots' = [slots EXCEPT ![w] = s] /\ ran' = ran \cup {slots[w].d}
    BY <1>4 DEF GuestExits
  <2>2. /\ s \in Slot /\ s.at = "exited" /\ s.lease = "none"
        /\ s.d = slots[w].d /\ s.p = slots[w].p
    BY <1>2
  <2> HIDE DEF s
  <2>3. slots'[w] = s
    BY <2>1 DEF IInv, Typed
  <2>4. LiveLease(w)' /\ Guest(w)' /\ Claim(w)' /\ Exit(w)'
    BY <2>1, <2>2, <2>3 DEF LiveLease, Guest, Claim, Exit
  <2> QED
    BY <1>1, <2>1, <2>2, <2>4, OneGoesOn
<1>5. CASE GuestFails(w)
  <2>0. PICK at \in {"failed", "rejected"} :
          slots' = [slots EXCEPT ![w].at = at, ![w].lease = "none"]
    BY <1>5 DEF GuestFails
  <2> DEFINE s == [slots[w] EXCEPT !.at = at, !.lease = "none"]
  <2>1. slots' = [slots EXCEPT ![w] = s] /\ UNCHANGED ran
    BY <1>5, <2>0 DEF GuestFails
  <2>2. /\ s \in Slot /\ s.at \in {"failed", "rejected"} /\ s.lease = "none"
        /\ s.d = slots[w].d /\ s.p = slots[w].p
    BY <1>2
  <2> HIDE DEF s
  <2>3. slots'[w] = s
    BY <2>1 DEF IInv, Typed
  <2>4. LiveLease(w)' /\ Guest(w)' /\ Claim(w)' /\ Exit(w)'
    BY <2>2, <2>3 DEF LiveLease, Guest, Claim, Exit
  <2> QED
    BY <1>1, <2>1, <2>2, <2>4, OneGoesOn
<1> QED
  BY <1>3, <1>4, <1>5

LEMMA BeginSound ==
  ASSUME IInv, NEW p \in Plugins, NEW kind \in {"disable", "upgrade"}, BeginChange(p, kind)
  PROVE  IInv'
<1>1. /\ UNCHANGED <<rows, breakers, policy, loop, up, ran>>
      /\ mutation' = [mutation EXCEPT ![p] = kind] /\ mutation[p] = "none"
  BY DEF BeginChange, database
<1>2. /\ slots' \in [Slots -> Slot]
      /\ \A w \in Slots : /\ slots'[w].at = slots[w].at /\ slots'[w].d = slots[w].d
                          /\ slots'[w].p = slots[w].p
                          /\ slots'[w].lease = IF slots[w].p = p /\ slots[w].lease = "live"
                                               THEN "aborted" ELSE slots[w].lease
  BY DEF BeginChange, IInv, Typed, Slot
<1>3. Typed'
  BY <1>1, <1>2 DEF IInv, Typed, Mutations
<1>4. /\ mutation'[p] = kind
      /\ \A q \in Plugins \ {p} : mutation'[q] = mutation[q]
  BY <1>1 DEF IInv, Typed
<1>5. Disabled' /\ Fresh'
  <2>1. Disabled'
    BY <1>1, <1>4 DEF IInv, Disabled
  <2>2. Fresh'
    <3>1. \A w \in Slots : slots[w] = Idle => slots'[w] = Idle
      BY DEF BeginChange, Idle
    <3> QED
      BY <1>1, <3>1 DEF IInv, Fresh
  <2> QED
    BY <2>1, <2>2
<1>6. RowHeldOnce'
  BY <1>2 DEF IInv, RowHeldOnce, Working, Busy
<1>7. \A w \in Slots : Sound(w)'
  <2> TAKE w \in Slots
  <2>1. Sound(w) /\ (slots[w].at \notin {"idle", "permit"} => slots[w].p \in Plugins)
    BY Executes DEF IInv
  <2>2. CASE slots[w].p = p
    BY <1>1, <1>2, <1>4, <2>1, <2>2
    DEF Sound, Permit, Holds, LiveLease, Guest, Claim, Exit, Current, RowOf, Now
  <2>3. CASE slots[w].p # p
    BY <1>1, <1>2, <1>4, <2>1, <2>3, Unaffected
  <2> QED
    BY <2>2, <2>3
<1> QED
  BY <1>3, <1>5, <1>6, <1>7 DEF IInv

\* Nothing of the plugin runs when its new state is published.
LEMMA PublishSound == ASSUME IInv, NEW p \in Plugins, Publish(p) PROVE IInv'
<1>1. /\ UNCHANGED <<rows, breakers, loop, up, ran>>
      /\ mutation[p] \in {"disable", "upgrade"}
      /\ \A w \in Slots : slots[w].at = "running" => slots[w].p # p
  BY DEF Publish, database, Drained
<1>2. /\ slots' \in [Slots -> Slot]
      /\ \A w \in Slots : /\ slots'[w].at = slots[w].at /\ slots'[w].d = slots[w].d
                          /\ slots'[w].p = slots[w].p
                          /\ slots'[w].lease = IF slots[w].p = p /\ slots[w].at = "held"
                                               THEN "aborted" ELSE slots[w].lease
  BY DEF Publish, IInv, Typed, Slot
<1>3. /\ policy' \in [Plugins -> Policy] /\ mutation' \in [Plugins -> Mutations]
      /\ mutation'[p] = "disabled" => ~policy'[p].on
      /\ \A q \in Plugins \ {p} : mutation'[q] = mutation[q] /\ policy'[q] = policy[q]
  <2>1. CASE mutation[p] = "disable"
    <3>1. /\ policy' = [policy EXCEPT ![p].on = FALSE]
          /\ mutation' = [mutation EXCEPT ![p] = "disabled"]
      BY <2>1 DEF Publish
    <3>2. policy' \in [Plugins -> Policy] /\ ~policy'[p].on
      BY <3>1 DEF IInv, Typed, Policy
    <3> QED
      BY <3>1, <3>2 DEF IInv, Typed, Mutations
  <2>2. CASE mutation[p] # "disable"
    <3>1. policy[p].version + 1 \in Int
      BY DEF IInv, Typed, Policy
    <3> QED
      BY <2>2, <3>1 DEF Publish, IInv, Typed, Policy, Mutations
  <2> QED
    BY <2>1, <2>2
<1>4. Typed'
  BY <1>1, <1>2, <1>3 DEF IInv, Typed
<1>5. Disabled'
  BY <1>3 DEF IInv, Disabled
<1>6. Fresh'
  <2>1. \A w \in Slots : slots[w] = Idle => slots'[w] = Idle
    BY DEF Publish, Idle
  <2> QED
    BY <1>1, <2>1 DEF IInv, Fresh
<1>7. RowHeldOnce'
  BY <1>2 DEF IInv, RowHeldOnce, Working, Busy
<1>8. \A w \in Slots : Sound(w)'
  <2> TAKE w \in Slots
  <2>1. Sound(w) /\ (slots[w].at \notin {"idle", "permit"} => slots[w].p \in Plugins)
    BY Executes DEF IInv
  <2>2. CASE slots[w].p = p
    BY <1>1, <1>2, <2>1, <2>2
    DEF Sound, Permit, Holds, LiveLease, Guest, Claim, Exit, RowOf
  <2>3. CASE slots[w].p # p
    BY <1>1, <1>2, <1>3, <2>1, <2>3, Unaffected
  <2> QED
    BY <2>2, <2>3
<1> QED
  BY <1>4, <1>5, <1>6, <1>7, <1>8 DEF IInv

\* The deliveries that are settled with a change cannot run any more.
LEMMA TerminalizeSound == ASSUME IInv, NEW p \in Plugins, Terminalize(p) PROVE IInv'
<1> DEFINE D == IF mutation[p] = "disabled" THEN Active(rows) \cap Of(p)
                ELSE {d \in Active(rows) \cap Of(p) : rows[d].version = policy[p].version - 1}
<1>1. /\ UNCHANGED <<breakers, policy, slots, loop, up, ran>>
      /\ mutation[p] \in {"disabled", "upgraded"}
      /\ mutation' = [mutation EXCEPT ![p] = "none"]
  BY DEF Terminalize
<1>2. PICK outcome \in Outcomes : Terminalizes(D, p, outcome)
  BY DEF Terminalize, Outcomes
<1>3. SettlesTo(D, outcome)
  BY <1>2, TerminalizesSettles DEF IInv
<1>4. /\ mutation'[p] = "none" /\ mutation' \in [Plugins -> Mutations]
      /\ \A q \in Plugins \ {p} : mutation'[q] = mutation[q]
  BY <1>1 DEF IInv, Typed, Mutations
<1>5. Typed' /\ Disabled' /\ Fresh' /\ RowHeldOnce'
  BY <1>1, <1>3, <1>4 DEF IInv, Typed, SettlesTo, Disabled, Fresh, RowHeldOnce, Working, Busy
<1>6. \A w \in Slots : Sound(w)'
  <2> TAKE w \in Slots
  <2>1. Sound(w)
    BY DEF IInv
  <2>2. CASE slots[w].at \in {"idle", "permit"}
    BY <1>1, <2>1, <2>2 DEF Sound, Permit, Holds, LiveLease, Guest, Claim, Exit
  <2>3. CASE slots[w].at \notin {"idle", "permit"} /\ slots[w].p # p
    <3>1. slots[w].d \in Deliveries \ D /\ slots[w].p \in Plugins \ {p}
      <4>1. slots[w].d \in Deliveries /\ slots[w].p = PluginOf[slots[w].d] /\ slots[w].p \in Plugins
        BY <2>3, Executes DEF IInv, Sound, Holds
      <4>2. p # Global
        BY DeliveryAssumption DEF Plugins, Global
      <4> QED
        BY <2>3, <4>1, <4>2 DEF Of
    <3>2. /\ rows'[slots[w].d].st = rows[slots[w].d].st
          /\ rows'[slots[w].d].version = rows[slots[w].d].version
      BY <1>3, <3>1 DEF SettlesTo
    <3> HIDE DEF D
    <3> QED
      BY <1>1, <1>4, <2>1, <3>1, <3>2, Unaffected
  <2>4. CASE slots[w].at \notin {"idle", "permit"} /\ slots[w].p = p
    <3>1. slots[w].d \in Deliveries /\ slots[w].p = PluginOf[slots[w].d]
      BY <2>4, Executes DEF IInv, Sound, Holds
    <3>2. slots[w].at # "running" /\ slots[w].lease # "live"
      BY <1>1, <2>1, <2>4 DEF Sound, Guest, LiveLease
    <3>3. /\ rows'[slots[w].d].version = rows[slots[w].d].version
          /\ rows'[slots[w].d].st \in {"delivering"} \cup Outcomes
      BY <1>3, <2>1, <2>4, <3>1 DEF SettlesTo, Sound, Holds, RowOf
    <3>4. Claim(w)'
      <4> SUFFICES ASSUME slots[w].at = "held", slots[w].lease = "none",
                          slots[w].d \in D
                   PROVE  ~Current(w)'
        BY <1>1, <1>3, <1>4, <2>1, <2>4, <3>1 DEF Sound, Claim, SettlesTo, RowOf
      <4>1. CASE mutation[p] = "disabled"
        BY <1>1, <2>4, <4>1 DEF IInv, Disabled, Current, Now
      <4>2. CASE mutation[p] # "disabled"
        <5>1. rows[slots[w].d].version = policy[p].version - 1 /\ policy[p].version \in Int
          BY <4>2 DEF IInv, Typed, Policy
        <5> QED
          BY <1>1, <2>4, <3>3, <5>1 DEF Current, Now, RowOf
      <4> QED
        BY <4>1, <4>2
    <3> QED
      BY <1>1, <2>1, <2>4, <3>1, <3>2, <3>3, <3>4
      DEF Sound, Permit, Holds, LiveLease, Guest, Exit, RowOf
  <2> QED
    BY <2>2, <2>3, <2>4
<1> QED
  BY <1>5, <1>6 DEF IInv

LEMMA RollBackSound == ASSUME IInv, NEW p \in Plugins, RollBack(p) PROVE IInv'
<1>1. /\ UNCHANGED <<rows, breakers, slots, loop, up, ran>>
      /\ mutation[p] \in {"disabled", "upgraded"}
      /\ mutation' = [mutation EXCEPT ![p] = "none"]
  BY DEF RollBack, database
<1>2. /\ mutation'[p] = "none" /\ mutation' \in [Plugins -> Mutations]
      /\ policy' \in [Plugins -> Policy]
      /\ \A q \in Plugins \ {p} : mutation'[q] = mutation[q] /\ policy'[q] = policy[q]
  <2>1. policy[p].version - 1 \in Int
    BY DEF IInv, Typed, Policy
  <2>2. CASE policy' = [policy EXCEPT ![p].on = TRUE]
    BY <1>1, <2>2 DEF IInv, Typed, Policy, Mutations
  <2>3. CASE policy' = [policy EXCEPT ![p].version = @ - 1]
    BY <1>1, <2>1, <2>3 DEF IInv, Typed, Policy, Mutations
  <2> QED
    BY <2>2, <2>3 DEF RollBack
<1>3. Typed' /\ Disabled' /\ Fresh' /\ RowHeldOnce'
  BY <1>1, <1>2 DEF IInv, Typed, Disabled, Fresh, RowHeldOnce, Working, Busy
<1>4. \A w \in Slots : Sound(w)'
  <2> TAKE w \in Slots
  <2>1. Sound(w) /\ (slots[w].at \notin {"idle", "permit"} => slots[w].p \in Plugins)
    BY Executes DEF IInv
  <2>2. CASE slots[w].p = p
    BY <1>1, <1>2, <2>1, <2>2
    DEF Sound, Permit, Holds, LiveLease, Guest, Claim, Exit, RowOf
  <2>3. CASE slots[w].p # p
    BY <1>1, <1>2, <2>1, <2>3, Unaffected
  <2> QED
    BY <2>2, <2>3
<1> QED
  BY <1>3, <1>4 DEF IInv

LEMMA EnableSound == ASSUME IInv, NEW p \in Plugins, Enable(p) PROVE IInv'
<1>1. /\ UNCHANGED <<rows, breakers, mutation, slots, loop, up, ran>>
      /\ mutation[p] = "none" /\ ~policy[p].on
      /\ policy' = [policy EXCEPT ![p].on = TRUE]
      /\ \A w \in Slots : slots[w].at = "held" => slots[w].p # p
  BY DEF Enable, database
<1>2. /\ policy' \in [Plugins -> Policy]
      /\ \A q \in Plugins \ {p} : policy'[q] = policy[q]
  BY <1>1 DEF IInv, Typed, Policy
<1>3. Typed' /\ Disabled' /\ Fresh' /\ RowHeldOnce'
  BY <1>1, <1>2 DEF IInv, Typed, Disabled, Fresh, RowHeldOnce, Working, Busy
<1>4. \A w \in Slots : Sound(w)'
  <2> TAKE w \in Slots
  <2>1. Sound(w) /\ (slots[w].at \notin {"idle", "permit"} => slots[w].p \in Plugins)
    BY Executes DEF IInv
  <2>2. CASE slots[w].p = p
    BY <1>1, <2>1, <2>2
    DEF Sound, Permit, Holds, LiveLease, Guest, Claim, Exit, Current, Now, RowOf
  <2>3. CASE slots[w].p # p
    BY <1>1, <1>2, <2>1, <2>3, Unaffected
  <2> QED
    BY <2>2, <2>3
<1> QED
  BY <1>3, <1>4 DEF IInv

\* A new process has no executions; leases are reclaimed before it has any.
LEMMA RestartSound == ASSUME IInv, Restart PROVE IInv'
<1>1. /\ UNCHANGED <<rows, breakers, policy, ran>>
      /\ mutation' = [p \in Plugins |-> "none"]
      /\ slots' = [w \in Slots |-> Idle] /\ loop' = Off
  BY DEF Restart, database
<1>2. Typed' /\ Disabled' /\ Fresh'
  BY <1>1, IdleTyped, OffTyped DEF IInv, Typed, Mutations, Disabled, Fresh
<1>3. RowHeldOnce'
  BY <1>1 DEF RowHeldOnce, Working, Busy, Idle
<1>4. \A w \in Slots : Sound(w)'
  BY <1>1 DEF Idle, Sound, Permit, Holds, LiveLease, Guest, Claim, Exit
<1> QED
  BY <1>2, <1>3, <1>4 DEF IInv

LEMMA RecoverSound == ASSUME IInv, Recover PROVE IInv'
<1>1. /\ UNCHANGED <<policy, mutation, slots, loop, ran>> /\ up' = "up"
      /\ \A w \in Slots : slots[w] = Idle
  BY DEF Recover, Recovering, plugins, IInv, Fresh
<1>2. rows' \in [Deliveries -> Row]
  <2>1. PICK gone, expired :
          rows' = Pruned([d \in Deliveries |-> IF d \in expired
                            THEN [rows[d] EXCEPT !.st = "pending"] ELSE rows[d]], gone)
    BY DEF Recover
  <2>2. \A d \in Deliveries : [rows[d] EXCEPT !.st = "pending"] \in Row /\ rows[d] \in Row
    BY DEF IInv, Typed, Row, States, Open
  <2> QED
    BY <2>1, <2>2, PrunedRows
<1>3. Typed' /\ Fresh'
  BY <1>1, <1>2 DEF Recover, IInv, Typed, Fresh
<1>4. Working = {}
  BY <1>1 DEF Working, Busy, Idle
<1> QED
  BY <1>1, <1>3, <1>4, SlotsKept

-----------------------------------------------------------------------------
(* The theorems.                                                            *)

LEMMA StepSound == IInv /\ [Next]_vars => IInv'
<1> SUFFICES ASSUME IInv, [Next]_vars PROVE IInv'
  OBVIOUS
<1>1. CASE UNCHANGED vars
  BY <1>1 DEF vars, IInv, Typed, Fresh, Disabled, RowHeldOnce, Working, Busy, Sound, Permit,
    Holds, LiveLease, Guest, Claim, Exit, Current, Now, RowOf
<1>2. CASE Batch
  BY <1>2, QuietSound, AcquireSound, ClaimSound DEF Batch
<1>3. CASE BatchFails
  BY <1>3, BatchFailsSound
<1>4. CASE \E w \in Slots : Execution(w) \/ StoreFails(w)
  BY <1>4, EndsSound, AuthorizeSound, GuestSound DEF Execution
<1>5. CASE \E p \in Plugins : \/ BeginChange(p, "disable") \/ BeginChange(p, "upgrade")
                              \/ Change(p) \/ RollBack(p) \/ Enable(p)
                              \/ PauseEnds(p) \/ WindowEnds(p)
  BY <1>5, BeginSound, PublishSound, TerminalizeSound, RollBackSound, EnableSound, QuietSound
  DEF Change
<1>6. CASE \E d \in Deliveries : Admit(d) \/ RetryDue(d) \/ GrowsOld(d)
  BY <1>6, AdmitSound, QuietSound
<1>7. CASE Stop \/ Restart \/ Recover \/ Maintain
  BY <1>7, QuietSound, RestartSound, RecoverSound
<1> QED
  BY <1>1, <1>2, <1>3, <1>4, <1>5, <1>6, <1>7 DEF Next

\* In every reachable state each execution is Sound: the row it holds is one
\* that was claimed, and its lease stands for the policy it was granted under.
THEOREM Invariance == Spec => []IInv
BY InitSound, StepSound, PTL DEF Spec

\* claimNextForPlugin, runRecovery: no delivery is executed twice at a time,
\* whatever fails and however often the application is started.
THEOREM HeldOnce == Spec => []RowHeldOnce
<1>1. IInv => RowHeldOnce
  BY DEF IInv
<1> QED
  BY <1>1, Invariance, PTL

\* applyPolicyMutation: the version that runs is the installed one of an
\* enabled plugin.
THEOREM CurrentCodeRuns == Spec => []RunsCurrentCode
<1>1. IInv => RunsCurrentCode
  BY DEF IInv, RunsCurrentCode, Sound, Guest, Current, Now, RowOf
<1> QED
  BY <1>1, Invariance, PTL

-----------------------------------------------------------------------------
(* Refinement.                                                              *)

Fates == [d \in Deliveries |-> Fate(d)]

LEMMA FateKept ==
  ASSUME \A d \in Deliveries : \/ rows'[d].st = rows[d].st
                               \/ rows[d].st \in Open /\ rows'[d].st \in Open
  PROVE  Fates' = Fates
BY DEF Fates, Fate

LEMMA StatesKept ==
  ASSUME \A d \in Deliveries : rows'[d].st = rows[d].st
  PROVE  Fates' = Fates
BY DEF Fates, Fate

LEMMA SameFates == ASSUME SameRows \/ UNCHANGED rows PROVE Fates' = Fates
<1>1. \A d \in Deliveries : rows'[d].st = rows[d].st
  BY DEF SameRows
<1> QED
  BY <1>1, StatesKept

LEMMA FateSettled ==
  ASSUME NEW D, NEW outcome \in Outcomes, SettlesTo(D, outcome)
  PROVE  Fates' = [d \in Deliveries |-> IF d \in D THEN outcome ELSE Fates[d]]
BY DEF Fates, Fate, SettlesTo, Open, Outcomes

LEMMA GivesUp ==
  ASSUME NEW D \in SUBSET Deliveries, NEW outcome \in {"dead_letter", "superseded"},
         SettlesTo(D, outcome), \A d \in D : rows[d].st \in Open, UNCHANGED ran
  PROVE  Abstract!Next
<1>1. \A d \in D : Fates[d] = "open"
  BY DEF Fates, Fate
<1>2. Fates' = [d \in Deliveries |-> IF d \in D THEN outcome ELSE Fates[d]]
  BY FateSettled DEF Outcomes
<1>3. Abstract!GiveUp(D, outcome)
  BY <1>1, <1>2 DEF Abstract!GiveUp, Fates
<1> QED
  BY <1>3 DEF Abstract!Next

\* An execution that owns its lease holds an open row.
LEMMA Owned ==
  ASSUME IInv, NEW w \in Slots, slots[w].at \notin {"idle", "permit"}, OwnsLease(w)
  PROVE  slots[w].d \in Deliveries /\ rows[slots[w].d].st \in Open
BY Executes DEF OwnsLease, Open

LEMMA EndsMap ==
  ASSUME IInv, NEW w \in Slots,
         Refuse(w) \/ Reject(w) \/ Complete(w) \/ Retry(w) \/ StoreFails(w)
  PROVE  Abstract!Next \/ (Fates' = Fates /\ UNCHANGED ran)
<1>1. slots[w].at \notin {"idle", "permit"} /\ UNCHANGED ran
  BY DEF Refuse, Reject, Complete, Retry, StoreFails
<1>2. CASE UNCHANGED rows
  BY <1>1, <1>2, SameFates
<1>3. CASE /\ OwnsLease(w)
           /\ \E outcome \in {"dead_letter", "superseded"} : SettlesTo({slots[w].d}, outcome)
  <2>1. PICK outcome \in {"dead_letter", "superseded"} : SettlesTo({slots[w].d}, outcome)
    BY <1>3
  <2> QED
    BY <1>1, <1>3, <2>1, Owned, GivesUp
<1>4. CASE OwnsLease(w) /\ SettlesTo({slots[w].d}, "pending")
  <2>1. \A d \in Deliveries : \/ rows'[d].st = rows[d].st
                              \/ rows[d].st \in Open /\ rows'[d].st \in Open
    <3>1. /\ rows'[slots[w].d].st = "pending" /\ slots[w].d \in Deliveries
          /\ rows[slots[w].d].st \in Open
      BY <1>1, <1>4, Owned DEF SettlesTo
    <3>2. \A d \in Deliveries \ {slots[w].d} : rows'[d].st = rows[d].st
      BY <1>4 DEF SettlesTo
    <3>3. "pending" \in Open
      BY DEF Open
    <3> TAKE d \in Deliveries
    <3>4. CASE d = slots[w].d
      BY <3>1, <3>3, <3>4
    <3>5. CASE d # slots[w].d
      <4>1. rows'[d].st = rows[d].st
        BY <3>2, <3>5
      <4> QED
        BY <4>1
    <3> QED
      BY <3>4, <3>5
  <2> QED
    BY <1>1, <2>1, FateKept
<1>5. CASE Complete(w) /\ OwnsLease(w) /\ SettlesTo({slots[w].d}, "delivered")
  <2> DEFINE d == slots[w].d
  <2>1. d \in Deliveries /\ Fates[d] = "open"
    BY <1>1, <1>5, Owned DEF Fates, Fate
  <2>2. d \in ran
    BY <1>5 DEF Complete, IInv, Sound, Exit
  <2>3. Fates' = [Fates EXCEPT ![d] = "delivered"]
    <3>1. Fates' = [e \in Deliveries |-> IF e \in {d} THEN "delivered" ELSE Fates[e]]
      BY <1>5, FateSettled DEF Outcomes
    <3> QED
      BY <3>1 DEF Fates
  <2>4. Abstract!Deliver(d)
    BY <1>1, <2>1, <2>2, <2>3 DEF Abstract!Deliver, Fates
  <2> QED
    BY <2>1, <2>4 DEF Abstract!Next
<1>6. CASE Refuse(w) \/ Reject(w)
  BY <1>2, <1>3, <1>6, DeadLetterRows DEF Refuse, Reject, Refusal, Outcomes
<1> QED
  BY <1>2, <1>3, <1>4, <1>5, <1>6, CompleteRows, RetryRows DEF StoreFails, database

LEMMA ClaimMaps ==
  ASSUME IInv, NEW w \in Slots, ClaimRow(w)
  PROVE  Abstract!Next \/ (Fates' = Fates /\ UNCHANGED ran)
<1> DEFINE p == slots[w].p
           late == Before(p)
           settled == [d \in Deliveries |-> IF d \in late THEN Settle(rows[d], "dead_letter")
                                       ELSE IF d \in First(p) THEN Leased(rows[d]) ELSE rows[d]]
<1>1. UNCHANGED ran /\ (UNCHANGED rows \/ \E gone : rows' = Pruned(settled, gone))
  BY DEF ClaimRow
<1>2. CASE UNCHANGED rows
  BY <1>1, <1>2, SameFates
<1>3. CASE \E gone : rows' = Pruned(settled, gone)
  <2>1. PICK gone : rows' = Pruned(settled, gone)
    BY <1>3
  <2>2. /\ late \in SUBSET Deliveries
        /\ \A d \in late \cup First(p) : rows[d].st \in Open /\ d \in Deliveries
    BY DEF Before, First, Least, Good, Due, Of, Open
  <2>3. /\ settled \in [Deliveries -> Row]
        /\ \A d \in late : settled[d].st = "dead_letter"
        /\ \A d \in Deliveries \ late : settled[d].st = rows[d].st \/ (d \in First(p) /\ settled[d].st \in Open)
    <3>1. \A d \in Deliveries : /\ rows[d] \in Row
                                /\ Settle(rows[d], "dead_letter") \in Row
                                /\ Settle(rows[d], "dead_letter").st = "dead_letter"
                                /\ Leased(rows[d]) \in Row /\ Leased(rows[d]).st \in Open
      BY SettledRow, LeasedRow DEF IInv, Typed, Outcomes, Open
    <3>2. \A d \in late : d \in Deliveries
      BY <2>2
    <3>3. settled = [d \in Deliveries |-> IF d \in late THEN Settle(rows[d], "dead_letter")
                       ELSE IF d \in First(p) THEN Leased(rows[d]) ELSE rows[d]]
      OBVIOUS
    <3> HIDE DEF late, settled
    <3>4. settled \in [Deliveries -> Row]
      BY <3>1, <3>3
    <3>5. \A d \in late : settled[d].st = "dead_letter"
      BY <3>1, <3>2, <3>3
    <3>6. \A d \in Deliveries \ late : settled[d].st = rows[d].st \/ (d \in First(p) /\ settled[d].st \in Open)
      <4> TAKE d \in Deliveries \ late
      <4>1. CASE d \in First(p)
        BY <3>1, <3>3, <4>1
      <4>2. CASE d \notin First(p)
        <5>1. settled[d] = rows[d]
          BY <3>3, <4>2
        <5> QED
          BY <5>1
      <4> QED
        BY <4>1, <4>2
    <3> QED
      BY <3>4, <3>5, <3>6
  <2> HIDE DEF settled
  <2>4. \A d \in Deliveries : rows'[d].st = settled[d].st
    BY <2>1, <2>3, PrunedRows
  <2>5. Fates' = [d \in Deliveries |-> IF d \in late THEN "dead_letter" ELSE Fates[d]]
    BY <2>2, <2>3, <2>4 DEF Fates, Fate, Open
  <2>6. \A d \in late : Fates[d] = "open"
    BY <2>2 DEF Fates, Fate
  <2> HIDE DEF late
  <2>7. Abstract!GiveUp(late, "dead_letter")
    BY <1>1, <2>5, <2>6 DEF Abstract!GiveUp, Fates
  <2> QED
    BY <2>2, <2>7 DEF Abstract!Next
<1> HIDE DEF settled
<1> QED
  BY <1>1, <1>2, <1>3

LEMMA AdmitMaps ==
  ASSUME IInv, NEW d \in Deliveries, Admit(d)
  PROVE  Abstract!Next
<1> DEFINE row == [NoRow EXCEPT !.version = policy[PluginOf[d]].version]
<1>1. Fates[d] = "none" /\ UNCHANGED ran
  BY DEF Admit, Fates, Fate, Open
<1>2. ASSUME NEW st \in {"pending", "refused", "dead_letter"},
             \A e \in Deliveries : rows'[e].st = IF e = d THEN st ELSE rows[e].st
      PROVE  Abstract!Next
  <2>1. Fates' = [Fates EXCEPT ![d] = IF st = "pending" THEN "open" ELSE st]
    BY <1>2 DEF Fates, Fate, Open
  <2>2. Abstract!Admit(d)
    BY <1>1, <2>1 DEF Abstract!Admit, Fates
  <2> QED
    BY <2>2 DEF Abstract!Next
<1>3. NoRow \in Row /\ row \in Row
  <2>1. policy[PluginOf[d]].version \in Int
    BY DeliveryAssumption DEF IInv, Typed, Policy
  <2> QED
    BY <2>1, NoRowTyped DEF Row
<1> HIDE DEF row
<1>4. CASE rows' = [rows EXCEPT ![d] = [row EXCEPT !.st = "pending", !.kept = TRUE]]
  <2>1. \A e \in Deliveries : rows'[e].st = IF e = d THEN "pending" ELSE rows[e].st
    BY <1>3, <1>4 DEF IInv, Typed, Row
  <2> QED
    BY <1>2, <2>1
<1>5. CASE rows' = [rows EXCEPT ![d] = [row EXCEPT !.st = "refused"]]
  <2>1. \A e \in Deliveries : rows'[e].st = IF e = d THEN "refused" ELSE rows[e].st
    BY <1>3, <1>5 DEF IInv, Typed, Row
  <2> QED
    BY <1>2, <2>1
<1>6. CASE \E gone : rows' = Pruned([rows EXCEPT ![d] = Settle(row, "dead_letter")], gone)
  <2>1. PICK gone : rows' = Pruned([rows EXCEPT ![d] = Settle(row, "dead_letter")], gone)
    BY <1>6
  <2>2. Settle(row, "dead_letter") \in Row /\ Settle(row, "dead_letter").st = "dead_letter"
    BY <1>3, SettledRow DEF Outcomes
  <2>3. [rows EXCEPT ![d] = Settle(row, "dead_letter")] \in [Deliveries -> Row]
    BY <2>2 DEF IInv, Typed
  <2>4. \A e \in Deliveries : rows'[e].st = [rows EXCEPT ![d] = Settle(row, "dead_letter")][e].st
    BY <2>1, <2>3, PrunedRows
  <2>5. \A e \in Deliveries : rows'[e].st = IF e = d THEN "dead_letter" ELSE rows[e].st
    BY <2>2, <2>4 DEF IInv, Typed
  <2> QED
    BY <1>2, <2>5
<1> QED
  BY <1>4, <1>5, <1>6 DEF Admit, row

LEMMA StepMaps ==
  ASSUME IInv, [Next]_vars
  PROVE  Abstract!Next \/ (Fates' = Fates /\ UNCHANGED ran)
<1>1. CASE UNCHANGED vars
  BY <1>1, SameFates DEF vars
<1>2. CASE Batch
  <2>1. CASE Wake \/ ListPlugins \/ EndOfList
    BY <2>1, SameFates DEF Wake, ListPlugins, EndOfList, database
  <2>2. CASE \E w \in Slots : AcquirePermit(w)
    BY <2>2, SameFates DEF AcquirePermit
  <2> QED
    BY <1>2, <2>1, <2>2, ClaimMaps DEF Batch
<1>3. CASE BatchFails
  BY <1>3, SameFates DEF BatchFails
<1>4. ASSUME NEW w \in Slots, Execution(w) \/ StoreFails(w)
      PROVE  Abstract!Next \/ (Fates' = Fates /\ UNCHANGED ran)
  <2>1. CASE Authorize(w) \/ Invoke(w) \/ GuestFails(w)
    BY <2>1, SameFates DEF Authorize, Invoke, GuestFails, database
  <2>2. CASE GuestExits(w)
    <3>1. slots[w].d \in Deliveries /\ Fates[slots[w].d] = "open"
      BY <2>2, Executes DEF GuestExits, IInv, Sound, LiveLease, RowOf, Fates, Fate, Open
    <3>2. Fates' = Fates /\ ran' = ran \cup {slots[w].d}
      BY <2>2, SameFates DEF GuestExits, database
    <3>3. Abstract!Run(slots[w].d)
      BY <3>1, <3>2 DEF Abstract!Run, Fates
    <3> QED
      BY <3>1, <3>3 DEF Abstract!Next
  <2> QED
    BY <1>4, <2>1, <2>2, EndsMap DEF Execution
<1>5. ASSUME NEW p \in Plugins,
             \/ BeginChange(p, "disable") \/ BeginChange(p, "upgrade")
             \/ Change(p) \/ RollBack(p) \/ Enable(p) \/ PauseEnds(p) \/ WindowEnds(p)
      PROVE  Abstract!Next \/ (Fates' = Fates /\ UNCHANGED ran)
  <2>1. CASE Terminalize(p)
    <3> DEFINE D == IF mutation[p] = "disabled" THEN Active(rows) \cap Of(p)
                    ELSE {d \in Active(rows) \cap Of(p) : rows[d].version = policy[p].version - 1}
    <3>1. PICK outcome \in {"dead_letter", "superseded"} : Terminalizes(D, p, outcome)
      BY <2>1 DEF Terminalize
    <3>2. SettlesTo(D, outcome)
      BY <3>1, TerminalizesSettles DEF IInv, Outcomes
    <3>3. D \in SUBSET Deliveries /\ \A d \in D : rows[d].st \in Open
      BY DEF Active
    <3>4. UNCHANGED ran
      BY <2>1 DEF Terminalize
    <3> HIDE DEF D
    <3> QED
      BY <3>2, <3>3, <3>4, GivesUp
  <2>2. CASE ~Terminalize(p)
    BY <1>5, <2>2, SameFates
    DEF BeginChange, Change, Publish, RollBack, Enable, PauseEnds, WindowEnds, database
  <2> QED
    BY <2>1, <2>2
<1>6. ASSUME NEW d \in Deliveries, Admit(d) \/ RetryDue(d) \/ GrowsOld(d)
      PROVE  Abstract!Next \/ (Fates' = Fates /\ UNCHANGED ran)
  <2>1. CASE RetryDue(d) \/ GrowsOld(d)
    <3>1. \A e \in Deliveries : rows'[e].st = rows[e].st
      BY <2>1 DEF RetryDue, GrowsOld, IInv, Typed, Row
    <3> QED
      BY <2>1, <3>1, StatesKept DEF RetryDue, GrowsOld
  <2> QED
    BY <1>6, <2>1, AdmitMaps
<1>7. CASE Stop \/ Restart \/ Maintain
  <2>1. \A d \in Deliveries : rows'[d].st = rows[d].st
    BY <1>7, PrunedRows DEF Stop, Restart, Maintain, database, IInv, Typed
  <2> QED
    BY <1>7, <2>1, StatesKept DEF Stop, Restart, Maintain
<1>8. CASE Recover
  <2>1. PICK gone \in SUBSET Receipts(rows), expired \in SUBSET Delivering :
          rows' = Pruned([d \in Deliveries |-> IF d \in expired
                            THEN [rows[d] EXCEPT !.st = "pending"] ELSE rows[d]], gone)
    BY <1>8 DEF Recover
  <2> DEFINE back == [d \in Deliveries |-> IF d \in expired
                        THEN [rows[d] EXCEPT !.st = "pending"] ELSE rows[d]]
  <2>2. \A d \in Deliveries : LET r == [rows[d] EXCEPT !.st = "pending"]
                             IN  r \in Row /\ r.st = "pending" /\ rows[d] \in Row
    BY DEF IInv, Typed, Row, States, Open
  <2>3. \A d \in expired : rows[d].st = "delivering"
    BY DEF Delivering
  <2>4. back \in [Deliveries -> Row]
    BY <2>2
  <2>5. \A d \in Deliveries : \/ back[d].st = rows[d].st
                              \/ rows[d].st \in Open /\ back[d].st \in Open
    <3> TAKE d \in Deliveries
    <3>1. CASE d \in expired
      BY <2>2, <2>3, <3>1 DEF Open
    <3>2. CASE d \notin expired
      <4>1. back[d] = rows[d]
        BY <3>2
      <4> HIDE DEF back
      <4> QED
        BY <4>1
    <3> QED
      BY <3>1, <3>2
  <2>6. rows' = Pruned(back, gone)
    BY <2>1
  <2> HIDE DEF back
  <2>7. \A d \in Deliveries : rows'[d].st = back[d].st
    BY <2>4, <2>6, PrunedRows
  <2>8. \A d \in Deliveries : \/ rows'[d].st = rows[d].st
                              \/ rows[d].st \in Open /\ rows'[d].st \in Open
    BY <2>5, <2>7
  <2> QED
    BY <1>8, <2>8, FateKept DEF Recover
<1> QED
  BY <1>1, <1>2, <1>3, <1>4, <1>5, <1>6, <1>7, <1>8 DEF Next

\* docs/plugin-hook-runtime.md: an admitted delivery runs any number of times
\* while it is open, its receipt follows a run, its outcome is decided once.
THEOREM Implements == Spec => DeliversAtLeastOnce
<1>1. Init => Abstract!Init
  BY DEF Init, Abstract!Init, Fate, NoRow, Open
<1>2. IInv /\ [Next]_vars => [Abstract!Next]_<<Fates, ran>>
  BY StepMaps
<1>3. IInv /\ [Next]_vars => [Abstract!Next]_<<[d \in Deliveries |-> Fate(d)], ran>>
  BY <1>2 DEF Fates
<1> QED
  BY <1>1, <1>3, Invariance, PTL DEF Spec, DeliversAtLeastOnce, Abstract!Spec
=============================================================================
