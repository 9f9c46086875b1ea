---------------------- MODULE PostDeliveryLedgerProofs ----------------------
(***************************************************************************)
(* Post-task delivery for any deliveries, plugins, executions, limits and  *)
(* quotas, continued: every variable keeps its type, the counters of the   *)
(* quota ledger are those of the table and no quota is overrun, a row      *)
(* loses its execution only by a fault, and a plugin whose breaker is open *)
(* spends no attempt.  All of it rests on the invariant of                 *)
(* PostDeliveryProofs, which says whose row an execution holds; the last   *)
(* two on what is true as long as nothing has failed (Calm).               *)
(***************************************************************************)
EXTENDS PostDeliveryProofs, FiniteSetTheorems

\* The ledger of a table whose open rows are A and whose receipts are R.
Size(S, s)   == Cardinality(S \cap Of(s))
Counts(A, R) == [s \in Scopes |-> [active |-> Size(A, s), terminal |-> Size(R, s)]]

\* What LedgerExact says of the quotas.
ActiveQuotas(l) ==
  (\A q \in Plugins : l[q].active <= PluginRows) /\ l[Global].active <= GlobalRows
ReceiptQuotas(l) ==
  (\A q \in Plugins : l[q].terminal <= PluginReceipts) /\ l[Global].terminal <= GlobalReceipts

\* What D, of plugin p, counts for in a scope; a set made of two disjoint ones.
Share(D, p, s) == IF s \in {p, Global} THEN Cardinality(D) ELSE 0
Joins(U, S, D) == U = S \cup D /\ D \cap S = {}

-----------------------------------------------------------------------------
(* Counting.                                                                *)

LEMMA Countable ==
  ASSUME NEW S \in SUBSET Deliveries
  PROVE  /\ IsFiniteSet(S) /\ Cardinality(S) \in Nat
         /\ \A s : IsFiniteSet(S \cap Of(s)) /\ Size(S, s) \in Nat
<1>1. \A T \in SUBSET Deliveries : IsFiniteSet(T) /\ Cardinality(T) \in Nat
  BY DeliveryAssumption, FS_Subset, FS_CardinalityType
<1> QED
  BY <1>1 DEF Size

LEMMA PluginScope ==
  /\ Global \notin Plugins /\ Plugins \subseteq Scopes /\ Global \in Scopes
  /\ Of(Global) = Deliveries
  /\ \A p \in Plugins : Of(p) = {d \in Deliveries : PluginOf[d] = p}
BY DeliveryAssumption DEF Global, Plugins, Scopes, Of

LEMMA Disjoint ==
  ASSUME NEW X, NEW Y, IsFiniteSet(X), IsFiniteSet(Y), X \cap Y = {}, NEW Z, Z = X \cup Y
  PROVE  Cardinality(Z) = Cardinality(X) + Cardinality(Y)
<1>1. Cardinality(X \cap Y) = 0
  BY FS_EmptySet, Zenon
<1>2. Cardinality(X \cup Y) = Cardinality(X) + Cardinality(Y) - Cardinality(X \cap Y)
  BY FS_Union
<1>3. Cardinality(X) \in Nat /\ Cardinality(Y) \in Nat
  BY FS_CardinalityType
<1>4. Cardinality(X \cup Y) = Cardinality(X) + Cardinality(Y)
  BY <1>1, <1>2, <1>3
<1> QED
  BY <1>4, Zenon

\* Deliveries of a plugin count for that plugin and in all.
LEMMA Added ==
  ASSUME NEW p \in Plugins, NEW S \in SUBSET Deliveries, NEW D \in SUBSET Of(p),
         NEW U, Joins(U, S, D), NEW s \in Scopes
  PROVE  Size(U, s) = Size(S, s) + Share(D, p, s)
<1>1. D \in SUBSET Deliveries /\ Size(S, s) \in Nat
  BY PluginScope, Countable
<1>2. CASE s \in {p, Global}
  <2>1. U \cap Of(s) = (S \cap Of(s)) \cup D /\ (S \cap Of(s)) \cap D = {}
    BY <1>1, <1>2, PluginScope DEF Joins
  <2>2. IsFiniteSet(S \cap Of(s)) /\ IsFiniteSet(D)
    BY <1>1, Countable
  <2>3. Cardinality(U \cap Of(s)) = Cardinality(S \cap Of(s)) + Cardinality(D)
    BY <2>1, <2>2, Disjoint, Zenon
  <2> QED
    BY <1>2, <2>3 DEF Size, Share
<1>3. CASE s \notin {p, Global}
  <2>1. U \cap Of(s) = S \cap Of(s)
    BY <1>3, PluginScope DEF Scopes, Joins
  <2>2. Size(U, s) = Size(S, s)
    BY <2>1, Zenon DEF Size
  <2> QED
    BY <1>1, <1>3, <2>2 DEF Share
<1> QED
  BY <1>2, <1>3

\* Removed is Added the other way round.
LEMMA Removed ==
  ASSUME NEW p \in Plugins, NEW S \in SUBSET Deliveries, NEW D \in SUBSET Of(p),
         NEW U, Joins(S, U, D), NEW s \in Scopes
  PROVE  Size(U, s) = Size(S, s) - Share(D, p, s)
<1>1. U \in SUBSET Deliveries /\ D \in SUBSET Deliveries
  BY PluginScope DEF Joins
<1>2. Size(S, s) = Size(U, s) + Share(D, p, s)
  BY <1>1, Added
<1>3. Size(U, s) \in Nat /\ Size(S, s) \in Nat /\ Cardinality(D) \in Nat
  BY <1>1, Countable
<1> QED
  BY <1>2, <1>3 DEF Share

\* bumpLedger(): the counters follow the rows that move out of the active ones
\* into the receipts,
LEMMA BumpCounts ==
  ASSUME NEW p \in Plugins, NEW A \in SUBSET Deliveries, NEW R \in SUBSET Deliveries,
         NEW D \in SUBSET Of(p), NEW B, NEW Q, Joins(A, B, D), Joins(Q, R, D)
  PROVE  Counts(B, Q) = Bump(Counts(A, R), p, -Cardinality(D), Cardinality(D))
<1>1. Cardinality(D) \in Nat /\ \A s : Size(A, s) \in Nat /\ Size(R, s) \in Nat
  BY PluginScope, Countable
<1>2. \A s \in Scopes : Size(B, s) = Size(A, s) - Share(D, p, s)
  BY Removed
<1>3. \A s \in Scopes : Size(Q, s) = Size(R, s) + Share(D, p, s)
  BY Added
<1> QED
  BY <1>1, <1>2, <1>3 DEF Counts, Bump, Share

\* the rows that become active,
LEMMA OpenedCounts ==
  ASSUME NEW p \in Plugins, NEW A \in SUBSET Deliveries, NEW R \in SUBSET Deliveries,
         NEW D \in SUBSET Of(p), NEW B, Joins(B, A, D)
  PROVE  Counts(B, R) = Bump(Counts(A, R), p, Cardinality(D), 0)
<1>1. Cardinality(D) \in Nat /\ \A s : Size(A, s) \in Nat /\ Size(R, s) \in Nat
  BY PluginScope, Countable
<1>2. \A s \in Scopes : Size(B, s) = Size(A, s) + Share(D, p, s)
  BY Added
<1> QED
  BY <1>1, <1>2 DEF Counts, Bump, Share

\* and those that become receipts.
LEMMA SettledCounts ==
  ASSUME NEW p \in Plugins, NEW A \in SUBSET Deliveries, NEW R \in SUBSET Deliveries,
         NEW D \in SUBSET Of(p), NEW Q, Joins(Q, R, D)
  PROVE  Counts(A, Q) = Bump(Counts(A, R), p, 0, Cardinality(D))
<1>1. Cardinality(D) \in Nat /\ \A s : Size(A, s) \in Nat /\ Size(R, s) \in Nat
  BY PluginScope, Countable
<1>2. \A s \in Scopes : Size(Q, s) = Size(R, s) + Share(D, p, s)
  BY Added
<1> QED
  BY <1>1, <1>2 DEF Counts, Bump, Share

\* Receipts that go are taken off every scope they belong to.
LEMMA ReleasedCounts ==
  ASSUME NEW A \in SUBSET Deliveries, NEW R \in SUBSET Deliveries, NEW gone \in SUBSET R,
         NEW Q, Q = R \ gone
  PROVE  Counts(A, Q) = Released(Counts(A, R), gone)
<1>1. \A s \in Scopes : Size(R, s) = Size(Q, s) + Size(gone, s)
  <2> TAKE s \in Scopes
  <2>1. /\ R \cap Of(s) = (Q \cap Of(s)) \cup (gone \cap Of(s))
        /\ (Q \cap Of(s)) \cap (gone \cap Of(s)) = {}
    OBVIOUS
  <2>2. IsFiniteSet(Q \cap Of(s)) /\ IsFiniteSet(gone \cap Of(s))
    BY Countable
  <2> QED
    BY <2>1, <2>2, Disjoint, Zenon DEF Size
<1>2. \A s \in Scopes : Size(Q, s) \in Nat /\ Size(gone, s) \in Nat /\ Size(R, s) \in Nat
  BY Countable
<1>3. \A s \in Scopes : Size(Q, s) = Size(R, s) - Size(gone, s)
  <2> TAKE s \in Scopes
  <2>1. Size(R, s) = Size(Q, s) + Size(gone, s)
    BY <1>1
  <2>2. Size(Q, s) \in Nat /\ Size(gone, s) \in Nat /\ Size(R, s) \in Nat
    BY <1>2
  <2> QED
    BY <2>1, <2>2
<1> QED
  BY <1>3 DEF Counts, Released, Size

-----------------------------------------------------------------------------
(* Tables.                                                                  *)

LEMMA TallyCounts == \A rs : Tally(rs) = Counts(Active(rs), Receipts(rs))
BY DEF Tally, Counts, Size

LEMMA PrunedTable ==
  ASSUME NEW rs \in [Deliveries -> Row], NEW gone
  PROVE  /\ Active(Pruned(rs, gone)) = Active(rs)
         /\ Receipts(Pruned(rs, gone)) = Receipts(rs) \ gone
<1>1. \A d \in Deliveries : /\ Pruned(rs, gone)[d].st = rs[d].st
                            /\ Pruned(rs, gone)[d].kept = (rs[d].kept /\ d \notin gone)
  BY DEF Pruned, Row
<1>2. Active(Pruned(rs, gone)) = Active(rs)
  BY <1>1 DEF Active
<1>3. Receipts(Pruned(rs, gone)) = Receipts(rs) \ gone
  BY <1>1 DEF Receipts
<1> QED
  BY <1>2, <1>3

LEMMA Tables ==
  ASSUME NEW rs
  PROVE  /\ Active(rs) \in SUBSET Deliveries /\ Receipts(rs) \in SUBSET Deliveries
         /\ Active(rs) \cap Receipts(rs) = {}
BY DEF Active, Receipts, Open, Outcomes

\* pruneTerminalQuota(): what is over a quota goes, whichever goes.
LEMMA RollsUp ==
  ASSUME NEW p \in Plugins, NEW rs \in [Deliveries -> Row], NEW l, l = Tally(rs),
         NEW spared, NEW gone \in Excess(rs, l, p, spared),
         ActiveQuotas(l), \A q \in Plugins \ {p} : l[q].terminal <= PluginReceipts
  PROVE  /\ Released(l, gone) = Tally(Pruned(rs, gone))
         /\ ActiveQuotas(Released(l, gone)) /\ ReceiptQuotas(Released(l, gone))
<1> DEFINE A == Active(rs)
           R == Receipts(rs)
<1>1. A \in SUBSET Deliveries /\ R \in SUBSET Deliveries /\ gone \in SUBSET R
  BY Tables DEF Excess
<1>2. PICK any \in SUBSET gone :
        /\ Cardinality(any) = Over(l[Global].terminal - GlobalReceipts)
        /\ gone \ any \subseteq Of(p)
        /\ Cardinality(gone \ any) =
             Over(l[p].terminal - PluginReceipts - Cardinality(any \cap Of(p)))
  BY DEF Excess
<1>3. l = Counts(A, R)
  BY TallyCounts
<1> HIDE DEF A, R
<1>4. Released(l, gone) = Counts(A, R \ gone)
  BY <1>1, <1>3, ReleasedCounts
<1>5. Tally(Pruned(rs, gone)) = Counts(A, R \ gone)
  BY PrunedTable, TallyCounts DEF A, R
<1>6. \A S \in SUBSET Deliveries : \A s : Size(S, s) \in Nat
  BY Countable
<1>7. \A s \in Scopes : /\ l[s].active = Size(A, s) /\ l[s].terminal = Size(R, s)
                        /\ Released(l, gone)[s].active = Size(A, s)
                        /\ Released(l, gone)[s].terminal = Size(R, s) - Size(gone, s)
  BY <1>3 DEF Counts, Released, Size
<1>8. /\ Size(R, Global) - Size(gone, Global) <= GlobalReceipts
      /\ \A q \in Plugins : Size(R, q) - Size(gone, q) <= PluginReceipts
  <2>1. /\ any \in SUBSET Deliveries /\ gone \in SUBSET Deliveries
        /\ GlobalReceipts \in Nat /\ PluginReceipts \in Nat
    BY <1>1, DeliveryAssumption
  <2>2. Joins(gone, any, gone \ any)
    BY DEF Joins
  <2>3. Cardinality(any) \in Nat /\ Cardinality(gone \ any) \in Nat
    BY <2>1, Countable
  <2>4. \A s \in Scopes : Size(gone, s) = Size(any, s) + Share(gone \ any, p, s)
    BY <1>2, <2>1, <2>2, Added
  <2>5. Size(any, Global) = Cardinality(any) /\ Size(any, p) = Cardinality(any \cap Of(p))
    <3>1. any \cap Of(Global) = any
      BY <2>1, PluginScope
    <3> QED
      BY <3>1, Zenon DEF Size
  <2>6. Cardinality(any) >= Size(R, Global) - GlobalReceipts
    BY <1>2, <1>6, <1>7, <1>1, <2>1, PluginScope DEF Over
  <2>7. Cardinality(gone \ any) >= Size(R, p) - PluginReceipts - Size(any, p)
    <3>1. /\ l[p].terminal = Size(R, p) /\ Size(R, p) \in Nat /\ Size(any, p) \in Nat
          /\ Cardinality(gone \ any) = Over(l[p].terminal - PluginReceipts - Size(any, p))
      BY <1>1, <1>2, <1>6, <1>7, <2>1, <2>5, PluginScope
    <3> QED
      BY <2>1, <3>1 DEF Over
  <2>8. \A s \in Scopes : Share(gone \ any, p, s) \in Nat
    BY <2>3 DEF Share
  <2>9. Share(gone \ any, p, p) = Cardinality(gone \ any)
    BY DEF Share
  <2>10. Size(R, Global) - Size(gone, Global) <= GlobalReceipts
    <3>1. Global \in Scopes
      BY PluginScope
    <3>2. /\ Size(gone, Global) = Size(any, Global) + Share(gone \ any, p, Global)
          /\ Share(gone \ any, p, Global) \in Nat /\ Size(R, Global) \in Nat
      BY <1>1, <1>6, <2>4, <2>8, <3>1
    <3> QED
      BY <2>1, <2>3, <2>5, <2>6, <3>2
  <2>11. ASSUME NEW q \in Plugins
         PROVE  Size(R, q) - Size(gone, q) <= PluginReceipts
    <3>1. q \in Scopes /\ Size(R, q) \in Nat /\ Size(gone, q) \in Nat /\ Size(any, q) \in Nat
      BY <1>1, <1>6, <2>1, PluginScope
    <3>2. CASE q = p
      <4>1. Size(gone, p) = Size(any, p) + Cardinality(gone \ any)
        BY <2>4, <2>9, <3>1, <3>2
      <4> QED
        BY <2>1, <2>3, <2>7, <3>1, <3>2, <4>1
    <3>3. CASE q # p
      <4>1. Size(R, q) <= PluginReceipts
        BY <1>7, <3>1, <3>3
      <4> QED
        BY <2>1, <3>1, <4>1
    <3> QED
      BY <3>2, <3>3
  <2> QED
    BY <2>10, <2>11
<1>9. ActiveQuotas(Released(l, gone))
  BY <1>7, PluginScope DEF ActiveQuotas
<1>10. ReceiptQuotas(Released(l, gone))
  BY <1>7, <1>8, PluginScope DEF ReceiptQuotas
<1> QED
  BY <1>4, <1>5, <1>9, <1>10

-----------------------------------------------------------------------------
(* The ledger.                                                              *)

LEMMA ExactParts ==
  LedgerExact <=> ledger = Tally(rows) /\ ActiveQuotas(ledger) /\ ReceiptQuotas(ledger)
BY DEF LedgerExact, ActiveQuotas, ReceiptQuotas

LEMMA TallyNat ==
  ASSUME NEW rs, NEW s \in Scopes
  PROVE  Tally(rs)[s].active \in Nat /\ Tally(rs)[s].terminal \in Nat
BY Tables, Countable, TallyCounts DEF Counts

\* Rows of one plugin come to an outcome, and the receipts over a quota go.
LEMMA MovesExactly ==
  ASSUME LedgerExact, NEW p \in Plugins, NEW D \in SUBSET Of(p),
         NEW rs \in [Deliveries -> Row],
         Joins(Active(rows), Active(rs), D), Joins(Receipts(rs), Receipts(rows), D),
         NEW spared, NEW moved, moved = Bump(ledger, p, -Cardinality(D), Cardinality(D)),
         NEW gone \in Excess(rs, moved, p, spared),
         rows' = Pruned(rs, gone), ledger' = Released(moved, gone)
  PROVE  LedgerExact'
<1>1. /\ Active(rows) \in SUBSET Deliveries /\ Receipts(rows) \in SUBSET Deliveries
      /\ ledger = Counts(Active(rows), Receipts(rows))
  BY Tables, TallyCounts, ExactParts
<1>2. moved = Tally(rs)
  <2>1. Counts(Active(rs), Receipts(rs))
          = Bump(Counts(Active(rows), Receipts(rows)), p, -Cardinality(D), Cardinality(D))
    BY <1>1, BumpCounts
  <2>2. Tally(rs) = Counts(Active(rs), Receipts(rs))
    BY TallyCounts
  <2> QED
    BY <1>1, <2>1, <2>2, Zenon
<1>3. Cardinality(D) \in Nat /\ -Cardinality(D) <= 0
  BY PluginScope, Countable
<1>4. \A s \in Scopes : ledger[s].active \in Nat /\ ledger[s].terminal \in Nat
  BY TallyNat, ExactParts
<1>5. ActiveQuotas(moved)
  BY <1>3, <1>4, ExactParts, PluginScope, DeliveryAssumption DEF ActiveQuotas, Bump
<1>6. \A q \in Plugins \ {p} : moved[q].terminal <= PluginReceipts
  BY ExactParts, PluginScope DEF ReceiptQuotas, Bump
<1>7. /\ Released(moved, gone) = Tally(Pruned(rs, gone))
      /\ ActiveQuotas(Released(moved, gone)) /\ ReceiptQuotas(Released(moved, gone))
  BY <1>2, <1>5, <1>6, RollsUp
<1> QED
  BY <1>7 DEF LedgerExact, ActiveQuotas, ReceiptQuotas

\* terminalizeRow() for deliveries that are open.
LEMMA SettlingMoves ==
  ASSUME Typed, NEW D \in SUBSET Active(rows), NEW outcome \in Outcomes,
         NEW rs \in [Deliveries -> Row],
         \A d \in D : rs[d] = Settle(rows[d], outcome),
         \A d \in Deliveries \ D : /\ rs[d].st \in Open <=> rows[d].st \in Open
                                   /\ rs[d].st \in Outcomes <=> rows[d].st \in Outcomes
                                   /\ rs[d].kept = rows[d].kept
  PROVE  Joins(Active(rows), Active(rs), D) /\ Joins(Receipts(rs), Receipts(rows), D)
<1>1. \A d \in D : /\ d \in Deliveries /\ rows[d].st \in Open /\ rows[d].st \notin Outcomes
                   /\ rs[d].st = outcome /\ rs[d].kept
  <2> TAKE d \in D
  <2>1. d \in Deliveries /\ rows[d].st \in Open
    BY DEF Active
  <2>2. rows[d].st \notin Outcomes
    BY <2>1 DEF Open, Outcomes
  <2>3. Settle(rows[d], outcome).st = outcome /\ Settle(rows[d], outcome).kept
    BY <2>1 DEF Typed, Row, Settle
  <2> QED
    BY <2>1, <2>2, <2>3
<1>2. outcome \notin Open
  BY DEF Open, Outcomes
<1>3. Joins(Active(rows), Active(rs), D)
  BY <1>1, <1>2 DEF Joins, Active
<1>4. Joins(Receipts(rs), Receipts(rows), D)
  BY <1>1 DEF Joins, Receipts
<1> QED
  BY <1>3, <1>4

LEMMA TerminalizesExactly ==
  ASSUME Typed, LedgerExact, NEW p \in Plugins, NEW D \in SUBSET (Active(rows) \cap Of(p)),
         NEW outcome \in Outcomes, Terminalizes(D, p, outcome)
  PROVE  LedgerExact'
<1> DEFINE settled == [d \in Deliveries |-> IF d \in D THEN Settle(rows[d], outcome) ELSE rows[d]]
           moved   == Bump(ledger, p, -Cardinality(D), Cardinality(D))
           spared  == IF Cardinality(D) = 1 THEN D ELSE {}
<1>1. PICK gone \in Excess(settled, moved, p, spared) :
        rows' = Pruned(settled, gone) /\ ledger' = Released(moved, gone)
  BY DEF Terminalizes
<1>2. settled \in [Deliveries -> Row]
  BY SettledRow DEF Typed
<1>3. D \subseteq Deliveries
  BY DEF Active
<1>4. /\ \A d \in D : settled[d] = Settle(rows[d], outcome)
      /\ \A d \in Deliveries \ D : settled[d] = rows[d]
  BY <1>3
<1> HIDE DEF settled, moved, spared
<1>5. Joins(Active(rows), Active(settled), D) /\ Joins(Receipts(settled), Receipts(rows), D)
  BY <1>2, <1>4, SettlingMoves
<1>6. moved = Bump(ledger, p, -Cardinality(D), Cardinality(D))
  BY DEF moved
<1> QED
  BY <1>1, <1>2, <1>5, <1>6, MovesExactly

\* The table counts as before.
LEMMA SameTable ==
  ASSUME LedgerExact, UNCHANGED ledger,
         \A d \in Deliveries : /\ rows'[d].st \in Open <=> rows[d].st \in Open
                               /\ rows'[d].st \in Outcomes <=> rows[d].st \in Outcomes
                               /\ rows'[d].kept = rows[d].kept
  PROVE  LedgerExact'
<1>1. Active(rows') = Active(rows) /\ Receipts(rows') = Receipts(rows)
  BY DEF Active, Receipts
<1>2. Tally(rows') = Tally(rows)
  BY <1>1, TallyCounts
<1> QED
  BY <1>2 DEF LedgerExact

LEMMA SameDatabase == ASSUME LedgerExact, UNCHANGED <<rows, ledger>> PROVE LedgerExact'
BY DEF LedgerExact, Tally, Active, Receipts

\* Receipts are let go.
LEMMA LetsGoExactly ==
  ASSUME LedgerExact, NEW rs \in [Deliveries -> Row], Tally(rs) = Tally(rows),
         NEW gone \in SUBSET Receipts(rs),
         rows' = Pruned(rs, gone), ledger' = Released(ledger, gone)
  PROVE  LedgerExact'
<1>1. Active(rs) \in SUBSET Deliveries /\ Receipts(rs) \in SUBSET Deliveries
  BY Tables
<1>2. ledger = Counts(Active(rs), Receipts(rs)) /\ ledger = Tally(rows)
  BY TallyCounts, ExactParts
<1>3. ledger' = Counts(Active(rs), Receipts(rs) \ gone)
  <2>1. Counts(Active(rs), Receipts(rs) \ gone)
          = Released(Counts(Active(rs), Receipts(rs)), gone)
    BY <1>1, ReleasedCounts
  <2> QED
    BY <1>2, <2>1, Zenon
<1>4. Tally(Pruned(rs, gone)) = Counts(Active(rs), Receipts(rs) \ gone)
  BY PrunedTable, TallyCounts
<1>5. \A s \in Scopes : ledger'[s].active = ledger[s].active
                        /\ ledger'[s].terminal = ledger[s].terminal - Size(gone, s)
                        /\ Size(gone, s) \in Nat /\ ledger[s].terminal \in Nat
  BY <1>1, <1>2, Countable, TallyNat DEF Released, Size
<1>6. ActiveQuotas(ledger) /\ ReceiptQuotas(ledger)
  BY ExactParts
<1>7. /\ \A q \in Plugins : ledger'[q].active <= PluginRows /\ ledger'[q].terminal <= PluginReceipts
      /\ ledger'[Global].active <= GlobalRows /\ ledger'[Global].terminal <= GlobalReceipts
  BY <1>5, <1>6, PluginScope, DeliveryAssumption DEF ActiveQuotas, ReceiptQuotas
<1> QED
  BY <1>3, <1>4, <1>7 DEF LedgerExact

LEMMA AdmitExact == ASSUME IInv, LedgerExact, NEW d \in Deliveries, Admit(d) PROVE LedgerExact'
<1> DEFINE p == PluginOf[d]
           row == [NoRow EXCEPT !.version = policy[p].version]
           D == {d}
<1>1. p \in Plugins /\ D \in SUBSET Of(p) /\ Cardinality(D) = 1
  BY DeliveryAssumption, PluginScope, FS_Singleton
<1>2. row \in Row /\ rows[d].st = "none" /\ rows \in [Deliveries -> Row]
  <2>1. policy[p].version \in Int
    BY <1>1 DEF IInv, Typed, Policy
  <2> QED
    BY <2>1, NoRowTyped DEF Row, Admit, IInv, Typed
<1>3. /\ Active(rows) \in SUBSET Deliveries /\ Receipts(rows) \in SUBSET Deliveries
      /\ ledger = Counts(Active(rows), Receipts(rows))
      /\ ActiveQuotas(ledger) /\ ReceiptQuotas(ledger)
  BY Tables, TallyCounts, ExactParts
<1>4. \A s \in Scopes : ledger[s].active \in Nat /\ ledger[s].terminal \in Nat
  BY TallyNat, ExactParts
<1> HIDE DEF D, p, row
<1>5. CASE /\ Admitted(p)
           /\ rows' = [rows EXCEPT ![d] = [row EXCEPT !.st = "pending", !.kept = TRUE]]
           /\ ledger' = Bump(ledger, p, 1, 0)
  <2>1. /\ rows'[d].st = "pending"
        /\ \A e \in Deliveries \ D : rows'[e] = rows[e]
    BY <1>2, <1>5 DEF Row, D
  <2>2. Joins(Active(rows'), Active(rows), D)
    BY <1>2, <2>1 DEF Joins, Active, Open, D
  <2>3. Receipts(rows') = Receipts(rows)
    BY <1>2, <2>1 DEF Receipts, Outcomes, D
  <2>4. Counts(Active(rows'), Receipts(rows)) = Bump(ledger, p, Cardinality(D), 0)
    BY <1>1, <1>3, <2>2, OpenedCounts
  <2>5. Tally(rows') = Counts(Active(rows'), Receipts(rows'))
    BY TallyCounts
  <2>6. ledger' = Tally(rows')
    BY <1>1, <1>5, <2>3, <2>4, <2>5, Zenon
  <2>7. ActiveQuotas(ledger')
    BY <1>1, <1>3, <1>4, <1>5, PluginScope, DeliveryAssumption DEF Admitted, ActiveQuotas, Bump
  <2>8. ReceiptQuotas(ledger')
    BY <1>1, <1>3, <1>4, <1>5, PluginScope DEF ReceiptQuotas, Bump
  <2> QED
    BY <2>6, <2>7, <2>8 DEF LedgerExact, ActiveQuotas, ReceiptQuotas
<1>6. CASE /\ rows' = [rows EXCEPT ![d] = [row EXCEPT !.st = "refused"]]
           /\ UNCHANGED ledger
  <2>1. rows'[d].st = "refused" /\ \A e \in Deliveries \ {d} : rows'[e] = rows[e]
    BY <1>2, <1>6 DEF Row
  <2>2. Active(rows') = Active(rows) /\ Receipts(rows') = Receipts(rows)
    BY <1>2, <2>1 DEF Active, Receipts, Open, Outcomes
  <2>3. Tally(rows') = Tally(rows)
    BY <2>2, TallyCounts
  <2> QED
    BY <1>6, <2>3 DEF LedgerExact
<1>7. CASE \E gone \in Excess([rows EXCEPT ![d] = Settle(row, "dead_letter")],
                              Bump(ledger, p, 0, 1), p, {d}) :
             /\ rows' = Pruned([rows EXCEPT ![d] = Settle(row, "dead_letter")], gone)
             /\ ledger' = Released(Bump(ledger, p, 0, 1), gone)
  <2> DEFINE dead  == [rows EXCEPT ![d] = Settle(row, "dead_letter")]
             moved == Bump(ledger, p, 0, 1)
  <2>1. PICK gone \in Excess(dead, moved, p, {d}) :
          rows' = Pruned(dead, gone) /\ ledger' = Released(moved, gone)
    BY <1>7
  <2>2. /\ Settle(row, "dead_letter") \in Row /\ Settle(row, "dead_letter").st = "dead_letter"
        /\ Settle(row, "dead_letter").kept
    BY <1>2, SettledRow DEF Outcomes, Settle, Row
  <2>3. /\ dead \in [Deliveries -> Row] /\ dead[d] = Settle(row, "dead_letter")
        /\ \A e \in Deliveries \ D : dead[e] = rows[e]
    BY <1>2, <2>2 DEF D
  <2> HIDE DEF dead
  <2>4. Joins(Receipts(dead), Receipts(rows), D)
    BY <1>2, <2>2, <2>3 DEF Joins, Receipts, Outcomes, D
  <2>5. Active(dead) = Active(rows)
    BY <1>2, <2>2, <2>3 DEF Active, Open, D
  <2>6. Counts(Active(rows), Receipts(dead)) = Bump(ledger, p, 0, Cardinality(D))
    BY <1>1, <1>3, <2>4, SettledCounts
  <2>7. Tally(dead) = Counts(Active(dead), Receipts(dead))
    BY TallyCounts
  <2>8. moved = Tally(dead)
    BY <1>1, <2>5, <2>6, <2>7, Zenon
  <2>9. ActiveQuotas(moved) /\ \A q \in Plugins \ {p} : moved[q].terminal <= PluginReceipts
    <3>1. \A s \in Scopes : moved[s].active = ledger[s].active
      BY <1>4 DEF Bump
    <3>2. \A s \in Scopes \ {p, Global} : moved[s].terminal = ledger[s].terminal
      BY DEF Bump
    <3> QED
      BY <1>3, <3>1, <3>2, PluginScope DEF ActiveQuotas, ReceiptQuotas
  <2> HIDE DEF moved
  <2>10. /\ Released(moved, gone) = Tally(Pruned(dead, gone))
         /\ ActiveQuotas(Released(moved, gone)) /\ ReceiptQuotas(Released(moved, gone))
    BY <1>1, <2>1, <2>3, <2>8, <2>9, RollsUp
  <2> QED
    BY <2>1, <2>10 DEF LedgerExact, ActiveQuotas, ReceiptQuotas
<1> QED
  BY <1>5, <1>6, <1>7 DEF Admit, p, row

LEMMA ClaimExact == ASSUME IInv, LedgerExact, NEW w \in Slots, ClaimRow(w) PROVE LedgerExact'
<1> DEFINE p == slots[w].p
           late == Before(p)
           settled == [d \in Deliveries |-> IF d \in late THEN Settle(rows[d], "dead_letter")
                                       ELSE IF d \in First(p) THEN Leased(rows[d]) ELSE rows[d]]
           moved == Bump(ledger, p, -Cardinality(late), Cardinality(late))
           spared == IF Cardinality(late) = 1 THEN late ELSE {}
<1>1. CASE UNCHANGED <<rows, ledger>>
  BY <1>1, SameDatabase
<1>2. CASE \E gone \in Excess(settled, moved, p, spared) :
             rows' = Pruned(settled, gone) /\ ledger' = Released(moved, gone)
  <2>1. PICK gone \in Excess(settled, moved, p, spared) :
          rows' = Pruned(settled, gone) /\ ledger' = Released(moved, gone)
    BY <1>2
  <2>2. p \in Plugins
    BY DEF ClaimRow, IInv, Sound, Permit
  <2>3. /\ \A d \in Due(p) : d \in Of(p) /\ d \in Active(rows) /\ d \in Deliveries
        /\ late \subseteq Due(p) /\ First(p) \subseteq Due(p)
    BY <2>2, PluginScope DEF Before, First, Least, Good, Due, Active, Open
  <2>4. \A d \in Deliveries : /\ Settle(rows[d], "dead_letter") \in Row
                              /\ Leased(rows[d]) \in Row /\ Leased(rows[d]).st \in Open
                              /\ Leased(rows[d]).kept = rows[d].kept
    BY SettledRow, LeasedRow DEF IInv, Typed, Outcomes, Open, Leased, Row
  <2>5. settled \in [Deliveries -> Row]
    BY <2>4 DEF IInv, Typed
  <2>6. /\ \A d \in late : settled[d] = Settle(rows[d], "dead_letter")
        /\ \A d \in Deliveries \ late :
             settled[d] = IF d \in First(p) THEN Leased(rows[d]) ELSE rows[d]
    BY <2>3
  <2>7. moved = Bump(ledger, p, -Cardinality(late), Cardinality(late))
    OBVIOUS
  <2> HIDE DEF settled, moved, spared, late, p
  <2>8. \A d \in Deliveries \ late :
          /\ settled[d].st \in Open <=> rows[d].st \in Open
          /\ settled[d].st \in Outcomes <=> rows[d].st \in Outcomes
          /\ settled[d].kept = rows[d].kept
    <3> TAKE d \in Deliveries \ late
    <3>1. CASE d \in First(p)
      BY <2>3, <2>4, <2>6, <3>1 DEF Active, Open, Outcomes
    <3>2. CASE d \notin First(p)
      BY <2>6, <3>2
    <3> QED
      BY <3>1, <3>2
  <2>9. late \in SUBSET Active(rows) /\ late \in SUBSET Of(p) /\ "dead_letter" \in Outcomes
    BY <2>3 DEF Outcomes
  <2>10. Joins(Active(rows), Active(settled), late) /\ Joins(Receipts(settled), Receipts(rows), late)
    BY <2>5, <2>6, <2>8, <2>9, SettlingMoves DEF IInv
  <2> QED
    BY <2>1, <2>2, <2>5, <2>7, <2>9, <2>10, MovesExactly
<1> HIDE DEF settled, moved, spared
<1> QED
  BY <1>1, <1>2 DEF ClaimRow, settled, moved, spared

\* An execution that owns its lease holds an open row of its plugin.
LEMMA OwnRow ==
  ASSUME IInv, NEW w \in Slots, slots[w].at \notin {"idle", "permit"}, OwnsLease(w)
  PROVE  slots[w].p \in Plugins /\ {slots[w].d} \in SUBSET (Active(rows) \cap Of(slots[w].p))
<1>1. slots[w].d \in Deliveries /\ slots[w].p = PluginOf[slots[w].d] /\ slots[w].p \in Plugins
  BY Executes DEF IInv, Sound, Holds
<1> QED
  BY <1>1, Owned, PluginScope DEF Active

LEMMA DeadLetterExact ==
  ASSUME IInv, LedgerExact, NEW w \in Slots, NEW outcome \in Outcomes,
         slots[w].at \notin {"idle", "permit"}, DeadLetter(w, outcome)
  PROVE  LedgerExact'
<1>1. CASE OwnsLease(w) /\ Terminalizes({slots[w].d}, slots[w].p, outcome)
  BY <1>1, OwnRow, TerminalizesExactly DEF IInv
<1>2. CASE UNCHANGED database
  BY <1>2, SameDatabase DEF database
<1> QED
  BY <1>1, <1>2 DEF DeadLetter

LEMMA EndsExact ==
  ASSUME IInv, LedgerExact, NEW w \in Slots, Refuse(w) \/ Reject(w) \/ Complete(w) \/ Retry(w)
  PROVE  LedgerExact'
<1>1. slots[w].at \notin {"idle", "permit"}
  BY DEF Refuse, Reject, Complete, Retry
<1>2. CASE UNCHANGED database
  BY <1>2, SameDatabase DEF database
<1>3. CASE \E outcome \in Outcomes : DeadLetter(w, outcome)
  BY <1>1, <1>3, DeadLetterExact
<1>4. CASE OwnsLease(w) /\ Terminalizes({slots[w].d}, slots[w].p, "delivered")
  BY <1>1, <1>4, OwnRow, TerminalizesExactly DEF IInv, Outcomes
<1>5. CASE /\ OwnsLease(w) /\ UNCHANGED ledger
           /\ rows' = [rows EXCEPT ![slots[w].d] =
                         [rows[slots[w].d] EXCEPT !.st = "pending", !.waits = TRUE]]
  <2>1. /\ slots[w].d \in Deliveries /\ rows[slots[w].d].st \in Open
        /\ rows \in [Deliveries -> Row]
    BY <1>1, <1>5, Owned DEF IInv, Typed
  <2>2. \A d \in Deliveries : rows'[d].kept = rows[d].kept
                              /\ rows'[d].st = IF d = slots[w].d THEN "pending" ELSE rows[d].st
    BY <1>5, <2>1 DEF Row
  <2> QED
    BY <1>5, <2>1, <2>2, SameTable DEF Open, Outcomes
<1>6. CASE Refuse(w) \/ Reject(w)
  BY <1>3, <1>6 DEF Refuse, Reject, Refusal, Outcomes
<1>7. CASE Complete(w)
  BY <1>2, <1>4, <1>7 DEF Complete
<1>8. CASE Retry(w)
  BY <1>2, <1>3, <1>5, <1>8 DEF Retry, Outcomes
<1> QED
  BY <1>6, <1>7, <1>8

LEMMA TerminalizeExact ==
  ASSUME IInv, LedgerExact, NEW p \in Plugins, Terminalize(p)
  PROVE  LedgerExact'
<1>1. \E D \in SUBSET (Active(rows) \cap Of(p)), outcome \in Outcomes : Terminalizes(D, p, outcome)
  BY DEF Terminalize, Outcomes
<1> QED
  BY <1>1, TerminalizesExactly DEF IInv

LEMMA RecoverExact == ASSUME IInv, LedgerExact, Recover PROVE LedgerExact'
<1>1. PICK gone \in SUBSET Receipts(rows), expired \in SUBSET Delivering :
        /\ rows' = Pruned([d \in Deliveries |-> IF d \in expired
                            THEN [rows[d] EXCEPT !.st = "pending"] ELSE rows[d]], gone)
        /\ ledger' = Released(Tally(rows), gone)
  BY DEF Recover
<1> DEFINE back == [d \in Deliveries |-> IF d \in expired
                      THEN [rows[d] EXCEPT !.st = "pending"] ELSE rows[d]]
<1>2. \A d \in Deliveries : /\ [rows[d] EXCEPT !.st = "pending"] \in Row /\ rows[d] \in Row
                            /\ [rows[d] EXCEPT !.st = "pending"].st = "pending"
                            /\ [rows[d] EXCEPT !.st = "pending"].kept = rows[d].kept
  BY DEF IInv, Typed, Row, States, Open
<1>3. \A d \in expired : rows[d].st = "delivering"
  BY DEF Delivering
<1>4. back \in [Deliveries -> Row]
  BY <1>2
<1>5. \A d \in Deliveries : back[d] = IF d \in expired
                              THEN [rows[d] EXCEPT !.st = "pending"] ELSE rows[d]
  OBVIOUS
<1>6. rows' = Pruned(back, gone) /\ ledger' = Released(ledger, gone)
  BY <1>1, ExactParts
<1> HIDE DEF back
<1>7. \A d \in Deliveries : /\ back[d].st \in Open <=> rows[d].st \in Open
                            /\ back[d].st \in Outcomes <=> rows[d].st \in Outcomes
                            /\ back[d].kept = rows[d].kept
  <2> TAKE d \in Deliveries
  <2>1. CASE d \in expired
    BY <1>2, <1>3, <1>5, <2>1 DEF Open, Outcomes
  <2>2. CASE d \notin expired
    BY <1>5, <2>2
  <2> QED
    BY <2>1, <2>2
<1>8. Active(back) = Active(rows) /\ Receipts(back) = Receipts(rows)
  BY <1>7 DEF Active, Receipts
<1>9. Tally(back) = Tally(rows)
  BY <1>8, TallyCounts
<1> QED
  BY <1>4, <1>6, <1>8, <1>9, LetsGoExactly

LEMMA StepExact == ASSUME IInv, LedgerExact, [Next]_vars PROVE LedgerExact'
<1>1. CASE UNCHANGED vars
  BY <1>1, SameDatabase DEF vars
<1>2. CASE Batch
  <2>1. CASE Wake \/ ListPlugins \/ EndOfList \/ \E w \in Slots : AcquirePermit(w)
    BY <2>1, SameDatabase DEF Wake, ListPlugins, EndOfList, AcquirePermit, database
  <2> QED
    BY <1>2, <2>1, ClaimExact DEF Batch
<1>3. CASE BatchFails
  BY <1>3, SameDatabase DEF BatchFails
<1>4. CASE \E w \in Slots : Execution(w) \/ StoreFails(w)
  <2>1. CASE \E w \in Slots : \/ Authorize(w) \/ Invoke(w) \/ GuestExits(w)
                              \/ GuestFails(w) \/ StoreFails(w)
    BY <2>1, SameDatabase DEF Authorize, Invoke, GuestExits, GuestFails, StoreFails, database
  <2> QED
    BY <1>4, <2>1, EndsExact DEF Execution
<1>5. CASE \E p \in Plugins : \/ BeginChange(p, "disable") \/ BeginChange(p, "upgrade")
                              \/ Change(p) \/ RollBack(p) \/ Enable(p)
                              \/ PauseEnds(p) \/ WindowEnds(p)
  <2>1. CASE \E p \in Plugins : \/ BeginChange(p, "disable") \/ BeginChange(p, "upgrade")
                                \/ Publish(p) \/ RollBack(p) \/ Enable(p)
                                \/ PauseEnds(p) \/ WindowEnds(p)
    BY <2>1, SameDatabase
    DEF BeginChange, Publish, RollBack, Enable, PauseEnds, WindowEnds, database
  <2> QED
    BY <1>5, <2>1, TerminalizeExact DEF Change
<1>6. CASE \E d \in Deliveries : Admit(d) \/ RetryDue(d) \/ GrowsOld(d)
  <2>1. ASSUME NEW d \in Deliveries, RetryDue(d) \/ GrowsOld(d) PROVE LedgerExact'
    <3>1. /\ UNCHANGED ledger
          /\ \A e \in Deliveries : rows'[e].st = rows[e].st /\ rows'[e].kept = rows[e].kept
      BY <2>1 DEF RetryDue, GrowsOld, IInv, Typed, Row
    <3> QED
      BY <3>1, SameTable
  <2> QED
    BY <1>6, <2>1, AdmitExact
<1>7. CASE Stop \/ Restart
  BY <1>7, SameDatabase DEF Stop, Restart, database
<1>8. CASE Maintain
  BY <1>8, LetsGoExactly DEF Maintain, IInv, Typed
<1> QED
  BY <1>1, <1>2, <1>3, <1>4, <1>5, <1>6, <1>7, <1>8, RecoverExact DEF Next

LEMMA InitExact == Init => LedgerExact
<1> SUFFICES ASSUME Init PROVE LedgerExact
  OBVIOUS
<1>1. Active(rows) = {} /\ Receipts(rows) = {}
  BY DEF Init, Active, Receipts, NoRow, Open, Outcomes
<1>2. \A s : Size({}, s) = 0
  <2>1. \A s : {} \cap Of(s) = {}
    OBVIOUS
  <2> QED
    BY <2>1, FS_EmptySet, Zenon DEF Size
<1>3. ledger = Counts({}, {})
  BY <1>1, TallyCounts, Zenon DEF Init
<1>4. \A s \in Scopes : ledger[s].active = 0 /\ ledger[s].terminal = 0
  BY <1>2, <1>3 DEF Counts
<1> QED
  BY <1>4, PluginScope, DeliveryAssumption DEF Init, LedgerExact

\* bumpLedger() stands beside every write of a row: the counters never drift
\* from the table, and no quota is overrun.
THEOREM Exact == Spec => []LedgerExact
BY InitExact, StepExact, Invariance, PTL DEF Spec

-----------------------------------------------------------------------------
(* Attempts and versions of the rows.                                       *)

Steady == \A d \in Deliveries : /\ rows'[d].version = rows[d].version
                                /\ rows'[d].attempts = rows[d].attempts

LEMMA TerminalizesSteady ==
  ASSUME Typed, NEW D, NEW p, NEW outcome \in Outcomes, Terminalizes(D, p, outcome)
  PROVE  Steady
<1> DEFINE settled == [d \in Deliveries |-> IF d \in D THEN Settle(rows[d], outcome) ELSE rows[d]]
<1>1. settled \in [Deliveries -> Row]
  BY SettledRow DEF Typed
<1>2. \A d \in Deliveries : settled[d].version = rows[d].version
                            /\ settled[d].attempts = rows[d].attempts
  BY SettledRow DEF Typed
<1>3. PICK gone : rows' = Pruned(settled, gone)
  BY DEF Terminalizes
<1> HIDE DEF settled
<1> QED
  BY <1>1, <1>2, <1>3, PrunedRows DEF Steady

LEMMA EndsSteady ==
  ASSUME IInv, NEW w \in Slots, Refuse(w) \/ Reject(w) \/ Complete(w) \/ Retry(w)
  PROVE  Steady
<1>1. CASE UNCHANGED database
  BY <1>1 DEF database, Steady
<1>2. CASE \E outcome \in Outcomes : Terminalizes({slots[w].d}, slots[w].p, outcome)
  BY <1>2, TerminalizesSteady DEF IInv
<1>3. CASE /\ slots[w].at = "failed"
           /\ rows' = [rows EXCEPT ![slots[w].d] =
                         [rows[slots[w].d] EXCEPT !.st = "pending", !.waits = TRUE]]
  BY <1>3, Executes DEF Steady, IInv, Typed, Row
<1>4. ASSUME NEW outcome \in Outcomes, DeadLetter(w, outcome) PROVE Steady
  BY <1>1, <1>2, <1>4 DEF DeadLetter
<1>5. CASE Refuse(w) \/ Reject(w)
  BY <1>4, <1>5 DEF Refuse, Reject, Refusal, Outcomes
<1>6. CASE Complete(w)
  BY <1>1, <1>2, <1>6 DEF Complete, Outcomes
<1>7. CASE Retry(w)
  BY <1>1, <1>3, <1>4, <1>7 DEF Retry, Outcomes
<1> QED
  BY <1>5, <1>6, <1>7

LEMMA RecoverSteady == ASSUME IInv, Recover PROVE Steady
<1>1. PICK gone \in SUBSET Receipts(rows), expired \in SUBSET Delivering :
        rows' = Pruned([d \in Deliveries |-> IF d \in expired
                            THEN [rows[d] EXCEPT !.st = "pending"] ELSE rows[d]], gone)
  BY DEF Recover
<1> DEFINE back == [d \in Deliveries |-> IF d \in expired
                      THEN [rows[d] EXCEPT !.st = "pending"] ELSE rows[d]]
<1>2. \A d \in Deliveries : /\ [rows[d] EXCEPT !.st = "pending"] \in Row /\ rows[d] \in Row
                            /\ [rows[d] EXCEPT !.st = "pending"].version = rows[d].version
                            /\ [rows[d] EXCEPT !.st = "pending"].attempts = rows[d].attempts
  BY DEF IInv, Typed, Row, States, Open
<1>3. back \in [Deliveries -> Row]
  BY <1>2
<1>4. \A d \in Deliveries : back[d].version = rows[d].version
                            /\ back[d].attempts = rows[d].attempts
  BY <1>2
<1>5. rows' = Pruned(back, gone)
  BY <1>1
<1> HIDE DEF back
<1> QED
  BY <1>3, <1>4, <1>5, PrunedRows DEF Steady

\* Only an admission and a claim write them.
LEMMA OthersSteady ==
  ASSUME IInv, [Next]_vars,
         ~ \E d \in Deliveries : Admit(d), ~ \E w \in Slots : ClaimRow(w)
  PROVE  Steady
<1>1. CASE UNCHANGED rows
  BY <1>1 DEF Steady
<1>2. CASE \E d \in Deliveries : RetryDue(d) \/ GrowsOld(d)
  BY <1>2 DEF RetryDue, GrowsOld, Steady, IInv, Typed, Row
<1>3. CASE Maintain
  BY <1>3, PrunedRows DEF Maintain, Steady, IInv, Typed
<1>4. CASE \E p \in Plugins : Terminalize(p)
  BY <1>4, TerminalizesSteady DEF Terminalize, IInv, Outcomes
<1>5. CASE \E w \in Slots : Execution(w) \/ StoreFails(w)
  BY <1>1, <1>5, EndsSteady
  DEF Execution, Authorize, Invoke, GuestExits, GuestFails, StoreFails, database
<1>6. CASE Batch \/ BatchFails \/ Stop \/ Restart
  BY <1>1, <1>6 DEF Batch, Wake, ListPlugins, EndOfList, AcquirePermit, BatchFails, Stop,
    Restart, database
<1>7. CASE \E p \in Plugins : \/ BeginChange(p, "disable") \/ BeginChange(p, "upgrade")
                              \/ Publish(p) \/ RollBack(p) \/ Enable(p)
                              \/ PauseEnds(p) \/ WindowEnds(p)
  BY <1>1, <1>7 DEF BeginChange, Publish, RollBack, Enable, PauseEnds, WindowEnds, database
<1> QED
  BY <1>1, <1>2, <1>3, <1>4, <1>5, <1>6, <1>7, RecoverSteady DEF Next, Change, vars

\* A candidate is of the installed version, and nobody has tried it.
LEMMA AdmitNew ==
  ASSUME IInv, NEW d \in Deliveries, Admit(d)
  PROVE  /\ rows'[d].version = policy[PluginOf[d]].version /\ rows'[d].attempts = 0
         /\ \A e \in Deliveries \ {d} : /\ rows'[e].version = rows[e].version
                                        /\ rows'[e].attempts = rows[e].attempts
<1> DEFINE row == [NoRow EXCEPT !.version = policy[PluginOf[d]].version]
<1>1. /\ row \in Row /\ row.version = policy[PluginOf[d]].version /\ row.attempts = 0
      /\ rows \in [Deliveries -> Row]
  <2>1. policy[PluginOf[d]].version \in Int
    BY DeliveryAssumption DEF IInv, Typed, Policy
  <2>2. NoRow.attempts = 0 /\ NoRow \in Row
    BY NoRowTyped DEF NoRow
  <2>3. row \in Row /\ row.version = policy[PluginOf[d]].version /\ row.attempts = NoRow.attempts
    BY <2>1, <2>2 DEF Row
  <2> QED
    BY <2>2, <2>3 DEF IInv, Typed
<1> HIDE DEF row
<1>2. CASE \/ rows' = [rows EXCEPT ![d] = [row EXCEPT !.st = "pending", !.kept = TRUE]]
           \/ rows' = [rows EXCEPT ![d] = [row EXCEPT !.st = "refused"]]
  BY <1>1, <1>2 DEF Row
<1>3. CASE \E gone : rows' = Pruned([rows EXCEPT ![d] = Settle(row, "dead_letter")], gone)
  <2>1. PICK gone : rows' = Pruned([rows EXCEPT ![d] = Settle(row, "dead_letter")], gone)
    BY <1>3
  <2>2. /\ Settle(row, "dead_letter") \in Row
        /\ Settle(row, "dead_letter").version = row.version
        /\ Settle(row, "dead_letter").attempts = row.attempts
    BY <1>1, SettledRow DEF Outcomes
  <2>3. [rows EXCEPT ![d] = Settle(row, "dead_letter")] \in [Deliveries -> Row]
    BY <1>1, <2>2
  <2> DEFINE dead == Settle(row, "dead_letter")
             rs == [rows EXCEPT ![d] = dead]
  <2> HIDE DEF dead
  <2>4. rs \in [Deliveries -> Row] /\ rs[d] = dead /\ \A e \in Deliveries \ {d} : rs[e] = rows[e]
    BY <1>1, <2>3 DEF dead
  <2> HIDE DEF rs
  <2>5. rows' = Pruned(rs, gone)
    BY <2>1 DEF rs, dead
  <2>6. \A e \in Deliveries :
          rows'[e].version = rs[e].version /\ rows'[e].attempts = rs[e].attempts
    BY <2>4, <2>5, PrunedRows
  <2> QED
    BY <1>1, <2>2, <2>4, <2>6 DEF dead
<1> QED
  BY <1>2, <1>3 DEF Admit, row

\* A claim counts one attempt of the row it leases, which has one left.
LEMMA ClaimCounts ==
  ASSUME IInv, NEW w \in Slots, ClaimRow(w)
  PROVE  \A d \in Deliveries :
           /\ rows'[d].version = rows[d].version
           /\ \/ rows'[d].attempts = rows[d].attempts
              \/ /\ d \in First(slots[w].p) /\ rows[d].attempts < MaxAttempts
                 /\ rows'[d].attempts = rows[d].attempts + 1
<1> DEFINE p == slots[w].p
           late == Before(p)
           settled == [d \in Deliveries |-> IF d \in late THEN Settle(rows[d], "dead_letter")
                                       ELSE IF d \in First(p) THEN Leased(rows[d]) ELSE rows[d]]
<1>1. CASE UNCHANGED rows
  BY <1>1
<1>2. CASE \E gone : rows' = Pruned(settled, gone)
  <2>1. PICK gone : rows' = Pruned(settled, gone)
    BY <1>2
  <2>2. \A d \in First(p) : rows[d].attempts < MaxAttempts
    <3>1. \A d \in First(p) : d \in Deliveries /\ ~(rows[d].attempts >= MaxAttempts)
      BY DEF First, Least, Good, Late, Due, Of
    <3>2. \A d \in Deliveries : rows[d].attempts \in Int
      BY DEF IInv, Typed, Row
    <3>3. MaxAttempts \in Int
      BY DeliveryAssumption
    <3> QED
      BY <3>1, <3>2, <3>3
  <2>3. \A d \in Deliveries :
          /\ Settle(rows[d], "dead_letter") \in Row
          /\ Settle(rows[d], "dead_letter").version = rows[d].version
          /\ Settle(rows[d], "dead_letter").attempts = rows[d].attempts
          /\ Leased(rows[d]) \in Row /\ Leased(rows[d]).version = rows[d].version
          /\ Leased(rows[d]).attempts = rows[d].attempts + 1
    BY SettledRow, LeasedRow DEF IInv, Typed, Outcomes
  <2>4. settled \in [Deliveries -> Row]
    BY <2>3 DEF IInv, Typed
  <2>5. \A d \in Deliveries :
          settled[d] = IF d \in late THEN Settle(rows[d], "dead_letter")
                       ELSE IF d \in First(p) THEN Leased(rows[d]) ELSE rows[d]
    OBVIOUS
  <2> HIDE DEF settled, late, p
  <2>6. \A d \in Deliveries : rows'[d].version = settled[d].version
                              /\ rows'[d].attempts = settled[d].attempts
    BY <2>1, <2>4, PrunedRows
  <2> SUFFICES ASSUME NEW d \in Deliveries
               PROVE  /\ rows'[d].version = rows[d].version
                      /\ \/ rows'[d].attempts = rows[d].attempts
                         \/ /\ d \in First(p) /\ rows[d].attempts < MaxAttempts
                            /\ rows'[d].attempts = rows[d].attempts + 1
    BY DEF p
  <2>7. CASE d \in late
    BY <2>3, <2>5, <2>6, <2>7
  <2>8. CASE d \notin late /\ d \in First(p)
    BY <2>2, <2>3, <2>5, <2>6, <2>8
  <2>9. CASE d \notin late /\ d \notin First(p)
    BY <2>5, <2>6, <2>9
  <2> QED
    BY <2>7, <2>8, <2>9
<1> HIDE DEF settled
<1> QED
  BY <1>1, <1>2 DEF ClaimRow, settled

-----------------------------------------------------------------------------
(* Ranges: what Typed leaves open.                                          *)

RowRange == \A d \in Deliveries : /\ rows[d].version \in Versions
                                  /\ rows[d].attempts \in 0..MaxAttempts

\* An upgrade under way has a version to go to; one that can still be taken
\* back has one to go back to.
PolicyRange == \A p \in Plugins :
  /\ policy[p].version \in Versions
  /\ mutation[p] = "upgrade" => policy[p].version < MaxVersions
  /\ mutation[p] = "upgraded" => policy[p].version > 1

SlotRange == \A w \in Slots : slots[w].attempt \in Nat

Breaker == [st : {"closed", "open", "half_open"}, failures : Nat, window : BOOLEAN,
            pause : BOOLEAN, probe : Slots \cup {NoSlot}, live : BOOLEAN]

RestTyped ==
  /\ loop.claimed \in Nat
  /\ up \in {"recovering", "up", "stopping"}
  /\ ran \subseteq Deliveries
  /\ count \in [changes : 0..MaxChanges, faults : 0..MaxFaults]

Ranged == RowRange /\ PolicyRange /\ SlotRange /\ breakers \in [Plugins -> Breaker] /\ RestTyped

LEMMA RowRangeStep == ASSUME IInv, Ranged, [Next]_vars PROVE RowRange'
<1>1. CASE Steady
  BY <1>1 DEF Steady, Ranged, RowRange
<1>2. ASSUME NEW d \in Deliveries, Admit(d) PROVE RowRange'
  <2>1. policy[PluginOf[d]].version \in Versions /\ 0 \in 0..MaxAttempts
    BY DeliveryAssumption DEF Ranged, PolicyRange
  <2>2. rows'[d].version \in Versions /\ rows'[d].attempts \in 0..MaxAttempts
    BY <1>2, <2>1, AdmitNew
  <2>3. \A e \in Deliveries \ {d} : /\ rows'[e].version \in Versions
                                    /\ rows'[e].attempts \in 0..MaxAttempts
    BY <1>2, AdmitNew DEF Ranged, RowRange
  <2> QED
    BY <2>2, <2>3 DEF RowRange
<1>3. ASSUME NEW w \in Slots, ClaimRow(w) PROVE RowRange'
  <2> SUFFICES ASSUME NEW d \in Deliveries
               PROVE  rows'[d].version \in Versions /\ rows'[d].attempts \in 0..MaxAttempts
    BY DEF RowRange
  <2>1. /\ rows'[d].version = rows[d].version
        /\ \/ rows'[d].attempts = rows[d].attempts
           \/ /\ rows[d].attempts < MaxAttempts
              /\ rows'[d].attempts = rows[d].attempts + 1
    BY <1>3, ClaimCounts
  <2>2. rows[d].version \in Versions /\ rows[d].attempts \in 0..MaxAttempts /\ MaxAttempts \in Nat
    BY DeliveryAssumption DEF Ranged, RowRange
  <2> QED
    BY <2>1, <2>2
<1> QED
  BY <1>1, <1>2, <1>3, OthersSteady

LEMMA PolicyRangeStep == ASSUME IInv, Ranged, [Next]_vars PROVE PolicyRange'
<1>1. PolicyRange /\ MaxVersions \in Nat \ {0}
      /\ policy \in [Plugins -> Policy] /\ mutation \in [Plugins -> Mutations]
  BY DeliveryAssumption DEF Ranged, IInv, Typed
<1>2. CASE UNCHANGED <<policy, mutation>>
  BY <1>1, <1>2 DEF PolicyRange
<1>3. CASE Restart
  BY <1>1, <1>3 DEF Restart, PolicyRange
<1>4. ASSUME NEW p \in Plugins, NEW kind \in {"disable", "upgrade"}, BeginChange(p, kind)
      PROVE  PolicyRange'
  BY <1>1, <1>4 DEF BeginChange, PolicyRange, Versions
<1>5. ASSUME NEW p \in Plugins, Publish(p) PROVE PolicyRange'
  <2>1. CASE mutation[p] = "disable"
    <3>1. /\ \A q \in Plugins : policy'[q].version = policy[q].version
          /\ mutation'[p] = "disabled" /\ \A q \in Plugins \ {p} : mutation'[q] = mutation[q]
      BY <1>1, <1>5, <2>1 DEF Publish, Policy
    <3> QED
      BY <1>1, <3>1 DEF PolicyRange
  <2>2. CASE mutation[p] = "upgrade"
    <3>1. /\ policy'[p].version = policy[p].version + 1 /\ mutation'[p] = "upgraded"
          /\ \A q \in Plugins \ {p} : mutation'[q] = mutation[q] /\ policy'[q] = policy[q]
      BY <1>1, <1>5, <2>2 DEF Publish, Policy
    <3>2. policy'[p].version \in Versions /\ policy'[p].version > 1
      BY <1>1, <2>2, <3>1 DEF PolicyRange, Versions
    <3> QED
      BY <1>1, <3>1, <3>2 DEF PolicyRange
  <2> QED
    BY <1>5, <2>1, <2>2 DEF Publish
<1>6. ASSUME NEW p \in Plugins, Terminalize(p) PROVE PolicyRange'
  BY <1>1, <1>6 DEF Terminalize, PolicyRange
<1>7. ASSUME NEW p \in Plugins, RollBack(p) PROVE PolicyRange'
  <2>1. CASE mutation[p] = "disabled"
    <3>1. /\ \A q \in Plugins : policy'[q].version = policy[q].version
          /\ mutation'[p] = "none" /\ \A q \in Plugins \ {p} : mutation'[q] = mutation[q]
      BY <1>1, <1>7, <2>1 DEF RollBack, Policy
    <3> QED
      BY <1>1, <3>1 DEF PolicyRange
  <2>2. CASE mutation[p] = "upgraded"
    <3>1. /\ policy'[p].version = policy[p].version - 1 /\ mutation'[p] = "none"
          /\ \A q \in Plugins \ {p} : mutation'[q] = mutation[q] /\ policy'[q] = policy[q]
      BY <1>1, <1>7, <2>2 DEF RollBack, Policy
    <3>2. policy'[p].version \in Versions
      BY <1>1, <2>2, <3>1 DEF PolicyRange, Versions
    <3> QED
      BY <1>1, <3>1, <3>2 DEF PolicyRange
  <2> QED
    BY <1>7, <2>1, <2>2 DEF RollBack
<1>8. ASSUME NEW p \in Plugins, Enable(p) PROVE PolicyRange'
  <2>1. (\A q \in Plugins : policy'[q].version = policy[q].version) /\ UNCHANGED mutation
    BY <1>1, <1>8 DEF Enable, Policy
  <2> QED
    BY <1>1, <2>1 DEF PolicyRange
<1>9. CASE UNCHANGED vars
  BY <1>2, <1>9 DEF vars
<1>10. CASE Batch \/ BatchFails \/ Stop \/ Recover \/ Maintain
  BY <1>2, <1>10 DEF Batch, Wake, ListPlugins, EndOfList, AcquirePermit, ClaimRow, BatchFails,
    Stop, Recover, Maintain, plugins
<1>11. CASE \E w \in Slots : Execution(w) \/ StoreFails(w)
  BY <1>2, <1>11 DEF Execution, Refuse, Reject, Authorize, Invoke, GuestExits, GuestFails, Complete,
    Retry, StoreFails, plugins
<1>12. CASE \E d \in Deliveries : Admit(d) \/ RetryDue(d) \/ GrowsOld(d)
  BY <1>2, <1>12 DEF Admit, RetryDue, GrowsOld, plugins
<1>13. CASE \E p \in Plugins : PauseEnds(p) \/ WindowEnds(p)
  BY <1>2, <1>13 DEF PauseEnds, WindowEnds, plugins
<1> QED
  BY <1>3, <1>4, <1>5, <1>6, <1>7, <1>8, <1>9, <1>10, <1>11, <1>12, <1>13 DEF Next, Change

LEMMA ClosedTyped == Closed \in Breaker /\ \A b \in BOOLEAN : Opened(b) \in Breaker
BY DEF Closed, Opened, Breaker

LEMMA BreakersStep ==
  ASSUME IInv, Ranged, [Next]_vars
  PROVE  breakers' \in [Plugins -> Breaker]
<1>1. breakers \in [Plugins -> Breaker]
  BY DEF Ranged
<1>2. CASE UNCHANGED breakers
  BY <1>1, <1>2
<1>3. \A w \in Slots : CloseBreaker(w) \/ ReleasePermit(w) => breakers' \in [Plugins -> Breaker]
  BY <1>1, ClosedTyped DEF CloseBreaker, ReleasePermit
<1>4. ASSUME NEW w \in Slots, AcquirePermit(w) PROVE breakers' \in [Plugins -> Breaker]
  <2>1. [Closed EXCEPT !.st = "half_open", !.probe = w, !.live = TRUE] \in Breaker
    BY DEF Closed, Breaker
  <2> QED
    BY <1>1, <1>4, <2>1 DEF AcquirePermit
<1>5. ASSUME NEW w \in Slots, Retry(w) PROVE breakers' \in [Plugins -> Breaker]
  <2>1. ASSUME NEW b \in Breaker, NEW mode PROVE AfterFailure(b, mode) \in Breaker
    <3>1. b.failures + 1 \in Nat /\ 1 \in Nat
      BY DEF Breaker
    <3>2. \A n \in Nat : [b EXCEPT !.failures = n, !.window = TRUE] \in Breaker
      BY DEF Breaker
    <3> QED
      BY <3>1, <3>2, ClosedTyped DEF AfterFailure
  <2>2. slots[w].p \in Plugins
    BY <1>5, Executes DEF Retry
  <2> QED
    BY <1>1, <1>3, <1>5, <2>1, <2>2 DEF Retry, DeadLetter, database
<1>6. CASE Recover
  BY <1>1, <1>6, ClosedTyped DEF Recover
<1>7. ASSUME NEW p \in Plugins, PauseEnds(p) \/ WindowEnds(p)
      PROVE  breakers' \in [Plugins -> Breaker]
  <2>1. /\ [breakers[p] EXCEPT !.pause = FALSE] \in Breaker
        /\ [breakers[p] EXCEPT !.live = FALSE] \in Breaker
        /\ [breakers[p] EXCEPT !.window = FALSE] \in Breaker
    BY <1>1 DEF Breaker
  <2> QED
    BY <1>1, <1>7, <2>1 DEF PauseEnds, WindowEnds
<1>8. CASE UNCHANGED vars
  BY <1>2, <1>8 DEF vars
<1>9. CASE Batch \/ BatchFails
  BY <1>2, <1>3, <1>4, <1>9
  DEF Batch, Wake, ListPlugins, EndOfList, ClaimRow, BatchFails, database
<1>10. CASE \E w \in Slots : Execution(w) \/ StoreFails(w)
  BY <1>2, <1>3, <1>5, <1>10 DEF Execution, Refuse, Reject, DeadLetter, Authorize, Invoke, GuestExits,
    GuestFails, Complete, StoreFails, database
<1>11. CASE \E p \in Plugins : \/ BeginChange(p, "disable") \/ BeginChange(p, "upgrade")
                               \/ Change(p) \/ RollBack(p) \/ Enable(p)
  BY <1>2, <1>11 DEF BeginChange, Change, Publish, Terminalize, RollBack, Enable, database
<1>12. CASE \/ Stop \/ Restart \/ Maintain
            \/ \E d \in Deliveries : Admit(d) \/ RetryDue(d) \/ GrowsOld(d)
  BY <1>2, <1>12 DEF Stop, Restart, Maintain, Admit, RetryDue, GrowsOld, database
<1> QED
  BY <1>6, <1>7, <1>8, <1>9, <1>10, <1>11, <1>12 DEF Next

LEMMA SlotRangeStep == ASSUME IInv, Ranged, [Next]_vars PROVE SlotRange'
<1>1. SlotRange /\ slots \in [Slots -> Slot] /\ Idle.attempt = 0
  BY DEF Ranged, IInv, Typed, Idle
<1>2. CASE \A w \in Slots : slots'[w].attempt = slots[w].attempt \/ slots'[w] = Idle
  BY <1>1, <1>2 DEF SlotRange
<1>3. CASE UNCHANGED slots
  BY <1>2, <1>3
<1>4. ASSUME NEW w \in Slots, AcquirePermit(w) PROVE SlotRange'
  <2>1. CASE \E p, mode : slots' = [slots EXCEPT ![w] = [Idle EXCEPT !.at = "permit", !.p = p,
                                                         !.mine = TRUE, !.mode = mode]]
    <3>1. \A p, mode :
            [Idle EXCEPT !.at = "permit", !.p = p, !.mine = TRUE, !.mode = mode].attempt = 0
      BY DEF Idle
    <3> QED
      BY <1>1, <2>1, <3>1 DEF SlotRange
  <2> QED
    BY <1>3, <1>4, <2>1 DEF AcquirePermit
<1>5. ASSUME NEW w \in Slots, ClaimRow(w) PROVE SlotRange'
  <2>1. CASE slots' = [slots EXCEPT ![w] = Idle]
    BY <1>1, <1>2, <2>1
  <2>2. CASE \E d \in First(slots[w].p) :
               slots' = [slots EXCEPT ![w].at = "held", ![w].d = d,
                                      ![w].attempt = rows[d].attempts + 1]
    <3>1. PICK d \in First(slots[w].p) :
               slots' = [slots EXCEPT ![w].at = "held", ![w].d = d,
                                      ![w].attempt = rows[d].attempts + 1]
      BY <2>2
    <3>2. d \in Deliveries
      BY DEF First, Least, Good, Due, Of
    <3>3. rows[d].attempts + 1 \in Nat
      BY <3>2, DeliveryAssumption DEF Ranged, RowRange
    <3>4. slots'[w].attempt = rows[d].attempts + 1 /\ \A v \in Slots \ {w} : slots'[v] = slots[v]
      BY <1>1, <3>1 DEF Slot
    <3> QED
      BY <1>1, <3>3, <3>4 DEF SlotRange
  <2> QED
    BY <1>5, <2>1, <2>2 DEF ClaimRow
<1>6. ASSUME NEW w \in Slots, Execution(w) \/ StoreFails(w) PROVE SlotRange'
  <2>1. CASE Done(w)
    BY <1>1, <1>2, <2>1 DEF Done
  <2>2. CASE Authorize(w) \/ Invoke(w) \/ GuestExits(w) \/ GuestFails(w)
    BY <1>1, <1>2, <2>2 DEF Authorize, Invoke, GuestExits, GuestFails, Slot
  <2> QED
    BY <1>6, <2>1, <2>2 DEF Execution, Refuse, Reject, Complete, Retry, StoreFails
<1>7. CASE BatchFails
  BY <1>1, <1>2, <1>7 DEF BatchFails, Slot
<1>8. ASSUME NEW p \in Plugins, BeginChange(p, "disable") \/ BeginChange(p, "upgrade") \/ Publish(p)
      PROVE  SlotRange'
  BY <1>1, <1>2, <1>8 DEF BeginChange, Publish, Slot
<1>9. CASE Restart
  BY <1>2, <1>9 DEF Restart
<1>10. CASE UNCHANGED vars
  BY <1>3, <1>10 DEF vars
<1>11. CASE Wake \/ ListPlugins \/ EndOfList \/ Stop \/ Recover \/ Maintain
  BY <1>3, <1>11 DEF Wake, ListPlugins, EndOfList, Stop, Recover, Maintain
<1>12. CASE \E p \in Plugins : Terminalize(p) \/ RollBack(p) \/ Enable(p) \/ PauseEnds(p)
                               \/ WindowEnds(p)
  BY <1>3, <1>12 DEF Terminalize, RollBack, Enable, PauseEnds, WindowEnds
<1>13. CASE \E d \in Deliveries : Admit(d) \/ RetryDue(d) \/ GrowsOld(d)
  BY <1>3, <1>13 DEF Admit, RetryDue, GrowsOld
<1> QED
  BY <1>4, <1>5, <1>6, <1>7, <1>8, <1>9, <1>10, <1>11, <1>12, <1>13 DEF Next, Batch, Change

LEMMA ClaimedStep == ASSUME IInv, Ranged, [Next]_vars PROVE loop'.claimed \in Nat
<1>1. loop.claimed \in Nat /\ loop \in Loop /\ Off.claimed = 0
  BY DEF Ranged, RestTyped, IInv, Typed, Off
<1>2. CASE loop'.claimed = loop.claimed \/ loop' = Off
  BY <1>1, <1>2
<1>3. CASE UNCHANGED loop
  BY <1>1, <1>3
<1>4. Ended.claimed \in Nat /\ Waits.claimed \in Nat /\ \A n \in Nat : Listed(n).claimed \in Nat
  <2>1. Ended.claimed = 0 /\ Waits.claimed = loop.claimed
    BY <1>1 DEF Ended, Waits, Loop
  <2>2. \A n \in Nat : [loop EXCEPT !.at = "try", !.todo = Claimable, !.claimed = n,
                                    !.launched = FALSE].claimed = n
    BY <1>1 DEF Loop
  <2> QED
    BY <1>1, <2>1, <2>2 DEF Listed
<1>5. CASE Wake \/ ListPlugins \/ EndOfList
  BY <1>1, <1>4, <1>5 DEF Wake, ListPlugins, EndOfList
<1>6. CASE \E w \in Slots : AcquirePermit(w)
  <2>1. loop'.claimed = loop.claimed
    BY <1>1, <1>6 DEF AcquirePermit, Loop
  <2> QED
    BY <1>1, <2>1
<1>7. CASE \E w \in Slots : ClaimRow(w)
  <2>1. loop' = [loop EXCEPT !.at = "try"]
        \/ loop' = [loop EXCEPT !.at = "try", !.launched = TRUE, !.claimed = loop.claimed + 1]
    BY <1>7 DEF ClaimRow
  <2>2. \A n \in Nat : [loop EXCEPT !.at = "try", !.launched = TRUE, !.claimed = n].claimed = n
    BY <1>1 DEF Loop
  <2>3. [loop EXCEPT !.at = "try"].claimed = loop.claimed /\ loop.claimed + 1 \in Nat
    BY <1>1 DEF Loop
  <2> QED
    BY <1>1, <2>1, <2>2, <2>3
<1>8. CASE BatchFails
  <2>1. loop'.claimed = Off.claimed
    BY <1>8 DEF BatchFails, Off
  <2> QED
    BY <1>1, <2>1
<1>9. CASE \E w \in Slots : Execution(w) \/ StoreFails(w)
  <2>1. \A w : loop' = Woken(w) => loop'.claimed = loop.claimed
    BY <1>1 DEF Woken, Loop
  <2> QED
    BY <1>2, <1>3, <1>9, <2>1 DEF Execution, Refuse, Reject, Authorize, Invoke, GuestExits,
      GuestFails, Complete, Retry, StoreFails, Done
<1>10. CASE Restart
  BY <1>2, <1>10 DEF Restart
<1>11. CASE UNCHANGED vars
  BY <1>3, <1>11 DEF vars
<1>12. CASE Stop \/ Recover \/ Maintain
  BY <1>3, <1>12 DEF Stop, Recover, Maintain
<1>13. CASE \E p \in Plugins : \/ BeginChange(p, "disable") \/ BeginChange(p, "upgrade")
                               \/ Change(p) \/ RollBack(p) \/ Enable(p)
                               \/ PauseEnds(p) \/ WindowEnds(p)
  BY <1>3, <1>13 DEF BeginChange, Change, Publish, Terminalize, RollBack, Enable, PauseEnds,
    WindowEnds
<1>14. CASE \E d \in Deliveries : Admit(d) \/ RetryDue(d) \/ GrowsOld(d)
  BY <1>3, <1>14 DEF Admit, RetryDue, GrowsOld
<1> QED
  BY <1>5, <1>6, <1>7, <1>8, <1>9, <1>10, <1>11, <1>12, <1>13, <1>14 DEF Next, Batch

LEMMA RestStep == ASSUME IInv, Ranged, [Next]_vars PROVE RestTyped'
<1>1. /\ up \in {"recovering", "up", "stopping"} /\ ran \subseteq Deliveries
      /\ count \in [changes : 0..MaxChanges, faults : 0..MaxFaults]
  BY DEF Ranged, RestTyped
<1>2. up' \in {"recovering", "up", "stopping"}
  <2>1. CASE UNCHANGED up
    BY <1>1, <2>1
  <2>2. CASE Stop \/ Restart \/ Recover
    BY <2>2 DEF Stop, Restart, Recover
  <2> QED
    BY <2>1, <2>2, ZenonT(60) DEF Next, Batch, Wake, ListPlugins, EndOfList, AcquirePermit, ClaimRow,
      BatchFails, Execution, Refuse, Reject, Authorize, Invoke, GuestExits, GuestFails, Complete,
      Retry, StoreFails, BeginChange, Change, Publish, Terminalize, RollBack, Enable, PauseEnds,
      WindowEnds, Admit, RetryDue, GrowsOld, Maintain, vars
<1>3. ran' \subseteq Deliveries
  <2>1. CASE \E w \in Slots : GuestExits(w)
    BY <1>1, <2>1, Executes DEF GuestExits
  <2>2. CASE UNCHANGED ran
    BY <1>1, <2>2
  <2> QED
    BY <2>1, <2>2 DEF Next, Batch, Wake, ListPlugins, EndOfList, AcquirePermit, ClaimRow,
      BatchFails, Execution, Refuse, Reject, Authorize, Invoke, GuestFails, Complete, Retry,
      StoreFails, BeginChange, Change, Publish, Terminalize, RollBack, Enable, PauseEnds, WindowEnds, Admit,
      RetryDue, GrowsOld, Stop, Restart, Recover, Maintain, vars
<1>4. count' \in [changes : 0..MaxChanges, faults : 0..MaxFaults]
  <2>1. MaxChanges \in Nat /\ MaxFaults \in Nat /\ count.changes \in Nat /\ count.faults \in Nat
    BY <1>1, DeliveryAssumption
  <2>2. CASE UNCHANGED count
    BY <1>1, <2>2
  <2>3. CASE count.faults < MaxFaults /\ count' = [count EXCEPT !.faults = @ + 1]
    BY <1>1, <2>1, <2>3
  <2>4. CASE count.changes < MaxChanges /\ count' = [count EXCEPT !.changes = @ + 1]
    BY <1>1, <2>1, <2>4
  <2> QED
    BY <2>2, <2>3, <2>4 DEF Next, Batch, Wake, ListPlugins, EndOfList, AcquirePermit, ClaimRow,
      BatchFails, Execution, Refuse, Reject, Authorize, Invoke, GuestExits, GuestFails, Complete,
      Retry, StoreFails, BeginChange, Change, Publish, Terminalize, RollBack, Enable, PauseEnds,
      WindowEnds, Admit, RetryDue, GrowsOld, Stop, Restart, Recover, Maintain, vars
<1> QED
  BY <1>2, <1>3, <1>4, ClaimedStep DEF RestTyped

LEMMA InitRanged == Init => Ranged
<1> SUFFICES ASSUME Init PROVE Ranged
  OBVIOUS
<1>1. 0 \in 0..MaxAttempts /\ 1 \in Versions /\ 0 \in 0..MaxChanges /\ 0 \in 0..MaxFaults
  BY DeliveryAssumption DEF Versions
<1>2. RowRange
  BY <1>1 DEF Init, RowRange, NoRow
<1>3. PolicyRange
  BY <1>1 DEF Init, PolicyRange
<1>4. SlotRange
  BY DEF Init, SlotRange, Idle
<1>5. RestTyped
  BY <1>1 DEF Init, RestTyped, Off
<1> QED
  BY <1>2, <1>3, <1>4, <1>5, ClosedTyped DEF Init, Ranged

LEMMA StepRanged == ASSUME IInv, Ranged, [Next]_vars PROVE Ranged'
BY RowRangeStep, PolicyRangeStep, SlotRangeStep, BreakersStep, RestStep DEF Ranged, Breaker

THEOREM InRange == Spec => []Ranged
BY InitRanged, StepRanged, Invariance, PTL DEF Spec

\* Every variable keeps its type; the counters of the ledger are naturals
\* because they count rows.
THEOREM TypeCorrect == Spec => []TypeOK
<1>1. ASSUME IInv, Ranged, LedgerExact PROVE TypeOK
  <2>1. rows \in [Deliveries -> [st : Open \cup Outcomes \cup {"none", "refused"},
                  version : Versions, attempts : 0..MaxAttempts, waits : BOOLEAN,
                  old : BOOLEAN, kept : BOOLEAN]]
    BY <1>1 DEF IInv, Typed, Ranged, RowRange, Row, States
  <2>2. ledger \in [Scopes -> [active : Nat, terminal : Nat]]
    <3>1. ledger = Counts(Active(rows), Receipts(rows))
      BY <1>1, ExactParts, TallyCounts
    <3>2. \A s \in Scopes : Size(Active(rows), s) \in Nat /\ Size(Receipts(rows), s) \in Nat
      BY Tables, Countable
    <3> QED
      BY <3>1, <3>2 DEF Counts
  <2>3. policy \in [Plugins -> [on : BOOLEAN, version : Versions]]
    BY <1>1 DEF IInv, Typed, Ranged, PolicyRange, Policy
  <2>4. slots \in [Slots -> [at : {"idle", "permit", "held", "ready", "running", "exited", "failed",
                  "rejected"},
                  d : Deliveries \cup {0}, p : Plugins \cup {0}, mode : {"closed", "half_open"},
                  attempt : Nat, mine : BOOLEAN, lease : {"none", "live", "aborted"}]]
    BY <1>1 DEF IInv, Typed, Ranged, SlotRange, Slot
  <2>5. loop \in [at : {"off", "list", "try", "claim", "wait", "tail"}, todo : SUBSET Plugins,
                cursor : Plugins \cup {0}, claimed : Nat, launched : BOOLEAN]
    BY <1>1 DEF IInv, Typed, Ranged, RestTyped, Loop
  <2> QED
    BY <1>1, <2>1, <2>2, <2>3, <2>4, <2>5
    DEF TypeOK, IInv, Typed, Ranged, RestTyped, Mutations, Breaker
<1> QED
  BY <1>1, Invariance, InRange, Exact, PTL

-----------------------------------------------------------------------------
(* As long as no transaction fails and the application goes on, a plugin    *)
(* has one execution at most, which has the permit of the breaker and, if   *)
(* its row is still leased, the lease: then no lease is lost, and none is   *)
(* taken past the breaker.                                                  *)

OnePerPlugin == \A v, w \in Busy : slots[v].p = slots[w].p => v = w
PermitClaims == \A w \in Busy : slots[w].at = "permit" => loop.at = "claim"
OnePermit    == \A v, w \in Busy : slots[v].at = "permit" /\ slots[w].at = "permit" => v = w
Permitted    == \A w \in Busy : slots[w].mine /\ PermitCurrent(w)
Attempted    == \A w \in Working : rows[slots[w].d].st = "delivering" =>
                                     rows[slots[w].d].attempts = slots[w].attempt

Quiet == /\ up = "up" /\ OnePerPlugin /\ PermitClaims /\ OnePermit /\ Permitted /\ Attempted
         /\ \A d \in Deliveries : ~Orphan(d)

Calm == count.faults = 0 => Quiet

\* No row is leased that was not, and a leased one is not claimed again.
NoLease == \A d \in Deliveries : rows'[d].st = "delivering" =>
             rows[d].st = "delivering" /\ rows'[d].attempts = rows[d].attempts

\* What Quiet reads of an execution.
SameSlot(w) ==
  /\ slots'[w].at = "idle" <=> slots[w].at = "idle"
  /\ slots'[w].at = "permit" <=> slots[w].at = "permit"
  /\ slots'[w].d = slots[w].d /\ slots'[w].p = slots[w].p /\ slots'[w].mode = slots[w].mode
  /\ slots'[w].attempt = slots[w].attempt /\ slots'[w].mine = slots[w].mine

LEMMA BusyPlugin == ASSUME IInv, NEW w \in Busy PROVE w \in Slots /\ slots[w].p \in Plugins
<1>1. w \in Slots /\ slots[w].at # "idle"
  BY DEF Busy
<1>2. CASE slots[w].at = "permit"
  BY <1>1, <1>2 DEF IInv, Sound, Permit
<1>3. CASE slots[w].at # "permit"
  BY <1>1, <1>3, Executes
<1> QED
  BY <1>1, <1>2, <1>3

\* A step that no execution notices.
LEMMA QuietKept ==
  ASSUME IInv, Quiet, \A w \in Slots : SameSlot(w), NoLease, UNCHANGED up,
         loop.at = "claim" => loop'.at = "claim",
         \A p \in Plugins : /\ breakers'[p].st = breakers[p].st
                            /\ breakers'[p].probe = breakers[p].probe
  PROVE  Quiet'
<1>1. Busy' = Busy /\ Working' = Working
  BY DEF Busy, Working, SameSlot
<1>2. \A w \in Busy : w \in Slots /\ slots[w].p \in Plugins
  BY BusyPlugin
<1>3. OnePerPlugin' /\ PermitClaims' /\ OnePermit'
  BY <1>1, <1>2 DEF Quiet, OnePerPlugin, PermitClaims, OnePermit, SameSlot
<1>4. Permitted'
  BY <1>1, <1>2 DEF Quiet, Permitted, PermitCurrent, SameSlot
<1>5. \A w \in Working : w \in Slots /\ slots[w].d \in Deliveries
  BY Executes DEF Working, Busy
<1>6. Attempted'
  BY <1>1, <1>5 DEF Quiet, Attempted, SameSlot, NoLease
<1>7. \A d \in Deliveries : ~Orphan(d)'
  BY <1>1, <1>5 DEF Quiet, Orphan, SameSlot, NoLease
<1> QED
  BY <1>3, <1>4, <1>6, <1>7 DEF Quiet

\* A slot becomes free.  Nobody else stands under the breaker of its plugin.
LEMMA QuietFreed ==
  ASSUME IInv, Quiet, NEW w \in Busy, slots' = [slots EXCEPT ![w] = Idle], NoLease, UNCHANGED up,
         slots[w].at = "permit" \/ (loop.at = "claim" => loop'.at = "claim"),
         \A p \in Plugins \ {slots[w].p} : breakers'[p] = breakers[p],
         w \in Working => rows'[slots[w].d].st # "delivering"
  PROVE  Quiet'
<1>1. w \in Slots /\ slots'[w] = Idle /\ \A v \in Slots \ {w} : slots'[v] = slots[v]
  BY DEF Busy, IInv, Typed
<1>2. Busy' = Busy \ {w} /\ Working' = Working \ {w}
  BY <1>1 DEF Busy, Working, Idle
<1>3. \A v \in Busy' : /\ v \in Slots \ {w} /\ v \in Busy /\ slots'[v] = slots[v]
                       /\ slots[v].p \in Plugins \ {slots[w].p}
  BY <1>1, <1>2, BusyPlugin DEF Quiet, OnePerPlugin
<1>4. OnePerPlugin' /\ OnePermit'
  BY <1>3 DEF Quiet, OnePerPlugin, OnePermit
<1>5. PermitClaims'
  BY <1>3 DEF Quiet, PermitClaims, OnePermit
<1>6. Permitted'
  BY <1>3 DEF Quiet, Permitted, PermitCurrent
<1>7. \A v \in Working' : /\ v \in Working /\ v # w /\ slots'[v] = slots[v]
                          /\ slots[v].d \in Deliveries
  <2>1. \A v \in Working : v \in Slots /\ slots[v].d \in Deliveries
    BY Executes DEF Working, Busy
  <2> QED
    BY <1>1, <1>2, <2>1
<1>8. Attempted'
  BY <1>7 DEF Quiet, Attempted, NoLease
<1>9. ASSUME NEW d \in Deliveries, Orphan(d)' PROVE FALSE
  <2>1. rows'[d].st = "delivering" /\ rows[d].st = "delivering"
    BY <1>9 DEF Orphan, NoLease
  <2>2. PICK v \in Working : slots[v].d = d
    BY <2>1 DEF Quiet, Orphan
  <2>3. v # w
    BY <2>1, <2>2
  <2> QED
    BY <1>2, <1>7, <1>9, <2>2, <2>3 DEF Orphan
<1> QED
  BY <1>4, <1>5, <1>6, <1>8, <1>9 DEF Quiet

-----------------------------------------------------------------------------
(* The steps of a calm application.                                         *)

LEMMA AdmitNoLease == ASSUME IInv, NEW d \in Deliveries, Admit(d) PROVE NoLease
<1> DEFINE row == [NoRow EXCEPT !.version = policy[PluginOf[d]].version]
<1>1. row \in Row /\ rows \in [Deliveries -> Row]
  <2>1. policy[PluginOf[d]].version \in Int
    BY DeliveryAssumption DEF IInv, Typed, Policy
  <2> QED
    BY <2>1, NoRowTyped DEF Row, IInv, Typed
<1> HIDE DEF row
<1>2. rows'[d].st # "delivering" /\ \A e \in Deliveries \ {d} : rows'[e].st = rows[e].st
  <2>1. CASE \/ rows' = [rows EXCEPT ![d] = [row EXCEPT !.st = "pending", !.kept = TRUE]]
             \/ rows' = [rows EXCEPT ![d] = [row EXCEPT !.st = "refused"]]
    BY <1>1, <2>1 DEF Row
  <2>2. CASE \E gone : rows' = Pruned([rows EXCEPT ![d] = Settle(row, "dead_letter")], gone)
    <3>1. PICK gone : rows' = Pruned([rows EXCEPT ![d] = Settle(row, "dead_letter")], gone)
      BY <2>2
    <3>2. Settle(row, "dead_letter") \in Row /\ Settle(row, "dead_letter").st = "dead_letter"
      BY <1>1, SettledRow DEF Outcomes
    <3>3. [rows EXCEPT ![d] = Settle(row, "dead_letter")] \in [Deliveries -> Row]
      BY <1>1, <3>2
    <3>4. \A e \in Deliveries :
            rows'[e].st = [rows EXCEPT ![d] = Settle(row, "dead_letter")][e].st
      BY <3>1, <3>3, PrunedRows
    <3> QED
      BY <1>1, <3>2, <3>4
  <2> QED
    BY <2>1, <2>2 DEF Admit, row
<1> QED
  BY <1>2, AdmitNew DEF NoLease

LEMMA SettlesNoLease ==
  ASSUME Steady, NEW D, NEW outcome, outcome # "delivering", SettlesTo(D, outcome)
  PROVE  NoLease /\ \A d \in D \cap Deliveries : rows'[d].st # "delivering"
BY DEF Steady, SettlesTo, NoLease

LEMMA SameNoLease == ASSUME UNCHANGED rows PROVE NoLease
BY DEF NoLease

\* An execution under permit and lease settles its row when it ends.
LEMMA EndsQuiet ==
  ASSUME IInv, Quiet, NEW w \in Slots, Refuse(w) \/ Reject(w) \/ Complete(w) \/ Retry(w)
  PROVE  Quiet'
<1>1. /\ Done(w) /\ slots[w].at \notin {"idle", "permit"} /\ UNCHANGED up
      /\ w \in Busy /\ w \in Working
  BY DEF Refuse, Reject, Complete, Retry, Busy, Working
<1>2. slots[w].d \in Deliveries /\ slots[w].p \in Plugins /\ PermitCurrent(w)
  BY <1>1, Executes DEF Quiet, Permitted
<1>3. rows[slots[w].d].st = "delivering" => OwnsLease(w)
  BY <1>1 DEF Quiet, Attempted, OwnsLease
<1>4. NoLease /\ rows'[slots[w].d].st # "delivering"
  <2>1. Steady
    BY EndsSteady
  <2>2. CASE UNCHANGED rows /\ ~OwnsLease(w)
    BY <1>3, <2>2, SameNoLease
  <2>3. CASE \E outcome \in Outcomes \cup {"pending"} : SettlesTo({slots[w].d}, outcome)
    BY <1>2, <2>1, <2>3, SettlesNoLease DEF Outcomes
  <2>4. ASSUME NEW outcome \in Outcomes, DeadLetter(w, outcome)
        PROVE  NoLease /\ rows'[slots[w].d].st # "delivering"
    <3>1. CASE OwnsLease(w)
      <4>1. Terminalizes({slots[w].d}, slots[w].p, outcome)
        BY <1>2, <2>4, <3>1 DEF DeadLetter
      <4> QED
        BY <2>3, <4>1, TerminalizesSettles DEF IInv
    <3>2. CASE ~OwnsLease(w)
      BY <2>2, <2>4, <3>2 DEF DeadLetter, database
    <3> QED
      BY <3>1, <3>2
  <2>5. CASE Refuse(w) \/ Reject(w)
    BY <2>4, <2>5 DEF Refuse, Reject, Refusal, Outcomes
  <2>6. CASE Complete(w)
    <3>1. CASE OwnsLease(w)
      <4>1. Terminalizes({slots[w].d}, slots[w].p, "delivered") /\ "delivered" \in Outcomes
        BY <1>2, <2>6, <3>1 DEF Complete, Outcomes
      <4> QED
        BY <2>3, <4>1, TerminalizesSettles DEF IInv
    <3>2. CASE ~OwnsLease(w)
      BY <2>2, <2>6, <3>2 DEF Complete, database
    <3> QED
      BY <3>1, <3>2
  <2>7. CASE Retry(w)
    <3>1. CASE DeadLetter(w, "dead_letter")
      BY <2>4, <3>1 DEF Outcomes
    <3>2. CASE /\ OwnsLease(w)
               /\ rows' = [rows EXCEPT ![slots[w].d] =
                             [rows[slots[w].d] EXCEPT !.st = "pending", !.waits = TRUE]]
      <4>1. \A d \in Deliveries : rows'[d].st = IF d = slots[w].d THEN "pending" ELSE rows[d].st
        BY <1>2, <3>2 DEF IInv, Typed, Row
      <4> QED
        BY <1>2, <2>1, <4>1 DEF NoLease, Steady
    <3>3. CASE ~OwnsLease(w) /\ UNCHANGED rows
      BY <2>2, <3>3
    <3> QED
      BY <1>2, <2>7, <3>1, <3>2, <3>3 DEF Retry, database
  <2> QED
    BY <2>5, <2>6, <2>7
<1>5. \A p \in Plugins \ {slots[w].p} : breakers'[p] = breakers[p]
  <2>1. breakers' = breakers \/ \E b : breakers' = [breakers EXCEPT ![slots[w].p] = b]
    BY DEF Refuse, Reject, Complete, Retry, DeadLetter, CloseBreaker, database
  <2> QED
    BY <2>1 DEF IInv, Typed
<1>6. loop.at = "claim" => loop'.at = "claim"
  BY <1>1 DEF Done, Woken, IInv, Typed, Loop
<1> QED
  BY <1>1, <1>4, <1>5, <1>6, QuietFreed DEF Done

\* The next plugin is one without an execution, so its breaker is nobody's.
LEMMA AcquireQuiet ==
  ASSUME IInv, Quiet, breakers \in [Plugins -> Breaker], NEW w \in Slots, AcquirePermit(w)
  PROVE  Quiet'
<1> DEFINE Asks(p, mode) == [Idle EXCEPT !.at = "permit", !.p = p, !.mine = TRUE, !.mode = mode]
<1>1. /\ loop.at = "try" /\ slots[w].at = "idle" /\ UNCHANGED <<rows, up>>
      /\ \A v \in Busy : v \in Slots /\ v # w /\ slots[v].at # "permit"
  BY DEF AcquirePermit, Quiet, PermitClaims, Busy, IInv, Typed
<1>2. PICK p \in NextPlugin :
        \/ \E mode \in {"closed", "half_open"} :
             /\ slots' = [slots EXCEPT ![w] = Asks(p, mode)]
             /\ loop' = [loop EXCEPT !.at = "claim", !.todo = @ \ {p}, !.cursor = p]
             /\ mode = "closed" => breakers[p].st = "closed" /\ UNCHANGED breakers
             /\ mode = "half_open" =>
                  breakers' = [breakers EXCEPT ![p] = [Closed EXCEPT !.st = "half_open",
                                                         !.probe = w, !.live = TRUE]]
        \/ /\ loop' = [loop EXCEPT !.todo = @ \ {p}, !.cursor = p]
           /\ UNCHANGED <<slots, breakers>>
  <2>1. PICK p \in NextPlugin : LET b == breakers[p] IN
          IF Passes(b) \/ Probes(b)
          THEN /\ slots' = [slots EXCEPT ![w] = Asks(p, IF Passes(b) THEN "closed" ELSE "half_open")]
               /\ breakers' = IF Passes(b) THEN breakers
                              ELSE [breakers EXCEPT ![p] = [Closed EXCEPT !.st = "half_open",
                                                               !.probe = w, !.live = TRUE]]
               /\ loop' = [loop EXCEPT !.at = "claim", !.todo = @ \ {p}, !.cursor = p]
          ELSE /\ loop' = [loop EXCEPT !.todo = @ \ {p}, !.cursor = p]
               /\ UNCHANGED <<slots, breakers>>
    BY DEF AcquirePermit
  <2> HIDE DEF Asks
  <2>2. CASE Passes(breakers[p])
    BY <2>1, <2>2 DEF Passes
  <2>3. CASE ~Passes(breakers[p])
    BY <2>1, <2>3
  <2> QED
    BY <2>2, <2>3
<1>3. p \in Plugins /\ \A v \in Busy : slots[v].p # p
  BY <1>1 DEF NextPlugin, Least, Todo, Known, Quiet, Permitted, IInv, Typed, Loop
<1>4. CASE loop' = [loop EXCEPT !.todo = @ \ {p}, !.cursor = p] /\ UNCHANGED <<slots, breakers>>
  BY <1>1, <1>4, QuietKept, SameNoLease DEF SameSlot
<1>5. ASSUME NEW mode \in {"closed", "half_open"},
             slots' = [slots EXCEPT ![w] = Asks(p, mode)],
             loop' = [loop EXCEPT !.at = "claim", !.todo = @ \ {p}, !.cursor = p],
             mode = "closed" => breakers[p].st = "closed" /\ UNCHANGED breakers,
             mode = "half_open" =>
                  breakers' = [breakers EXCEPT ![p] = [Closed EXCEPT !.st = "half_open",
                                                         !.probe = w, !.live = TRUE]]
      PROVE  Quiet'
  <2>1. /\ slots'[w] = Asks(p, mode) /\ \A v \in Slots \ {w} : slots'[v] = slots[v]
        /\ Asks(p, mode).at = "permit" /\ Asks(p, mode).p = p /\ Asks(p, mode).mine
        /\ Asks(p, mode).mode = mode
    BY <1>5 DEF IInv, Typed, Idle
  <2>2. loop'.at = "claim"
    BY <1>5 DEF IInv, Typed, Loop
  <2> HIDE DEF Asks
  <2>3. Busy' = Busy \cup {w} /\ Working' = Working
    BY <1>1, <2>1 DEF Busy, Working
  <2>4. \A v \in Busy : slots'[v] = slots[v] /\ slots[v].p \in Plugins \ {p}
    BY <1>1, <1>3, <2>1, BusyPlugin
  <2>5. OnePerPlugin' /\ OnePermit'
    BY <1>1, <2>1, <2>3, <2>4 DEF Quiet, OnePerPlugin, OnePermit
  <2>6. PermitClaims'
    BY <2>2 DEF PermitClaims
  <2>7. \A q \in Plugins \ {p} : breakers'[q] = breakers[q]
    BY <1>1, <1>5
  <2>8. PermitCurrent(w)'
    <3>1. CASE mode = "closed"
      BY <1>5, <2>1, <3>1 DEF PermitCurrent
    <3>2. CASE mode = "half_open"
      <4>1. breakers'[p].st = "half_open" /\ breakers'[p].probe = w
        BY <1>1, <1>3, <1>5, <3>2 DEF Closed
      <4> QED
        BY <2>1, <3>2, <4>1 DEF PermitCurrent
    <3> QED
      BY <3>1, <3>2
  <2>9. Permitted'
    BY <2>1, <2>3, <2>4, <2>7, <2>8 DEF Quiet, Permitted, PermitCurrent
  <2>10. \A v \in Working : slots'[v] = slots[v]
    BY <2>4 DEF Working
  <2>11. Attempted' /\ \A d \in Deliveries : ~Orphan(d)'
    BY <1>1, <2>3, <2>10 DEF Quiet, Attempted, Orphan
  <2> QED
    BY <1>1, <2>5, <2>6, <2>9, <2>11 DEF Quiet
<1> QED
  BY <1>2, <1>4, <1>5

\* Of the rows of a claim: what is late is settled, the first is leased.
LEMMA ClaimRows ==
  ASSUME IInv, NEW w \in Slots, ClaimRow(w)
  PROVE  \A d \in Deliveries :
           rows'[d].st = "delivering" /\ (Stopping \/ d \notin First(slots[w].p)) =>
              rows[d].st = "delivering" /\ rows'[d].attempts = rows[d].attempts
<1> DEFINE p == slots[w].p
           late == Before(p)
           settled == [d \in Deliveries |-> IF d \in late THEN Settle(rows[d], "dead_letter")
                                       ELSE IF d \in First(p) THEN Leased(rows[d]) ELSE rows[d]]
<1>1. CASE UNCHANGED rows
  BY <1>1
<1>2. CASE ~Stopping /\ \E gone : rows' = Pruned(settled, gone)
  <2>1. PICK gone : rows' = Pruned(settled, gone)
    BY <1>2
  <2>2. \A d \in Deliveries : /\ Settle(rows[d], "dead_letter") \in Row
                              /\ Settle(rows[d], "dead_letter").st = "dead_letter"
                              /\ Leased(rows[d]) \in Row
    BY SettledRow, LeasedRow DEF IInv, Typed, Outcomes
  <2>3. settled \in [Deliveries -> Row]
    BY <2>2 DEF IInv, Typed
  <2>4. \A d \in Deliveries :
          settled[d] = IF d \in late THEN Settle(rows[d], "dead_letter")
                       ELSE IF d \in First(p) THEN Leased(rows[d]) ELSE rows[d]
    OBVIOUS
  <2> HIDE DEF settled, late, p
  <2>5. \A d \in Deliveries : rows'[d].st = settled[d].st
                              /\ rows'[d].attempts = settled[d].attempts
    BY <2>1, <2>3, PrunedRows
  <2> SUFFICES ASSUME NEW d \in Deliveries, rows'[d].st = "delivering", d \notin First(p)
               PROVE  rows[d].st = "delivering" /\ rows'[d].attempts = rows[d].attempts
    BY <1>2 DEF p
  <2>6. CASE d \in late
    BY <2>2, <2>4, <2>5, <2>6
  <2>7. CASE d \notin late
    <3>1. settled[d] = rows[d]
      BY <2>4, <2>7
    <3> QED
      BY <2>5, <3>1
  <2> QED
    BY <2>6, <2>7
<1> HIDE DEF settled
<1> QED
  BY <1>1, <1>2 DEF ClaimRow, settled

LEMMA ClaimQuiet == ASSUME IInv, Quiet, NEW w \in Slots, ClaimRow(w) PROVE Quiet'
<1> DEFINE p == slots[w].p
<1>1. /\ slots[w].at = "permit" /\ loop.at = "claim" /\ UNCHANGED up /\ w \in Busy /\ p \in Plugins
  BY DEF ClaimRow, Busy, IInv, Sound, Permit
<1>2. CASE (Stopping \/ First(p) = {}) /\ ReleasePermit(w) /\ slots' = [slots EXCEPT ![w] = Idle]
  <2>1. NoLease
    BY <1>2, ClaimRows DEF NoLease
  <2>2. \A q \in Plugins \ {p} : breakers'[q] = breakers[q]
    BY <1>2 DEF ReleasePermit, IInv, Typed
  <2>3. w \notin Working
    BY <1>1 DEF Working
  <2> QED
    BY <1>1, <1>2, <2>1, <2>2, <2>3, QuietFreed
<1>3. CASE /\ ~Stopping /\ UNCHANGED breakers
           /\ \E d \in First(p) : slots' = [slots EXCEPT ![w].at = "held", ![w].d = d,
                                              ![w].attempt = rows[d].attempts + 1]
  <2>1. PICK d \in First(p) : slots' = [slots EXCEPT ![w].at = "held", ![w].d = d,
                                              ![w].attempt = rows[d].attempts + 1]
    BY <1>3
  <2>2. /\ \A v \in Slots \ {w} : slots'[v] = slots[v]
        /\ slots'[w].at = "held" /\ slots'[w].d = d /\ slots'[w].attempt = rows[d].attempts + 1
        /\ slots'[w].p = p /\ slots'[w].mode = slots[w].mode /\ slots'[w].mine = slots[w].mine
    BY <2>1 DEF IInv, Typed, Slot
  <2>3. d \in Deliveries /\ rows[d].st = "pending" /\ First(p) = {d}
    <3>1. \A e \in First(p) : e \in Deliveries /\ rows[e].st = "pending"
      BY DEF First, Least, Good, Due, Of
    <3>2. \A e, f \in First(p) : e <= f
      BY DEF First, Least
    <3>3. Deliveries \subseteq Nat
      BY DeliveryAssumption
    <3>4. ASSUME NEW e \in First(p) PROVE e = d
      <4>1. e \in Nat /\ d \in Nat /\ e <= d /\ d <= e
        BY <3>1, <3>2, <3>3
      <4> QED
        BY <4>1
    <3> QED
      BY <3>1, <3>4
  <2>4. Busy' = Busy /\ Working' = Working \cup {w} /\ w \notin Working
    BY <1>1, <2>2 DEF Busy, Working
  <2>5. \A v \in Busy : /\ v \in Slots /\ slots'[v].p = slots[v].p
                        /\ slots'[v].mode = slots[v].mode /\ slots'[v].mine = slots[v].mine
                        /\ v # w => slots'[v] = slots[v] /\ slots[v].at # "permit"
    BY <1>1, <2>2 DEF Busy, Quiet, OnePermit
  <2>6. OnePerPlugin' /\ OnePermit' /\ PermitClaims'
    BY <2>2, <2>4, <2>5 DEF Quiet, OnePerPlugin, OnePermit, PermitClaims
  <2>7. Permitted'
    <3>1. \A v \in Busy : PermitCurrent(v) => PermitCurrent(v)'
      BY <1>3, <2>5 DEF PermitCurrent
    <3> QED
      BY <2>4, <2>5, <3>1 DEF Quiet, Permitted
  <2>8. \A v \in Working : /\ v # w /\ slots'[v] = slots[v]
                           /\ slots[v].d \in Deliveries /\ slots[v].d # d
    <3>1. \A v \in Working : /\ slots[v].d \in Deliveries
                             /\ RowOf(v).st \in {"delivering"} \cup Outcomes
      BY Executes DEF Working, Busy, IInv, Sound, Holds
    <3>2. \A v \in Working : v \in Busy
      BY DEF Working
    <3> QED
      BY <2>3, <2>4, <2>5, <3>1, <3>2 DEF RowOf, Outcomes
  <2>9. \A e \in Deliveries \ {d} : rows'[e].st = "delivering" =>
          rows[e].st = "delivering" /\ rows'[e].attempts = rows[e].attempts
    BY <2>3, ClaimRows
  <2>10. rows'[d].st = "delivering" => rows'[d].attempts = rows[d].attempts + 1
    <3>1. CASE rows'[d].attempts = rows[d].attempts + 1
      BY <3>1
    <3>2. CASE rows'[d].attempts # rows[d].attempts + 1
      <4>1. d \notin Before(p) /\ d \in First(p)
        BY <2>1 DEF Before, First, Least, Good
      <4>2. PICK gone : rows' = Pruned([e \in Deliveries |->
                                  IF e \in Before(p) THEN Settle(rows[e], "dead_letter")
                                  ELSE IF e \in First(p) THEN Leased(rows[e]) ELSE rows[e]], gone)
        BY <1>3 DEF ClaimRow
      <4>3. rows'[d].attempts = Leased(rows[d]).attempts
        BY <2>3, <4>1, <4>2, LeasedRow DEF Pruned, IInv, Typed, Row
      <4> QED
        BY <2>3, <3>2, <4>3, LeasedRow DEF IInv, Typed
    <3> QED
      BY <3>1, <3>2
  <2>11. Attempted'
    BY <2>2, <2>4, <2>8, <2>9, <2>10 DEF Quiet, Attempted
  <2>12. \A e \in Deliveries : ~Orphan(e)'
    <3> SUFFICES ASSUME NEW e \in Deliveries, rows'[e].st = "delivering"
                 PROVE  \E v \in Working' : slots'[v].d = e
      BY DEF Orphan
    <3>1. CASE e = d
      BY <2>2, <2>4, <3>1
    <3>2. CASE e # d
      <4>1. PICK v \in Working : slots[v].d = e
        BY <2>9, <3>2 DEF Quiet, Orphan
      <4> QED
        BY <2>4, <2>8, <4>1
    <3> QED
      BY <3>1, <3>2
  <2> QED
    BY <1>1, <2>6, <2>7, <2>11, <2>12 DEF Quiet
<1> QED
  BY <1>2, <1>3 DEF ClaimRow

\* Steps that take and lose nothing.
LEMMA SlotsQuiet ==
  ASSUME IInv, Quiet, NEW w \in Slots,
         Authorize(w) \/ Invoke(w) \/ GuestExits(w) \/ GuestFails(w)
  PROVE  Quiet'
<1>1. \A v \in Slots : SameSlot(v)
  BY DEF Authorize, Invoke, GuestExits, GuestFails, SameSlot, IInv, Typed, Slot
<1> QED
  BY <1>1, QuietKept, SameNoLease
  DEF Authorize, Invoke, GuestExits, GuestFails, database, plugins

LEMMA ChangesQuiet ==
  ASSUME IInv, Quiet, breakers \in [Plugins -> Breaker], NEW p \in Plugins,
         \/ BeginChange(p, "disable") \/ BeginChange(p, "upgrade")
         \/ Change(p) \/ Enable(p) \/ PauseEnds(p) \/ WindowEnds(p)
  PROVE  Quiet'
<1>1. \A v \in Slots : SameSlot(v)
  BY DEF BeginChange, Change, Publish, Terminalize, Enable, PauseEnds, WindowEnds, SameSlot,
    IInv, Typed, Slot
<1>2. NoLease
  <2>1. CASE Terminalize(p)
    <3>1. \E D : \E outcome \in Outcomes : Terminalizes(D, p, outcome)
      BY <2>1 DEF Terminalize, Outcomes
    <3> QED
      BY <3>1, TerminalizesSteady, TerminalizesSettles, SettlesNoLease DEF IInv, Outcomes
  <2>2. CASE UNCHANGED rows
    BY <2>2, SameNoLease
  <2> QED
    BY <2>1, <2>2 DEF BeginChange, Change, Publish, Enable, PauseEnds, WindowEnds, database
<1>3. \A q \in Plugins : /\ breakers'[q].st = breakers[q].st
                         /\ breakers'[q].probe = breakers[q].probe
  <2>1. CASE UNCHANGED breakers
    BY <2>1
  <2>2. CASE \/ breakers' = [breakers EXCEPT ![p].pause = FALSE]
             \/ breakers' = [breakers EXCEPT ![p].live = FALSE]
             \/ breakers' = [breakers EXCEPT ![p].window = FALSE]
    BY <2>2 DEF Breaker
  <2> QED
    BY <2>1, <2>2 DEF BeginChange, Change, Publish, Terminalize, Enable, PauseEnds, WindowEnds,
      database
<1>4. UNCHANGED <<loop, up>>
  BY DEF BeginChange, Change, Publish, Terminalize, Enable, PauseEnds, WindowEnds
<1> QED
  BY <1>1, <1>2, <1>3, <1>4, QuietKept

LEMMA RowsQuiet ==
  ASSUME IInv, Quiet,
         \/ Wake \/ ListPlugins \/ EndOfList \/ Maintain \/ UNCHANGED vars
         \/ \E d \in Deliveries : Admit(d) \/ RetryDue(d) \/ GrowsOld(d)
  PROVE  Quiet'
<1>1. \A v \in Slots : SameSlot(v)
  BY DEF Wake, ListPlugins, EndOfList, Maintain, vars, Admit, RetryDue, GrowsOld, SameSlot
<1>2. NoLease
  <2>1. CASE \E d \in Deliveries : RetryDue(d) \/ GrowsOld(d)
    BY <2>1 DEF RetryDue, GrowsOld, NoLease, IInv, Typed, Row
  <2>2. CASE Maintain
    BY <2>2, PrunedRows DEF Maintain, NoLease, IInv, Typed
  <2>3. CASE UNCHANGED rows
    BY <2>3, SameNoLease
  <2> QED
    BY <2>1, <2>2, <2>3, AdmitNoLease DEF Wake, ListPlugins, EndOfList, vars, database
<1>3. UNCHANGED <<breakers, up>> /\ (loop.at = "claim" => loop'.at = "claim")
  BY DEF Wake, ListPlugins, EndOfList, Maintain, vars, Admit, RetryDue, GrowsOld, database
<1> QED
  BY <1>1, <1>2, <1>3, QuietKept

\* Every step that is none of these is a fault, or follows one.
LEMMA StepCalm == ASSUME IInv, Ranged, Calm, [Next]_vars PROVE Calm'
<1> SUFFICES ASSUME count'.faults = 0 PROVE Quiet'
  BY DEF Calm
<1>1. count.faults \in Nat /\ count \in [changes : 0..MaxChanges, faults : 0..MaxFaults]
  BY DeliveryAssumption DEF Ranged, RestTyped
<1>2. ASSUME count' = [count EXCEPT !.faults = @ + 1] PROVE FALSE
  BY <1>1, <1>2
<1>3. ASSUME NEW p \in Plugins, BeginChange(p, "disable") \/ BeginChange(p, "upgrade")
      PROVE  count.faults = 0
  BY <1>1, <1>3 DEF BeginChange
<1>4. CASE UNCHANGED count \/ \E p \in Plugins : \/ BeginChange(p, "disable")
                                                  \/ BeginChange(p, "upgrade")
  <2>1. Quiet /\ breakers \in [Plugins -> Breaker]
    BY <1>3, <1>4 DEF Calm, Ranged
  <2>2. CASE Batch
    BY <2>1, <2>2, RowsQuiet, AcquireQuiet, ClaimQuiet DEF Batch
  <2>3. CASE \E w \in Slots : Execution(w)
    BY <2>1, <2>3, SlotsQuiet, EndsQuiet DEF Execution
  <2>4. CASE \E p \in Plugins : \/ BeginChange(p, "disable") \/ BeginChange(p, "upgrade")
                                \/ Change(p) \/ Enable(p) \/ PauseEnds(p) \/ WindowEnds(p)
    BY <2>1, <2>4, ChangesQuiet
  <2>5. CASE \/ Maintain \/ UNCHANGED vars
             \/ \E d \in Deliveries : Admit(d) \/ RetryDue(d) \/ GrowsOld(d)
    BY <2>1, <2>5, RowsQuiet
  <2>6. CASE Restart
    BY <1>2, <2>1, <2>6 DEF Restart, Quiet
  <2>7. CASE Recover
    BY <2>1, <2>7 DEF Recover, Recovering, Quiet
  <2>8. CASE \/ BatchFails \/ Stop \/ (\E w \in Slots : StoreFails(w))
             \/ (\E p \in Plugins : RollBack(p))
    BY <1>2, <2>8 DEF BatchFails, Stop, StoreFails, RollBack
  <2> QED
    BY <2>2, <2>3, <2>4, <2>5, <2>6, <2>7, <2>8 DEF Next
<1>5. CASE count' = [count EXCEPT !.faults = @ + 1]
  BY <1>2, <1>5
<1> QED
  BY <1>4, <1>5 DEF Next, Batch, Wake, ListPlugins, EndOfList, AcquirePermit, ClaimRow,
    BatchFails, Execution, Refuse, Reject, Authorize, Invoke, GuestExits, GuestFails, Complete,
    Retry, StoreFails, Change, Publish, Terminalize, RollBack, Enable, PauseEnds, WindowEnds, Admit,
    RetryDue, GrowsOld, Stop, Restart, Recover, Maintain, vars

LEMMA InitCalm == Init => Calm
<1> SUFFICES ASSUME Init PROVE Quiet
  BY DEF Calm
<1>1. Busy = {} /\ Working = {}
  BY DEF Init, Busy, Working, Idle
<1>2. \A d \in Deliveries : ~Orphan(d)
  BY DEF Init, Orphan, NoRow
<1> QED
  BY <1>1, <1>2 DEF Init, Quiet, OnePerPlugin, PermitClaims, OnePermit, Permitted, Attempted

\* As long as nothing fails, an execution keeps the permit and the lease it
\* was started under until it ends.
THEOREM KeepsCalm == Spec => []Calm
BY InitCalm, StepCalm, Invariance, InRange, PTL DEF Spec

\* runOne() never loses the row it leased, unless the application ended or a
\* transaction failed.
THEOREM OrphansHaveCause == Spec => []OrphanHasCause
<1>1. ASSUME IInv, Ranged, Calm PROVE OrphanHasCause
  <2>1. count.faults \in Nat
    BY <1>1, DeliveryAssumption DEF Ranged, RestTyped
  <2> QED
    BY <1>1, <2>1 DEF OrphanHasCause, Calm, Quiet
<1> QED
  BY <1>1, Invariance, InRange, KeepsCalm, PTL

\* docs/plugin-hook-runtime.md: a plugin that is paused costs no attempt.
THEOREM BreakersPause == Spec => BreakerPauses
<1>1. ASSUME IInv, Ranged, Calm, [Next]_vars,
             NEW d \in Deliveries, rows'[d].attempts > rows[d].attempts
      PROVE  \/ breakers[PluginOf[d]].st = "closed"
             \/ \E w \in Slots : slots[w].at = "permit" /\ breakers[PluginOf[d]].probe = w
             \/ count.faults > 0
  <2>1. count.faults \in Nat /\ rows[d].attempts \in Nat /\ MaxAttempts \in Nat
    BY <1>1, DeliveryAssumption DEF Ranged, RestTyped, RowRange
  <2>2. PICK w \in Slots : ClaimRow(w) /\ d \in First(slots[w].p)
    <3>1. CASE \E e \in Deliveries : Admit(e)
      <4>1. rows'[d].attempts = rows[d].attempts \/ rows'[d].attempts = 0
        BY <1>1, <3>1, AdmitNew
      <4> QED
        BY <1>1, <2>1, <4>1
    <3>2. CASE \E w \in Slots : ClaimRow(w)
      BY <1>1, <2>1, <3>2, ClaimCounts
    <3>3. CASE Steady
      BY <1>1, <2>1, <3>3 DEF Steady
    <3> QED
      BY <1>1, <3>1, <3>2, <3>3, OthersSteady
  <2>3. slots[w].at = "permit" /\ slots[w].p = PluginOf[d] /\ w \in Busy
    <3>1. slots[w].at = "permit" /\ slots[w].p \in Plugins
      BY <1>1, <2>2 DEF ClaimRow, IInv, Sound, Permit
    <3> QED
      BY <2>2, <3>1, PluginScope DEF Busy, First, Least, Good, Due
  <2>4. count.faults = 0 => PermitCurrent(w)
    BY <1>1, <2>3 DEF Calm, Quiet, Permitted
  <2> QED
    BY <2>1, <2>3, <2>4 DEF PermitCurrent
<1>2. IInv /\ Ranged /\ Calm /\ [Next]_vars =>
        [\A d \in Deliveries : rows'[d].attempts > rows[d].attempts =>
           \/ breakers[PluginOf[d]].st = "closed"
           \/ \E w \in Slots : slots[w].at = "permit" /\ breakers[PluginOf[d]].probe = w
           \/ count.faults > 0]_vars
  BY <1>1
<1> QED
  BY <1>2, Invariance, InRange, KeepsCalm, PTL DEF Spec, BreakerPauses
=============================================================================
