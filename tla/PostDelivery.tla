---------------------------- MODULE PostDelivery ----------------------------
(***************************************************************************)
(* Durable delivery of afterComplete and onError to plugins:               *)
(* PostDeliveryScheduler (core/plugin/post/delivery-scheduler.ts) over the *)
(* SQLite repository (core/session/post-delivery-repository.ts), with the  *)
(* policy barrier of the plugin host around it.                            *)
(*                                                                         *)
(* Each transaction of the repository is one step.  drainOnce() is one     *)
(* loop; the executions it starts run beside it, and go on when a storage  *)
(* error ends the loop.  Instants are not numbers: whether a retry is due, *)
(* a lease has run out, a pause or a window is over and a delivery is too  *)
(* old is a flag of the record, which time may change at any moment.       *)
(* Quotas count rows; the byte quotas follow the same ledger.              *)
(***************************************************************************)
EXTENDS Integers, FiniteSets

CONSTANTS
  Deliveries,     \* candidates, numbered in the order of their creation
  NPlugins,       \* plugins are numbered as their ids are sorted
  PluginOf,       \* the plugin of each candidate
  NSlots,         \* bound: executions that exist at the same time
  GlobalWorkers,  \* config.globalWorkers
  ClaimBatch,     \* config.claimBatch
  MaxAttempts,    \* config.maxAttempts
  Threshold,      \* config.breakerThreshold
  PluginRows,     \* quota.pluginActiveRows
  GlobalRows,     \* quota.globalActiveRows
  PluginReceipts, \* quota.pluginTerminalRows
  GlobalReceipts, \* quota.globalTerminalRows
  MaxVersions,    \* bound: versions of a plugin
  Aging,          \* bound: the deliveries that may grow too old
  MaxChanges,     \* bound: changes of the plugins
  MaxFaults       \* bound: failing transactions and ends of the application

Plugins == 1..NPlugins
Global  == 0
Scopes  == Plugins \cup {Global}
Slots   == 1..NSlots
NoSlot  == 0

ASSUME DeliveryAssumption ==
  /\ Deliveries \subseteq Nat /\ IsFiniteSet(Deliveries)
  /\ NPlugins \in Nat /\ PluginOf \in [Deliveries -> Plugins]
  /\ Aging \subseteq Deliveries
  /\ NSlots \in Nat \ {0}
  /\ GlobalWorkers \in Nat \ {0} /\ ClaimBatch \in Nat \ {0}
  /\ MaxAttempts \in Nat \ {0} /\ Threshold \in Nat \ {0}
  /\ PluginRows \in Nat /\ GlobalRows \in Nat
  /\ PluginReceipts \in Nat \ {0} /\ GlobalReceipts \in Nat \ {0}
  /\ MaxVersions \in Nat \ {0} /\ MaxChanges \in Nat /\ MaxFaults \in Nat

VARIABLES
  rows,     \* plugin_post_deliveries
  ledger,   \* plugin_post_quota_ledger
  breakers, \* plugin_post_breakers
  policy,   \* the registry: is the plugin enabled, which version is installed
  mutation, \* the policy barrier of each plugin and what it is there for
  slots,    \* the executions under way
  loop,     \* runBatch
  up,       \* recovering, up, or stopping: the scheduler's signal is aborted
  ran,      \* history: the deliveries whose guest ended well
  count     \* changes and faults so far

database == <<rows, ledger, breakers>>
plugins  == <<policy, mutation>>
vars     == <<rows, ledger, breakers, policy, mutation, slots, loop, up, ran, count>>

Open     == {"pending", "delivering"}
Outcomes == {"delivered", "dead_letter", "superseded"}
Versions == 1..MaxVersions

NoRow   == [st |-> "none", version |-> 1, attempts |-> 0, waits |-> FALSE,
            old |-> FALSE, kept |-> FALSE]
Closed  == [st |-> "closed", failures |-> 0, window |-> FALSE, pause |-> FALSE,
            probe |-> NoSlot, live |-> FALSE]
Idle    == [at |-> "idle", d |-> 0, p |-> 0, mode |-> "closed", attempt |-> 0,
            mine |-> FALSE, lease |-> "none"]
Off     == [at |-> "off", todo |-> {}, cursor |-> 0, claimed |-> 0, launched |-> FALSE]

Of(s)        == IF s = Global THEN Deliveries ELSE {d \in Deliveries : PluginOf[d] = s}
Active(rs)   == {d \in Deliveries : rs[d].st \in Open}
Delivering   == {d \in Deliveries : rows[d].st = "delivering"}
Receipts(rs) == {d \in Deliveries : rs[d].st \in Outcomes /\ rs[d].kept}
Tally(rs)    == [s \in Scopes |-> [active   |-> Cardinality(Active(rs) \cap Of(s)),
                                   terminal |-> Cardinality(Receipts(rs) \cap Of(s))]]

\* The executions the running batch knows of, and all of them.
Busy    == {w \in Slots : slots[w].at # "idle"}
Known   == {w \in Busy : slots[w].mine /\ slots[w].at # "permit"}
Working == {w \in Busy : slots[w].at # "permit"}

Init ==
  /\ rows = [d \in Deliveries |-> NoRow] /\ ledger = Tally(rows)
  /\ breakers = [p \in Plugins |-> Closed]
  /\ policy = [p \in Plugins |-> [on |-> TRUE, version |-> 1]]
  /\ mutation = [p \in Plugins |-> "none"]
  /\ slots = [w \in Slots |-> Idle] /\ loop = Off
  /\ up = "up" /\ ran = {} /\ count = [changes |-> 0, faults |-> 0]

(***************************************************************************)
(* The ledger and the receipts.                                            *)
(***************************************************************************)
Bump(l, p, active, terminal) ==
  [s \in Scopes |-> IF s \in {p, Global}
                    THEN [active   |-> l[s].active + active,
                          terminal |-> l[s].terminal + terminal]
                    ELSE l[s]]

\* Receipts that are rolled into an aggregate: row and ledger together.
Pruned(rs, gone)    == [d \in Deliveries |->
                          IF d \in gone THEN [rs[d] EXCEPT !.kept = FALSE] ELSE rs[d]]
Released_Kept(l, gone) == l
Released(l, gone)   == [s \in Scopes |->
                          [active   |-> l[s].active,
                           terminal |-> l[s].terminal - Cardinality(gone \cap Of(s))]]

\* Which receipts are the oldest is left open: first any, as long as there are
\* too many in all, then the plugin's own.
Over(n)  == IF n > 0 THEN n ELSE 0
Excess(rs, l, p, spared) ==
  {gone \in SUBSET (Receipts(rs) \ spared) :
     \E any \in SUBSET gone :
       /\ Cardinality(any) = Over(l[Global].terminal - GlobalReceipts)
       /\ gone \ any \subseteq Of(p)
       /\ Cardinality(gone \ any) =
            Over(l[p].terminal - PluginReceipts - Cardinality(any \cap Of(p)))}

Settle(row, outcome) ==
  [row EXCEPT !.st = outcome, !.waits = FALSE, !.kept = TRUE]

\* terminalizeRow for each of D, all of plugin p, and the terminal quotas.
Terminalizes(D, p, outcome) ==
  LET settled == [d \in Deliveries |-> IF d \in D THEN Settle(rows[d], outcome) ELSE rows[d]]
      moved   == Bump(ledger, p, -Cardinality(D), Cardinality(D))
      spared  == IF Cardinality(D) = 1 THEN D ELSE {}
  IN \E gone \in Excess(settled, moved, p, spared) :
       rows' = Pruned(settled, gone) /\ ledger' = Released(moved, gone)

(***************************************************************************)
(* Admission, in the transaction that ends the task.                       *)
(***************************************************************************)
Admitted(p) == ledger[p].active + 1 <= PluginRows /\ ledger[Global].active + 1 <= GlobalRows

\* A candidate of the plugin as it is now; a malformed one gets its receipt
\* at once, one beyond a quota only a tombstone.
Admit(d) ==
  LET p   == PluginOf[d]
      row == [NoRow EXCEPT !.version = policy[p].version]
  IN
  /\ rows[d].st = "none"
  /\ policy[p].on /\ mutation[p] = "none"
  /\ \/ /\ Admitted(p)
        /\ rows' = [rows EXCEPT ![d] = [row EXCEPT !.st = "pending", !.kept = TRUE]]
        /\ ledger' = Bump(ledger, p, 1, 0)
     \/ /\ ~Admitted(p)
        /\ rows' = [rows EXCEPT ![d] = [row EXCEPT !.st = "refused"]]
        /\ UNCHANGED ledger
     \/ LET dead  == [rows EXCEPT ![d] = Settle(row, "dead_letter")]
            moved == Bump(ledger, p, 0, 1)
        IN \E gone \in Excess(dead, moved, p, {d}) :
             rows' = Pruned(dead, gone) /\ ledger' = Released(moved, gone)
  /\ UNCHANGED <<breakers, plugins, slots, loop, up, ran, count>>

(***************************************************************************)
(* The breaker of a plugin.                                                *)
(***************************************************************************)
PermitCurrent_Leased(w) ==
  LET b == breakers[slots[w].p]
  IN IF slots[w].mode = "closed" THEN b.st = "closed"
     ELSE b.st = "half_open" /\ b.probe = w /\ b.live
PermitCurrent(w) ==
  LET b == breakers[slots[w].p]
  IN IF slots[w].mode = "closed" THEN b.st = "closed"
     ELSE b.st = "half_open" /\ b.probe = w

Overdue(b) == b.st = "half_open" /\ ~b.live

\* The failures are counted, and read, only while the breaker is closed.
Opened(pause) == [Closed EXCEPT !.st = "open", !.pause = pause]

AfterFailure(b, mode) ==
  LET failures == IF b.window THEN b.failures + 1 ELSE 1
  IN IF mode = "half_open" \/ failures >= Threshold THEN Opened(TRUE)
     ELSE [b EXCEPT !.failures = failures, !.window = TRUE]

CloseBreaker(w)  == breakers' = [breakers EXCEPT ![slots[w].p] = Closed]
ReleasePermit(w) ==
  breakers' = IF slots[w].mode = "half_open" /\ PermitCurrent(w)
              THEN [breakers EXCEPT ![slots[w].p] = Opened(FALSE)]
              ELSE breakers

(***************************************************************************)
(* The batch.  A step of the loop ends at the next transaction or wait.    *)
(***************************************************************************)
Running  == up \in {"up", "stopping"}
Stopping == up = "stopping"

Due(p)     == {d \in Of(p) : rows[d].st = "pending" /\ ~rows[d].waits}
Claimable  == {p \in Plugins : Due(p) # {}}
\* The next plugin after the cursor in the rotated list (none when the list is
\* empty); one of which the batch has an execution under way is passed over.
Todo       == loop.todo \ {slots[w].p : w \in Known}
Least(S)   == {x \in S : \A y \in S : x <= y}
NextPlugin == LET after == {p \in Todo : p > loop.cursor}
              IN Least(IF after = {} THEN Todo ELSE after)

\* No more claims: the batch waits for the executions it knows of.
Ended == [loop EXCEPT !.at = IF Known = {} THEN "off" ELSE "tail", !.claimed = 0,
                      !.todo = {}, !.launched = FALSE]
Waits == [loop EXCEPT !.at = "wait", !.todo = {}, !.launched = FALSE]

\* The head of the loop: the plugins that have deliveries to claim are listed;
\* without one it waits for an execution, without that too it is done.
Listed(claimed) ==
  LET free == Claimable \ {slots[w].p : w \in Known}
  IN IF claimed >= ClaimBatch \/ Stopping THEN Ended
     ELSE IF Cardinality(Known) >= GlobalWorkers THEN Waits
     ELSE IF free = {} THEN IF Known = {} THEN Ended ELSE Waits
     ELSE [loop EXCEPT !.at = "try", !.todo = Claimable, !.claimed = claimed,
                       !.launched = FALSE]

\* start(): the next poll begins a batch.
Wake ==
  /\ up = "up" /\ loop.at = "off" /\ loop' = Listed(0)
  /\ UNCHANGED <<database, plugins, slots, up, ran, count>>

ListPlugins ==
  /\ Running /\ loop.at = "list" /\ loop' = Listed(loop.claimed)
  /\ UNCHANGED <<database, plugins, slots, up, ran, count>>

PassOver == \/ Todo = {} \/ Stopping
            \/ loop.claimed >= ClaimBatch \/ Cardinality(Known) >= GlobalWorkers

\* The end of the list: look again, wait for an execution, or be done.
EndOfList ==
  /\ Running /\ loop.at = "try" /\ PassOver
  /\ loop' = IF Known = {} THEN Ended
             ELSE IF ~loop.launched \/ Cardinality(Known) >= GlobalWorkers THEN Waits
             ELSE Listed(loop.claimed)
  /\ UNCHANGED <<database, plugins, slots, up, ran, count>>

\* A closed breaker lets everyone pass; one whose pause, or whose probe's
\* lease, is over admits one probe.
Passes_Expired(b) == ~b.pause
Passes(b) == b.st = "closed"
Probes(b) == Overdue(b) \/ (b.st = "open" /\ ~b.pause)

AcquirePermit(w) ==
  /\ Running /\ loop.at = "try" /\ ~PassOver
  /\ slots[w].at = "idle" /\ \A v \in Slots : v < w => v \in Busy
  /\ \E p \in NextPlugin : LET b == breakers[p] IN
     IF Passes(b) \/ Probes(b)
     THEN /\ slots' = [slots EXCEPT ![w] = [Idle EXCEPT !.at = "permit", !.p = p, !.mine = TRUE,
                          !.mode = IF Passes(b) THEN "closed" ELSE "half_open"]]
          /\ breakers' = IF Passes(b) THEN breakers
                         ELSE [breakers EXCEPT ![p] = [Closed EXCEPT !.st = "half_open",
                                                          !.probe = w, !.live = TRUE]]
          /\ loop' = [loop EXCEPT !.at = "claim", !.todo = @ \ {p}, !.cursor = p]
     ELSE /\ loop' = [loop EXCEPT !.todo = @ \ {p}, !.cursor = p]
          /\ UNCHANGED <<slots, breakers>>
  /\ UNCHANGED <<rows, ledger, plugins, up, ran, count>>

\* claimNextForPlugin: deliveries that are over a limit are dead letters; the
\* first that is not is leased.  Nothing to claim gives the permit back.
Late_NoLimit(d) == rows[d].old
Late(d)  == rows[d].attempts >= MaxAttempts \/ rows[d].old
Good(p)  == {d \in Due(p) : ~Late(d)}
First(p) == Least(Good(p))
Before(p) == {d \in Due(p) : Late(d) /\ \A g \in First(p) : d < g}

Leased(row) == [row EXCEPT !.st = "delivering", !.attempts = @ + 1]

ClaimRow(w) ==
  LET p == slots[w].p
      late    == Before(p)
      settled == [d \in Deliveries |-> IF d \in late THEN Settle(rows[d], "dead_letter")
                                       ELSE IF d \in First(p) THEN Leased(rows[d]) ELSE rows[d]]
      moved   == Bump(ledger, p, -Cardinality(late), Cardinality(late))
  IN
  /\ Running /\ loop.at = "claim" /\ slots[w].at = "permit"
  /\ IF Stopping
     THEN ReleasePermit(w) /\ slots' = [slots EXCEPT ![w] = Idle] /\ UNCHANGED <<rows, ledger>>
     ELSE /\ \E gone \in Excess(settled, moved, p, IF Cardinality(late) = 1 THEN late ELSE {}) :
               rows' = Pruned(settled, gone) /\ ledger' = Released(moved, gone)
          /\ IF First(p) = {}
             THEN ReleasePermit(w) /\ slots' = [slots EXCEPT ![w] = Idle]
             ELSE /\ \E d \in First(p) :
                       slots' = [slots EXCEPT ![w].at = "held", ![w].d = d,
                                              ![w].attempt = rows[d].attempts + 1]
                  /\ UNCHANGED breakers
  /\ loop' = IF Stopping \/ First(p) = {} THEN [loop EXCEPT !.at = "try"]
             ELSE [loop EXCEPT !.at = "try", !.launched = TRUE, !.claimed = @ + 1]
  /\ UNCHANGED <<plugins, up, ran, count>>

\* A failing transaction ends the batch; executions it started go on, and the
\* next batch does not know them.  Giving the permit back may fail as well.
BatchFails ==
  /\ Running /\ loop.at \in {"list", "try", "claim"} /\ count.faults < MaxFaults
  /\ count' = [count EXCEPT !.faults = @ + 1]
  /\ loop' = [Off EXCEPT !.cursor = loop.cursor]
  /\ slots' = [w \in Slots |-> IF slots[w].at = "permit" THEN Idle
                               ELSE [slots[w] EXCEPT !.mine = FALSE]]
  /\ \/ UNCHANGED breakers
     \/ \E w \in Slots : slots[w].at = "permit" /\ ReleasePermit(w)
  /\ UNCHANGED <<rows, ledger, plugins, up, ran>>

(***************************************************************************)
(* An execution.                                                           *)
(***************************************************************************)
OwnsLease_Claimed(w) == rows[slots[w].d].attempts = slots[w].attempt
OwnsLease(w) == LET row == rows[slots[w].d]
                IN row.st = "delivering" /\ row.attempts = slots[w].attempt

\* The end of an execution wakes the batch that waits for it.
Woken_Lost(w) == loop
Woken(w) == [loop EXCEPT !.at = IF ~slots[w].mine THEN @
                                ELSE IF @ = "wait" THEN "list"
                                ELSE IF @ = "tail" /\ Known = {w} THEN "off" ELSE @]

Done(w) == slots' = [slots EXCEPT ![w] = Idle] /\ loop' = Woken(w)

\* deadLetter(): nothing unless permit and lease are still its own.
DeadLetter(w, outcome) ==
  IF PermitCurrent(w) /\ OwnsLease(w)
  THEN Terminalizes({slots[w].d}, slots[w].p, outcome) /\ CloseBreaker(w)
  ELSE UNCHANGED database

\* acquire(): a plugin that is off, or another version, is a permanent
\* failure; a pending change of the policy, or one that was published while
\* the grants were read (the generation differs), is one to retry.
Refusal(w) ==
  LET row == rows[slots[w].d]
      now == policy[slots[w].p]
  IN IF row.old \/ ~now.on THEN "dead_letter"
     ELSE IF row.version # now.version THEN "superseded" ELSE "none"

Refuse(w) ==
  /\ Running /\ slots[w].at = "held" /\ Refusal(w) # "none"
  /\ DeadLetter(w, Refusal(w)) /\ Done(w)
  /\ UNCHANGED <<plugins, up, ran, count>>

Authorize(w) ==
  /\ Running /\ slots[w].at = "held" /\ Refusal(w) = "none"
  /\ slots' = IF mutation[slots[w].p] # "none" \/ slots[w].lease = "aborted"
              THEN [slots EXCEPT ![w].at = "failed", ![w].lease = "none"]
              ELSE [slots EXCEPT ![w].at = "ready", ![w].lease = "live"]
  /\ UNCHANGED <<database, plugins, loop, up, ran, count>>

\* The lane of the plugin lets one invocation in at a time.
Invoke(w) ==
  /\ Running /\ slots[w].at = "ready" /\ slots[w].lease = "live"
  /\ \A v \in Slots : slots[v].at = "running" => slots[v].p # slots[w].p
  /\ slots' = [slots EXCEPT ![w].at = "running"]
  /\ UNCHANGED <<database, plugins, loop, up, ran, count>>

GuestExits(w) ==
  /\ Running /\ slots[w].at = "running" /\ slots[w].lease = "live"
  /\ slots' = [slots EXCEPT ![w].at = "exited", ![w].lease = "none"]
  /\ ran' = ran \cup {slots[w].d}
  /\ UNCHANGED <<database, plugins, loop, up, count>>

\* An activation that fails, a crash, a timeout or a lease that is aborted is to
\* retry; a required permission that was revoked, or a recorded input that names
\* no file, is a permanent failure.
GuestFails(w) ==
  /\ Running /\ slots[w].at \in {"ready", "running"}
  /\ \E at \in {"failed", "rejected"} :
       slots' = [slots EXCEPT ![w].at = at, ![w].lease = "none"]
  /\ UNCHANGED <<database, plugins, loop, up, ran, count>>

Complete(w) ==
  /\ Running /\ slots[w].at = "exited"
  /\ IF PermitCurrent(w) /\ OwnsLease(w)
     THEN Terminalizes({slots[w].d}, slots[w].p, "delivered") /\ CloseBreaker(w)
     ELSE UNCHANGED database
  /\ Done(w)
  /\ UNCHANGED <<plugins, up, ran, count>>

\* makePermanent()
Reject(w) ==
  /\ Running /\ slots[w].at = "rejected"
  /\ DeadLetter(w, "dead_letter") /\ Done(w)
  /\ UNCHANGED <<plugins, up, ran, count>>

\* makeRetryable(): the last attempt is a dead letter.
Retry(w) ==
  LET row == rows[slots[w].d]
  IN
  /\ Running /\ slots[w].at = "failed"
  /\ IF slots[w].attempt >= MaxAttempts \/ row.old THEN DeadLetter(w, "dead_letter")
     ELSE IF PermitCurrent(w) /\ OwnsLease(w)
     THEN /\ rows' = [rows EXCEPT ![slots[w].d] =
                        [row EXCEPT !.st = "pending", !.waits = TRUE]]
          /\ breakers' = [breakers EXCEPT ![slots[w].p] = AfterFailure(@, slots[w].mode)]
          /\ UNCHANGED ledger
     ELSE UNCHANGED database
  /\ Done(w)
  /\ UNCHANGED <<plugins, up, ran, count>>

\* The failure is logged; the row stays leased.
StoreFails(w) ==
  /\ Running /\ count.faults < MaxFaults
  /\ \/ slots[w].at \in {"exited", "failed", "rejected"}
     \/ slots[w].at = "held" /\ Refusal(w) # "none"
  /\ count' = [count EXCEPT !.faults = @ + 1]
  /\ Done(w)
  /\ UNCHANGED <<database, plugins, up, ran>>

(***************************************************************************)
(* Changes of a plugin: applyPolicyMutation around disable() and around    *)
(* the swap of the installer.                                              *)
(***************************************************************************)
\* Admission closes and the leases are aborted at once.
BeginChange(p, kind) ==
  /\ mutation[p] = "none"
  /\ count.changes < MaxChanges /\ count' = [count EXCEPT !.changes = @ + 1]
  /\ IF kind = "disable" THEN policy[p].on ELSE policy[p].version < MaxVersions
  /\ mutation' = [mutation EXCEPT ![p] = kind]
  /\ slots' = [w \in Slots |-> IF slots[w].p = p /\ slots[w].lease = "live"
                               THEN [slots[w] EXCEPT !.lease = "aborted"] ELSE slots[w]]
  /\ UNCHANGED <<database, policy, loop, up, ran>>

\* deactivate() drains the lane, then the new state is published.
Drained_Assumed(p) == TRUE
Drained(p) == \A w \in Slots : slots[w].at = "running" => slots[w].p # p

Publish(p) ==
  /\ mutation[p] \in {"disable", "upgrade"} /\ Drained(p)
  /\ IF mutation[p] = "disable"
     THEN /\ policy' = [policy EXCEPT ![p].on = FALSE]
          /\ mutation' = [mutation EXCEPT ![p] = "disabled"]
     ELSE /\ policy' = [policy EXCEPT ![p].version = @ + 1]
          /\ mutation' = [mutation EXCEPT ![p] = "upgraded"]
  /\ slots' = [w \in Slots |-> IF slots[w].p = p /\ slots[w].at = "held"
                               THEN [slots[w] EXCEPT !.lease = "aborted"] ELSE slots[w]]
  /\ UNCHANGED <<database, loop, up, ran, count>>

\* The deliveries that can no longer run are settled in one transaction.
Terminalize(p) ==
  /\ \/ /\ mutation[p] = "disabled"
        /\ Terminalizes(Active(rows) \cap Of(p), p, "dead_letter")
     \/ /\ mutation[p] = "upgraded"
        /\ Terminalizes({d \in Active(rows) \cap Of(p) : rows[d].version = policy[p].version - 1},
                        p, "superseded")
  /\ mutation' = [mutation EXCEPT ![p] = "none"]
  /\ UNCHANGED <<breakers, policy, slots, loop, up, ran, count>>

\* When that fails the plugin is again what it was.
RollBack(p) ==
  /\ mutation[p] \in {"disabled", "upgraded"} /\ count.faults < MaxFaults
  /\ policy' = IF mutation[p] = "disabled" THEN [policy EXCEPT ![p].on = TRUE]
               ELSE [policy EXCEPT ![p].version = @ - 1]
  /\ mutation' = [mutation EXCEPT ![p] = "none"]
  /\ count' = [count EXCEPT !.faults = @ + 1]
  /\ UNCHANGED <<database, slots, loop, up, ran>>

\* A claim of a plugin that is off is refused before the user can act.
Enable(p) ==
  /\ mutation[p] = "none" /\ ~policy[p].on
  /\ \A w \in Slots : slots[w].at = "held" => slots[w].p # p
  /\ policy' = [policy EXCEPT ![p].on = TRUE]
  /\ UNCHANGED <<database, mutation, slots, loop, up, ran, count>>

(***************************************************************************)
(* The end of the application and its next start; maintenance; time.       *)
(***************************************************************************)
Stop ==
  /\ up = "up" /\ count.faults < MaxFaults
  /\ up' = "stopping" /\ count' = [count EXCEPT !.faults = @ + 1]
  /\ UNCHANGED <<database, plugins, slots, loop, ran>>

\* The process ends, in order or not, and the next one starts.
Restart ==
  /\ IF up = "stopping" THEN UNCHANGED count
     ELSE count.faults < MaxFaults /\ count' = [count EXCEPT !.faults = @ + 1]
  /\ up' = "recovering"
  /\ mutation' = [p \in Plugins |-> "none"]
  /\ slots' = [w \in Slots |-> Idle] /\ loop' = Off
  /\ UNCHANGED <<database, policy, ran>>

Recovering_Again == up \in {"recovering", "up"}
Recovering       == up = "recovering"

\* runRecovery(): once per process, before the first batch.  Whether the lease
\* of a delivering row has run out by then depends on how long that took; the
\* lease of a probe is as long as that of the row it was given for.
Recover ==
  /\ Recovering /\ up' = "up"
  /\ \E gone \in SUBSET Receipts(rows), expired \in SUBSET Delivering :
       /\ \A p \in Plugins : Overdue(breakers[p]) => Delivering \cap Of(p) \subseteq expired
       /\ rows' = Pruned([d \in Deliveries |-> IF d \in expired
                            THEN [rows[d] EXCEPT !.st = "pending"] ELSE rows[d]], gone)
       /\ ledger' = Released(Tally(rows), gone)
  /\ breakers' = [p \in Plugins |-> IF Overdue(breakers[p]) THEN Opened(FALSE) ELSE breakers[p]]
  /\ UNCHANGED <<plugins, slots, loop, ran, count>>

\* maintain(), hourly between two batches: receipts whose time is over.
Maintain ==
  /\ up = "up" /\ loop.at = "off"
  /\ \E gone \in SUBSET Receipts(rows) :
       gone # {} /\ rows' = Pruned(rows, gone) /\ ledger' = Released(ledger, gone)
  /\ UNCHANGED <<breakers, plugins, slots, loop, up, ran, count>>

RetryDue(d) ==
  /\ rows[d].waits /\ rows' = [rows EXCEPT ![d].waits = FALSE]
  /\ UNCHANGED <<ledger, breakers, plugins, slots, loop, up, ran, count>>

GrowsOld(d) ==
  /\ d \in Aging /\ rows[d].st \in Open /\ ~rows[d].old
  /\ rows' = [rows EXCEPT ![d].old = TRUE]
  /\ UNCHANGED <<ledger, breakers, plugins, slots, loop, up, ran, count>>

PauseEnds(p) ==
  /\ \/ breakers[p].pause /\ breakers' = [breakers EXCEPT ![p].pause = FALSE]
     \/ breakers[p].live /\ breakers' = [breakers EXCEPT ![p].live = FALSE]
  /\ UNCHANGED <<rows, ledger, plugins, slots, loop, up, ran, count>>

WindowEnds(p) ==
  /\ breakers[p].window /\ breakers' = [breakers EXCEPT ![p].window = FALSE]
  /\ UNCHANGED <<rows, ledger, plugins, slots, loop, up, ran, count>>

Batch     == Wake \/ ListPlugins \/ EndOfList 
             \/ \E w \in Slots : AcquirePermit(w) \/ ClaimRow(w)
Execution(w) == \/ Refuse(w) \/ Authorize(w) \/ Invoke(w) \/ GuestExits(w)
                \/ GuestFails(w) \/ Complete(w) \/ Reject(w) \/ Retry(w)
Change(p) == Publish(p) \/ Terminalize(p)

Next ==
  \/ Batch \/ BatchFails
  \/ \E w \in Slots : Execution(w) \/ StoreFails(w)
  \/ \E p \in Plugins : \/ BeginChange(p, "disable") \/ BeginChange(p, "upgrade")
                        \/ Change(p) \/ RollBack(p) \/ Enable(p)
                        \/ PauseEnds(p) \/ WindowEnds(p)
  \/ \E d \in Deliveries : Admit(d) \/ RetryDue(d) \/ GrowsOld(d)
  \/ Stop \/ Restart \/ Recover \/ Maintain

\* The scheduler polls for as long as it runs; and whatever is under way (an
\* execution, which its timeout ends, a change, a delay, the end of a process
\* and the recovery of the next) goes on.  The second is one assumption, not one
\* for each: none of these can go on for ever.  Nothing is assumed of
\* admissions, failures and the user's changes.
Underway ==
  \/ \E w \in Slots : Execution(w)
  \/ \E p \in Plugins : Change(p) \/ PauseEnds(p)
  \/ \E d \in Deliveries : RetryDue(d)
  \/ up = "stopping" /\ Restart
  \/ Recover

Fairness == WF_vars(Batch) /\ WF_vars(Underway)

Spec == Init /\ [][Next]_vars /\ Fairness

(***************************************************************************)
(* Properties.                                                             *)
(***************************************************************************)
TypeOK ==
  /\ rows \in [Deliveries -> [st : Open \cup Outcomes \cup {"none", "refused"},
                  version : Versions, attempts : 0..MaxAttempts, waits : BOOLEAN,
                  old : BOOLEAN, kept : BOOLEAN]]
  /\ ledger \in [Scopes -> [active : Nat, terminal : Nat]]
  /\ breakers \in [Plugins -> [st : {"closed", "open", "half_open"}, failures : Nat,
                  window : BOOLEAN, pause : BOOLEAN, probe : Slots \cup {NoSlot},
                  live : BOOLEAN]]
  /\ policy \in [Plugins -> [on : BOOLEAN, version : Versions]]
  /\ mutation \in [Plugins -> {"none", "disable", "disabled", "upgrade", "upgraded"}]
  /\ slots \in [Slots -> [at : {"idle", "permit", "held", "ready", "running", "exited", "failed",
                        "rejected"},
                  d : Deliveries \cup {0}, p : Plugins \cup {0}, mode : {"closed", "half_open"},
                  attempt : Nat, mine : BOOLEAN, lease : {"none", "live", "aborted"}]]
  /\ loop \in [at : {"off", "list", "try", "claim", "wait", "tail"}, todo : SUBSET Plugins,
                cursor : Plugins \cup {0}, claimed : Nat, launched : BOOLEAN]
  /\ up \in {"recovering", "up", "stopping"}
  /\ ran \subseteq Deliveries
  /\ count \in [changes : 0..MaxChanges, faults : 0..MaxFaults]

\* bumpLedger is called beside every write of a row, in each of the dozen ways
\* a row changes its state: the counters never drift from the table, and with
\* them no quota is overrun.
LedgerExact ==
  /\ ledger = Tally(rows)
  /\ \A p \in Plugins : ledger[p].active <= PluginRows /\ ledger[p].terminal <= PluginReceipts
  /\ ledger[Global].active <= GlobalRows /\ ledger[Global].terminal <= GlobalReceipts

\* Leases are reclaimed only when no execution of this process can hold one:
\* no delivery is ever executed twice at the same time.
RowHeldOnce ==
  \A v, w \in Working : v # w => slots[v].d # slots[w].d

\* A delivering row is in the hands of an execution, unless the application
\* ended or a transaction failed meanwhile.
Orphan(d) == rows[d].st = "delivering" /\ \A w \in Working : slots[w].d # d
OrphanHasCause ==
  (\E d \in Deliveries : Orphan(d)) => count.faults > 0

\* The version that runs is the installed one of an enabled plugin: a change
\* is not published under a running guest (applyPolicyMutation), and a
\* superseded delivery is not started.
RunsCurrentCode ==
  \A w \in Slots : slots[w].at = "running" =>
    /\ policy[slots[w].p].on
    /\ rows[slots[w].d].version = policy[slots[w].p].version

\* "pauses that plugin ... without consuming attempts": a row is claimed while
\* the breaker is closed or for its probe.  (After a failing transaction an
\* execution that the batch has lost sight of may open it in between.)
BreakerPauses ==
  [][\A d \in Deliveries : rows'[d].attempts > rows[d].attempts =>
       \/ breakers[PluginOf[d]].st = "closed"
       \/ \E w \in Slots : slots[w].at = "permit" /\ breakers[PluginOf[d]].probe = w
       \/ count.faults > 0]_vars

\* An admitted delivery comes to an outcome, or is an orphan.
AdmittedSettles ==
  \A d \in Deliveries : rows[d].st \in Open ~> rows[d].st \in Outcomes \/ Orphan(d)

\* docs/plugin-hook-runtime.md: "An admitted delivery is at least once".
AdmittedIsSettled ==
  \A d \in Deliveries : rows[d].st \in Open ~> rows[d].st \in Outcomes

\* Each delivery keeps the promise of AtLeastOnce.
Fate(d) == IF rows[d].st \in Open THEN "open" ELSE rows[d].st
Abstract == INSTANCE AtLeastOnce WITH fate <- [d \in Deliveries |-> Fate(d)]
DeliversAtLeastOnce == Abstract!Spec
=============================================================================
