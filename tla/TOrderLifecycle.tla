--------------------------- MODULE TOrderLifecycle ---------------------------
(***************************************************************************)
(* One live T intent and its order attempts.  An attempt that does not fill  *)
(* in time is cancelled and replaced for the remainder; at the intent's      *)
(* deadline the lifecycle is closed.  Both need durable proof of what the    *)
(* last attempt traded, and that proof is built by the Engine's report       *)
(* consumer from callbacks that are lost, late or retried and from full      *)
(* snapshots of the account, while the lifecycle loop runs beside it.        *)
(*                                                                           *)
(* An action is one transaction.  A fill is one unit of volume and its       *)
(* execution id is its number.  The sequence of a report is the rank of the  *)
(* broker's state it reports, which orders the reports of an order as their  *)
(* source_sequence does.  How a command is sent or closed before it reaches  *)
(* the broker is CommandOutbox.  Time is left open: a look at the clock may  *)
(* find the TTL of an order or of the intent passed or not.                  *)
(***************************************************************************)
EXTENDS Integers, FiniteSets, FiniteSetsExt

CONSTANTS Target,      \* volume of the first attempt
          MaxCalls     \* bound on the callbacks that are heard

ASSUME LifecycleAssumption == Target \in Nat \ {0} /\ MaxCalls \in Nat

Owners == {"T_ASSISTANT_EXECUTION", "EXIT_PLAN"}
Attempts == 0..2
Executions == 1..Target
Terminal == {"FILLED", "CANCELLED", "REJECTED"}
Open == {"SUBMITTED", "PARTIAL_FILLED"}
\* _WORKING, with QUEUED for PENDING and DELIVERED too.
Working == Open \cup {"QUEUED", "CANCEL_REQUESTED", "RECONCILE_REQUIRED"}
\* LOCAL: EXPIRED, REJECTED or CANCELLED with a local zero-fill proof.
Statuses == Working \cup Terminal \cup {"NONE", "LOCAL", "RECONCILED_ZERO_FILL"}
ZeroFill == <<"RECONCILED_ZERO_FILL", 0>>
Reports == [kind : {"ORDER", "TRADE"}, of : Attempts, st : Open \cup Terminal,
            fill : 0..Target]
NoRow == [st |-> "NONE", fill |-> 0]

VARIABLES
  owner,     \* owner_type of the intent: an entry of the T assistant or a plan's exit
  at,        \* the order at the broker; QUEUED and CLOSED: its command is not there
  filled,    \* volume traded at the broker
  volume,    \* pending_trade_order.volume
  status,    \* pending_trade_order.status, NONE if the attempt does not exist
  known,     \* attempts with a broker_order_id
  last,      \* last_source_sequence
  row,       \* the persisted order: status and traded_volume
  trades,    \* persisted trades
  counted,   \* TRADE runtime events: their volumes make up executed_volume
  events,    \* ORDER runtime events: status and cumulative fill
  unapplied, \* attempts with runtime events that are not APPLIED
  staged,    \* volume of the staged replacement of an entry, 0 if none
  finished,  \* t_order_lifecycle_finished
  cancels,   \* attempts with a CANCEL_ORDER command
  calls,     \* callbacks heard
  inbox,     \* callbacks not processed
  snap,      \* the pending full snapshot, {} if none
  cur,       \* reports of the message the consumer processes, {} if it is idle
  full,      \* that message is a full snapshot
  todo,      \* those of its reports that are not persisted
  upd        \* the report persisted and not yet applied to its pending order

brokerVars == <<at, filled>>
pendingVars == <<volume, status, known, last>>
factVars == <<row, trades>>
eventVars == <<counted, events, unapplied>>
intentVars == <<owner, staged, finished>>
mailVars == <<calls, inbox, snap>>
consumerVars == <<cur, full, todo, upd>>
vars == <<brokerVars, pendingVars, factVars, eventVars, intentVars, cancels,
          mailVars, consumerVars>>

TypeOK ==
  /\ owner \in Owners
  /\ at \in [Attempts -> {"NONE", "QUEUED", "CLOSED"} \cup Open \cup Terminal]
  /\ filled \in [Attempts -> 0..Target] /\ volume \in [Attempts -> 0..Target]
  /\ status \in [Attempts -> Statuses] /\ known \subseteq Attempts
  /\ last \in [Attempts -> 0..Target + 2]
  /\ row \in [Attempts -> [st : Open \cup Terminal, fill : 0..Target] \cup {NoRow}]
  /\ trades \in [Attempts -> SUBSET Executions]
  /\ counted \in [Attempts -> SUBSET Executions]
  /\ events \in [Attempts -> SUBSET ((Open \cup Terminal) \X (0..Target) \cup {ZeroFill})]
  /\ unapplied \subseteq Attempts /\ staged \in 0..Target /\ finished \in BOOLEAN
  /\ cancels \subseteq Attempts
  /\ calls \in 0..MaxCalls /\ inbox \subseteq Reports
  /\ snap \subseteq Reports /\ cur \subseteq Reports
  /\ full \in BOOLEAN /\ todo \subseteq cur /\ upd \subseteq cur

Each(v) == [i \in Attempts |-> v]
First(v, w) == [i \in Attempts |-> IF i = 0 THEN v ELSE w]

Init ==
  /\ owner \in Owners
  /\ at = First("QUEUED", "NONE") /\ filled = Each(0)
  /\ volume = First(Target, 0) /\ status = First("QUEUED", "NONE")
  /\ known = {} /\ last = Each(0) /\ row = Each(NoRow) /\ trades = Each({})
  /\ counted = Each({}) /\ events = Each({}) /\ unapplied = {}
  /\ staged = 0 /\ finished = FALSE /\ cancels = {}
  /\ calls = 0 /\ inbox = {} /\ snap = {}
  /\ cur = {} /\ full = FALSE /\ todo = {} /\ upd = {}

ByAssistant == owner = "T_ASSISTANT_EXECUTION"

\* max_replace_count of TEntryOrderPolicy and TExitOrderPolicy
MaxReplace == IF ByAssistant THEN 1 ELSE 2

Made == {i \in Attempts : status[i] # "NONE"}
Newest(i) == i \in Made /\ i + 1 \notin Made
\* The fills of all attempts, in the trades table or in the TRADE events.
Fills(f) == {x \in Attempts \X Executions : x[2] \in f[x[1]]}
\* executed_volume of the intent
Executed == Cardinality(Fills(counted))
-----------------------------------------------------------------------------
(* The broker and the Agent's callbacks, which may be lost.                  *)

Order(i, st, fill) == [kind |-> "ORDER", of |-> i, st |-> st, fill |-> fill]
Trade(i, k) == [kind |-> "TRADE", of |-> i, st |-> "PARTIAL_FILLED", fill |-> k]

Call(reports) ==
  \E heard \in SUBSET reports :
    /\ calls + Cardinality(heard) <= MaxCalls
    /\ inbox' = inbox \cup heard /\ calls' = calls + Cardinality(heard)

Submit(i) ==
  /\ at[i] = "QUEUED"
  /\ at' = [at EXCEPT ![i] = "SUBMITTED"]
  /\ Call({Order(i, "SUBMITTED", 0)})
  /\ UNCHANGED <<filled, pendingVars, factVars, eventVars, intentVars,
                 cancels, snap, consumerVars>>

Fill(i) ==
  LET k == filled[i] + 1
      st == IF k = volume[i] THEN "FILLED" ELSE "PARTIAL_FILLED" IN
  /\ at[i] \in Open
  /\ at' = [at EXCEPT ![i] = st] /\ filled' = [filled EXCEPT ![i] = k]
  /\ Call({Order(i, st, k), Trade(i, k)})
  /\ UNCHANGED <<pendingVars, factVars, eventVars, intentVars, cancels,
                 snap, consumerVars>>

\* The callback of an ended order carries its cumulative fill or none yet.
EndOrder(i, st) ==
  /\ at' = [at EXCEPT ![i] = st]
  /\ \E fill \in {0, filled[i]} : Call({Order(i, st, fill)})
  /\ UNCHANGED <<filled, pendingVars, factVars, eventVars, intentVars,
                 cancels, snap, consumerVars>>

CancelAtBroker(i) == at[i] \in Open /\ i \in cancels /\ EndOrder(i, "CANCELLED")
EndAtBroker(i) ==
  \/ at[i] \in Open /\ i \notin cancels /\ EndOrder(i, "CANCELLED")
  \/ at[i] = "SUBMITTED" /\ EndOrder(i, "REJECTED")

\* What a full snapshot shows of the account's orders and trades.
View ==
  LET seen == {i \in Attempts : at[i] \in Open \cup Terminal} IN
  {Order(i, at[i], filled[i]) : i \in seen} \cup
  UNION {{Trade(i, k) : k \in 1..filled[i]} : i \in seen}

TakeSnapshot ==
  /\ snap = {} /\ snap' = View
  /\ UNCHANGED <<brokerVars, pendingVars, factVars, eventVars, intentVars,
                 cancels, calls, inbox, consumerVars>>
-----------------------------------------------------------------------------
(* The command's own outcome: CommandOutbox.                                 *)

\* An accepted ack carries the broker's order id.
AckAccepted(i) ==
  /\ at[i] \in Open \cup Terminal /\ i \notin known
  /\ known' = known \cup {i}
  /\ status' = [status EXCEPT ![i] = IF @ \in {"QUEUED", "RECONCILE_REQUIRED"}
                                     THEN "SUBMITTED" ELSE @]
  /\ UNCHANGED <<brokerVars, volume, last, factVars, eventVars, intentVars,
                 cancels, mailVars, consumerVars>>

\* A delivered command without a known outcome.
OutcomeUnknown(i) ==
  /\ at[i] \in {"QUEUED"} \cup Open \cup Terminal /\ i \notin known
  /\ status[i] = "QUEUED"
  /\ status' = [status EXCEPT ![i] = "RECONCILE_REQUIRED"]
  /\ UNCHANGED <<brokerVars, volume, known, last, factVars, eventVars, intentVars,
                 cancels, mailVars, consumerVars>>

\* The command is closed with a proof that it will never reach the broker.
CloseLocally(i) ==
  /\ at[i] = "QUEUED" /\ status[i] \in {"QUEUED", "RECONCILE_REQUIRED"}
  /\ at' = [at EXCEPT ![i] = "CLOSED"]
  /\ status' = [status EXCEPT ![i] = "LOCAL"]
  /\ UNCHANGED <<filled, volume, known, last, factVars, eventVars, intentVars,
                 cancels, mailVars, consumerVars>>
-----------------------------------------------------------------------------
(* The report consumer: one message at a time.                               *)

Claim ==
  /\ cur = {}
  /\ \/ \E r \in inbox : /\ inbox' = inbox \ {r} /\ cur' = {r} /\ full' = FALSE
                         /\ UNCHANGED snap
     \/ /\ snap # {} /\ cur' = snap /\ snap' = {} /\ full' = TRUE /\ UNCHANGED inbox
  /\ todo' = cur' /\ UNCHANGED calls
  /\ UNCHANGED <<brokerVars, pendingVars, factVars, eventVars, intentVars,
                 cancels, upd>>

\* A message lists its orders before its trades, the oldest first.
Before(r, q) ==
  \/ r.kind = "ORDER" /\ q.kind = "TRADE"
  \/ r.kind = q.kind /\ (r.of < q.of \/ (r.of = q.of /\ r.fill < q.fill))
Foremost(r) == r \in todo /\ \A q \in todo \ {r} : Before(r, q)

\* upsert_report: an order row is overwritten, a trade is added by its id.  A
\* trade needs its order's row.
Persist(r) ==
  /\ upd = {} /\ Foremost(r)
  /\ r.kind = "TRADE" => row[r.of].st # "NONE"
  /\ row' = IF r.kind = "ORDER" THEN [row EXCEPT ![r.of] = [st |-> r.st, fill |-> r.fill]]
            ELSE row
  /\ trades' = IF r.kind = "TRADE" THEN [trades EXCEPT ![r.of] = @ \cup {r.fill}]
               ELSE trades
  /\ todo' = todo \ {r} /\ upd' = {r}
  /\ UNCHANGED <<brokerVars, pendingVars, eventVars, intentVars, cancels,
                 mailVars, cur, full>>

Rank(r) == IF r.st \in Terminal THEN Target + 2
           ELSE IF r.st = "SUBMITTED" THEN 1 ELSE 1 + r.fill

Progress(st) == CASE st = "QUEUED" -> 0 [] st = "SUBMITTED" -> 1
                  [] st = "PARTIAL_FILLED" -> 2 [] st = "LOCAL" -> 4
                  [] st = "REJECTED" -> 5 [] st = "CANCELLED" -> 6 [] st = "FILLED" -> 7

\* can_transition_order_status; the other statuses have no progress.
CanTransition(from, to) ==
  \/ from \in {"CANCEL_REQUESTED", "RECONCILE_REQUIRED", "RECONCILED_ZERO_FILL"}
  \/ /\ from \in Terminal \cup {"LOCAL"} => to \in Terminal
     /\ Progress(to) >= Progress(from)

\* _is_exact_t_entry_zero_fill_replay
ZeroReplay(r) ==
  /\ ByAssistant /\ r.kind = "ORDER" /\ r.st = "CANCELLED" /\ r.fill = 0
  /\ status[r.of] = "RECONCILED_ZERO_FILL"

Stale(r) == Rank(r) < last[r.of]

\* _update_pending
UpdatePending(r) ==
  LET asked == status[r.of] = "CANCEL_REQUESTED"
      keeps == asked /\ r.st \notin Terminal
      takes == ~ZeroReplay(r) /\ ~Stale(r) /\ (keeps \/ CanTransition(status[r.of], r.st))
  IN
  /\ upd = {r}
  /\ status' = IF takes /\ ~keeps THEN [status EXCEPT ![r.of] = r.st] ELSE status
  /\ last' = IF takes \/ (ZeroReplay(r) /\ ~Stale(r))
             THEN [last EXCEPT ![r.of] = Rank(r)] ELSE last
  /\ known' = known \cup {r.of}
  /\ upd' = {}
  /\ UNCHANGED <<brokerVars, volume, factVars, eventVars, intentVars, cancels,
                 mailVars, cur, full, todo>>

\* The volume that terminal ORDER events of an attempt announced.
Announced(i) ==
  Max({0} \cup {IF e[1] = "FILLED" /\ e[2] = 0 THEN volume[i] ELSE e[2] :
                e \in {x \in events[i] : x[1] \in Terminal}})
\* Mutant: a cancelled callback without a fill counts as a snapshot.
ProvenByCallback ==
  {i \in Attempts : Order(i, "CANCELLED", 0) \in cur /\ i \in known
                    /\ status[i] = "CANCELLED" /\ counted[i] = {} /\ trades[i] = {}}

\* _full_snapshot_zero_fill_items: the proof that an attempt traded nothing.
Proven ==
  {i \in Attempts :
     /\ full /\ Order(i, "CANCELLED", 0) \in cur
     /\ \A k \in Executions : Trade(i, k) \notin cur
     /\ i \in known /\ status[i] = "CANCELLED" /\ last[i] <= Target + 2
     /\ Executed = 0 /\ counted[i] = {}
     /\ \A e \in events[i] : e[2] = 0 /\ e[1] # "FILLED"
     /\ row[i].fill = 0 /\ trades[i] = {}}

\* The reports of the message that become runtime events.
NewOrders(i) ==
  {<<r.st, r.fill>> : r \in {x \in cur : /\ x.kind = "ORDER" /\ x.of = i /\ ~Stale(x)
                                         /\ CanTransition(status[i], x.st)}}
NewTrades(i) == {r.fill : r \in {x \in cur : x.kind = "TRADE" /\ x.of = i}}

\* _stage_runtime_events: one transaction for the whole message.  An event that
\* finds a fill, or announces one that is missing, takes a staged replacement
\* of the intent back.  READY is the account's reconcile_status.
StageEvents(ready) ==
  LET proofs == IF ready /\ ~finished THEN Proven ELSE {}
      orders == [i \in Attempts |->
                   (NewOrders(i) \cup (IF i \in proofs THEN {ZeroFill} ELSE {}))
                   \ events[i]]
      fills == [i \in Attempts |-> NewTrades(i) \ counted[i]]
      fresh == {i \in Attempts : orders[i] # {} \/ fills[i] # {}} IN
  /\ cur # {} /\ todo = {} /\ upd = {}
  /\ events' = [i \in Attempts |-> events[i] \cup orders[i]]
  /\ counted' = [i \in Attempts |-> counted[i] \cup fills[i]]
  /\ unapplied' = unapplied \cup fresh
  /\ status' = [i \in Attempts |-> IF ByAssistant /\ i \in proofs /\ ZeroFill \in orders[i]
                                   THEN "RECONCILED_ZERO_FILL" ELSE status[i]]
  /\ staged' = IF \E i \in fresh : Executed' > 0 \/ Announced(i)' > Cardinality(counted'[i])
               THEN 0 ELSE staged
  /\ cur' = {} /\ full' = FALSE
  /\ UNCHANGED <<brokerVars, volume, known, last, factVars, owner, finished, cancels,
                 mailVars, todo, upd>>

\* Mutant: the items of a failed message are not dropped.
FailKeepsItems ==
  /\ cur # {} /\ cur' = {} /\ full' = FALSE /\ upd' = {}
  /\ UNCHANGED <<brokerVars, pendingVars, factVars, eventVars, intentVars, cancels,
                 mailVars, todo>>

\* The message fails: it is retried later, or given up after ten attempts.
ReportFails ==
  /\ cur # {}
  /\ \/ full /\ snap = {} /\ snap' = cur /\ UNCHANGED inbox
     \/ full /\ UNCHANGED <<snap, inbox>>
     \/ ~full /\ inbox' = inbox \cup cur /\ UNCHANGED snap
     \/ ~full /\ UNCHANGED <<snap, inbox>>
  /\ cur' = {} /\ full' = FALSE /\ todo' = {} /\ upd' = {} /\ UNCHANGED calls
  /\ UNCHANGED <<brokerVars, pendingVars, factVars, eventVars, intentVars,
                 cancels>>

\* _drain_runtime_events
ApplyEvents(i) ==
  /\ i \in unapplied
  /\ unapplied' = unapplied \ {i}
  /\ UNCHANGED <<brokerVars, pendingVars, factVars, counted, events, intentVars,
                 cancels, mailVars, consumerVars>>
-----------------------------------------------------------------------------
(* The lifecycle loop and the dispatch of staged entries.                    *)

\* advance_order for a working order whose TTL has passed: expire_order's cancel
\* is not terminal, so nothing is finalized, but at the end of the lifecycle a
\* staged replacement is retired.
ExpireOrder(i) ==
  /\ i \in Made /\ status[i] \in Working /\ i \in known /\ ~finished
  /\ cancels' = cancels \cup {i}
  /\ status' = [status EXCEPT ![i] = IF @ = "RECONCILE_REQUIRED" THEN @
                                     ELSE "CANCEL_REQUESTED"]
  /\ UNCHANGED staged \/ (Newest(i) /\ staged' = 0)
  /\ UNCHANGED <<brokerVars, volume, known, last, factVars, eventVars, owner, finished,
                 mailVars, consumerVars>>

\* Mutant: no proof is asked for an order without trades.
SettledUnproven(i) ==
  /\ i \in known /\ row[i].st \in Terminal /\ i \notin unapplied
  /\ row[i].fill = Cardinality(trades[i])

\* The persisted order has ended and its trades are all there.
Settled(i) ==
  /\ i \in known /\ row[i].st \in Terminal /\ i \notin unapplied
  /\ row[i].fill = Cardinality(trades[i])
  /\ trades[i] # {} \/ status[i] = "RECONCILED_ZERO_FILL"

\* evaluate_t_order_replacement, for an attempt that has no successor
Replaceable(i) ==
  /\ Newest(i) /\ i < MaxReplace /\ ~finished
  /\ status[i] # "RECONCILE_REQUIRED" /\ Settled(i)

\* Mutant: the replacement is sized as the order it replaces.
RemainingWhole(i) == volume[i]

Remaining(i) == volume[i] - Cardinality(trades[i])

NewAttempt(i, v) ==
  /\ volume' = [volume EXCEPT ![i + 1] = v]
  /\ status' = [status EXCEPT ![i + 1] = "QUEUED"]
  /\ at' = [at EXCEPT ![i + 1] = "QUEUED"]

\* replace_t_order, for an exit: the risk check may make the order smaller.
Replace(i) ==
  /\ owner = "EXIT_PLAN" /\ Replaceable(i) /\ status[i] \notin Working
  /\ \E v \in 1..Remaining(i) : NewAttempt(i, v)
  /\ UNCHANGED <<filled, known, last, factVars, eventVars, intentVars, cancels,
                 mailVars, consumerVars>>

\* stage_live_entry_replacement, which also checks the intent's executed volume.
StageReplacement(i) ==
  /\ ByAssistant /\ Replaceable(i) /\ status[i] \notin Working
  /\ Executed = Cardinality(trades[i])
  /\ \E v \in 1..Remaining(i) : staged' = v
  /\ UNCHANGED <<brokerVars, pendingVars, factVars, eventVars, owner, finished,
                 cancels, mailVars, consumerVars>>

\* The admitted request is enqueued; everything is evaluated again.
Dispatch(i) ==
  /\ staged \in 1..Remaining(i) /\ Replaceable(i)
  /\ Executed = Cardinality(trades[i])
  /\ NewAttempt(i, staged)
  /\ staged' = 0
  /\ UNCHANGED <<filled, known, last, factVars, eventVars, owner, finished, cancels,
                 mailVars, consumerVars>>

\* An attempt has ended: at the broker with its trades, or before it got there.
Ended(i) ==
  \/ i \notin known /\ status[i] = "LOCAL" /\ i \notin unapplied
  \/ Settled(i) /\ status[i] \in Terminal \cup {"RECONCILED_ZERO_FILL"}

\* Mutant: the trades are not compared with the intent's executed volume.
ConvergedByTrades == \A i \in Made : Ended(i)

\* finalize_t_order_lifecycle's proof, over all attempts of the intent
Converged ==
  /\ \A i \in Made : Ended(i)
  /\ Executed = Cardinality({x \in Fills(trades) : x[1] \in Made \cap known})
  /\ Executed <= Target

\* The TTL of the intent, or its replacements, are used up:
\* retire_t_order_staged_request, then finalize_t_order_lifecycle
CloseLifecycle(i) ==
  /\ Newest(i) /\ ~finished
  /\ staged' = 0
  /\ finished' = Converged
  /\ unapplied' = IF Converged /\ ByAssistant THEN unapplied \cup {i} ELSE unapplied
  /\ UNCHANGED <<brokerVars, pendingVars, factVars, counted, events, owner, cancels,
                 mailVars, consumerVars>>
-----------------------------------------------------------------------------
Broker(i) == Submit(i) \/ Fill(i) \/ CancelAtBroker(i) \/ EndAtBroker(i)
Command(i) == AckAccepted(i) \/ OutcomeUnknown(i) \/ CloseLocally(i)
Consumer ==
  \/ Claim \/ (\E r \in todo : Persist(r)) \/ (\E r \in upd : UpdatePending(r))
  \/ (\E ready \in BOOLEAN : StageEvents(ready)) \/ ReportFails
Loop(i) ==
  ExpireOrder(i) \/ Replace(i) \/ StageReplacement(i) \/ Dispatch(i) \/ CloseLifecycle(i)

Next ==
  \/ \E i \in Attempts : Broker(i) \/ Command(i) \/ Loop(i) \/ ApplyEvents(i)
  \/ Consumer \/ TakeSnapshot

Spec == Init /\ [][Next]_vars
-----------------------------------------------------------------------------
\* No more trading: the order has ended, or will never reach the broker.
Dead(i) == at[i] \in Terminal \cup {"CLOSED"}

\* At most one attempt can still trade, and it was sized for what its predecessor
\* left: an order is replaced only after it ended at the broker, for no more than
\* its unfilled volume.
RemainderOnly ==
  \A i \in Attempts : i + 1 \in Made =>
    Dead(i) /\ volume[i + 1] + filled[i] <= volume[i]

\* The attempts of an intent together never trade more than was asked of the first
\* one, whatever the consumer has read of their fills when they are replaced.
NeverOvertrades == filled[0] + filled[1] + filled[2] <= Target

\* A closed lifecycle told the owner the truth: no attempt can trade any more, a
\* replacement included, and every fill is in the intent's executed volume.
ClosedIsTrue ==
  finished => \A i \in Made : Dead(i) /\ counted[i] = 1..filled[i]

\* RECONCILED_ZERO_FILL is a proof: the order ended without a fill.
ZeroFillIsProven ==
  \A i \in Attempts : status[i] = "RECONCILED_ZERO_FILL" => Dead(i) /\ filled[i] = 0
=============================================================================
