# QuantX: TLA+ models of live orders and of historical market data

QuantX runs trading strategies on a server and sends their live orders to a QMT
Agent, a process on the machine where the broker's client (miniQMT) runs. The
same Agent collects historical market data, which a Worker on the server stores.
This directory holds TLA+ modules of both paths, TLC configurations that check
them on small instances, and TLAPS proofs for every instance. The code is the
reference: each definition names, in `PROJECT.json` under `map`, the lines it
stands for.

Contents: 1 the system, 2 the modules, 3 the runs, 4 fairness, 5 the proofs,
6 what the checks found, 7 what is not modelled, 8 the plan.

## 1. The system

### Components

| Component | State | Operations | Talks to |
|---|---|---|---|
| QMT Agent, trading half (`apps/qmt-agent`: `runtime.py`, `journal.py`, `broker.py`, `emergency.py`) | SQLite journal of commands and reports, emergency-stop file, the order gate (reconciliation flag, bound snapshot, generations), the native lane's queue | handle a command, run a native call, complete / report / ack, take a snapshot, reconnect, prune | the API by WebSocket frames, the broker's client by calls and callbacks |
| Command outbox and control sessions (`apps/api/.../agent_api.py`) | `TradeCommandOutbox` rows, the session's outbound buffer | claim, send, record ack, expire | Agent (frames, acks); Postgres rows shared with everything below |
| Physical-send lock, quarantine (`account_execution_quarantine_service.py`) | `AccountExecutionControl`, markers on pending orders | lock for send, quarantine, repair | outbox, reports |
| Cancellation services (`trade_command_service.py`, `trading_service.py`) | `PendingTradeOrder` | local cancel, cancel request, enqueue `CANCEL_ORDER` | outbox rows |
| Stop switches (`account_execution_safety_service.py`, `t_trade_operations_service.py`) | account kill, T-trade stop | revoke queued and delivered commands | outbox, pending orders |
| Engine report convergence (`apps/engine/.../report_processor.py`) | `AgentReportInbox`, pending orders, correlations, executions | order, execution, error and snapshot reports | the rows the API writes |
| Order lifecycle rules (`order_lifecycle.py`) | none | `can_transition_order_status` | everyone who writes a status |
| T-order lifecycle (`t_order_lifecycle.py`, `t_order_policy.py`, `live_entry_replacement_staging.py`) | a T intent, its order attempts, a staged replacement | time out, cancel, prove, replace, close | outbox, reports, account snapshots |
| Strategy, entry-plan and exit-plan runtimes (Engine) | intents, plans, reservations | place, cancel, liquidate | outbox |
| Worker lease (`market_data_worker_lease`) | one row: owner and epoch | acquire, renew, release, guard | every transaction of a Market Data Worker |
| Collection permits and receipts (`market_data_collection_permit_store.py`) | plans with a cursor, permits, START / FINISH / ABORT receipts, the scheduling streak | plan, issue, consume a receipt, expire, resume | request rows, the history session |
| History session and Agent pipeline (`agent_api.py`, the Agent's `history_*`, `collection_execution.py`, `journal.py`) | what was last sent, routed requests, journal tables of receipts, executions, aborts and artifacts, sealed files | deliver, start, enter the native call, seal, finish, abort, recover, upload | Worker (through receipts), the terminal |
| Request ledger and ingestion (`runtime_store.py`, the Worker's sweeps) | request rows with a claim, `ingestion_progress`, the time-series store | claim, validate, write, read back, finish, defer, resume, reopen | upload, operator |
| Archive sessions | archives and their receipts | open, append, close | Agent, Worker |
| Paper broker, bucket ledger, grid book (domain) | quantities and money | match, fill, allocate | strategies |
| Research, trainer, AI runtime, worker, monitor, web, iOS | batch data, UI | | HTTP |

### How an order goes out

1. A strategy writes an intent, a `PendingTradeOrder` and a `QUEUED` outbox row.
2. A control session claims the row (`DELIVERED`, one attempt more, a redelivery
   lease), buffers the frame, and at the physical send locks the account's
   control row and the command again before it writes to the socket.
3. The Agent journals the command as `PROCESSING`, validates it against expiry,
   the order gate, market readiness and the emergency stop, and runs the native
   call on a lane that runs one call at a time, cancels first.
4. It completes the journal row, journals a report for a refusal, and acks.
5. The API turns the ack into an outcome of both rows; the Engine converges the
   broker's reports into the pending order. Either may come first.
6. Meanwhile the command may expire, be cancelled or be stopped.

### How a T order is worked

A T intent has a first attempt and, for what it leaves unfilled, at most one (entry)
or two (exit) replacements. A loop looks at each attempt: past its TTL it is
cancelled; ended, with its trades all persisted, it is replaced; at the end of the
intent's own TTL the lifecycle is closed and its owner is told what was traded. The
proof of what was traded comes from the report consumer, which takes a message
apart in several transactions: persist each order and trade, update the pending
order, stage runtime events for the whole message. A replacement of an entry is
staged, admitted and dispatched by three more transactions.

### How history is collected

1. The Market Data Worker cuts a request into native units and issues one permit
   at a time for one terminal.
2. The history session sends routed requests and permits whenever they change.
3. The Agent posts START, waits until the Worker accepted it, enters the native
   call in a helper process, seals the result in a file, posts FINISH; or it has
   proof that the call exited without a result and posts ABORT.
4. The FINISH of the last unit lets the Agent upload the request in chunks.
5. A Worker process claims the frozen upload, validates it, writes it block by
   block, reads it back and completes the request, within a budget of executions.

### What is hard

* The Agent can die between a native call and the row that records it. Commands
  are delivered at least once; orders must be placed at most once.
* A terminal status without a fill (`EXPIRED`, `REJECTED`, `CANCELLED`) releases
  reserved cash or positions. It must be a *proof* that nothing reached the
  broker, while frames, acks and reports overtake each other and several
  transactions write the same rows.
* The Agent's knowledge of the account ages: native reconnects and lost callbacks
  must close the order gate until a snapshot newer than the loss is acknowledged.
* Cancel requests, stops and sends race: what was true at the claim need not be
  true at the send.
* The gate reopens through four loops that wait for each other's events.
* A T order is replaced on the word of callbacks that are lost, repeated, late, or
  say "cancelled" before they say what was filled. Two orders for one remainder, or
  a closed lifecycle with an uncounted fill, cost money.
* Native collection cannot be interrupted or fenced. A Worker that takes over, a
  permit that expires, an Agent that dies while its helper runs on: none of them
  proves that the terminal is free.
* Neither can a write to the time-series store: it may become visible after its
  caller lost the claim, or never, though it was acknowledged.
* Facts must arrive although the session that carries them breaks, the delivery
  lease runs out or the Worker is replaced.

### What makes each component correct

* Agent: an order is submitted at most once; a refusal that counts as a proof is
  true; all final answers agree; no order starts beside an unknown outcome or on
  stale account knowledge; an acknowledged stop holds, restarts included, once it
  was read back and until an operator clears it; the gate opens again; an
  interrupted command is settled.
* Outbox: a closed row is a true and final proof; a halted command is not sent;
  no row stays queued or delivered for ever.
* Cancellation and stops: a pending order that is closed without the broker's
  word was never submitted; a request to cancel is not forgotten.
* Report convergence: statuses move forward only; a terminal order stays terminal.
* T lifecycle: at most one attempt can trade, and only what the others left, so
  the intent never trades more than it asked for; a closed lifecycle reported every
  fill; a zero-fill proof is true.
* Collection: one native call at a time; the slot is kept until the call exited; a
  unit is collected once; the cursor counts the finished units; an upload is whole;
  proved facts are accepted, in the end.
* Ingestion: `COMPLETED` means stored; no two processes write a request unless a
  lease ran out; automatic executions are bounded; a frozen upload is settled.
* Ledgers of quantities: conservation.

`PROJECT.json` lists the hazards at their lines, with the properties that cover
them, and says which are left for the plan of section 8.

## 2. The modules

**`AgentCommand`** models the trading half of the Agent.

| Model | Code |
|---|---|
| `status`, `digest`, `result`, `mapped` | the journal's `commands` table, its payload hash, result and broker-id columns |
| `reports`, `pend` | journaled error reports; the unacknowledged complete snapshot |
| `stop`, `cache`, `seen` | the emergency-stop file; `_emergency_stop_status_cache`, which is what validation reads; what the refresh loop may have read of the file and not stored yet |
| `rounds`, `cleared` | history: refreshes stored since the file changed (up to two), and whether the last change was an operator's clear |
| `task`, `outcome`, `detached` | where the coroutine `_handle_command` is; `detached`: its session ended while its journal write was queued |
| `nat` | a call on `_XTTradingPriorityWorker`'s lane |
| `required`, `indeterminate`, `bound*`, `reconciled` | the gate's runtime half and broker half |
| `connGen`, `gapGen`, `connected`, `healthy` | the native session's generations |
| `orders`, `submits`, `lost`, `covers` | the broker, and what the Agent has missed |
| `Begin`, `Validate`, `NativeRefuse`, `NativeCheck`, `NativeCall`, `Complete`, `AddReport`, `Ack` | the handler in its order of steps, with every `await` at which another step may come between |
| `WriteStop`, `Activate`, `Refresh`, `OperatorWrites` | an emergency stop writes the file, then the handler stores the status it got back; the refresh loop stores what it read, which may be older; the operator's `activate` and `clear` |
| `Snapshot`, `SnapshotFails`, `AckSnapshot`, `NoticeUnready`, `NoticeResolved` | full snapshots, their ack, the readiness loop |
| `Connect`, `SessionLost`, `Crash`, `Prune`, `Disconnect`, `Reconnect` | sessions, restarts, retention, native connection |

Abstractions: a broker order id is the PLACE command that created it. Reasons of
a refusal are the classes the server distinguishes: listed pre-execution reasons
(`PRE`), the order gate's (`GATE`), a call that did not report success (`FAIL`).
A failed call may or may not have had its effect. A snapshot is taken at the
moment the mutation fence accepts it. `Prune` uses that the retention (at least
seven days) is longer than any command's lifetime.

**`OrderContract`** is what the server may rely on: a PLACE command is submitted
at most once, and what the Agent finally says about it is true and never changes.
`AgentCommand!ImplementsContract` is the refinement (`told` is the set of final
acks of PLACE commands).

**`CommandOutbox`** models the server's side of live `PLACE_ORDER` rows, with an
Agent that may do whatever `OrderContract` allows (`AgentMaySubmit`,
`AgentMayFinish`; section 5 has the proof) with the commands delivered to it.

| Model | Code |
|---|---|
| `row`, `attempts`, `acked`, `fresh`, `expired` | `TradeCommandOutbox.delivery_status`, `attempts`, `acknowledged_at`, the lease on `delivered_at`, `expires_at` |
| `pending`, `why`, `known` | `PendingTradeOrder.status`, `status_reason`, `broker_order_id` |
| `ready` | the account's `reconcile_status` |
| `stop` | a stop switch's transaction between its reads and its commit |
| `buffer`, `wire`, `ackq` | the outbound buffer, frames and acks under way |
| `agent`, `answer`, `submits` | the Agent |
| `heard`, `halted` | history variables for the properties |
| `Claim`, `ClaimInvalid`, `LeaseEnds` | `_next_command` |
| `DropBuffered`, `SendCancelled`, `SendSealed`, `Send` | `_send_agent_control_messages` with `lock_command_for_physical_send` |
| `Safe`, `Transition` | `_transition_place_order_command` |
| `RecordProcessing`, `RecordAccepted`, `RecordRejected` | `_record_command_ack` |
| `Sweep` | `_expire_trade_commands_in_session` |
| `CancelOrder`, `CancelPending` | `request_strategy_buy_cancellations`, `cancel_pending_order` |
| `StopOrders`, `StopRows`, `StopWrite` | the account's hard kill and the T-trade stop |
| `UpdatePending`, `ReportOrder`, `ReportError`, `ReportRefusal` | the Engine's convergence of reports |

An action is one transaction. Transactions that lock the rows they read are one
step; the stop switches read without row locks and are three. The hard kill holds
the account's control row, which delivery, acks, expiry and reports take first
(`AccountFree`), but the cancellation services and the T-trade stop do not. A
contradiction in the ownership records of a command, which `Transition` checks at
length, is a choice: any outcome may turn into `RECONCILE_REQUIRED`. `PENDING`
and `PARTIAL_FILLED` are merged with `QUEUED` and `SUBMITTED`. Orders of an open T
lifecycle (`TOrder`) have their own rule in `Safe`; a lifecycle that has been
closed makes `_transition_place_order_command` return early and is a step not
taken. The sticky quarantine markers on a pending order are not modelled.
`NeverSent` leaves out that the never-sent proof asks for a `last_source_sequence` of
zero: where it is asked, the command's only frame is still in the buffer, so there
is no report that could have raised it.

**`TOrderLifecycle`** models one live T intent: its attempts at the broker, the
report consumer and the lifecycle loop.

| Model | Code |
|---|---|
| `owner` | `owner_type` of the intent: `T_ASSISTANT_EXECUTION` (an entry) or `EXIT_PLAN` (an exit) |
| `at`, `filled` | the orders at the broker (external) |
| `volume`, `status`, `known`, `last` | `pending_trade_order`: volume, status, broker id, `last_source_sequence` |
| `row`, `trades` | the persisted order and trade rows |
| `counted`, `events`, `unapplied` | runtime events; the TRADE events make up `executed_volume` |
| `staged`, `finished`, `cancels` | the intent's staged replacement and end; `CANCEL_ORDER` commands |
| `calls`, `inbox`, `snap` | callbacks on their way, the pending full snapshot |
| `cur`, `full`, `todo`, `upd` | the message the consumer is taking apart |
| `Claim`, `Persist`, `UpdatePending`, `StageEvents`, `ReportFails`, `ApplyEvents` | `report_processor.py`, one action per transaction |
| `ExpireOrder`, `Replace`, `CloseLifecycle` | `advance_order` and the services it calls |
| `StageReplacement`, `Dispatch` | `live_entry_replacement_staging.py` and the admission of what it staged |
| `AckAccepted`, `OutcomeUnknown`, `CloseLocally` | the outcomes of a command, which `CommandOutbox` models and proves |
| `Submit`, `Fill`, `CancelAtBroker`, `EndAtBroker`, `TakeSnapshot` | broker and Agent (external) |

`CommandOutbox` is used by its outcomes: `CloseLocally` needs a command that is
not at the broker, which is what `ZeroFillProofSound` establishes there. The
composition stops short of the T-trade stop, whose `CANCELLED` is no proof
(section 6). Every callback may be lost, and a cancel's callback may carry
the fill or none yet; a message may fail after any of its transactions and be
retried or given up. Snapshots are taken at any time and consumed late. Time is
left open: a look at the clock may find a TTL passed or not, which includes every
schedule of the code. A fill is one unit and its execution id its number. A
source sequence is the rank of the broker state it reports. The kinds of local
proof are one status `LOCAL`; `PENDING` and `DELIVERED` are merged with `QUEUED`.

**`WorkerLease`** is the single lease row: `epoch`, `live`; `Acquire`, `Expire`,
`Release`, and `Guard`, which every transaction of a process passes. A process
takes the lease once, so its epoch is its identity, and one that lost the lease
goes on running with its old epoch. The two modules below extend it.

**`HistoryCollection`** models one terminal's historical collection.

| Model | Code |
|---|---|
| `status`, `stale`, `chunks`, `cause` | `market_data_request`: status, delivery lease (`updated_at`), chunks, the permit its error names |
| `halting` | blocked requests whose reason is one of the five codes that stop the issue of permits |
| `Holding`, `Admitted` | `_admitted`: the requests that hold a place in the device's pipeline, and those with the uploads that wait for ingestion |
| `planned`, `next`, `streak` | `market_data_collection_plan` with `next_unit_index`, the scheduler's `production_streak` |
| `pstate`, `grant`, `fresh`, `resumed` | `market_data_collection_permit`: state, request, unit and epoch, expiry, `resumed_at` |
| `start`, `finish`, `abort` | the receipts of a permit: none, pending, accepted, rejected |
| `session`, `mail`, `sent` | the history session, batches under way, what the delivery loop sent last |
| `active`, `pc`, `cur` | the Agent's pipeline and where its handler is |
| `accepted`, `mark`, `executed`, `aborts`, `outage`, `bound` | the Agent's journal tables |
| `files`, `native` | sealed results; native calls that run, orphans included |
| `RegisterPlan`, `RejectPlan`, `Issue`, `ConsumeStart`, `ConsumeFinish`, `ConsumeAbort`, `Requeue` | the Worker's loops |
| `PermitExpires`, `DeliveryLapses`, `WorkerAcquires`, `WorkerReleases`, `LeaseExpires` | time |
| `Connect`, `SessionLapses`, `LinkBreaks`, `AgentCrashes`, `OrphanExits`, `Deliver`, `DeliveryRefused` | session, link, Agent process |
| `TakeRemoved`, `TakeRequest`, `TakeGrant`, `TakeRefused` | the Agent's handling of a batch |
| `PostStart`, `EnterNative`, `NativeReturns`, `BindResult`, `NativeFails`, `OutcomeUnknown`, `PostFinish`, `FinishConfirmed`, `PostAbort`, `AbortConfirmed`, `ConfirmationFails` | one execution |
| `RecoverPostAbort`, `RecoverConfirmAbort` | the recovery of recorded aborts |
| `PutChunk`, `CompleteUpload`, `UploadAccepted`, `UploadRejected` | the upload |
| `Ingest`, `Resume` | what `IngestionContract` allows; the operator's resume |

Pending receipts are consumed in any order. All requests are of one device. The
Agent's clock may run behind the database's (`ClockSkew`), so that it starts a
permit the Worker holds expired; clocks that disagree also requeue a request whose
`updated_at` lies in the Worker's future (`DeliveryLapses`). Payloads, hashes and
identities always agree: what the code compares in them is not in the model.
`active` merges two dictionaries of the Agent: the session consumer's
(`history_session.py:130`) and the pipeline's, which differ in that the first keeps
a request whose collection failed until its removal is delivered. The removals of a
batch come before its requests and permits, so the entry that is kept neither takes
a place from a request that follows nor lets a permit through: both dictionaries
check a permit, and the model's check is the pipeline's.

**`IngestionContract`** is what ingestion promises: a frozen upload ends as
`COMPLETED`, `FAILED` or `BLOCKED`, an operator may put the last two back,
`COMPLETED` is final. `HistoryCollection` uses it for the ingestion of what it
uploaded; `MarketDataIngestion!ImplementsContract` is the refinement, its promise
of an end included (a claim, `PROCESSING`, is invisible to the contract).

**`MarketDataIngestion`** models the ingestion of frozen uploads.

| Model | Code |
|---|---|
| `status`, `owner`, `stale` | `market_data_request`: status, claim token, `updated_at` older than five minutes |
| `phase`, `execs`, `overdue`, `delay`, `checked` | `ingestion_progress`: phase, executions, retry window, `next_retry_at`, checkpoints |
| `stored`, `flight`, `loose` | the time-series store: visible blocks, calls under way, writes that may yet become visible (external) |
| `pc`, `job`, `at` | the processes and their sweeps |
| `ran`, `expired` | history variables |
| `Claim`, `Begin`, `Validated`, `CheckBlock`, `ConfirmBlock`, `WriteDone`, `PersistReference`, `ReadBack`, `Finish`, `Reject`, `Defer`, `LoseClaim` | a sweep, one action per transaction |
| `Returns`, `Arrives`, `Vanishes` | a write returns, with or without an acknowledgement; becomes visible later, or never |
| `Stop`, `Retire`, `Crash` | the ends of a process: stop joins its write and releases, a crash leaves everything |
| `ClaimLapses`, `WindowCloses`, `RetryDue`, `Resume`, `Reopen` | time and the operator |

What a validation, a write or a read-back finds wrong with an upload is a choice
(`Reject`, `Defer`). Requests that are stored relationally (`reference`) are stored
by the transaction that completes their write stage. `Validated` is the manifest's
transaction and the one that advances the phase: a crash between them repeats the
validation.

The definitions called a mutant in their comments are wrong versions of the
definition that follows. No action uses them; they show that each property fails
when the code it is about has a plausible bug.

## 3. The runs

| Run | Bounds | Checks | Distinct states |
|---|---|---|---|
| `agent_orders` | an order beside an emergency stop, with a crash or an operator's command; or two orders, two payloads, two native connections and a callback gap | `TypeOK`, `AtMostOnce`, `PreRejectionTruthful`, `PlaceAcksAgree`, `OpenGateKnown`, `StopHolds`, `NoOrderOnMissedEvent`, `ImplementsContract` | 563 000 |
| `agent_converge` | a resting order and its cancel, a crash, a lost session, a gap | `CancelSettles`, `GateConverges` | 304 000 |
| `agent_place` | an order, a lost session | `PlaceSettles` (violated) | |
| `outbox_orders` | a plain and a T command, one of them already expired in the queue, two deliveries | `TypeOK`, `ZeroFillProofSound`, `PlainOrderTruthful`, `ProofsAreFinal`, `HaltHolds`, `RowsSettle` | 203 000 |
| `outbox_tstop` | one T command | `TerminalOrderTruthful` (violated) | |
| `outbox_forgotten` | one plain command | `CancelNotForgotten` (violated) | |
| `history_slot` | two requests, one of them development, two units, three permits, two Worker epochs, a slow clock, one fault, one lapse | `TypeOK`, `NativeExclusive`, `CursorExact`, `UploadWhole`, `FactsNeverRejected`, `SlotHeldUntilExit`, `NoRecollection`, `PlacesGranted` | 2 140 000 |
| `history_converge` | two requests, one of them unplannable, one unit, two permits, two epochs, two faults, one lapse | `AbortConverges`, `FinishConverges` | 136 000 |
| `history_stranded` | one request, one unit, one lapse, no fault | `CollectedIsUploaded` (violated) | |
| `history_admission` | two requests, one unit, three permits, a pipeline of one, one fault | `AdmissionHolds` (violated) | |
| `ingestion_rows` | one request of two blocks, two Worker processes, two executions per stage, one lapsed claim, one intervention | `TypeOK`, `CompletedIsStored`, `WritersHandOver`, `BudgetBounded`, `ImplementsContract` | 255 000 |
| `torder_attempts` | both owners, two units of volume, one callback that is heard; snapshots and failures without bound | `TypeOK`, `RemainderOnly`, `NeverOvertrades`, `ClosedIsTrue`, `ZeroFillIsProven` | 2 660 000 |

What they show, in words: `PROJECT.json` has a sentence for each run, and each
property has its comment in its module.

Why the bounds are enough to be interesting:

* Agent: one crash or loss can fall between any two steps of a handler, and a second
  one finds the same journal as the first. Two payloads make the conflict of a
  repeated message id. Two connections and a gap let a snapshot be older than
  either. Two orders are what `NoOrderOnMissedEvent` relates. `MCOrdersSpec` starts
  in one of three cases, so that a crash, the operator and the second order do not
  multiply. The constraints `MCFocus` and `MCFocusStep` leave gaps and reconnects to
  the case of two orders, the second payload to the time when no stop is in play,
  the second order to after the first, and operator and refresh loop to the time
  before the first order is validated, which is when they matter to it. The proofs
  have neither the cases nor the constraints.
* Outbox: two deliveries of a command give a late frame, a late ack and a redelivery
  under way at once. Two commands of an account meet only in the lease rule and the
  account's readiness, which hold steps back; the second command of `outbox_orders`
  is settled so that the instance stays small, and the proofs cover any number of
  live commands.
* History: two requests and three permits give a unit that is retried beside a
  request that waits, two epochs a Worker that goes on after it was replaced, one
  fault a crash that orphans a helper or a broken session at any point, one lapse
  a request that is requeued under a running permit. The proofs cover any number.
* Ingestion: two processes give a takeover, two blocks a checkpoint in the middle,
  two executions a retry and its exhaustion.
* T orders: two units give an attempt that is filled in part and a replacement; a
  heard callback may overtake or contradict any number of snapshots. An exit's
  third attempt needs three units and is not reached here; the proofs cover it.

Commands may stay undelivered, permits unreturned and the network silent, so the
systems may stop: deadlock is not checked.

## 4. Fairness

`AgentCommand!Fairness`: weak fairness of the handlers, the native lane, the
session start, the reconnect, the snapshot and readiness loops and the server's
acks, which are loops of the runtime that retry for ever. Deliveries, crashes,
losses, expiry and broker events are not fair. Only the ack of the snapshot the
gate is bound to is strongly fair: a newer snapshot may replace it, but snapshots
are a heartbeat apart and an ack is one round trip.

`CommandOutbox!Fairness`: time passes, a stop's transaction commits, and the
expiry sweeper, which every API process runs, gets the locks in the end (strong
fairness, because kills may take the account's row again and again). The Agent,
the network and the sessions are not fair: rows settle without them.

`HistoryCollection!Fairness`: weak fairness of the Worker's loops, of the delivery
loop, of reconnecting, and of the Agent's handler, recovery and upload, all of them
supervised loops. The recovery of an exit is fair only while its permit is still
retained by the snapshot, as its loop asks; it may end later all the same. Nothing
is assumed of faults, of timers, of the operator, or of a
native call ever returning.

`MarketDataIngestion!Fairness`: weak fairness of a process's work, of a write's
return, of retries falling due and retry windows closing, of a successor being
started, and of the lease of a stopped or dead process running out. A claim is
strongly fair: a row is claimable again and again between retries, and the sweep
visits every row.

`TOrderLifecycle` has no fairness; its properties are invariants.

## 5. The proofs

`AgentCommandProofs` proves for all sets of commands, payloads and snapshots and
all bounds, from the assumptions that the three kinds of command are disjoint,
`Target` maps cancels to orders and `NoSnap` is not a snapshot:

* `TypeCorrect`;
* `OrderAtMostOnce`, `RefusalsAreTruthful`, `FinalAcksAgree`. `AtMostOnce` is not
  inductive: a journal row may be pruned, a handler may be gone while its call is
  still queued, a detached handler may complete later. `PlaceInv(p)` says where
  an order can be: a native call belongs to a row that is `PROCESSING` and not
  answered (`Together`), an order that may still be called has not been submitted,
  and one whose row was pruned can not be delivered again (`Submitted`), a refusal
  is final (`RefusedForGood`), and acks, the row
  and the handler's outcome agree (`Acked`, `AcksAgree`);
* `GateKnowsOutcomes` from `GateInv`: while a session is online with an open
  gate, a row that is `PROCESSING` has a handler of this session that decides it;
* `AcknowledgedStopHolds`. Validation reads the cached status, which a refresh that
  read the file before the stop may set back after the stop was acknowledged. So
  the theorem is about the time after two refreshes, or after a restart, which
  reads the file. `StopInv`: a stop that was told is on disk, unless the operator
  cleared it; `CacheInv`: after one refresh no read from before the stop is left,
  after two the cache shows it;
* `MissedEventsBlockOrders`. The gate is opened by an acknowledged snapshot and read
  later, in the native lane, while callbacks go missing. `MissInv` says why that is
  safe: the gate never holds a connection or gap generation of the future
  (`Generations`); a missed event is the end of an order that was submitted
  (`Missed`); a healthy connection that is reconciled lost nothing since
  (`ReconciledKnows`); and the snapshot the gate is bound to shows what was missed
  before it, as long as connection and gap are still its own (`BoundCovers`);
* `AgentKeepsContract`, the refinement of `OrderContract`: initial states map to
  initial states, and every step is a `Submit`, a `Tell` or a stutter of it. Only a
  native call submits (`ContractCall`); an ack of a row that has its result, a
  resent one included, is a `Tell` (`TellStep`), and every other step leaves the
  contract's view alone (`ToldOthers`). `AnswerInv(p)` adds to `PlaceInv(p)` that
  a decided handler and a completed row hold a final answer, and `ACCEPTED` only for
  an order that was submitted.

`CommandOutboxProofs` proves, from `TOrder \subseteq Place` and
`MaxAttempts > 0` (a bound on deliveries, any number):

* `OutboxInvariant`, the inductive invariant `Inv`: frames carry the number of
  the claim that made them and are in one place (`FramesInv`), acks repeat the
  Agent's one answer and reports imply a submission (`AnswerInv`), a closed order
  is untouched and sent again only if it is answered (`ClosedInv`), an answered
  closed command has the matching refusal (`ProofInv`), a halted command that the
  Agent has not seen cannot be sent (`HaltInv`), and a kill has read every row
  it must revoke (`StopInv`);
* from it `OutboxTypes`, `ZeroFillProofsAreSound`, `PlainOrdersAreTruthful`,
  `ProofsAreNeverTakenBack`, `HaltsAlwaysHold`.

`PlainOrderTruthful` alone is not inductive: it needs that a frame numbered 1
still in the buffer means the Agent has seen nothing, which is how the code
proves it too (`first_claim_pre_execution_proven`).

`OutboxAdmitsAgent` closes the loop with `AgentCommandProofs`. `AgentKeepsContract`
shows that the Agent does nothing `OrderContract` forbids; here it is shown that
the Agent the server is proved against can, in every reachable state, do everything
the contract allows with a command it has taken: when the contract's guards
`MaySubmit` and `MayTell` hold of it (answers mapped by `Word`), so do the guards of
`AgentSubmit` and `AgentFinish`, or the answer is the one already given. It needs
that an Agent which is done has answered (`Answered`). The contract says nothing of
two more things the server's model relies on, and they are read off the code: the
Agent handles only frames that arrived, and it answers a repeated frame from its
journal.

Each action has a lemma that it keeps what is known of every order, and one that
it keeps the whole invariant and the two action properties; `NextStep` joins them.

`HistoryCollectionProofs` proves, for every finite set of requests and any number
of units, chunks, permits, processes and faults, the inductive invariant `IInv`
(`CollectionInvariant`) and from it `CollectionTypes`, `OneNativeCall`,
`CursorIsExact`, `UploadIsWhole`, `FactsAccepted`, `SlotIsHeld`, `NeverRecollected`,
`PlacesAreGranted` and `AdmissionHoldsUnresumed`.
None of the properties is inductive: that one call runs depends on what the
Worker, the mail, the handler and the journal know of each other. The parts:

* `OneLive`: at most one permit is outstanding; `Granted`: an issued permit names a
  unit, and an accepted START moved it on;
* `Handling`, `Running`: what the handler does and what runs natively belong to an
  executed permit without an outcome;
* `Facts`, `Heard`: a completion or an abort the Worker knows is in the Agent's
  journal, and the two exclude each other, so neither is ever rejected;
* `Once`, `Sealed`: a unit is executed again only after an accepted abort, and a
  sealed file has its execution, so no unit is collected twice;
* `Cursored`, `Collected`: finished permits are those before the cursor, the live one
  is at it, and only a fully collected request is uploaded;
* `Letters`: a message names an issued permit, and never a cursor ahead of the plan.

`PlacesAreGranted` is about the pipeline's limit. The limit is looked at only when a
request without a place gets a permit (`IssueHolding`); a request that uploads has
a finished permit, so it has its place (`PutChunkHolding`); a requeue keeps the
place; nothing else brings a request in (`LeavesHolding`) but the operator's resume
(`HoldingStep`). So the plain limit, which the code asserts, holds as long as
nothing was resumed (`AdmissionHoldsUnresumed`), and section 6 says what a resume
does to it.

An action is first shown to have one of a few effects (`Calm`, `Mails`, `Ends`,
`StartTaken`, `Binds`, ...); each effect keeps each part of the invariant. The
many actions thus share a dozen arguments, which `NextInv` joins.

`MarketDataIngestionProofs` proves, for every set of requests, processes, blocks
and executions (at least two), `IngestionInvariant` and from it `IngestionTypes`,
`CompletedStored`, `HandOver`, `Budget`, and `ContractSteps`: every step is a step
of `IngestionContract` or leaves its view alone. `CompletedIsStored` needs that a
process past its read-back saw every block in the store, which no later step takes
away (`Backed`). `WritersHandOver` needs that a call under way is the one its
process waits for (`Held`) and that a process without the lease has ended or lost it
by expiry (`Ended`). `BudgetBounded` needs the budget of each stage to be counted
with those before it (`Counted`), and that a process with a valid claim is in the
stage the row records (`Staged`).

`TOrderLifecycleProofs` proves, for every volume and any number of callbacks,
`LifecycleInvariant` and from it `LifecycleTypes`, `OnlyTheRemainder`,
`NeverOvertraded`, `ClosedTellsTruth` and `ZeroFillProven`. The properties need to
know that what the consumer has read is true of the broker although it may be old:

* `Placed`: the broker's order, the pending row and the command agree on whether the
  order was made, sent or closed, and it trades no more than its volume;
* `Reported`: each callback, each snapshot and each report of the message under way
  is a fact of the broker that no later step takes back (`Truth`), and an ended order
  in a full snapshot carries its cumulative fill (`Whole`), which a callback need not;
* `Persisted`: so is the persisted row, and trades and counted fills are fills.

`SettledTrue` is the argument of the code's comparison: an ended row whose traded
volume equals the number of its trades, with at least one trade or a zero-fill proof,
has *all* its trades, because an ended row carries the whole fill or nothing.
`ConvergedTrue` is that of closing: the counted fills are among the trades of the
ended attempts, so if they are as many they are the same. A step either moves an
order at the broker (`Moves`), makes the next attempt (`Succeeds`), closes a command
or the lifecycle, or leaves the orders alone (`Stays`); one lemma each.

The model counts executed volume as the number of fills (`Fills`, `Executed`): a fill
is one unit of volume. Every invariant and every action property that a passing run
checks is proved; what is checked by TLC only is liveness, which the prover cannot
treat: `CancelSettles`, `GateConverges`, `RowsSettle`, `AbortConverges`,
`FinishConverges`, and the fairness half of `MarketDataIngestion!ImplementsContract`
(its steps are proved by `ContractSteps`).

## 6. What the checks found

* `agent_place`. An order whose handler was interrupted after the native call is
  not settled by a snapshot that shows it: `_reconcile_snapshot_correlations`
  needs the broker id in the table of *completed* rows. The gate stays closed, with
  its reason "indeterminate commands", until an operator acts. The comment and the
  journal's docstring say a snapshot proves it.
* `outbox_tstop`. The T-trade stop writes `CANCELLED` into a pending order whose
  command is delivered. The order may then be submitted, and a `SUBMITTED` report
  cannot revise a terminal status.
* `outbox_forgotten`. A delivered command that expires, or an indeterminate ack,
  writes `RECONCILE_REQUIRED` over `CANCEL_REQUESTED`; the next report makes the
  order `SUBMITTED`, and no cancel command is enqueued for it.
* `history_stranded`. A request that is fully collected but not yet uploaded is
  delivered to the Agent only while it is `DELIVERED` or `RECEIVING`. When its
  delivery lease runs out it is requeued, and only the issue of a permit would
  deliver it again, which a request without units left never gets. It stays
  `QUEUED` for ever. The comment calls the requeue a recovery.
* `history_admission`. `resume_collection` queues a failed request again without
  asking for a place. It still has its permits, so `_admitted` counts it and the
  next issue takes it for admitted. Beside the request that took its place it makes
  `work()` raise "history pipeline admission invariant violated" for every session
  of the device, until a delivery lease runs out.

Observations that are not findings of a run. A local cancel that cannot prove a zero fill
(`trade_command_service.py:5231`) sets the pending order to `RECONCILE_REQUIRED`
and leaves the outbox row `QUEUED`, so it is still delivered; `HaltHolds` counts
it as not halted. The hard kill leaves `KILL_SWITCHED` on an order that is already
on its way; `SUBMITTED` reports do not revise it, only terminal ones do.

After an acknowledged emergency stop an order may still start in two ways. The
refresh loop reads the file in a thread and stores what it read later, so a read
from before the stop sets the cached status back until the next refresh. And an
order that passed validation and waits for the native lane is not stopped:
`execute_if_current` looks at its expiry, the broker at the connection and the
gate. `StopHolds` is stated for orders that come to validation after two refreshes;
no line of the repository promises more.

A zero-fill proof gets an order the status `RECONCILED_ZERO_FILL` only if its owner
is the T assistant (`report_processor.py:4975`), while replacing and closing ask it
of every owner: an exit that was cancelled without a fill is neither replaced nor
closed by the loop. The proof also asks that the intent has executed nothing, so an
attempt without a fill that follows a partly filled one never gets it. Broker
rejections are not among the statuses that can be proved to be zero fills
(`report_processor.py:221`). All three are in the model, and none of them endangers
its safety properties: the lifecycle waits.

An accepted START whose handler died before the native call keeps the slot: the code
has no proof that the call was not entered. A FINISH that was lost before its
request was requeued is not replayed, for the reason of `history_stranded`;
`FinishConverges` excepts it.

## 7. What is not modelled

The repository has some 370 000 lines, most of them strategies, backtests, research,
training, AI, monitoring, web and iOS code: numerical or presentational, without a
protocol of its own. The modules cover the parts where processes, messages, leases
and failures meet, so the share of mapped lines is small and will stay so.

Left out of the modelled parts: the delivery of `CANCEL_ORDER` and `EMERGENCY_STOP`
rows on the server's side; the content of ownership chains and of fill projections;
quarantine and repair; the snapshot fence's capture loop; prices, risk limits and
market sessions of a T replacement (its volume is any volume the risk check may
leave); the integrity checks on payloads, hashes and files of an upload (a choice);
retention and file clean-up; the endpoint by which an Agent reports the failure of a
whole request (`/agent/market-data/{id}/fail`, `agent_upload.py:295`; the Agent's
`_report_market_data_failure` and `_report_market_data_busy`, which would post to
it, have no caller); scheduled flows, realtime streams, exports and archives.
Database deadlocks are aborted transactions, that is, steps not taken.

Six hazards of `PROJECT.json` have no property: the order that waits in the native
lane while a stop completes, the report lost by a crash after `complete_command`,
the two results a cancel may end with, the lock order of the cancellation service,
the snapshot fence, and the START that was accepted but never entered. Each has its
reason there.

## 8. The plan

1. Proofs: the safety properties of the runs are proved. Next, with the modules
   below: their invariants, and the refinements of the one-step abstractions they
   replace.
2. T-order liveness: an expired intent is closed, under the fairness of its loop, the
   report consumer and the snapshots, except in the cases of section 6.
3. `AccountQuarantine`: quarantine, sticky markers, repair, on `CommandOutbox`;
   `CANCEL_ORDER` rows.
4. `SnapshotFence`: the capture and retry loop, refining the one-step snapshot of
   `AgentCommand`.
5. Archive sessions: appended once, closed once, on `WorkerLease`.
6. Conditional liquidation and exit plans: reservations against fills.
7. Bucket ledger, grid book and paper matching as operators, checked against
   reference definitions over bounded inputs.
