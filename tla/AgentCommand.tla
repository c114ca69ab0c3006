---------------------------- MODULE AgentCommand ----------------------------
(***************************************************************************)
(* The trading half of the QMT Agent: one process beside miniQMT that       *)
(* receives PLACE_ORDER, CANCEL_ORDER and EMERGENCY_STOP commands over a     *)
(* control session, journals each one in SQLite before it acts, runs the     *)
(* native call on one serialized lane and answers with a command ack.        *)
(*                                                                           *)
(* The process may crash, and the session may be lost, between any two       *)
(* steps.  After either, new orders stay refused until a complete broker     *)
(* snapshot has been journaled and acknowledged by the server: the local     *)
(* order gate.                                                               *)
(*                                                                           *)
(* Broker order ids are abstracted to the PLACE command that created the     *)
(* order, the reasons of a rejection to the three classes the server tells   *)
(* apart, and a snapshot to the moment the mutation fence accepts it.        *)
(***************************************************************************)
EXTENDS Integers, FiniteSets

CONSTANTS
  Place, Cancel, Stop,   \* message ids of the three kinds of command
  Target,                \* Target[k]: the PLACE command cancel k is aimed at
  Digests,               \* payload hashes a frame may carry
  SnapIds, NoSnap,       \* uuids of full snapshots, and "no snapshot"
  MaxConn, MaxGap,       \* bounds on native reconnects and callback gaps
  MaxCrash, MaxLoss,     \* bounds on process crashes and session losses
  MaxOperated            \* bound on the operator's emergency commands

Cmds == Place \cup Cancel \cup Stop

ASSUME KindsAssumption ==
  /\ Place \cap Cancel = {} /\ Place \cap Stop = {} /\ Cancel \cap Stop = {}
  /\ Target \in [Cancel -> Place]
ASSUME SnapAssumption == NoSnap \notin SnapIds
ASSUME BoundsAssumption ==
  /\ MaxConn \in Nat /\ MaxGap \in Nat /\ MaxCrash \in Nat /\ MaxLoss \in Nat
  /\ MaxOperated \in Nat

(***************************************************************************)
(* How a command ends.  PRE: refused for a reason the server reads as proof  *)
(* that nothing reached the broker.  GATE: refused by the order gate.        *)
(* FAIL: the native call did not report success, which proves nothing.       *)
(***************************************************************************)
Results == {"ACCEPTED", "PRE", "GATE", "FAIL"}

VARIABLES
  (* durable: the journal's commands table and the emergency-stop file *)
  status,    \* commands.status, ABSENT when there is no row
  digest,    \* commands.payload_hash
  result,    \* commands.result_json
  mapped,    \* PLACE commands whose broker order id is stored
  reports,   \* commands with a journaled order_errors / cancel_errors report
  stop,      \* the emergency-stop file is active
  pend,      \* the unacknowledged complete snapshot in the journal
  (* volatile: what the runtime knows of the stop file *)
  cache,     \* AgentRuntime._emergency_stop_status_cache is active
  seen,      \* what a refresh may have read: the file's states since the last one
  (* history *)
  rounds,    \* refreshes stored since the file changed, up to 2
  cleared,   \* the last change of the file was the operator's clear
  (* volatile: the runtime's handlers and the native lane *)
  conn,      \* offline or online: is there a control session
  task,      \* where the handler of a command is
  detached,  \* handlers whose session is gone while their journal write is queued
  outcome,   \* the result a handler holds
  nat,       \* where the native call of a command is
  wire,      \* command frames in flight on this session
  sent,      \* snapshots sent on this session, not acknowledged yet
  (* volatile: the local order gate *)
  required,      \* AgentRuntime._trading_reconciliation_required
  indeterminate, \* the recovery reason is journal_indeterminate_commands
  bound, boundConn, boundGap, \* the snapshot the gate waits for
  reconciled,    \* LiveBroker._trading_reconciled_generation
  connGen, gapGen, \* connection and callback-failure generations
  connected, healthy, \* XTTrading is connected; the callback pipeline is whole
  (* outside the Agent *)
  orders,    \* the broker's book
  submits,   \* how often order_stock took effect for a PLACE command
  expired,   \* commands whose expires_at has passed
  lost,      \* orders whose final event the Agent never observed
  covers,    \* covers[i]: the orders snapshot i shows in their final state
  acks,      \* final command acks sent so far (command_processing is not final)
  crashes, losses, operated

journalVars == <<status, digest, result, mapped, reports>>
stopVars == <<stop, cache, seen, rounds, cleared>>
taskVars == <<task, detached, outcome, nat>>
gateVars == <<required, indeterminate, bound, boundConn, boundGap, reconciled>>
nativeVars == <<connGen, gapGen, connected, healthy>>
linkVars == <<conn, wire, sent, pend>>
worldVars == <<orders, submits, expired, lost, covers>>
countVars == <<crashes, losses, operated>>
vars == <<journalVars, stopVars, taskVars, gateVars, nativeVars, linkVars, worldVars,
          acks, countVars>>

JournalTypes ==
  /\ status \in [Cmds -> {"ABSENT", "PROCESSING", "COMPLETED"}]
  /\ digest \in [Cmds -> Digests \cup {"NONE"}]
  /\ result \in [Cmds -> Results \cup {"NONE"}]
  /\ mapped \subseteq Place
  /\ reports \subseteq Cmds

StopTypes ==
  /\ stop \in BOOLEAN /\ cache \in BOOLEAN /\ cleared \in BOOLEAN
  /\ seen \subseteq BOOLEAN /\ rounds \in 0..2

TaskTypes ==
  /\ task \in [Cmds -> {"idle", "begun", "native", "stopping", "outcome",
                        "reject", "report", "ack"}]
  /\ detached \subseteq Cmds
  /\ outcome \in [Cmds -> Results \cup {"NONE"}]
  /\ nat \in [Cmds -> {"none", "queued", "checked"}]

LinkTypes ==
  /\ conn \in {"offline", "online"}
  /\ wire \subseteq Cmds \X Digests
  /\ sent \subseteq SnapIds
  /\ pend \in SnapIds \cup {NoSnap}
  /\ acks \subseteq Cmds \X (Results \cup {"NONE"})

GateTypes ==
  /\ required \in BOOLEAN /\ indeterminate \in BOOLEAN
  /\ bound \in SnapIds \cup {NoSnap}
  /\ boundConn \in Nat /\ boundGap \in Nat
  /\ reconciled \in Nat \cup {-1}
  /\ connGen \in Nat /\ gapGen \in Nat
  /\ connected \in BOOLEAN /\ healthy \in BOOLEAN

WorldTypes ==
  /\ orders \in [Place -> {"NONE", "LIVE", "FILLED", "CANCELLED"}]
  /\ submits \in [Place -> Nat]
  /\ expired \in [Cmds -> BOOLEAN]
  /\ lost \subseteq Place /\ covers \in [SnapIds -> SUBSET Place]
  /\ crashes \in Nat /\ losses \in Nat /\ operated \in Nat

\* Every variable has its type.
TypeOK ==
  /\ JournalTypes /\ StopTypes /\ TaskTypes
  /\ LinkTypes /\ GateTypes /\ WorldTypes

Init ==
  /\ status = [c \in Cmds |-> "ABSENT"]
  /\ digest = [c \in Cmds |-> "NONE"]
  /\ result = [c \in Cmds |-> "NONE"]
  /\ mapped = {} /\ reports = {} /\ pend = NoSnap
  /\ stop = FALSE /\ cache = FALSE /\ cleared = FALSE
  /\ seen = {} /\ rounds = 2
  /\ conn = "offline"
  /\ task = [c \in Cmds |-> "idle"] /\ detached = {}
  /\ outcome = [c \in Cmds |-> "NONE"]
  /\ nat = [c \in Cmds |-> "none"]
  /\ wire = {} /\ sent = {}
  /\ required = FALSE /\ indeterminate = FALSE
  /\ bound = NoSnap /\ boundConn = 0 /\ boundGap = 0 /\ reconciled = -1
  /\ connGen = 0 /\ gapGen = 0 /\ connected = FALSE /\ healthy = TRUE
  /\ orders = [p \in Place |-> "NONE"]
  /\ submits = [p \in Place |-> 0]
  /\ expired = [c \in Cmds |-> FALSE]
  /\ lost = {} /\ covers = [i \in SnapIds |-> {}]
  /\ acks = {} /\ crashes = 0 /\ losses = 0 /\ operated = 0

-----------------------------------------------------------------------------
(* The order gate.                                                           *)

\* Mutant: only PLACE rows count as unresolved.
ProcessingOrders == {c \in Place : status[c] = "PROCESSING"}

Processing == {c \in Cmds : status[c] = "PROCESSING"}

\* A command row nobody is working on: its native outcome is unknown.
Orphan(c) == status[c] = "PROCESSING" /\ task[c] = "idle" /\ nat[c] = "none"

\* LiveBroker.trading_requires_reconciliation
BrokerRequires == reconciled # connGen \/ ~healthy

\* _begin_trading_reconciliation closes both gates and forgets the snapshot.
CloseGate ==
  /\ required' = TRUE /\ indeterminate' = FALSE
  /\ bound' = NoSnap /\ boundConn' = 0 /\ boundGap' = 0
  /\ reconciled' = -1

\* _refresh_journal_reconciliation_gate
RefreshGate ==
  IF indeterminate /\ Processing = {}
  THEN /\ bound' = NoSnap /\ boundConn' = 0 /\ boundGap' = 0
       /\ indeterminate' = FALSE
       /\ UNCHANGED <<required, reconciled>>
  ELSE UNCHANGED gateVars

-----------------------------------------------------------------------------
(* The command handler, _handle_command.                                     *)

\* The server sends only commands that have not expired, and a cancel only for
\* an order that has a broker order id.
Deliver(c, d) ==
  /\ conn = "online" /\ ~expired[c]
  /\ c \in Cancel => orders[Target[c]] # "NONE"
  /\ wire' = wire \cup {<<c, d>>}
  /\ UNCHANGED <<journalVars, stopVars, taskVars, gateVars, nativeVars, conn,
                 sent, pend, worldVars, acks, countVars>>

\* Mutant: a row still PROCESSING is answered as a failure.
AnswerFails(c, d) ==
  IF digest[c] # d THEN {}
  ELSE {<<c, IF status[c] = "COMPLETED" THEN result[c] ELSE "FAIL">>}

\* What a repeated frame is answered: the stored result once there is one.  A
\* frame whose payload does not match the row is refused for that reason, and
\* one whose row is PROCESSING is told so: neither is a final ack.
Answer(c, d) ==
  IF digest[c] = d /\ status[c] = "COMPLETED" THEN {<<c, result[c]>>} ELSE {}

\* Mutant: a PROCESSING row is taken up again.
BeginRetries(c, d) ==
  /\ conn = "online" /\ <<c, d>> \in wire
  /\ wire' = wire \ {<<c, d>>}
  /\ IF status[c] # "COMPLETED"
     THEN /\ status' = [status EXCEPT ![c] = "PROCESSING"]
          /\ digest' = [digest EXCEPT ![c] = d]
          /\ task' = [task EXCEPT ![c] = "begun"]
          /\ acks' = acks
     ELSE /\ acks' = acks \cup Answer(c, d)
          /\ UNCHANGED <<status, digest, task>>
  /\ UNCHANGED <<result, mapped, reports, stopVars, detached, outcome, nat,
                 gateVars, nativeVars, conn, sent, pend, worldVars, countVars>>

\* begin_command: the first frame inserts a PROCESSING row and is handled; any
\* later one is answered from the row.
Begin(c, d) ==
  /\ conn = "online" /\ <<c, d>> \in wire
  /\ wire' = wire \ {<<c, d>>}
  /\ IF status[c] = "ABSENT"
     THEN /\ status' = [status EXCEPT ![c] = "PROCESSING"]
          /\ digest' = [digest EXCEPT ![c] = d]
          /\ task' = [task EXCEPT ![c] = "begun"]
          /\ acks' = acks
     ELSE /\ acks' = acks \cup Answer(c, d)
          /\ UNCHANGED <<status, digest, task>>
  /\ UNCHANGED <<result, mapped, reports, stopVars, detached, outcome, nat,
                 gateVars, nativeVars, conn, sent, pend, worldVars, countVars>>

\* The checks of _handle_command in their order; ready is what the market
\* stream says, which only matters for an order.  Of the emergency stop they
\* read the cached status, not the file.
Rejection(c, ready) ==
  CASE expired[c]                 -> "PRE"
    [] c \in Place /\ required    -> "GATE"
    [] c \in Place /\ ~ready      -> "PRE"
    [] c \notin Cancel /\ cache   -> "PRE"
    [] OTHER                      -> "NONE"

Validate(c, ready) ==
  /\ task[c] = "begun"
  /\ LET r == Rejection(c, ready)
     IN  IF r # "NONE"
         THEN /\ outcome' = [outcome EXCEPT ![c] = r]
              /\ task' = [task EXCEPT ![c] = "reject"]
              /\ UNCHANGED nat
         ELSE IF c \in Stop
         THEN /\ task' = [task EXCEPT ![c] = "stopping"]
              /\ UNCHANGED <<outcome, nat>>
         ELSE /\ nat' = [nat EXCEPT ![c] = "queued"]
              /\ task' = [task EXCEPT ![c] = "native"]
              /\ UNCHANGED outcome
  /\ UNCHANGED <<journalVars, stopVars, detached, gateVars, nativeVars,
                 linkVars, worldVars, acks, countVars>>

-----------------------------------------------------------------------------
(* The emergency stop: a file, and the runtime's cached view of it.          *)

\* The file is replaced by activate or unlinked by clear.
WriteStop(active) ==
  /\ stop' = active
  /\ seen' = seen \cup {active}
  /\ rounds' = IF active = stop THEN rounds ELSE 0
  /\ cleared' = ~active

\* activate, queued by the handler on the journal worker, writes the file; the
\* handler then sets the cached status.  The write of a cancelled handler still
\* runs, and nobody sets the cache or an outcome.
Activate(e) ==
  /\ e \in Stop /\ task[e] = "stopping"
  /\ WriteStop(TRUE)
  /\ IF e \in detached
     THEN /\ task' = [task EXCEPT ![e] = "idle"]
          /\ detached' = detached \ {e}
          /\ UNCHANGED <<cache, outcome>>
     ELSE /\ cache' = TRUE
          /\ outcome' = [outcome EXCEPT ![e] = "ACCEPTED"]
          /\ task' = [task EXCEPT ![e] = "outcome"]
          /\ UNCHANGED detached
  /\ UNCHANGED <<journalVars, nat, gateVars, nativeVars, linkVars, worldVars,
                 acks, countVars>>

\* _emergency_stop_refresh_loop: a thread reads the file, and the loop stores
\* what it read when it gets its turn.  The read is younger than the last
\* refresh; the file may have changed since.
Refresh(v) ==
  /\ conn = "online" /\ v \in seen
  /\ cache' = v /\ seen' = {stop}
  /\ rounds' = IF rounds = 2 THEN 2 ELSE rounds + 1
  /\ UNCHANGED <<journalVars, stop, cleared, taskVars, gateVars, nativeVars,
                 linkVars, worldVars, acks, countVars>>

\* The command line: emergency-stop and emergency-clear, in another process.
OperatorWrites(active) ==
  /\ operated < MaxOperated /\ operated' = operated + 1
  /\ WriteStop(active)
  /\ UNCHANGED <<journalVars, cache, taskVars, gateVars, nativeVars, linkVars,
                 worldVars, acks, crashes, losses>>

-----------------------------------------------------------------------------
(* The native lane, _XTTradingPriorityWorker, and LiveBroker.execute.        *)

LaneIdle == \A c \in Cmds : nat[c] \in {"none", "queued"}

\* The lane runs one call at a time and takes cancels first.
MayStart(c) ==
  /\ nat[c] = "queued" /\ LaneIdle
  /\ c \in Cancel \/ \A k \in Cancel : nat[k] # "queued"

\* A result goes to the waiting handler; without one it is dropped.  A refusal
\* by the gate makes the handler close the runtime's gate as well.
Return(c, r, next) ==
  /\ nat' = [nat EXCEPT ![c] = "none"]
  /\ IF task[c] = "native"
     THEN /\ task' = [task EXCEPT ![c] = next]
          /\ outcome' = [outcome EXCEPT ![c] = r]
          /\ IF r = "GATE" THEN CloseGate ELSE UNCHANGED gateVars
     ELSE UNCHANGED <<task, outcome, gateVars>>
  /\ UNCHANGED detached

\* execute returns before it touches the broker: expired, not connected, gate
\* closed, or one of place_order's local preflight checks.
NativeRefuse(c, r) ==
  /\ MayStart(c)
  /\ \/ r = "PRE"  /\ (expired[c] \/ ~connected \/ c \in Place)
     \/ r = "GATE" /\ ~expired[c] /\ connected /\ c \in Place /\ BrokerRequires
  /\ Return(c, r, IF expired[c] THEN "reject" ELSE "outcome")
  /\ UNCHANGED <<journalVars, stopVars, nativeVars, linkVars, worldVars, acks,
                 countVars>>

\* Every check of execute passed; the call itself comes next.
NativeCheck(c) ==
  /\ MayStart(c)
  /\ ~expired[c] /\ connected
  /\ c \in Place => ~BrokerRequires
  /\ nat' = [nat EXCEPT ![c] = "checked"]
  /\ UNCHANGED <<journalVars, stopVars, task, detached, outcome, gateVars,
                 nativeVars, linkVars, worldVars, acks, countVars>>

\* Mutant: a failed call is reported as a refusal before execution.
CallOutcomePre(success) == IF success THEN "ACCEPTED" ELSE "PRE"

\* Mutant: every call that returned counts as accepted.
CallOutcomeAccepted(success) == "ACCEPTED"

\* The outcome the handler is given for a call that was made.
CallOutcome(success) == IF success THEN "ACCEPTED" ELSE "FAIL"

\* order_stock / cancel_order_stock and its return.  A call that does not
\* report success may still have taken effect; what a cancel request achieves
\* is an OrderEvent.
NativeCall(c, effect, success) ==
  /\ nat[c] = "checked"
  /\ success => effect
  /\ IF c \in Place /\ effect
     THEN /\ submits' = [submits EXCEPT ![c] = @ + 1]
          /\ orders' = [orders EXCEPT ![c] = "LIVE"]
     ELSE UNCHANGED <<submits, orders>>
  /\ Return(c, CallOutcome(success), "outcome")
  /\ UNCHANGED <<journalVars, stopVars, nativeVars, linkVars, expired, lost,
                 covers, acks, countVars>>

-----------------------------------------------------------------------------
(* The end of the handler: persist, report, ack.                             *)

\* complete_command changes only a row that is still PROCESSING.
Complete(c) ==
  /\ task[c] \in {"outcome", "reject"}
  /\ IF status[c] = "PROCESSING"
     THEN /\ status' = [status EXCEPT ![c] = "COMPLETED"]
          /\ result' = [result EXCEPT ![c] = outcome[c]]
     ELSE UNCHANGED <<status, result>>
  /\ mapped' = IF c \in Place /\ outcome[c] = "ACCEPTED"
               THEN mapped \cup {c} ELSE mapped
  /\ task' = [task EXCEPT ![c] = IF task[c] = "reject" THEN "report" ELSE "ack"]
  /\ UNCHANGED <<digest, reports, stopVars, detached, outcome, nat, gateVars,
                 nativeVars, linkVars, worldVars, acks, countVars>>

\* add_report commits the rejection report on its own, after the row.
AddReport(c) ==
  /\ task[c] = "report"
  /\ reports' = reports \cup {c}
  /\ task' = [task EXCEPT ![c] = "ack"]
  /\ UNCHANGED <<status, digest, result, mapped, stopVars, detached, outcome, nat,
                 gateVars, nativeVars, linkVars, worldVars, acks, countVars>>

\* The handler acks its own result; a detached one has nobody to ack to.
Ack(c) ==
  /\ task[c] = "ack"
  /\ task' = [task EXCEPT ![c] = "idle"]
  /\ outcome' = [outcome EXCEPT ![c] = "NONE"]
  /\ detached' = detached \ {c}
  /\ IF c \in detached
     THEN UNCHANGED <<acks, gateVars>>
     ELSE acks' = acks \cup {<<c, outcome[c]>>} /\ RefreshGate
  /\ UNCHANGED <<journalVars, stopVars, nat, nativeVars, linkVars, worldVars,
                 countVars>>

-----------------------------------------------------------------------------
(* Full snapshots and their acknowledgement.                                 *)

Terminal == {"FILLED", "CANCELLED"}

\* Mutant: an order that filled does not settle its interrupted cancel.
ReconciledByCancel(c) ==
  /\ status[c] = "PROCESSING"
  /\ \/ c \in Cancel /\ orders[Target[c]] = "CANCELLED"
     \/ c \in Place /\ orders[c] # "NONE" /\ c \in mapped

\* _reconcile_snapshot_correlations: an interrupted cancel is settled by the
\* terminal state of its order, and a PLACE row only when the broker order id
\* it would learn from the snapshot is already stored for it.
Reconciled(c) ==
  /\ status[c] = "PROCESSING"
  /\ \/ c \in Cancel /\ orders[Target[c]] \in Terminal
     \/ c \in Place /\ orders[c] # "NONE" /\ c \in mapped

ReconciledResult(c) ==
  IF c \in Place \/ orders[Target[c]] = "CANCELLED" THEN "ACCEPTED" ELSE "FAIL"

\* _queue_full_snapshot, up to the journaled report: correlate, retire the
\* older complete snapshot, and bind the gate to this one while it is closed.
\* Queued command writes run before it on the journal worker.  recon is the
\* snapshot of the session start and of the readiness loop; the other one is
\* periodic.
Snapshot(recon) ==
  /\ conn = "online" /\ connected /\ LaneIdle /\ detached = {}
  /\ recon => required /\ bound = NoSnap
  /\ \E i \in SnapIds \ (sent \cup {pend, bound}) :
       /\ pend' = i
       /\ sent' = sent \cup {i}
       /\ covers' = [covers EXCEPT ![i] = {p \in Place : orders[p] \in Terminal}]
       /\ IF required
          THEN bound' = i /\ boundConn' = connGen /\ boundGap' = gapGen
          ELSE UNCHANGED <<bound, boundConn, boundGap>>
  /\ indeterminate' = (indeterminate /\ ~recon)
  /\ status' = [c \in Cmds |-> IF Reconciled(c) THEN "COMPLETED" ELSE status[c]]
  /\ result' = [c \in Cmds |-> IF Reconciled(c) THEN ReconciledResult(c)
                              ELSE result[c]]
  /\ UNCHANGED <<digest, mapped, reports, stopVars, taskVars, required,
                 reconciled, nativeVars, conn, wire, orders, submits, expired,
                 lost, acks, countVars>>

\* A snapshot that is incomplete, unstable or fails closes the gate, and the
\* native session is marked disconnected.
SnapshotFails ==
  /\ conn = "online" /\ connected /\ LaneIdle /\ connGen < MaxConn
  /\ CloseGate
  /\ connected' = FALSE
  /\ UNCHANGED <<journalVars, stopVars, taskVars, connGen, gapGen, healthy,
                 linkVars, worldVars, acks, countVars>>

\* Mutant: callbacks lost after the capture go unnoticed.
SameConnection == boundConn = connGen

\* mark_trading_reconciled: nothing was reconnected and no callback was lost
\* since the snapshot was captured.
SnapshotCurrent == boundConn = connGen /\ boundGap = gapGen

\* The server's REPORT_ACK for snapshot i: _report_ack_loop and
\* _acknowledge_trading_reconciliation_snapshot.
AckSnapshot(i) ==
  /\ conn = "online" /\ i \in sent
  /\ sent' = sent \ {i}
  /\ lost' = lost \ covers[i]
  /\ pend' = IF pend = i THEN NoSnap ELSE pend
  /\ IF ~required \/ bound # i
     THEN UNCHANGED <<gateVars, healthy>>
     ELSE IF Processing # {}
     THEN /\ indeterminate' = TRUE
          /\ UNCHANGED <<required, bound, boundConn, boundGap, reconciled,
                         healthy>>
     ELSE IF SnapshotCurrent
     THEN /\ required' = FALSE /\ indeterminate' = FALSE
          /\ bound' = NoSnap /\ boundConn' = 0 /\ boundGap' = 0
          /\ reconciled' = connGen /\ healthy' = TRUE
     ELSE CloseGate /\ UNCHANGED healthy
  /\ UNCHANGED <<journalVars, stopVars, taskVars, connGen, gapGen, connected,
                 conn, wire, orders, submits, expired, covers, acks, countVars>>

\* Mutant: only a session that is down now is noticed.
NoticeDown ==
  /\ conn = "online" /\ ~required /\ ~connected
  /\ CloseGate
  /\ UNCHANGED <<journalVars, stopVars, taskVars, nativeVars, linkVars,
                 worldVars, acks, countVars>>

\* The readiness loop notices that the native session is gone, was replaced,
\* or lost callbacks; or that an indeterminate command got its evidence.
NoticeUnready ==
  /\ conn = "online" /\ ~required /\ (~connected \/ BrokerRequires)
  /\ CloseGate
  /\ UNCHANGED <<journalVars, stopVars, taskVars, nativeVars, linkVars,
                 worldVars, acks, countVars>>

NoticeResolved ==
  /\ conn = "online" /\ indeterminate /\ Processing = {}
  /\ RefreshGate
  /\ UNCHANGED <<journalVars, stopVars, taskVars, nativeVars, linkVars,
                 worldVars, acks, countVars>>

-----------------------------------------------------------------------------
(* Sessions, crashes, retention.                                             *)

\* Mutant: the retired snapshot slot is resent like a report.
ConnectResendsAll ==
  /\ conn = "offline" /\ conn' = "online"
  /\ CloseGate
  /\ sent' = {pend} /\ seen' = {stop}
  /\ UNCHANGED <<journalVars, stop, cache, rounds, cleared, taskVars,
                 nativeVars, wire, pend, worldVars, acks, countVars>>

\* _run_session: an authenticated session starts with a closed gate, the
\* journaled reports are sent again, and the loops of the session start.
Connect ==
  /\ conn = "offline" /\ conn' = "online"
  /\ CloseGate
  /\ sent' = {pend} \ {NoSnap} /\ seen' = {stop}
  /\ UNCHANGED <<journalVars, stop, cache, rounds, cleared, taskVars,
                 nativeVars, wire, pend, worldVars, acks, countVars>>

\* The session ends and its handlers are cancelled.  A journal write that was
\* queued still runs; dropped are the handlers that had not queued it.  A
\* native call goes on without a handler to return to.
SessionLost(dropped) ==
  /\ conn = "online" /\ losses < MaxLoss
  /\ losses' = losses + 1
  /\ conn' = "offline" /\ wire' = {} /\ sent' = {} /\ seen' = {}
  /\ dropped \subseteq {c \in Cmds : task[c] \in {"stopping", "outcome"}}
  /\ LET ends == dropped \cup {c \in Cmds : task[c] \in {"begun", "native", "ack"}}
     IN  /\ task' = [c \in Cmds |-> IF c \in ends THEN "idle" ELSE task[c]]
         /\ outcome' = [c \in Cmds |-> IF c \in ends THEN "NONE" ELSE outcome[c]]
         /\ detached' = {c \in Cmds : task'[c] # "idle"}
  /\ UNCHANGED <<journalVars, stop, cache, rounds, cleared, nat, gateVars,
                 nativeVars, pend, worldVars, acks, crashes, operated>>

\* Mutant: the emergency stop is only kept in memory.
SurvivesWithoutStop ==
  /\ stop' = FALSE
  /\ UNCHANGED <<status, digest, result, mapped, reports, pend>>

\* What the disk keeps: the journal, the stop file and the pending snapshot.
Survives == UNCHANGED <<journalVars, stop, pend>>

\* The process dies and starts again: AgentRuntime.__init__, which reads the
\* stop file.
Crash ==
  /\ crashes < MaxCrash
  /\ crashes' = crashes + 1
  /\ conn' = "offline" /\ wire' = {} /\ sent' = {}
  /\ task' = [c \in Cmds |-> "idle"] /\ detached' = {}
  /\ outcome' = [c \in Cmds |-> "NONE"]
  /\ nat' = [c \in Cmds |-> "none"]
  /\ required' = FALSE /\ indeterminate' = FALSE
  /\ bound' = NoSnap /\ boundConn' = 0 /\ boundGap' = 0 /\ reconciled' = -1
  /\ connGen' = 0 /\ gapGen' = 0 /\ connected' = FALSE /\ healthy' = TRUE
  /\ Survives
  /\ cache' = stop' /\ seen' = {} /\ rounds' = 2
  /\ UNCHANGED <<cleared, worldVars, acks, losses, operated>>

\* prune: a completed row goes after at least seven days, when the command has
\* long expired and no frame or handler of it can be left.
Prune(c) ==
  /\ status[c] = "COMPLETED" /\ expired[c]
  /\ task[c] = "idle" /\ nat[c] = "none" /\ \A d \in Digests : <<c, d>> \notin wire
  /\ status' = [status EXCEPT ![c] = "ABSENT"]
  /\ digest' = [digest EXCEPT ![c] = "NONE"]
  /\ result' = [result EXCEPT ![c] = "NONE"]
  /\ mapped' = mapped \ {c}
  /\ UNCHANGED <<reports, stopVars, taskVars, gateVars, nativeVars, linkVars,
                 worldVars, acks, countVars>>

-----------------------------------------------------------------------------
(* The broker and the clock.                                                 *)

Expire(c) ==
  /\ ~expired[c]
  /\ expired' = [expired EXCEPT ![c] = TRUE]
  /\ UNCHANGED <<journalVars, stopVars, taskVars, gateVars, nativeVars, linkVars,
                 orders, submits, lost, covers, acks, countVars>>

\* An order ends.  The callback is observed unless XTTrading is disconnected or
\* the callback pipeline fails on it.
OrderEvent(p, s, fails) ==
  /\ orders[p] = "LIVE" /\ s \in Terminal
  /\ fails => connected /\ gapGen < MaxGap
  /\ orders' = [orders EXCEPT ![p] = s]
  /\ lost' = IF connected /\ ~fails THEN lost ELSE lost \cup {p}
  /\ gapGen' = IF fails THEN gapGen + 1 ELSE gapGen
  /\ healthy' = (healthy /\ ~fails)
  /\ UNCHANGED <<journalVars, stopVars, taskVars, gateVars, connGen, connected,
                 linkVars, submits, expired, covers, acks, countVars>>

Disconnect ==
  /\ connected /\ connGen < MaxConn
  /\ connected' = FALSE
  /\ UNCHANGED <<journalVars, stopVars, taskVars, gateVars, connGen, gapGen,
                 healthy, linkVars, worldVars, acks, countVars>>

\* ensure_trading_ready, on the native lane.
Reconnect ==
  /\ ~connected /\ LaneIdle
  /\ connected' = TRUE /\ connGen' = connGen + 1
  /\ UNCHANGED <<journalVars, stopVars, taskVars, gateVars, gapGen, healthy,
                 linkVars, worldVars, acks, countVars>>

-----------------------------------------------------------------------------
Handler(c) ==
  \/ \E ready \in BOOLEAN : Validate(c, ready)
  \/ Activate(c) \/ Complete(c) \/ AddReport(c) \/ Ack(c)

NativeLane(c) ==
  \/ \E r \in {"PRE", "GATE"} : NativeRefuse(c, r)
  \/ NativeCheck(c)
  \/ \E effect, success \in BOOLEAN : NativeCall(c, effect, success)

Next ==
  \/ \E c \in Cmds, d \in Digests : Deliver(c, d) \/ Begin(c, d)
  \/ \E c \in Cmds : Handler(c) \/ NativeLane(c) \/ Prune(c) \/ Expire(c)
  \/ \E recon \in BOOLEAN : Snapshot(recon)
  \/ SnapshotFails \/ NoticeUnready \/ NoticeResolved
  \/ \E i \in SnapIds : AckSnapshot(i)
  \/ \E dropped \in SUBSET Cmds : SessionLost(dropped)
  \/ Connect \/ Crash \/ Disconnect \/ Reconnect
  \/ \E v \in BOOLEAN : Refresh(v) \/ OperatorWrites(v)
  \/ \E p \in Place, s \in Terminal, fails \in BOOLEAN : OrderEvent(p, s, fails)

Spec == Init /\ [][Next]_vars

(***************************************************************************)
(* The loops of the runtime keep running, the native lane finishes what it   *)
(* starts, and the server acks what it gets.  The ack of the snapshot the    *)
(* gate is bound to is strongly fair: a later snapshot may replace it, but   *)
(* snapshots are a heartbeat apart and an ack is one round trip.             *)
(***************************************************************************)
GateAck == \E i \in SnapIds : i = bound /\ AckSnapshot(i)

Fairness ==
  /\ \A c \in Cmds : WF_vars(Handler(c)) /\ WF_vars(NativeLane(c))
  /\ \A c \in Cmds, d \in Digests : WF_vars(Begin(c, d))
  /\ \A i \in SnapIds : WF_vars(AckSnapshot(i))
  /\ SF_vars(GateAck)
  /\ \A recon \in BOOLEAN : WF_vars(Snapshot(recon))
  /\ WF_vars(NoticeUnready) /\ WF_vars(NoticeResolved)
  /\ WF_vars(Connect) /\ WF_vars(Reconnect)

FairSpec == Spec /\ Fairness

-----------------------------------------------------------------------------
(* Safety.                                                                   *)

\* One PLACE command submits at most one order, whatever is redelivered,
\* interrupted, pruned or retried.
AtMostOnce == \A p \in Place : submits[p] <= 1

\* What the server books as proof of "nothing reached the broker" is true: a
\* command acked or reported with a pre-execution reason, and one refused by
\* the gate, has submitted nothing and has no call that still could.
PreRejectionTruthful ==
  \A p \in Place :
    (p \in reports \/ <<p, "PRE">> \in acks \/ <<p, "GATE">> \in acks)
      => submits[p] = 0 /\ nat[p] = "none"

\* While the runtime's gate is open on a session, every PROCESSING row belongs
\* to a handler of that session: no order is placed next to one with an unknown
\* outcome.
OpenGateKnown ==
  conn = "online" /\ ~required => \A c \in Cmds : ~Orphan(c)

\* However often a PLACE frame is repeated, every final answer is the same.
PlaceAcksAgree ==
  \A p \in Place : \A r, s \in Results :
    <<p, r>> \in acks /\ <<p, s>> \in acks => r = s

\* No order passes the checks of execute while the final event of an earlier
\* one was missed and no acknowledged snapshot has made up for it.
NoOrderOnMissedEvent ==
  [][\A p \in Place : nat[p] = "queued" /\ nat'[p] = "checked" => lost = {}]_vars

\* An emergency stop the server has been told of, and no operator has cleared
\* since, keeps orders from passing validation once the status was refreshed
\* twice: the first refresh may have read the file before the stop.  A restart
\* reads the file itself, so a later process refuses from its start.
StopHolds ==
  [][\A e \in Stop, p \in Place :
       /\ <<e, "ACCEPTED">> \in acks /\ ~cleared /\ rounds = 2
       /\ task[p] = "begun"
       => task'[p] # "native"]_vars

\* The Agent keeps the contract the server relies on: what was submitted, and
\* the final acks of PLACE commands, behave as OrderContract says.
Contract == INSTANCE OrderContract
              WITH told <- {a \in acks : a[1] \in Place}
ImplementsContract == Contract!Spec

-----------------------------------------------------------------------------
(* Liveness.                                                                 *)

\* A row nobody works on and no snapshot can settle.
Unsettled(c) == Orphan(c) /\ ~Reconciled(c)

\* Both halves of the order gate are open on a live session.
GateOpen == conn = "online" /\ ~required /\ ~BrokerRequires

\* Once nothing disturbs it the gate opens for good, unless a command with an
\* unknown outcome is left.
GateConverges == <>[](GateOpen \/ \E c \in Cmds : Unsettled(c))

\* An interrupted cancel is settled once its order has ended.
CancelSettles ==
  \A k \in Cancel :
    (status[k] = "PROCESSING" /\ orders[Target[k]] \in Terminal)
      ~> status[k] # "PROCESSING"

\* What the comment in _acknowledge_trading_reconciliation_snapshot says of an
\* interrupted PLACE_ORDER: a complete broker snapshot that shows the order
\* settles its row.
PlaceSettles ==
  \A p \in Place :
    (status[p] = "PROCESSING" /\ orders[p] # "NONE") ~> status[p] # "PROCESSING"

=============================================================================
