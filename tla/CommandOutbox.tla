---------------------------- MODULE CommandOutbox ----------------------------
(***************************************************************************)
(* The server's side of live PLACE_ORDER delivery: the TradeCommandOutbox    *)
(* row and the PendingTradeOrder row of each command, the control session    *)
(* that claims, buffers and physically sends frames, the acks and broker     *)
(* reports that come back, the expiry sweeper, the cancellation services and *)
(* the two stop switches of an account.                                      *)
(*                                                                           *)
(* An action is one database transaction, except where the code reads rows   *)
(* without locking them: the stop switches are split into their two reads    *)
(* and their write.  Control sessions come and go, so buffered frames, frames *)
(* under way and acks are lost or overtake each other at any time.  The Agent *)
(* at the other end is what OrderContract promises.                          *)
(***************************************************************************)
EXTENDS Integers, FiniteSets

CONSTANTS Place,       \* live PLACE_ORDER commands of one account and device
          TOrder,      \* those that belong to an open T-trade lifecycle
          MaxAttempts  \* bound on the deliveries of one command

ASSUME OutboxAssumption == TOrder \subseteq Place /\ MaxAttempts \in Nat \ {0}

\* Outcomes on which the strategy releases the reserved cash or position.
Proofs == {"EXPIRED", "REJECTED", "CANCELLED"}
RowStates == {"QUEUED", "DELIVERED", "ACKNOWLEDGED", "RECONCILE_REQUIRED",
              "CANCELLED_KILL"} \cup Proofs
PendingStates == {"QUEUED", "CANCEL_REQUESTED", "KILL_SWITCHED", "SUBMITTED",
                  "FILLED", "RECONCILE_REQUIRED"} \cup Proofs

\* Reasons of a refusal the server accepts as a pre-execution proof.
PreReasons == {"command_expired", "pre_execution"}
\* The Agent's own refusals: those, and the order gate's.
Refusals == PreReasons \cup {"GATE"}
Answers == Refusals \cup {"ACCEPTED", "FAIL"}
Frames == Place \X (1..MaxAttempts)
Acks == Place \X (0..MaxAttempts) \X (Answers \cup {"PROCESSING"})
NoStop == [kind |-> "none", read |-> FALSE, orders |-> {}, rows |-> {}]

VARIABLES
  row,       \* TradeCommandOutbox.delivery_status
  pending,   \* PendingTradeOrder.status
  why,       \* PendingTradeOrder.status_reason, as far as a proof needs it
  known,     \* PendingTradeOrder.broker_order_id is set
  attempts,  \* TradeCommandOutbox.attempts
  acked,     \* TradeCommandOutbox.acknowledged_at is set
  fresh,     \* delivered_at is within the redelivery lease
  ready,     \* AccountExecutionControl.reconcile_status = READY
  expired,   \* expires_at has passed
  stop,      \* a stop switch's transaction, with the rows it has read
  buffer,    \* claimed frames waiting for the physical send
  wire,      \* frames on their way to the Agent
  ackq,      \* acks on their way to the server
  agent,     \* what the Agent does with a command
  answer,    \* the Agent's final answer
  submits,   \* orders the Agent submitted for a command
  heard,     \* history: a broker's report on the order was converged
  halted     \* history: what took hold of the command: a cancel that waits for
             \* the broker's id, one that was sent, or a stop

rowVars == <<row, pending, why, known, attempts, acked, fresh, heard, halted>>
linkVars == <<buffer, wire, ackq>>
agentVars == <<agent, answer, submits>>
vars == <<rowVars, ready, expired, stop, linkVars, agentVars>>

RowTypes ==
  /\ row \in [Place -> RowStates]
  /\ pending \in [Place -> PendingStates]
  /\ why \in [Place -> PreReasons \cup {"NONE", "before_delivery", "send_cancelled"}]
  /\ known \in [Place -> BOOLEAN] /\ acked \in [Place -> BOOLEAN]
  /\ fresh \in [Place -> BOOLEAN] /\ expired \in [Place -> BOOLEAN]
  /\ heard \in [Place -> BOOLEAN] /\ ready \in BOOLEAN
  /\ halted \in [Place -> {"no", "cancel", "sent", "stop"}]
  /\ attempts \in [Place -> 0..MaxAttempts]

ReaderTypes ==
  stop \in [kind : {"none", "kill", "t_stop"}, read : BOOLEAN,
            orders : SUBSET Place, rows : SUBSET Place]

LinkTypes == buffer \subseteq Frames /\ wire \subseteq Frames /\ ackq \subseteq Acks

AgentTypes ==
  /\ agent \in [Place -> {"unseen", "working", "done"}]
  /\ answer \in [Place -> Answers \cup {"NONE"}]
  /\ submits \in [Place -> Nat]

\* Every variable has its type.
TypeOK == RowTypes /\ ReaderTypes /\ LinkTypes /\ AgentTypes

Init ==
  /\ row = [p \in Place |-> "QUEUED"] /\ pending = [p \in Place |-> "QUEUED"]
  /\ why = [p \in Place |-> "NONE"] /\ known = [p \in Place |-> FALSE]
  /\ attempts = [p \in Place |-> 0] /\ acked = [p \in Place |-> FALSE]
  /\ fresh = [p \in Place |-> FALSE] /\ expired = [p \in Place |-> FALSE]
  /\ halted = [p \in Place |-> "no"] /\ ready = TRUE
  /\ stop = NoStop /\ heard = [p \in Place |-> FALSE]
  /\ buffer = {} /\ wire = {} /\ ackq = {}
  /\ agent = [p \in Place |-> "unseen"] /\ answer = [p \in Place |-> "NONE"]
  /\ submits = [p \in Place |-> 0]

\* _lock_command_account_first: delivery, acks, expiry and reports lock the
\* account's control row before the command; the account kill holds that row
\* while it runs.  Cancellations and the T-trade stop do not take it.
AccountFree == stop.kind # "kill"

-----------------------------------------------------------------------------
(* _transition_place_order_command: one outcome, written to both rows.       *)

\* safe_pre_execution_state; an order of an open T lifecycle has its own rule.
Safe(p, status, reason, proven) ==
  /\ ~known[p]
  /\ IF p \in TOrder
     THEN /\ proven
          /\ \/ pending[p] \in {"QUEUED", "CANCEL_REQUESTED"}
             \/ pending[p] \in {"EXPIRED", "REJECTED"} /\ why[p] = reason
     ELSE \/ pending[p] = status /\ why[p] = reason
          \/ /\ proven
             /\ \/ pending[p] = "QUEUED"
                \/ /\ status = "EXPIRED" /\ reason = "send_cancelled"
                   /\ pending[p] = "CANCEL_REQUESTED"
                \/ /\ status = "EXPIRED" /\ reason = "command_expired"
                   /\ pending[p] = "RECONCILE_REQUIRED"

\* A terminal status needs the proof, and a contradiction in the ownership
\* records turns any status into RECONCILE_REQUIRED.
Transition(p, status, reason, proven) ==
  \E s \in {status, "RECONCILE_REQUIRED"} :
    /\ s \in Proofs => Safe(p, status, reason, proven)
    /\ row' = [row EXCEPT ![p] = s]
    /\ pending' = [pending EXCEPT ![p] = s]
    /\ why' = [why EXCEPT ![p] = IF s = "RECONCILE_REQUIRED" THEN "NONE" ELSE reason]

-----------------------------------------------------------------------------
(* Delivery: _next_command, the outbound buffer, the physical send.          *)

\* A queued row, or a delivered one whose lease ran out, is claimed for this
\* session.  While another delivery is fresh, it waits.
Claim(p) ==
  /\ AccountFree /\ ready
  /\ row[p] \in {"QUEUED", "DELIVERED"} /\ ~expired[p]
  /\ \A q \in Place : row[q] = "DELIVERED" /\ ~expired[q] => ~fresh[q]
  /\ attempts[p] < MaxAttempts
  /\ row' = [row EXCEPT ![p] = "DELIVERED"]
  /\ attempts' = [attempts EXCEPT ![p] = @ + 1]
  /\ fresh' = [fresh EXCEPT ![p] = TRUE]
  /\ buffer' = buffer \cup {<<p, attempts[p] + 1>>}
  /\ UNCHANGED <<pending, why, known, acked, heard, halted, ready, expired, stop,
                 wire, ackq, agentVars>>

\* A queued row whose payload no longer validates is set aside.
ClaimInvalid(p) ==
  /\ AccountFree /\ ready
  /\ row[p] = "QUEUED" /\ ~expired[p]
  /\ \A q \in Place : row[q] = "DELIVERED" /\ ~expired[q] => ~fresh[q]
  /\ row' = [row EXCEPT ![p] = "RECONCILE_REQUIRED"]
  /\ UNCHANGED <<pending, why, known, attempts, acked, fresh, heard, halted, ready, expired,
                 stop, linkVars, agentVars>>

LeaseEnds(p) ==
  /\ fresh[p]
  /\ fresh' = [fresh EXCEPT ![p] = FALSE]
  /\ UNCHANGED <<row, pending, why, known, attempts, acked, heard, halted, ready, expired,
                 stop, linkVars, agentVars>>

\* The frame leaves the buffer unsent: the authority check defers it, its
\* session was replaced, the process died, or lock_command_for_physical_send
\* returns a block that changes no row.
DropBuffered(f) ==
  /\ f \in buffer /\ buffer' = buffer \ {f}
  /\ UNCHANGED <<rowVars, ready, expired, stop, wire, ackq, agentVars>>

\* Mutant: the command's row is not read again before the send.
MaySendStale(f) == f \in buffer /\ AccountFree /\ ready

\* The physical send, under the account's and the command's lock.
MaySend(f) == f \in buffer /\ AccountFree /\ ready /\ row[f[1]] = "DELIVERED"

\* Mutant: any claim that has no ack yet counts as never sent.
NeverSentUnacked(p) == ~acked[p] /\ ~known[p]

\* first_claim_pre_execution_proven: the buffered frame is the only one there
\* ever was.
NeverSent(p) == attempts[p] = 1 /\ ~acked[p] /\ ~known[p]

\* The order was cancelled before its first frame went out.
SendCancelled(f) ==
  /\ MaySend(f)
  /\ pending[f[1]] = "CANCEL_REQUESTED" /\ NeverSent(f[1])
  /\ buffer' = buffer \ {f}
  /\ Transition(f[1], "EXPIRED", "send_cancelled", TRUE)
  /\ UNCHANGED <<known, attempts, acked, fresh, heard, halted, ready, expired, stop,
                 wire, ackq, agentVars>>

\* The order's binding is broken, or the exit plan behind a sell no longer
\* validates: the row is sealed and the account waits for reconciliation.
SendSealed(f, status) ==
  /\ MaySend(f)
  /\ status = "CANCEL_REQUESTED" => pending[f[1]] # "CANCEL_REQUESTED"
  /\ buffer' = buffer \ {f}
  /\ row' = [row EXCEPT ![f[1]] = "RECONCILE_REQUIRED"]
  /\ pending' = [pending EXCEPT ![f[1]] = status]
  /\ why' = [why EXCEPT ![f[1]] = "NONE"]
  /\ ready' = FALSE
  /\ UNCHANGED <<known, attempts, acked, fresh, heard, halted, expired, stop, wire,
                 ackq, agentVars>>

\* Mutant: the pending order is not looked at again before the socket write.
SendUnchecked(f) ==
  /\ MaySend(f)
  /\ buffer' = buffer \ {f} /\ wire' = wire \cup {f}
  /\ UNCHANGED <<rowVars, ready, expired, stop, ackq, agentVars>>

Send(f) ==
  /\ MaySend(f) /\ pending[f[1]] # "CANCEL_REQUESTED"
  /\ buffer' = buffer \ {f} /\ wire' = wire \cup {f}
  /\ UNCHANGED <<rowVars, ready, expired, stop, ackq, agentVars>>

\* A reconciliation of the account succeeds.
MarkReconciled ==
  /\ ~ready /\ AccountFree
  /\ ready' = TRUE
  /\ UNCHANGED <<rowVars, expired, stop, linkVars, agentVars>>

-----------------------------------------------------------------------------
(* _record_command_ack.                                                      *)

\* A redelivery raced the original call: wait for that one's answer.
RecordProcessing(a) ==
  /\ AccountFree /\ a \in ackq /\ a[3] = "PROCESSING"
  /\ ackq' = ackq \ {a}
  /\ IF row[a[1]] \in {"QUEUED", "DELIVERED"}
     THEN /\ row' = [row EXCEPT ![a[1]] = "DELIVERED"]
          /\ fresh' = [fresh EXCEPT ![a[1]] = TRUE]
          /\ acked' = [acked EXCEPT ![a[1]] = FALSE]
     ELSE UNCHANGED <<row, fresh, acked>>
  /\ UNCHANGED <<pending, why, known, attempts, heard, halted, ready, expired, stop,
                 buffer, wire, agentVars>>

\* An acceptance is evidence of delivery, not of a fill.
RecordAccepted(a) ==
  /\ AccountFree /\ a \in ackq /\ a[3] = "ACCEPTED"
  /\ ackq' = ackq \ {a}
  /\ acked' = [acked EXCEPT ![a[1]] = TRUE]
  /\ \/ /\ row[a[1]] \in {"QUEUED", "DELIVERED"}
        /\ row' = [row EXCEPT ![a[1]] = "ACKNOWLEDGED"]
        /\ UNCHANGED <<pending, why>>
     \/ /\ row[a[1]] \in {"ACKNOWLEDGED", "RECONCILE_REQUIRED"}
        /\ UNCHANGED <<row, pending, why>>
     \/ /\ row[a[1]] \in Proofs \cup {"CANCELLED_KILL"}
        /\ Transition(a[1], "RECONCILE_REQUIRED", "NONE", FALSE)
  /\ UNCHANGED <<known, attempts, fresh, heard, halted, ready, expired, stop, buffer,
                 wire, agentVars>>

\* The same refusal once more, after a reconnect.
Replayed(p, r) ==
  \/ row[p] = "EXPIRED" /\ r = "command_expired"
  \/ row[p] = "REJECTED" /\ r = "pre_execution"

\* Only a refusal the Agent gives before it touches the broker closes the order.
RecordRejected(a) ==
  LET p == a[1]
      r == a[3]
  IN  /\ AccountFree /\ a \in ackq /\ r \in Refusals \cup {"FAIL"}
      /\ ackq' = ackq \ {a}
      /\ acked' = [acked EXCEPT ![p] = TRUE]
      /\ \/ Replayed(p, r) /\ UNCHANGED <<row, pending, why>>
         \/ /\ row[p] = "ACKNOWLEDGED" \/ r \notin PreReasons
            /\ Transition(p, "RECONCILE_REQUIRED", "NONE", FALSE)
         \/ /\ row[p] # "ACKNOWLEDGED" /\ r \in PreReasons /\ ~Replayed(p, r)
            /\ Transition(p, IF r = "command_expired" THEN "EXPIRED" ELSE "REJECTED",
                          r, TRUE)
      /\ UNCHANGED <<known, attempts, fresh, heard, halted, ready, expired, stop, buffer,
                     wire, agentVars>>

-----------------------------------------------------------------------------
(* Expiry and cancellation.                                                  *)

\* Mutant: a delivered row that expired is closed like a queued one.
SweepAlike(p) ==
  /\ AccountFree /\ row[p] \in {"QUEUED", "DELIVERED"} /\ expired[p]
  /\ Transition(p, "EXPIRED", "before_delivery", TRUE)
  /\ UNCHANGED <<known, attempts, acked, fresh, heard, halted, ready, expired, stop,
                 linkVars, agentVars>>

\* Mutant: only rows that were never delivered are swept.
SweepQueued(p) ==
  /\ AccountFree /\ row[p] = "QUEUED" /\ expired[p]
  /\ Transition(p, "EXPIRED", "before_delivery", TRUE)
  /\ UNCHANGED <<known, attempts, acked, fresh, heard, halted, ready, expired, stop,
                 linkVars, agentVars>>

\* _expire_trade_commands_in_session, of the sweeper and of every delivery poll.
Sweep(p) ==
  /\ AccountFree /\ row[p] \in {"QUEUED", "DELIVERED"} /\ expired[p]
  /\ \/ row[p] = "QUEUED" /\ Transition(p, "EXPIRED", "before_delivery", TRUE)
     \/ row[p] = "DELIVERED" /\ Transition(p, "RECONCILE_REQUIRED", "NONE", FALSE)
  /\ UNCHANGED <<known, attempts, acked, fresh, heard, halted, ready, expired, stop,
                 linkVars, agentVars>>

\* Mutant: the request to cancel is written over both rows.
CancelOrderBoth(p) ==
  /\ p \notin TOrder
  /\ pending[p] \in {"QUEUED", "SUBMITTED", "RECONCILE_REQUIRED", "CANCEL_REQUESTED"}
  /\ row' = [row EXCEPT ![p] = "CANCEL_REQUESTED"]
  /\ pending' = [pending EXCEPT ![p] = "CANCEL_REQUESTED"]
  /\ halted' = [halted EXCEPT ![p] = "cancel"]
  /\ why' = [why EXCEPT ![p] = "NONE"]
  /\ UNCHANGED <<known, attempts, acked, fresh, heard, ready, expired, stop, linkVars,
                 agentVars>>

\* request_strategy_buy_cancellations: a command that never left the outbox is
\* cancelled here if the intent proves a zero fill; for any other one the
\* request waits for the broker's order id.
CancelOrder(p) ==
  /\ p \notin TOrder
  /\ pending[p] \in {"QUEUED", "SUBMITTED", "RECONCILE_REQUIRED", "CANCEL_REQUESTED"}
  /\ \/ /\ ~known[p] /\ row[p] = "QUEUED"
        /\ row' = [row EXCEPT ![p] = "CANCELLED"]
        /\ pending' = [pending EXCEPT ![p] = "CANCELLED"]
        /\ halted' = [halted EXCEPT ![p] = "cancel"]
     \/ /\ ~known[p] /\ row[p] = "QUEUED"
        /\ pending' = [pending EXCEPT ![p] = "RECONCILE_REQUIRED"]
        /\ UNCHANGED <<row, halted>>
     \/ /\ known[p] \/ row[p] # "QUEUED"
        /\ pending' = [pending EXCEPT ![p] = "CANCEL_REQUESTED"]
        /\ halted' = [halted EXCEPT ![p] = IF known[p] THEN "sent" ELSE "cancel"]
        /\ UNCHANGED row
  /\ why' = [why EXCEPT ![p] = "NONE"]
  /\ UNCHANGED <<known, attempts, acked, fresh, heard, ready, expired, stop, linkVars,
                 agentVars>>

\* Mutant: the command's delivery is not looked at.
CancelPendingAnyway(p) ==
  /\ ~known[p] /\ row[p] \in {"QUEUED", "DELIVERED"}
  /\ row' = [row EXCEPT ![p] = "CANCELLED"]
  /\ pending' = [pending EXCEPT ![p] = "CANCELLED"]
  /\ why' = [why EXCEPT ![p] = "NONE"]
  /\ halted' = [halted EXCEPT ![p] = "cancel"]
  /\ UNCHANGED <<known, attempts, acked, fresh, heard, ready, expired, stop, linkVars,
                 agentVars>>

\* cancel_pending_order, a user's cancellation: anything but a queued command is
\* refused and nothing is written.
CancelPending(p) ==
  /\ ~known[p] /\ row[p] = "QUEUED"
  /\ row' = [row EXCEPT ![p] = "CANCELLED"]
  /\ pending' = [pending EXCEPT ![p] = "CANCELLED"]
  /\ why' = [why EXCEPT ![p] = "NONE"]
  /\ halted' = [halted EXCEPT ![p] = "cancel"]
  /\ UNCHANGED <<known, attempts, acked, fresh, heard, ready, expired, stop, linkVars,
                 agentVars>>

-----------------------------------------------------------------------------
(* The stop switches: the account's hard kill and the T-trade stop.  Each     *)
(* reads the pending orders, then the commands, without row locks, and writes *)
(* at its commit what it decided from what it had read.                      *)

StopReach(kind) == IF kind = "kill" THEN Place ELSE TOrder

StopOrders(kind) ==
  /\ stop.kind = "none"
  /\ stop' = [kind |-> kind, read |-> FALSE, rows |-> {},
              orders |-> {p \in StopReach(kind) : pending[p] = "QUEUED" /\ ~known[p]}]
  /\ UNCHANGED <<rowVars, ready, expired, linkVars, agentVars>>

\* The hard kill takes delivered commands too, the T-trade stop only queued ones.
StopRows ==
  /\ stop.kind # "none" /\ ~stop.read
  /\ stop' = [stop EXCEPT !.read = TRUE,
                !.rows = {p \in StopReach(stop.kind) :
                            row[p] \in IF stop.kind = "kill" THEN {"QUEUED", "DELIVERED"}
                                       ELSE {"QUEUED"}}]
  /\ UNCHANGED <<rowVars, ready, expired, linkVars, agentVars>>

StopWrite ==
  /\ stop.read
  /\ row' = [p \in Place |-> IF p \in stop.rows THEN "CANCELLED_KILL" ELSE row[p]]
  /\ pending' = [p \in Place |->
                   IF p \notin stop.orders THEN pending[p]
                   ELSE IF stop.kind = "kill" THEN "KILL_SWITCHED" ELSE "CANCELLED"]
  /\ why' = [p \in Place |-> IF p \in stop.orders THEN "NONE" ELSE why[p]]
  /\ halted' = [p \in Place |-> IF p \in stop.rows THEN "stop" ELSE halted[p]]
  /\ stop' = NoStop
  /\ UNCHANGED <<known, attempts, acked, fresh, heard, ready, expired, linkVars,
                 agentVars>>

-----------------------------------------------------------------------------
(* Reports, converged by the Engine under the account's and the order's locks *)
(* (_update_pending).                                                        *)

Terminal == Proofs \cup {"FILLED", "KILL_SWITCHED"}

\* _PROGRESS
Rank(s) ==
  CASE s = "QUEUED" -> 0 [] s = "SUBMITTED" -> 1 [] s = "KILL_SWITCHED" -> 3
    [] s = "EXPIRED" -> 4 [] s = "REJECTED" -> 5 [] s = "CANCELLED" -> 6
    [] s = "FILLED" -> 7 [] OTHER -> -1

\* can_transition_order_status
CanTransition(from, to) ==
  \/ Rank(from) = -1
  \/ Rank(to) >= Rank(from) /\ (from \in Terminal => to \in Terminal)

\* A cancel request stays until a terminal status arrives; a status that would
\* go back, or a report overtaken by a later one, is ignored.  For an order of
\* an open T lifecycle the reason counts only next to the terminal source that
\* Transition records.
UpdatePending(p, status, reason) ==
  LET ignored == \/ pending[p] = "CANCEL_REQUESTED" /\ status \notin Terminal
                 \/ ~CanTransition(pending[p], status)
  IN  \/ /\ ~ignored
         /\ pending' = [pending EXCEPT ![p] = status]
         /\ why' = [why EXCEPT ![p] = IF p \in TOrder /\ @ # reason THEN "NONE" ELSE reason]
      \/ /\ UNCHANGED pending
         /\ why' = [why EXCEPT ![p] = "NONE"]

\* An order or execution report.  If the order waits to be cancelled, the cancel
\* command is enqueued now that the broker's id is known, if an Agent can take it.
ReportOrder(p, status) ==
  /\ AccountFree /\ submits[p] > 0
  /\ UpdatePending(p, status, "NONE")
  /\ known' = [known EXCEPT ![p] = TRUE]
  /\ heard' = [heard EXCEPT ![p] = TRUE]
  /\ \/ UNCHANGED halted
     \/ /\ pending[p] = "CANCEL_REQUESTED" /\ status \notin Terminal
        /\ halted' = [halted EXCEPT ![p] = "sent"]
  /\ UNCHANGED <<row, attempts, acked, fresh, ready, expired, stop, linkVars, agentVars>>

\* The broker's order_error callback: a rejection that brings no broker order id.
ReportError(p) ==
  /\ AccountFree /\ submits[p] > 0
  /\ UpdatePending(p, "REJECTED", "NONE")
  /\ heard' = [heard EXCEPT ![p] = TRUE]
  /\ UNCHANGED <<row, known, attempts, acked, fresh, halted, ready, expired, stop, linkVars,
                 agentVars>>

\* The order_errors report the Agent journals with a refusal of its own; it may
\* overtake the command's ack.
ReportRefusal(p) ==
  /\ AccountFree /\ answer[p] \in Refusals
  /\ UpdatePending(p, IF answer[p] = "command_expired" THEN "EXPIRED" ELSE "REJECTED",
                   IF answer[p] = "GATE" THEN "NONE" ELSE answer[p])
  /\ UNCHANGED <<row, known, attempts, acked, fresh, heard, halted, ready, expired, stop,
                 linkVars, agentVars>>

Expire(p) ==
  /\ ~expired[p]
  /\ expired' = [expired EXCEPT ![p] = TRUE]
  /\ UNCHANGED <<rowVars, ready, stop, linkVars, agentVars>>

-----------------------------------------------------------------------------
(* The Agent, as far as OrderContract shows it, and the link.                *)

AgentTake(f) ==
  /\ f \in wire /\ agent[f[1]] = "unseen"
  /\ wire' = wire \ {f}
  /\ agent' = [agent EXCEPT ![f[1]] = "working"]
  /\ UNCHANGED <<rowVars, ready, expired, stop, buffer, ackq, answer, submits>>

AgentMaySubmit(p) == agent[p] = "working" /\ submits[p] = 0

AgentSubmit(p) ==
  /\ AgentMaySubmit(p)
  /\ submits' = [submits EXCEPT ![p] = 1]
  /\ UNCHANGED <<rowVars, ready, expired, stop, linkVars, agent, answer>>

AgentMayFinish(p, r) ==
  /\ agent[p] = "working"
  /\ r \in Refusals => submits[p] = 0
  /\ r = "ACCEPTED" => submits[p] = 1

AgentFinish(p, r) ==
  /\ AgentMayFinish(p, r)
  /\ agent' = [agent EXCEPT ![p] = "done"]
  /\ answer' = [answer EXCEPT ![p] = r]
  /\ ackq' = ackq \cup {<<p, 0, r>>}
  /\ UNCHANGED <<rowVars, ready, expired, stop, buffer, wire, submits>>

\* A repeated frame is answered from the journal.
AgentRepeat(f) ==
  /\ f \in wire /\ agent[f[1]] # "unseen"
  /\ wire' = wire \ {f}
  /\ ackq' = ackq \cup {<<f[1], f[2], IF answer[f[1]] # "NONE" THEN answer[f[1]]
                                      ELSE "PROCESSING">>}
  /\ UNCHANGED <<rowVars, ready, expired, stop, buffer, agentVars>>

\* A session ends with frames or acks under way.
LoseFrame(f) ==
  /\ f \in wire /\ wire' = wire \ {f}
  /\ UNCHANGED <<rowVars, ready, expired, stop, buffer, ackq, agentVars>>

LoseAck(a) ==
  /\ a \in ackq /\ ackq' = ackq \ {a}
  /\ UNCHANGED <<rowVars, ready, expired, stop, buffer, wire, agentVars>>

-----------------------------------------------------------------------------
Physical(f) ==
  \/ DropBuffered(f) \/ SendCancelled(f) \/ Send(f)
  \/ \E s \in {"RECONCILE_REQUIRED", "CANCEL_REQUESTED"} : SendSealed(f, s)

Record(a) == RecordProcessing(a) \/ RecordAccepted(a) \/ RecordRejected(a)

Service(p) ==
  \/ Claim(p) \/ ClaimInvalid(p) \/ LeaseEnds(p) \/ Sweep(p) \/ Expire(p)
  \/ CancelOrder(p) \/ CancelPending(p)
  \/ \E s \in {"SUBMITTED", "FILLED", "CANCELLED", "REJECTED"} : ReportOrder(p, s)
  \/ ReportError(p) \/ ReportRefusal(p)

Stop == (\E k \in {"kill", "t_stop"} : StopOrders(k)) \/ StopRows \/ StopWrite

Next ==
  \/ \E p \in Place : Service(p) \/ AgentSubmit(p) \/ \E r \in Answers : AgentFinish(p, r)
  \/ \E f \in buffer : Physical(f)
  \/ \E f \in wire : AgentTake(f) \/ AgentRepeat(f) \/ LoseFrame(f)
  \/ \E a \in ackq : Record(a) \/ LoseAck(a)
  \/ Stop \/ MarkReconciled

Spec == Init /\ [][Next]_vars

\* Time passes; a stop's transaction ends; and the sweeper, which every API
\* process runs whether an Agent is connected or not, gets the row's lock in
\* the end although kills keep taking the account's.
Fairness ==
  /\ WF_vars(StopRows) /\ WF_vars(StopWrite)
  /\ \A p \in Place : WF_vars(Expire(p)) /\ SF_vars(Sweep(p))

-----------------------------------------------------------------------------
\* p was not submitted, the Agent is not working on it, and no frame is on its
\* way that the Agent would start working on.
Untouched(p) ==
  /\ submits[p] = 0 /\ agent[p] # "working"
  /\ agent[p] = "unseen" => \A n \in 1..MaxAttempts : <<p, n>> \notin wire

\* What the outbox row of a command proves when it is closed is true and stays
\* true: an EXPIRED, REJECTED or CANCELLED command never reaches the broker.
ZeroFillProofSound == \A p \in Place : row[p] \in Proofs => Untouched(p)

\* "A terminal status is legal only while every durable row still proves that no
\* broker-side effect exists": a pending order closed without the broker's word
\* was not submitted and will not be.
TerminalOrderTruthful ==
  \A p \in Place : pending[p] \in Proofs /\ ~heard[p] => Untouched(p)

\* The same for the orders that no T-trade stop can reach.
PlainOrderTruthful ==
  \A p \in Place \ TOrder : pending[p] \in Proofs /\ ~heard[p] => Untouched(p)

\* A proof is never taken back, whatever the Agent says later; only a kill that
\* had read the row before may overwrite it.
ProofsAreFinal ==
  [][\A p \in Place : row[p] \in Proofs => row'[p] \in {row[p], "CANCELLED_KILL"}]_vars

\* Once a cancellation or a stop took hold of a command the Agent has not seen,
\* and none of its frames is under way, none goes out any more.
HaltHolds ==
  [][\A p \in Place :
       halted[p] # "no" /\ agent[p] = "unseen" /\ (\A n \in 1..MaxAttempts : <<p, n>> \notin wire)
         => \A n \in 1..MaxAttempts : <<p, n>> \notin wire']_vars

\* Every command is settled: it does not stay queued or delivered for ever.
RowsSettle ==
  \A p \in Place : row[p] \in {"QUEUED", "DELIVERED"} ~> row[p] \notin {"QUEUED", "DELIVERED"}

\* "Once delivery may have happened, the pending order stays CANCEL_REQUESTED
\* until an authoritative broker terminal report arrives": when the broker's id
\* of an order that waits to be cancelled is known, the order is not back among
\* the working ones without a cancel command.
CancelNotForgotten ==
  \A p \in Place : halted[p] = "cancel" /\ known[p] => pending[p] # "SUBMITTED"
=============================================================================
