-------------------------- MODULE HistoryCollection --------------------------
(***************************************************************************)
(* Historical collection from one QMT terminal.  The Market Data Worker cuts *)
(* a request into native units and issues one permit at a time; the history  *)
(* session delivers requests and permits to the Agent; the Agent reports     *)
(* START, enters the native call only when the Worker accepted START, seals  *)
(* the result in a file and reports FINISH, or reports ABORT once it has     *)
(* proof that the call stopped.  The last unit's FINISH lets the Agent       *)
(* upload the request.                                                       *)
(*                                                                           *)
(* An action is one transaction of the database or of the Agent's journal.   *)
(* The Worker fails over, permits and delivery leases lapse, the session      *)
(* breaks, the Agent crashes and leaves its native helper running.  Pending   *)
(* receipts are consumed in any order, which includes the order of arrival.  *)
(***************************************************************************)
EXTENDS WorkerLease, Sequences, FiniteSets

CONSTANTS Requests,     \* requests of one device, numbered by created_at
          Development,  \* those with development_only set
          Unplannable,  \* those whose payload cannot be cut into units
          Units,        \* native units of a request
          Chunks,       \* chunks of an upload
          MaxInflight,  \* MAX_MARKET_DATA_INFLIGHT_REQUESTS_PER_DEVICE
          StreakLimit,  \* production units before a development one goes first
          ClockSkew,    \* the Agent's or the Worker's clock may be behind the others
          MaxPermits,   \* bound on the permits issued
          MaxMail,      \* batches the Agent's queue holds
          MaxFaults,    \* bound on failures and broken sessions
          MaxLapses     \* bound on lapsed delivery leases

ASSUME CollectionAssumption ==
  /\ Requests \subseteq Nat \ {0} /\ IsFiniteSet(Requests)
  /\ Development \subseteq Requests /\ Unplannable \subseteq Requests
  /\ Units \in Nat \ {0} /\ Chunks \in Nat \ {0} /\ MaxInflight \in Nat \ {0}
  /\ StreakLimit \in Nat /\ ClockSkew \in BOOLEAN /\ MaxPermits \in Nat \ {0}
  /\ MaxMail \in Nat \ {0} /\ MaxFaults \in Nat /\ MaxLapses \in Nat

Permits == 1..MaxPermits
Collecting == {"QUEUED", "DELIVERED", "RECEIVING"}
Routed == {"DELIVERED", "RECEIVING"}
Unrouted == -1
Receipts == {"NONE", "PENDING", "ACCEPTED", "REJECTED"}
NoGrant == [req |-> 0, unit |-> 0, epoch |-> 0]
Grants == [req : Requests, unit : 0..Units - 1, epoch : 1..MaxEpoch] \cup {NoGrant}
Messages == [kind : {"REMOVED", "REQUEST", "GRANT"}, id : Nat, arg : Nat]

VARIABLES
  status,    \* market_data_request.status
  stale,     \* its updated_at is outside the delivery lease of five minutes
  chunks,    \* its received_chunks
  opened,    \* history: the permit whose issue last renewed updated_at
  cause,     \* the permit its processing_error names, 0 if none
  halting,   \* blocked requests whose reason code stops the issue of permits
  planned,   \* requests with a market_data_collection_plan
  next,      \* the plan's next_unit_index
  streak,    \* market_data_collection_schedule.production_streak
  pstate,    \* market_data_collection_permit.state, NONE before it is issued
  grant,     \* the permit's request, unit and owner epoch
  fresh,     \* the permit has not expired
  resumed,   \* permits with resumed_at set
  start,     \* the START receipt of a permit
  finish,    \* its FINISH receipt
  abort,     \* its ABORT receipt
  session,   \* UP; LINGERING: the link is gone, the row not yet expired; DOWN
  mail,      \* batches sent to the Agent and not handled, oldest first
  sent,      \* what the delivery loop last sent (previous)
  active,    \* completed_units of a request the Agent's pipeline routes
  pc,        \* where the Agent's handler is
  cur,       \* the permit it handles; while it uploads, the request
  accepted,  \* permits in history_collection_receipts
  mark,      \* history_owner_epoch of the Agent's journal
  executed,  \* permits in history_collection_executions
  aborts,    \* history_collection_aborts: NONE, RECORDED or CONFIRMED
  outage,    \* permits aborted because XtData was unavailable
  files,     \* sealed native results, by request and unit
  bound,     \* permits in history_collection_artifacts
  native,    \* native calls running for a permit, orphaned calls included
  faults, lapses

requestVars == <<status, stale, opened, chunks, cause, halting, planned, next,
                 streak>>
permitVars == <<pstate, grant, fresh, resumed>>
receiptVars == <<start, finish, abort>>
linkVars == <<session, mail, sent>>
handlerVars == <<active, pc, cur>>
journalVars == <<accepted, mark, executed, aborts, outage, files, bound>>
faultVars == <<faults, lapses>>
serverVars == <<leaseVars, requestVars, permitVars>>
vars == <<serverVars, receiptVars, linkVars, handlerVars, journalVars, native,
          faultVars>>

RequestTypes ==
  /\ status \in [Requests -> Collecting \cup {"UPLOADED", "BLOCKED", "COMPLETED",
                                              "FAILED"}]
  /\ stale \in [Requests -> BOOLEAN] /\ chunks \in [Requests -> 0..Chunks]
  /\ cause \in [Requests -> 0..MaxPermits] /\ opened \in [Requests -> 0..MaxPermits]
  /\ halting \subseteq Requests /\ planned \subseteq Requests
  /\ next \in [Requests -> 0..Units] /\ streak \in 0..StreakLimit

PermitTypes ==
  /\ pstate \in [Permits -> {"NONE", "ISSUED", "STARTED", "FINISHED", "ABORTED",
                             "EXPIRED"}]
  /\ grant \in [Permits -> Grants]
  /\ fresh \in [Permits -> BOOLEAN] /\ resumed \subseteq Permits

ReceiptTypes ==
  /\ start \in [Permits -> Receipts] /\ finish \in [Permits -> Receipts]
  /\ abort \in [Permits -> Receipts]

LinkTypes ==
  /\ session \in {"UP", "LINGERING", "DOWN"}
  /\ mail \in Seq(SUBSET Messages) /\ sent \subseteq Messages

HandlerTypes ==
  /\ active \in [Requests -> {Unrouted} \cup (0..Units)]
  /\ pc \in {"idle", "starting", "native", "sealed", "finishing", "aborting",
             "uploading"}
  /\ cur \in Nat

JournalTypes ==
  /\ accepted \subseteq Permits /\ mark \in 0..MaxEpoch /\ executed \subseteq Permits
  /\ aborts \in [Permits -> {"NONE", "RECORDED", "CONFIRMED"}]
  /\ outage \subseteq Permits /\ files \subseteq Requests \X (0..Units - 1)
  /\ bound \subseteq Permits /\ native \in [Permits -> Nat]

FaultTypes == faults \in 0..MaxFaults /\ lapses \in 0..MaxLapses

TypeOK ==
  /\ LeaseTypes /\ RequestTypes /\ PermitTypes /\ ReceiptTypes /\ LinkTypes
  /\ HandlerTypes /\ JournalTypes /\ FaultTypes

Unit(p) == <<grant[p].req, grant[p].unit>>
Live == {p \in Permits : pstate[p] \in {"ISSUED", "STARTED"}}
LiveOf(r) == {p \in Live : grant[p].req = r}

Init ==
  /\ LeaseInit
  /\ status = [r \in Requests |-> "QUEUED"] /\ stale = [r \in Requests |-> FALSE]
  /\ chunks = [r \in Requests |-> 0] /\ cause = [r \in Requests |-> 0]
  /\ opened = [r \in Requests |-> 0] /\ halting = {} /\ planned = {}
  /\ next = [r \in Requests |-> 0] /\ streak = 0
  /\ pstate = [p \in Permits |-> "NONE"]
  /\ grant = [p \in Permits |-> NoGrant]
  /\ fresh = [p \in Permits |-> FALSE] /\ resumed = {}
  /\ start = [p \in Permits |-> "NONE"] /\ finish = [p \in Permits |-> "NONE"]
  /\ abort = [p \in Permits |-> "NONE"]
  /\ session = "DOWN" /\ mail = <<>> /\ sent = {}
  /\ active = [r \in Requests |-> Unrouted] /\ pc = "idle" /\ cur = 0
  /\ accepted = {} /\ mark = 0 /\ executed = {}
  /\ aborts = [p \in Permits |-> "NONE"] /\ outage = {} /\ files = {} /\ bound = {}
  /\ native = [p \in Permits |-> 0] /\ faults = 0 /\ lapses = 0

-----------------------------------------------------------------------------
(* The Worker: every transaction is guarded by the lease of its process e.   *)

\* dispatch_history_collection registers queued requests, the oldest first.
NextUnplanned(r) ==
  /\ session # "DOWN" /\ status[r] = "QUEUED" /\ r \notin planned
  /\ \A q \in Requests \ planned : status[q] = "QUEUED" => r <= q

RegisterPlan(e, r) ==
  /\ Guard(e) /\ NextUnplanned(r) /\ r \notin Unplannable
  /\ planned' = planned \cup {r}
  /\ UNCHANGED <<leaseVars, halting, status, stale, opened, chunks, cause, next,
                 streak, permitVars, receiptVars, linkVars, handlerVars,
                 journalVars, native, faultVars>>

RejectPlan(e, r) ==
  /\ Guard(e) /\ NextUnplanned(r) /\ r \in Unplannable /\ LiveOf(r) = {}
  /\ status' = [status EXCEPT ![r] = "FAILED"]
  /\ UNCHANGED <<leaseVars, halting, stale, opened, chunks, cause, planned, next,
                 streak, permitVars, receiptVars, linkVars, handlerVars,
                 journalVars, native, faultVars>>

\* Requests that hold a place in the pipeline: routed ones, and queued ones that
\* were routed before.
Holding ==
  {r \in Requests :
     \/ status[r] \in Routed
     \/ /\ status[r] = "QUEUED"
        /\ chunks[r] > 0 \/ \E p \in Permits : grant[p].req = r}

\* _admitted: the requests that count against the device's pipeline limit.
Admitted == Holding \cup {r \in Requests : status[r] = "UPLOADED"}

\* A storage outage, or an XtData outage the operator has not resumed.
DependencyBlocked ==
  \/ halting # {}
  \/ \E p \in outage \ resumed : pstate[p] = "ABORTED" /\ abort[p] = "ACCEPTED"

\* Mutant: the pipeline limit is not looked at.
CandidatesUnlimited(open) ==
  {r \in planned : /\ status[r] \in Collecting /\ next[r] < Units
                   /\ r \in Development => open}

Candidates(open) ==
  {r \in planned :
     /\ status[r] \in Collecting /\ next[r] < Units
     /\ r \in Development => open
     /\ Cardinality(Admitted) < MaxInflight \/ r \in Admitted}

\* Production first, until its streak gives a development unit its turn.
Preferred(r) == (r \in Development) = (streak >= StreakLimit)
Leads(r, q) ==
  \/ Preferred(r) /\ ~Preferred(q)
  \/ Preferred(r) = Preferred(q) /\ r <= q

\* Mutant: the start deadline is taken for an execution timeout.
LapsedStarted == {q \in Live : ~fresh[q]}

\* A permit that expired unstarted; a started one keeps the native slot.
Lapsed == {q \in Live : pstate[q] = "ISSUED" /\ ~fresh[q]}

\* issue_next
Issue(e, p) ==
  /\ Guard(e) /\ session # "DOWN" /\ ~DependencyBlocked
  /\ pstate[p] = "NONE" /\ \A q \in Permits : q < p => pstate[q] # "NONE"
  /\ Live \subseteq Lapsed
  /\ \E open \in BOOLEAN : \E r \in Candidates(open) :
       /\ \A q \in Candidates(open) : Leads(r, q)
       /\ \A q \in Permits : pstate[q] = "FINISHED" => Unit(q) # <<r, next[r]>>
       /\ grant' = [grant EXCEPT ![p] = [req |-> r, unit |-> next[r], epoch |-> e]]
       /\ status' = [status EXCEPT ![r] = IF @ = "QUEUED" THEN "DELIVERED" ELSE @]
       /\ stale' = [stale EXCEPT ![r] = @ /\ status[r] # "QUEUED"]
       /\ opened' = [opened EXCEPT ![r] = IF status[r] = "QUEUED" THEN p ELSE @]
  /\ pstate' = [q \in Permits |-> IF q = p THEN "ISSUED"
                                  ELSE IF q \in Lapsed THEN "EXPIRED" ELSE pstate[q]]
  /\ fresh' = [fresh EXCEPT ![p] = TRUE]
  /\ UNCHANGED <<leaseVars, halting, chunks, cause, planned, next, streak,
                 resumed, receiptVars, linkVars, handlerVars, journalVars,
                 native, faultVars>>

\* A start is accepted while the permit is valid and no newer owner took over.
Starts(e, p) == pstate[p] = "ISSUED" /\ fresh[p] /\ grant[p].epoch >= e

ConsumeStart(e, p) ==
  /\ Guard(e) /\ start[p] = "PENDING"
  /\ pstate' = IF Starts(e, p) THEN [pstate EXCEPT ![p] = "STARTED"] ELSE pstate
  /\ start' = [start EXCEPT ![p] =
                 IF Starts(e, p) \/ pstate[p] \in {"STARTED", "FINISHED"}
                 THEN "ACCEPTED" ELSE "REJECTED"]
  /\ UNCHANGED <<leaseVars, requestVars, grant, fresh, resumed, finish, abort,
                 linkVars, handlerVars, journalVars, native, faultVars>>

\* Mutant: the streak is not capped.
StreakUncapped(r) == IF r \in Development THEN 0 ELSE streak + 1

StreakAfter(r) ==
  IF r \in Development THEN 0
  ELSE IF streak < StreakLimit THEN streak + 1 ELSE StreakLimit

\* Mutant: the cursor stays where it was.
CursorStays(p) == next

Cursor(p) == [next EXCEPT ![grant[p].req] = @ + 1]

\* A started permit's result, accepted whichever process issued the permit.
Advances(p) ==
  /\ pstate[p] = "STARTED"
  /\ next[grant[p].req] = grant[p].unit /\ next[grant[p].req] < Units

ConsumeFinish(e, p) ==
  /\ Guard(e) /\ finish[p] = "PENDING"
  /\ pstate' = IF Advances(p) THEN [pstate EXCEPT ![p] = "FINISHED"] ELSE pstate
  /\ next' = IF Advances(p) THEN Cursor(p) ELSE next
  /\ streak' = IF Advances(p) THEN StreakAfter(grant[p].req) ELSE streak
  /\ finish' = [finish EXCEPT ![p] = IF Advances(p) \/ pstate[p] = "FINISHED"
                                     THEN "ACCEPTED" ELSE "REJECTED"]
  /\ UNCHANGED <<leaseVars, halting, status, stale, opened, chunks, cause,
                 planned, grant, fresh, resumed, start, abort, linkVars,
                 handlerVars, journalVars, native, faultVars>>

\* Mutant: the exit of a requeued request is refused.
FailsRouted(p) ==
  /\ pstate[p] \in {"ISSUED", "STARTED"}
  /\ status[grant[p].req] \in Routed \cup {"FAILED"}

\* A confirmed exit fails the request and frees the native slot.
Fails(p) ==
  /\ pstate[p] \in {"ISSUED", "STARTED"}
  /\ status[grant[p].req] \in Collecting \cup {"FAILED"}

ConsumeAbort(e, p) ==
  /\ Guard(e) /\ abort[p] = "PENDING"
  /\ pstate' = IF Fails(p) THEN [pstate EXCEPT ![p] = "ABORTED"] ELSE pstate
  /\ status' = IF Fails(p) THEN [status EXCEPT ![grant[p].req] = "FAILED"] ELSE status
  /\ cause' = IF Fails(p) /\ status[grant[p].req] # "FAILED"
              THEN [cause EXCEPT ![grant[p].req] = p] ELSE cause
  /\ abort' = [abort EXCEPT ![p] = IF Fails(p) \/ pstate[p] = "ABORTED"
                                   THEN "ACCEPTED" ELSE "REJECTED"]
  /\ UNCHANGED <<leaseVars, halting, stale, opened, chunks, planned, next,
                 streak, grant, fresh, resumed, start, finish, linkVars,
                 handlerVars, journalVars, native, faultVars>>

\* requeue_expired_market_data_delivery_leases
Requeue(e) ==
  LET lapsed == {r \in Requests : status[r] \in Routed /\ stale[r]} IN
  /\ Guard(e) /\ lapsed # {}
  /\ status' = [r \in Requests |-> IF r \in lapsed THEN "QUEUED" ELSE status[r]]
  /\ stale' = [r \in Requests |-> stale[r] /\ r \notin lapsed]
  /\ UNCHANGED <<leaseVars, halting, opened, chunks, cause, planned, next,
                 streak, permitVars, receiptVars, linkVars, handlerVars,
                 journalVars, native, faultVars>>

Contract == INSTANCE IngestionContract WITH state <- status

\* Ingestion of a frozen upload, as IngestionContract shows it: it is completed,
\* failed or blocked, and resumed or reopened by the operator.  Five of the reason
\* codes of a blocked one, those of an unavailable store, stop the issue.
Ingest(r) ==
  /\ \/ status[r] \in {"UPLOADED", "BLOCKED"}
     \/ status[r] = "FAILED" /\ chunks[r] = Chunks
  /\ \E s \in Contract!Moves[status[r]] :
       /\ status' = [status EXCEPT ![r] = s]
       /\ \E stops \in BOOLEAN :
            halting' = IF s = "BLOCKED" /\ stops THEN halting \cup {r}
                       ELSE halting \ {r}
       /\ faults' = IF s \in {"BLOCKED", "FAILED"} THEN faults + 1 ELSE faults
  /\ faults' <= MaxFaults /\ cause' = [cause EXCEPT ![r] = 0]
  /\ UNCHANGED <<leaseVars, stale, opened, chunks, planned, next, streak,
                 permitVars, receiptVars, linkVars, handlerVars, journalVars,
                 native, lapses>>

\* resume_collection: the operator requeues a request whose abort was accepted.
Resume(r) ==
  LET p == cause[r] IN
  /\ status[r] = "FAILED" /\ chunks[r] = 0 /\ p # 0
  /\ pstate[p] = "ABORTED" /\ p \notin resumed /\ abort[p] = "ACCEPTED"
  /\ LiveOf(r) = {}
  /\ resumed' = resumed \cup {p}
  /\ status' = [status EXCEPT ![r] = "QUEUED"]
  /\ cause' = [cause EXCEPT ![r] = 0]
  /\ stale' = [stale EXCEPT ![r] = FALSE]
  /\ UNCHANGED <<leaseVars, halting, opened, chunks, planned, next, streak,
                 pstate, grant, fresh, receiptVars, linkVars, handlerVars,
                 journalVars, native, faultVars>>

-----------------------------------------------------------------------------
(* Time.                                                                     *)

Idle == UNCHANGED <<receiptVars, linkVars, handlerVars, journalVars, native>>

WorkerAcquires ==
  Acquire /\ Idle /\ UNCHANGED <<requestVars, permitVars, faultVars>>

WorkerReleases ==
  Release /\ Idle /\ UNCHANGED <<requestVars, permitVars, faultVars>>

\* A permit never outlives the lease it was issued under.
LeaseExpires ==
  /\ Expire /\ fresh' = [p \in Permits |-> FALSE]
  /\ Idle /\ UNCHANGED <<requestVars, pstate, grant, resumed, faultVars>>

PermitExpires(p) ==
  /\ p \in Live /\ fresh[p]
  /\ fresh' = [fresh EXCEPT ![p] = FALSE]
  /\ Idle /\ UNCHANGED <<leaseVars, requestVars, pstate, grant, resumed, faultVars>>

\* Five minutes without an update: a permit issued with the last one is long
\* expired, one issued later without renewing updated_at need not be.  Or
\* updated_at, written by another clock, is five minutes ahead of the Worker's.
DeliveryLapses(r) ==
  /\ status[r] \in Routed /\ ~stale[r] /\ lapses < MaxLapses
  /\ ClockSkew \/ ~(opened[r] \in Live /\ fresh[opened[r]])
  /\ stale' = [stale EXCEPT ![r] = TRUE]
  /\ lapses' = lapses + 1
  /\ Idle /\ UNCHANGED <<leaseVars, halting, status, opened, chunks, cause,
                         planned, next, streak, permitVars, faults>>
-----------------------------------------------------------------------------
(* The history session.                                                      *)

\* Mutant: the unit being collected is counted as completed.
RequestMessageAhead(r) ==
  [kind |-> "REQUEST", id |-> r,
   arg |-> IF \E p \in LiveOf(r) : pstate[p] = "STARTED" THEN next[r] + 1 ELSE next[r]]

RequestMessage(r) == [kind |-> "REQUEST", id |-> r, arg |-> next[r]]
RemovedMessage(r) == [kind |-> "REMOVED", id |-> r, arg |-> 0]
\* arg tells whether the server already saw the permit start.
GrantMessage(p) ==
  [kind |-> "GRANT", id |-> p, arg |-> IF pstate[p] = "STARTED" THEN 1 ELSE 0]

\* Mutant: only permits that have not started are delivered.
GrantsUnstarted == {p \in Live : pstate[p] = "ISSUED" /\ status[grant[p].req] \in Routed}

GrantsRouted == {p \in Live : status[grant[p].req] \in Routed}
Routing == {r \in planned : status[r] \in Routed}
\* HistorySessionStore.work.  Its two reads, of requests and then of permits, are
\* one step here: a permit issued between them only ends the session.
Work == {RequestMessage(r) : r \in Routing} \cup {GrantMessage(p) : p \in GrantsRouted}
\* What the delivery loop sends: removals, and everything new or changed.
Batch ==
  {RemovedMessage(r) : r \in {q \in Requests \ Routing :
                                \E m \in sent : m.kind = "REQUEST" /\ m.id = q}}
  \cup (Work \ sent)

ResetHandler ==
  /\ active' = [r \in Requests |-> Unrouted]
  /\ pc' = "idle" /\ cur' = 0

\* The session ends; a native call and its bookkeeping are joined first.
DropSession ==
  /\ session' = "LINGERING" /\ mail' = <<>> /\ sent' = {}
  /\ IF pc \in {"native", "sealed"} THEN UNCHANGED handlerVars ELSE ResetHandler

Connect ==
  /\ session = "DOWN" /\ pc = "idle"
  /\ session' = "UP"
  /\ UNCHANGED <<serverVars, receiptVars, mail, sent, handlerVars, journalVars,
                 native, faultVars>>

SessionLapses ==
  /\ session = "LINGERING"
  /\ session' = "DOWN"
  /\ UNCHANGED <<serverVars, receiptVars, mail, sent, handlerVars, journalVars,
                 native, faultVars>>

\* A lost link, a missed heartbeat, a confirmation that times out.
LinkBreaks ==
  /\ session = "UP" /\ faults < MaxFaults
  /\ faults' = faults + 1
  /\ DropSession
  /\ UNCHANGED <<serverVars, receiptVars, journalVars, native, lapses>>

\* The Agent process dies and restarts; its native helper may run on.
AgentCrashes ==
  /\ faults < MaxFaults
  /\ faults' = faults + 1
  /\ session' = IF session = "UP" THEN "LINGERING" ELSE session
  /\ mail' = <<>> /\ sent' = {} /\ ResetHandler
  /\ UNCHANGED <<serverVars, receiptVars, journalVars, native, lapses>>

OrphanExits(p) ==
  /\ native[p] > (IF pc = "native" /\ cur = p THEN 1 ELSE 0)
  /\ native' = [native EXCEPT ![p] = @ - 1]
  /\ UNCHANGED <<serverVars, receiptVars, linkVars, handlerVars, journalVars,
                 faultVars>>

\* work raises when more requests are routed than the pipeline admits, and the
\* Agent when its queue is full.
Undeliverable ==
  Cardinality(Routing) > MaxInflight \/ (Batch # {} /\ Len(mail) = MaxMail)

Deliver ==
  /\ session = "UP" /\ Work # sent /\ ~Undeliverable
  /\ sent' = Work
  /\ mail' = IF Batch = {} THEN mail ELSE Append(mail, Batch)
  /\ UNCHANGED <<serverVars, receiptVars, session, handlerVars, journalVars, native,
                 faultVars>>

DeliveryRefused ==
  /\ session = "UP" /\ Undeliverable
  /\ DropSession
  /\ UNCHANGED <<serverVars, receiptVars, journalVars, native, faultVars>>

Order == [REMOVED |-> 0, REQUEST |-> 1, GRANT |-> 2]
\* The next message of the oldest batch.
First(m) ==
  /\ pc = "idle" /\ mail # <<>> /\ m \in Head(mail)
  /\ \A n \in Head(mail) :
       Order[m.kind] < Order[n.kind] \/ (m.kind = n.kind /\ m.id <= n.id)
Take(m) ==
  mail' = IF Head(mail) = {m} THEN Tail(mail)
          ELSE <<Head(mail) \ {m}>> \o Tail(mail)
-----------------------------------------------------------------------------
(* The Agent's pipeline.                                                     *)

TakeRemoved(m) ==
  /\ First(m) /\ m.kind = "REMOVED"
  /\ Take(m)
  /\ active' = [active EXCEPT ![m.id] = Unrouted]
  /\ UNCHANGED <<serverVars, receiptVars, session, sent, pc, cur, journalVars,
                 native, faultVars>>

Routable(r) ==
  \/ active[r] # Unrouted
  \/ Cardinality({q \in Requests : active[q] # Unrouted}) < MaxInflight

\* A request whose units are all collected is prepared and uploaded.
TakeRequest(m) ==
  /\ First(m) /\ m.kind = "REQUEST" /\ Routable(m.id)
  /\ Take(m)
  /\ active' = [active EXCEPT ![m.id] = m.arg]
  /\ IF m.arg = Units THEN pc' = "uploading" /\ cur' = m.id ELSE UNCHANGED <<pc,
                                                                             cur>>
  /\ UNCHANGED <<serverVars, receiptVars, session, sent, journalVars, native,
                 faultVars>>

\* Every earlier execution of the unit ended in an abort the Worker accepted.
Resolved(p) ==
  \A q \in executed \ {p} : Unit(q) = Unit(p) => aborts[q] = "CONFIRMED"

\* Mutant: the permit's own marker is not looked at.
UnexecutedByOthers(p) == Resolved(p)

\* collection_execution_started says no, and does not raise.
Unexecuted(p) == p \notin executed /\ Resolved(p)

AgentFresh(p) == fresh[p] \/ ClockSkew

\* What execute does with a permit.
Known(p, m) == m.arg = 0 \/ p \in accepted
Authorized(p, m) ==
  /\ Known(p, m) /\ aborts[p] = "NONE" /\ Unexecuted(p)
  /\ AgentFresh(p) /\ grant[p].epoch >= mark
\* Mutant: the marker alone counts as a result.
RecoverableUnsealed(p, m) == Known(p, m) /\ aborts[p] = "NONE" /\ p \in executed
Recoverable(p, m) ==
  Known(p, m) /\ aborts[p] = "NONE" /\ p \in executed /\ Unit(p) \in files
Failed(p, m) == Known(p, m) /\ aborts[p] # "NONE"

Bind(p) ==
  bound' = IF \E q \in bound : Unit(q) = Unit(p) THEN bound ELSE bound \cup {p}

TakeGrant(m) ==
  LET p == m.id IN
  /\ First(m) /\ m.kind = "GRANT" /\ active[grant[p].req] = grant[p].unit
  /\ Take(m)
  /\ cur' = p
  /\ \/ /\ Authorized(p, m)
        /\ accepted' = accepted \cup {p} /\ mark' = grant[p].epoch
        /\ pc' = "starting" /\ UNCHANGED bound
     \/ /\ Recoverable(p, m)
        /\ Bind(p)
        /\ pc' = "finishing" /\ UNCHANGED <<accepted, mark>>
     \/ /\ Failed(p, m)
        /\ pc' = "aborting" /\ UNCHANGED <<accepted, mark, bound>>
  /\ UNCHANGED <<serverVars, receiptVars, session, sent, active, executed, aborts,
                 outage, files, native, faultVars>>

\* Unrouted or mismatched work, a stale permit, an unknown native outcome.
TakeRefused(m) ==
  LET p == m.id IN
  /\ First(m)
  /\ \/ m.kind = "REQUEST" /\ ~Routable(m.id)
     \/ m.kind = "GRANT" /\ active[grant[p].req] # grant[p].unit
     \/ m.kind = "GRANT" /\ ~(Authorized(p, m) \/ Recoverable(p, m) \/ Failed(p, m))
  /\ DropSession
  /\ UNCHANGED <<serverVars, receiptVars, journalVars, native, faultVars>>

PostStart ==
  /\ pc = "starting" /\ start[cur] = "NONE" /\ AgentFresh(cur)
  /\ start' = [start EXCEPT ![cur] = "PENDING"]
  /\ UNCHANGED <<serverVars, finish, abort, linkVars, handlerVars, journalVars,
                 native, faultVars>>

\* begin_collection_execution: the marker is durable before the call is entered.
EnterNative ==
  /\ pc = "starting" /\ start[cur] = "ACCEPTED"
  /\ AgentFresh(cur) /\ Unexecuted(cur) /\ grant[cur].epoch >= mark
  /\ executed' = executed \cup {cur}
  /\ native' = [native EXCEPT ![cur] = @ + 1]
  /\ pc' = "native"
  /\ UNCHANGED <<serverVars, receiptVars, linkVars, active, cur, accepted, mark,
                 aborts, outage, files, bound, faultVars>>

NativeReturns ==
  /\ pc = "native"
  /\ native' = [native EXCEPT ![cur] = @ - 1]
  /\ files' = files \cup {Unit(cur)}
  /\ pc' = "sealed"
  /\ UNCHANGED <<serverVars, receiptVars, linkVars, active, cur, accepted, mark,
                 executed, aborts, outage, bound, faultVars>>

BindResult ==
  /\ pc = "sealed"
  /\ Bind(cur)
  /\ IF session = "UP" THEN pc' = "finishing" /\ UNCHANGED <<active, cur>>
     ELSE ResetHandler
  /\ UNCHANGED <<serverVars, receiptVars, linkVars, accepted, mark, executed,
                 aborts, outage, files, native, faultVars>>

\* The call failed, its helper was stopped, and no result was published.
NativeFails(unavailable) ==
  /\ pc = "native" /\ Unit(cur) \notin files /\ faults < MaxFaults
  /\ faults' = faults + 1
  /\ native' = [native EXCEPT ![cur] = @ - 1]
  /\ aborts' = [aborts EXCEPT ![cur] = "RECORDED"]
  /\ outage' = IF unavailable THEN outage \cup {cur} ELSE outage
  /\ IF session = "UP" THEN pc' = "aborting" /\ UNCHANGED <<active, cur>>
     ELSE ResetHandler
  /\ UNCHANGED <<serverVars, receiptVars, linkVars, accepted, mark, executed, files,
                 bound, lapses>>

\* The helper cannot be stopped, or the publication cannot be confirmed: no
\* outcome is recorded and the session ends.
OutcomeUnknown ==
  /\ pc \in {"native", "sealed"} /\ faults < MaxFaults
  /\ faults' = faults + 1
  /\ session' = IF session = "UP" THEN "LINGERING" ELSE session
  /\ mail' = <<>> /\ sent' = {} /\ ResetHandler
  /\ UNCHANGED <<serverVars, receiptVars, journalVars, native, lapses>>

PostFinish ==
  /\ pc = "finishing" /\ finish[cur] = "NONE" /\ pstate[cur] \in {"STARTED", "FINISHED"}
  /\ finish' = [finish EXCEPT ![cur] = "PENDING"]
  /\ UNCHANGED <<serverVars, start, abort, linkVars, handlerVars, journalVars,
                 native, faultVars>>

FinishConfirmed ==
  /\ pc = "finishing" /\ finish[cur] = "ACCEPTED"
  /\ pc' = "idle" /\ cur' = 0
  /\ UNCHANGED <<serverVars, receiptVars, linkVars, active, journalVars, native,
                 faultVars>>

Abortable(p) == pstate[p] \in {"ISSUED", "STARTED", "ABORTED"}

PostAbort ==
  /\ pc = "aborting" /\ abort[cur] = "NONE" /\ Abortable(cur)
  /\ abort' = [abort EXCEPT ![cur] = "PENDING"]
  /\ UNCHANGED <<serverVars, start, finish, linkVars, handlerVars, journalVars,
                 native, faultVars>>

AbortConfirmed ==
  /\ pc = "aborting" /\ abort[cur] = "ACCEPTED"
  /\ aborts' = [aborts EXCEPT ![cur] = "CONFIRMED"]
  /\ active' = [active EXCEPT ![grant[cur].req] = Unrouted]
  /\ pc' = "idle" /\ cur' = 0
  /\ UNCHANGED <<serverVars, receiptVars, linkVars, accepted, mark, executed,
                 outage, files, bound, native, faultVars>>

\* A receipt the server refuses, or a start permit that runs out while waiting.
ConfirmationFails ==
  /\ \/ pc = "starting" /\ (start[cur] = "REJECTED" \/ ~fresh[cur])
     \/ /\ pc = "finishing"
        /\ \/ finish[cur] = "REJECTED"
           \/ finish[cur] = "NONE" /\ pstate[cur] \notin {"STARTED", "FINISHED"}
     \/ /\ pc = "aborting"
        /\ abort[cur] = "REJECTED" \/ (abort[cur] = "NONE" /\ ~Abortable(cur))
  /\ DropSession
  /\ UNCHANGED <<serverVars, receiptVars, journalVars, native, faultVars>>

\* Mutant: aborts are resent only while the session routes the request.
RetainedRouted(p) == aborts[p] = "RECORDED" /\ active[grant[p].req] # Unrouted

\* recover_retained_uploads resends the aborts of requests that are not routed.
Retained(p) ==
  /\ aborts[p] = "RECORDED" /\ active[grant[p].req] = Unrouted
  /\ \A q \in executed : Unit(q) = Unit(p) => q <= p

\* The list is read before the receipts are sent: a permit of it need not be
\* retained any more when its abort is posted, or confirmed.
RecoverPostAbort(p) ==
  /\ aborts[p] = "RECORDED" /\ abort[p] = "NONE" /\ Abortable(p)
  /\ abort' = [abort EXCEPT ![p] = "PENDING"]
  /\ UNCHANGED <<serverVars, start, finish, linkVars, handlerVars, journalVars,
                 native, faultVars>>

RecoverConfirmAbort(p) ==
  /\ aborts[p] = "RECORDED" /\ abort[p] = "ACCEPTED"
  /\ aborts' = [aborts EXCEPT ![p] = "CONFIRMED"]
  /\ UNCHANGED <<serverVars, receiptVars, linkVars, handlerVars, accepted, mark,
                 executed, outage, files, bound, native, faultVars>>

PutChunk ==
  /\ pc = "uploading" /\ status[cur] \in Collecting /\ chunks[cur] < Chunks
  /\ chunks' = [chunks EXCEPT ![cur] = @ + 1]
  /\ status' = [status EXCEPT ![cur] = "RECEIVING"]
  /\ stale' = [stale EXCEPT ![cur] = FALSE]
  /\ UNCHANGED <<leaseVars, halting, opened, cause, planned, next, streak,
                 permitVars, receiptVars, linkVars, handlerVars, journalVars,
                 native, faultVars>>

CompleteUpload ==
  /\ pc = "uploading" /\ status[cur] \in Collecting /\ chunks[cur] = Chunks
  /\ status' = [status EXCEPT ![cur] = "UPLOADED"]
  /\ stale' = [stale EXCEPT ![cur] = FALSE]
  /\ UNCHANGED <<leaseVars, halting, opened, chunks, cause, planned, next,
                 streak, permitVars, receiptVars, linkVars, handlerVars,
                 journalVars, native, faultVars>>

\* The snapshot shows a frozen manifest: acceptance is recorded.
UploadAccepted ==
  /\ pc = "uploading" /\ status[cur] \in {"UPLOADED", "BLOCKED", "COMPLETED"}
  /\ pc' = "idle" /\ cur' = 0
  /\ UNCHANGED <<serverVars, receiptVars, linkVars, active, journalVars, native,
                 faultVars>>

\* The server refuses a chunk for good: damaged bytes, or too many of them.
UploadRejected ==
  /\ pc = "uploading" /\ status[cur] \in Collecting /\ chunks[cur] < Chunks
  /\ faults < MaxFaults
  /\ faults' = faults + 1
  /\ status' = [status EXCEPT ![cur] = "FAILED"]
  /\ DropSession
  /\ UNCHANGED <<leaseVars, halting, stale, opened, chunks, cause, planned, next,
                 streak, permitVars, receiptVars, journalVars, native, lapses>>
-----------------------------------------------------------------------------
Worker ==
  \E e \in Holders :
    \/ \E r \in Requests : RegisterPlan(e, r) \/ RejectPlan(e, r)
    \/ \E p \in Permits : \/ Issue(e, p)
                          \/ ConsumeStart(e, p) \/ ConsumeFinish(e, p)
                          \/ ConsumeAbort(e, p)
    \/ Requeue(e)

Timers ==
  \/ WorkerAcquires \/ WorkerReleases \/ LeaseExpires
  \/ \E p \in Permits : PermitExpires(p)
  \/ \E r \in Requests : DeliveryLapses(r)

Link ==
  \/ Connect \/ SessionLapses \/ LinkBreaks \/ AgentCrashes
  \/ Deliver \/ DeliveryRefused
  \/ \E p \in Permits : OrphanExits(p)

Inbox == IF mail = <<>> THEN {} ELSE Head(mail)

Handle ==
  \E m \in Inbox :
    TakeRemoved(m) \/ TakeRequest(m) \/ TakeGrant(m) \/ TakeRefused(m)

Execute ==
  \/ PostStart \/ EnterNative \/ NativeReturns \/ BindResult
  \/ \E unavailable \in BOOLEAN : NativeFails(unavailable)
  \/ OutcomeUnknown \/ PostFinish \/ FinishConfirmed
  \/ PostAbort \/ AbortConfirmed \/ ConfirmationFails

Recover == \E p \in Permits : RecoverPostAbort(p) \/ RecoverConfirmAbort(p)

Upload == PutChunk \/ CompleteUpload \/ UploadAccepted \/ UploadRejected

Operator == \E r \in Requests : Resume(r) \/ Ingest(r)

Next == Worker \/ Timers \/ Link \/ Handle \/ Execute \/ Recover \/ Upload \/ Operator

Spec == Init /\ [][Next]_vars

(* The Worker's loops, the delivery loop, the Agent's supervisors and its    *)
(* handler keep running.  Nothing is assumed of failures, of timers, of the  *)
(* operator, or of a native call ever returning.                             *)
Fairness ==
  /\ WF_vars(WorkerAcquires)
  /\ WF_vars(\E e \in Holders, r \in Requests : RegisterPlan(e, r))
  /\ WF_vars(\E e \in Holders, p \in Permits : Issue(e, p))
  /\ WF_vars(\E e \in Holders : Requeue(e))
  /\ \A p \in Permits :
       /\ WF_vars(\E e \in Holders : ConsumeStart(e, p))
       /\ WF_vars(\E e \in Holders : ConsumeFinish(e, p))
       /\ WF_vars(\E e \in Holders : ConsumeAbort(e, p))
       /\ WF_vars(Retained(p) /\ RecoverPostAbort(p))
       /\ WF_vars(Retained(p) /\ RecoverConfirmAbort(p))
  /\ WF_vars(Connect) /\ WF_vars(SessionLapses)
  /\ WF_vars(Deliver) /\ WF_vars(DeliveryRefused) /\ WF_vars(Handle)
  /\ WF_vars(PostStart \/ EnterNative \/ ConfirmationFails)
  /\ WF_vars(BindResult) /\ WF_vars(PostFinish) /\ WF_vars(FinishConfirmed)
  /\ WF_vars(PostAbort) /\ WF_vars(AbortConfirmed)
  /\ WF_vars(PutChunk) /\ WF_vars(CompleteUpload) /\ WF_vars(UploadAccepted)

FairSpec == Spec /\ Fairness
-----------------------------------------------------------------------------
(***************************************************************************)
(* Safety.                                                                   *)
(***************************************************************************)

\* One native call at a time in the terminal: a failover, an expired permit, a
\* replayed grant or a crash that orphans the helper never lets a second call
\* start while one may be running (collection_execution.py, issue_next).
NativeExclusive ==
  \A p, q \in Permits : native[p] > 0 /\ native[q] > 0 => p = q /\ native[p] = 1

\* The scheduler's cursor and the completion facts agree: the finished units of
\* a request are exactly those before next_unit_index, each finished once.
\* Otherwise _register_plan raises and the request is failed as unplannable.
CursorExact ==
  \A r \in Requests :
    LET done == {p \in Permits : pstate[p] = "FINISHED" /\ grant[p].req = r} IN
    /\ {grant[p].unit : p \in done} = 0..(next[r] - 1)
    /\ \A p, q \in done : grant[p].unit = grant[q].unit => p = q

\* A frozen upload was made from a complete set of native results: every unit
\* was finished and its sealed file is bound in the Agent's journal.
UploadWhole ==
  \A r \in Requests :
    status[r] \in {"UPLOADED", "BLOCKED", "COMPLETED"} =>
      \A u \in 0..(Units - 1) :
        /\ <<r, u>> \in files
        /\ \E p \in bound : pstate[p] = "FINISHED" /\ Unit(p) = <<r, u>>

\* The Worker never rejects a completion or an exit that the Agent has proved: a
\* rejected receipt is final, and the permit would hold the native slot for good.
FactsNeverRejected ==
  \A p \in Permits : finish[p] # "REJECTED" /\ abort[p] # "REJECTED"

\* A request comes into the pipeline only while there is a place, however permits
\* expire, leases lapse and uploads end; only the operator's resume does not ask
\* for one (issue_next, requeue_expired_market_data_delivery_leases).
PlacesGranted ==
  [][\/ Holding' \subseteq Holding
     \/ Cardinality(Holding') <= MaxInflight
     \/ resumed' # resumed]_vars

\* "history pipeline admission invariant violated": work() and the Agent end the
\* session when more requests are routed than the pipeline admits, which is said
\* never to happen (HistorySessionStore.work, HistoryPipeline.handle).
AdmissionHolds == Cardinality(Routing) <= MaxInflight

\* A unit whose result is already sealed is never collected a second time: the
\* native call is entered only for the unit the cursor points at.
NoRecollection ==
  [][\A p \in Permits : native'[p] > native[p] =>
       Unit(p) \notin files /\ grant[p].unit = next[grant[p].req]]_vars

\* The native slot is given up only after the call exited, and with its outcome
\* in the Agent's journal: takeover and expiry prove nothing about it.
SlotHeldUntilExit ==
  [][\A p \in Permits :
       pstate[p] = "STARTED" /\ pstate'[p] # "STARTED" =>
         native[p] = 0 /\ (p \in bound \/ aborts[p] # "NONE")]_vars

(***************************************************************************)
(* Liveness.                                                                 *)
(***************************************************************************)

\* A recorded exit reaches the Worker: the request fails and the slot is freed,
\* also when its delivery lease lapsed and the session no longer routes it.
AbortConverges ==
  \A p \in Permits : aborts[p] = "RECORDED" ~> pstate[p] = "ABORTED"

\* A result bound in the Agent's journal is confirmed to the Worker ("Recovery
\* resends the original fact"), whatever breaks in between, except that the
\* delivery lease of its request runs out: see CollectedIsUploaded.
FinishConverges ==
  \A p \in Permits :
    p \in bound ~> \/ pstate[p] = "FINISHED"
                   \/ \E r \in Requests : grant[p].req = r /\ status[r] = "QUEUED"

\* A fully collected request is uploaded or failed.
CollectedIsUploaded ==
  \A r \in Requests :
    next[r] = Units ~> status[r] \notin Collecting
=============================================================================
