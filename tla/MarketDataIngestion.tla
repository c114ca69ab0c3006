------------------------- MODULE MarketDataIngestion -------------------------
(***************************************************************************)
(* Ingestion of frozen uploads by the Market Data Worker.  A process claims a *)
(* request, counts an execution against the stage's budget, validates the     *)
(* manifest, writes it block by block, reads it back and completes the        *)
(* request.  Progress is kept with the request, so that a later claim goes on *)
(* where an earlier one stopped.                                              *)
(*                                                                           *)
(* An action is one transaction, or the return of one write to the time       *)
(* series store, which neither lease nor claim can fence: a write that failed, *)
(* was acknowledged or lost its caller may become visible later or never.     *)
(* Processes crash, lose the lease while a write is under way, are stopped,   *)
(* and lose a claim they could not renew.                                     *)
(***************************************************************************)
EXTENDS WorkerLease

CONSTANTS Requests,       \* requests whose upload is frozen
          NoRequest,      \* what a process holds that holds none
          Blocks,         \* write blocks of a manifest, 1..Blocks in order
          MaxExecutions,  \* MAX_EXECUTIONS; RETRY_DELAYS has one entry less
          MaxLapses,      \* bound on claims that go stale
          MaxResumes      \* bound on the operator's interventions

ASSUME IngestionAssumption ==
  /\ NoRequest \notin Requests
  /\ Blocks \in Nat \ {0} /\ MaxExecutions \in Nat \ {0, 1}
  /\ MaxLapses \in Nat /\ MaxResumes \in Nat

Epochs == 1..MaxEpoch
BlockSet == 1..Blocks

VARIABLES
  reference, \* requests stored relationally, in one transaction: their operation
  status,    \* market_data_request.status
  owner,     \* the process whose claim token the row carries, 0 if none
  stale,     \* updated_at is older than five minutes
  phase,     \* ingestion_progress.phase, NONE before there is any progress
  execs,     \* ingestion_progress.executions
  overdue,   \* stage_started_at is older than the retry window
  delay,     \* the entry of RETRY_DELAYS next_retry_at was set from, 0 if due
  checked,   \* ingestion_progress.checkpoints of written blocks
  stored,    \* blocks the store has
  pc,        \* where process e is in its sweep
  job,       \* the request it holds
  at,        \* the block it is at
  flight,    \* calls of the store that have not returned: process, request, block
  loose,     \* blocks that were sent, are not visible and may yet become so
  ran,       \* history: executions since the operator last intervened
  expired,   \* history: processes whose lease ran out
  lapses, resumes

rowVars == <<status, owner, stale>>
progressVars == <<phase, execs, overdue, delay, checked>>
processVars == <<pc, job, at>>
storeVars == <<stored, flight, loose>>
boundVars == <<lapses, resumes>>
vars == <<leaseVars, reference, rowVars, progressVars, storeVars, processVars, ran,
          expired, boundVars>>

Running == {"claimed", "validate", "write", "sent", "landed", "failed", "readback",
            "verified"}

RowTypes ==
  /\ reference \subseteq Requests
  /\ status \in [Requests -> {"UPLOADED", "PROCESSING", "BLOCKED", "COMPLETED",
                              "FAILED"}]
  /\ owner \in [Requests -> 0..MaxEpoch] /\ stale \in [Requests -> BOOLEAN]

ProgressTypes ==
  /\ phase \in [Requests -> {"NONE", "VALIDATE", "WRITE", "READBACK", "VERIFIED"}]
  /\ execs \in [Requests -> 0..MaxExecutions] /\ overdue \in [Requests -> BOOLEAN]
  /\ delay \in [Requests -> 0..MaxExecutions - 1]
  /\ checked \in [Requests -> SUBSET BlockSet]

StoreTypes ==
  /\ stored \in [Requests -> SUBSET BlockSet]
  /\ flight \subseteq Epochs \X Requests \X BlockSet
  /\ loose \subseteq Requests \X BlockSet

ProcessTypes ==
  /\ pc \in [Epochs -> Running \cup {"none", "idle", "stopped", "dead"}]
  /\ job \in [Epochs -> Requests \cup {NoRequest}]
  /\ at \in [Epochs -> 1..Blocks + 1]

CountTypes ==
  /\ ran \in [Requests -> Nat] /\ expired \subseteq Epochs
  /\ lapses \in 0..MaxLapses /\ resumes \in 0..MaxResumes

TypeOK ==
  LeaseTypes /\ RowTypes /\ ProgressTypes /\ StoreTypes /\ ProcessTypes /\ CountTypes

Init ==
  /\ LeaseInit /\ reference \in SUBSET Requests
  /\ status = [r \in Requests |-> "UPLOADED"] /\ owner = [r \in Requests |-> 0]
  /\ stale = [r \in Requests |-> FALSE] /\ phase = [r \in Requests |-> "NONE"]
  /\ execs = [r \in Requests |-> 0] /\ overdue = [r \in Requests |-> FALSE]
  /\ delay = [r \in Requests |-> 0] /\ checked = [r \in Requests |-> {}]
  /\ stored = [r \in Requests |-> {}]
  /\ pc = [e \in Epochs |-> "none"] /\ job = [e \in Epochs |-> NoRequest]
  /\ at = [e \in Epochs |-> 1] /\ flight = {} /\ loose = {}
  /\ ran = [r \in Requests |-> 0] /\ expired = {} /\ lapses = 0 /\ resumes = 0
-----------------------------------------------------------------------------
(* The row of a request.                                                     *)

\* The claim of process e is the one the row carries and has not gone stale:
\* the condition of every later transaction of the claim.
Current(e, r) == Guard(e) /\ status[r] = "PROCESSING" /\ owner[r] = e /\ ~stale[r]

\* The row leaves PROCESSING, and with it the claim.
Leave(r, s) ==
  /\ status' = [status EXCEPT ![r] = s]
  /\ owner' = [owner EXCEPT ![r] = 0]
  /\ stale' = [stale EXCEPT ![r] = FALSE]

\* Every transaction of a claim renews updated_at; Current already says it is.
Keep == UNCHANGED rowVars

End(e, s) ==
  /\ pc' = [pc EXCEPT ![e] = s]
  /\ job' = [job EXCEPT ![e] = NoRequest]
  /\ at' = [at EXCEPT ![e] = 1]

\* Process e goes on to the next request of its sweep.
Done(e) == End(e, "idle")

Goto(e, s) == pc' = [pc EXCEPT ![e] = s] /\ UNCHANGED <<job, at>>

\* Mutant: the last execution is not counted.
ExhaustedLate(r) == execs[r] > MaxExecutions \/ overdue[r]

\* _exhausted
Exhausted(r) == execs[r] >= MaxExecutions \/ overdue[r]

\* Mutant: only an upload nobody has claimed is found.
ClaimableUploaded(e, r) == delay[r] = 0 /\ status[r] = "UPLOADED"

\* What recoverable_market_data_request_ids finds and the claim's update requires.
Claimable(e, r) ==
  /\ delay[r] = 0
  /\ \/ status[r] = "UPLOADED"
     \/ status[r] = "PROCESSING" /\ (stale[r] \/ owner[r] # e)

Claim(e, r) ==
  /\ Guard(e) /\ pc[e] = "idle" /\ Claimable(e, r)
  /\ status' = [status EXCEPT ![r] = "PROCESSING"]
  /\ owner' = [owner EXCEPT ![r] = e]
  /\ stale' = [stale EXCEPT ![r] = FALSE]
  /\ pc' = [pc EXCEPT ![e] = "claimed"] /\ job' = [job EXCEPT ![e] = r]
  /\ UNCHANGED <<leaseVars, reference, progressVars, storeVars, at, ran, expired,
                 boundVars>>

\* begin: an exhausted stage blocks the request, any other execution is counted.
Begin(e) ==
  LET r == job[e] IN
  /\ pc[e] = "claimed" /\ Current(e, r)
  /\ phase' = [phase EXCEPT ![r] = IF @ = "NONE" THEN "VALIDATE" ELSE @]
  /\ IF Exhausted(r)
     THEN /\ Leave(r, "BLOCKED") /\ Done(e)
          /\ UNCHANGED <<execs, ran>>
     ELSE /\ execs' = [execs EXCEPT ![r] = @ + 1] /\ ran' = [ran EXCEPT ![r] = @ + 1]
          /\ Keep /\ Goto(e, "validate")
  /\ UNCHANGED <<leaseVars, reference, overdue, delay, checked, storeVars, expired,
                 boundVars>>

\* advance: a new stage starts with a budget of its own.
Advance(r, p) ==
  /\ phase' = [phase EXCEPT ![r] = p]
  /\ execs' = [execs EXCEPT ![r] = 1]
  /\ overdue' = [overdue EXCEPT ![r] = FALSE]

\* Freeze the manifest, then go where the stage recorded with the request says.
Validated(e) ==
  LET r == job[e] IN
  /\ pc[e] = "validate" /\ Current(e, r)
  /\ IF phase[r] = "VALIDATE" THEN Advance(r, "WRITE")
     ELSE UNCHANGED <<phase, execs, overdue>>
  /\ Keep /\ Goto(e, IF phase[r] = "READBACK" THEN "readback" ELSE "write")
  /\ UNCHANGED <<leaseVars, reference, delay, checked, storeVars, ran, expired,
                 boundVars>>

\* confirmed: the block has a checkpoint.
Known(e, r) == at[e] \in checked[r]

CheckBlock(e) ==
  LET r == job[e] IN
  /\ pc[e] = "write" /\ r \notin reference /\ at[e] <= Blocks /\ Current(e, r)
  /\ IF Known(e, r)
     THEN /\ at' = [at EXCEPT ![e] = @ + 1]
          /\ UNCHANGED <<pc, job, flight>>
     ELSE /\ flight' = flight \cup {<<e, r, at[e]>>}
          /\ Goto(e, "sent")
  /\ UNCHANGED <<leaseVars, reference, rowVars, progressVars, stored, loose, ran,
                 expired, boundVars>>

\* The call returns: the block is visible at once, or later if at all, and the
\* store may have acknowledged the write or not.
Returns(e, r, b, visible, acknowledged) ==
  /\ <<e, r, b>> \in flight
  /\ flight' = flight \ {<<e, r, b>>}
  /\ IF visible THEN stored' = [stored EXCEPT ![r] = @ \cup {b}] /\ UNCHANGED loose
     ELSE loose' = loose \cup {<<r, b>>} /\ UNCHANGED stored
  /\ Goto(e, IF acknowledged THEN "landed" ELSE "failed")
  /\ UNCHANGED <<leaseVars, reference, rowVars, progressVars, ran, expired,
                 boundVars>>

\* A loose write arrives, or is lost.
Arrives(r, b) ==
  /\ <<r, b>> \in loose
  /\ loose' = loose \ {<<r, b>>}
  /\ stored' = [stored EXCEPT ![r] = @ \cup {b}]
  /\ UNCHANGED <<leaseVars, reference, rowVars, progressVars, flight, processVars,
                 ran, expired, boundVars>>

Vanishes(r, b) ==
  /\ <<r, b>> \in loose
  /\ loose' = loose \ {<<r, b>>}
  /\ UNCHANGED <<leaseVars, reference, rowVars, progressVars, stored, flight,
                 processVars, ran, expired, boundVars>>

\* checkpoint
ConfirmBlock(e) ==
  LET r == job[e] IN
  /\ pc[e] = "landed" /\ Current(e, r)
  /\ checked' = [checked EXCEPT ![r] = @ \cup {at[e]}]
  /\ at' = [at EXCEPT ![e] = @ + 1] /\ pc' = [pc EXCEPT ![e] = "write"]
  /\ UNCHANGED <<leaseVars, reference, rowVars, phase, execs, overdue, delay,
                 storeVars, job, ran, expired, boundVars>>

WriteDone(e) ==
  LET r == job[e] IN
  /\ pc[e] = "write" /\ r \notin reference /\ at[e] = Blocks + 1 /\ Current(e, r)
  /\ Advance(r, "READBACK") /\ Goto(e, "readback")
  /\ UNCHANGED <<leaseVars, reference, rowVars, delay, checked, storeVars, ran,
                 expired, boundVars>>

\* persist_market_data_reference: rows, audit and stage in one transaction that
\* checks the lease again before it commits; the result needs no read-back.
PersistReference(e) ==
  LET r == job[e] IN
  /\ pc[e] = "write" /\ r \in reference /\ Current(e, r)
  /\ stored' = [stored EXCEPT ![r] = BlockSet]
  /\ Advance(r, "READBACK") /\ Goto(e, "verified")
  /\ UNCHANGED <<leaseVars, reference, rowVars, delay, checked, flight, loose, ran,
                 expired, boundVars>>

\* Mutant: acknowledged writes are trusted.
VisibleWhenChecked(r) == checked[r] = BlockSet

\* The store holds everything the manifest says.
Visible(r) == stored[r] = BlockSet

ReadBack(e) ==
  /\ pc[e] = "readback" /\ Visible(job[e])
  /\ Goto(e, "verified")
  /\ UNCHANGED <<leaseVars, reference, rowVars, progressVars, storeVars, ran,
                 expired, boundVars>>

Finish(e) ==
  LET r == job[e] IN
  /\ pc[e] = "verified" /\ Current(e, r)
  /\ phase' = [phase EXCEPT ![r] = "VERIFIED"]
  /\ Leave(r, "COMPLETED") /\ Done(e)
  /\ UNCHANGED <<leaseVars, reference, execs, overdue, delay, checked, storeVars,
                 ran, expired, boundVars>>

\* The upload is invalid, or contradicts what an earlier execution recorded.
Reject(e) ==
  LET r == job[e] IN
  /\ pc[e] \in {"validate", "write", "readback"} /\ Current(e, r)
  /\ Leave(r, "FAILED") /\ Done(e)
  /\ UNCHANGED <<leaseVars, reference, progressVars, storeVars, ran, expired,
                 boundVars>>

\* The entry of RETRY_DELAYS after execution number n.
DelayAfter(n) == IF n <= 1 THEN 1 ELSE n

\* defer: any other error, while no write is under way.  One the store or the
\* read-back declares permanent blocks at once.
Defer(e, permanent) ==
  LET r == job[e]  blocked == permanent \/ Exhausted(r) IN
  /\ pc[e] \in Running \ {"sent"} /\ Current(e, r)
  /\ permanent => pc[e] \in {"write", "failed", "readback"}
  /\ phase' = [phase EXCEPT ![r] = IF @ = "NONE" THEN "VALIDATE" ELSE @]
  /\ delay' = [delay EXCEPT ![r] = IF blocked THEN 0 ELSE DelayAfter(execs[r])]
  /\ Leave(r, IF blocked THEN "BLOCKED" ELSE "UPLOADED") /\ Done(e)
  /\ UNCHANGED <<leaseVars, reference, execs, overdue, checked, storeVars, ran,
                 expired, boundVars>>

\* A renewal or any other transaction finds the claim gone; the ingestion is
\* cancelled and its write joined before the process goes on.
LoseClaim(e) ==
  /\ pc[e] \in Running \ {"sent"} /\ ~Current(e, job[e])
  /\ Done(e)
  /\ UNCHANGED <<leaseVars, reference, rowVars, progressVars, storeVars, ran,
                 expired, boundVars>>

\* Mutant: the claim is released while its write is still under way.
StopBusy(e) == pc[e] \in Running

\* A stopped process joins its write before it lets go of the claim.
MayStop(e) == pc[e] \in Running \ {"sent"}

Stop(e) ==
  LET r == job[e] IN
  /\ MayStop(e) /\ epoch < MaxEpoch
  /\ IF Current(e, r) THEN Leave(r, "UPLOADED") ELSE Keep
  /\ End(e, "stopped")
  /\ UNCHANGED <<leaseVars, reference, progressVars, storeVars, ran, expired,
                 boundVars>>
-----------------------------------------------------------------------------
(* The process.                                                              *)

WorkerAcquires ==
  /\ Acquire
  /\ pc' = [pc EXCEPT ![epoch + 1] = "idle"]
  /\ UNCHANGED <<reference, rowVars, progressVars, storeVars, job, at, ran, expired,
                 boundVars>>

\* The lease is released once every task of the process has ended.
WorkerReleases ==
  /\ Release /\ pc[epoch] \in {"idle", "stopped"}
  /\ pc' = [pc EXCEPT ![epoch] = "stopped"]
  /\ UNCHANGED <<reference, rowVars, progressVars, storeVars, job, at, ran, expired,
                 boundVars>>

LeaseExpires ==
  /\ Expire
  /\ expired' = expired \cup {epoch}
  /\ UNCHANGED <<reference, rowVars, progressVars, storeVars, processVars, ran,
                 boundVars>>

\* A process without the lease stops at the next renewal.
Retire(e) ==
  /\ e \in Holders /\ ~Guard(e) /\ pc[e] = "idle"
  /\ Goto(e, "stopped")
  /\ UNCHANGED <<leaseVars, reference, rowVars, progressVars, storeVars, ran,
                 expired, boundVars>>

\* A crash leaves the claim, the lease and a write already sent behind.
Crash(e) ==
  /\ pc[e] \in Running \cup {"idle"} /\ epoch < MaxEpoch
  /\ End(e, "dead")
  /\ flight' = {w \in flight : w[1] # e}
  /\ loose' = loose \cup {<<w[2], w[3]>> : w \in flight \ flight'}
  /\ UNCHANGED <<leaseVars, reference, rowVars, progressVars, stored, ran, expired,
                 boundVars>>
-----------------------------------------------------------------------------
(* Time and the operator.                                                    *)

\* Five minutes without a renewal; the stage started no later than that.
ClaimLapses(r) ==
  /\ status[r] = "PROCESSING" /\ ~stale[r] /\ lapses < MaxLapses
  /\ stale' = [stale EXCEPT ![r] = TRUE]
  /\ overdue' = [overdue EXCEPT ![r] = phase[r] # "NONE"]
  /\ lapses' = lapses + 1
  /\ UNCHANGED <<leaseVars, reference, status, owner, phase, execs, delay, checked,
                 storeVars, processVars, ran, expired, resumes>>

WindowCloses(r) ==
  /\ phase[r] # "NONE" /\ ~overdue[r]
  /\ overdue' = [overdue EXCEPT ![r] = TRUE]
  /\ UNCHANGED <<leaseVars, reference, rowVars, phase, execs, delay, checked,
                 storeVars, processVars, ran, expired, boundVars>>

RetryDue(r) ==
  /\ delay[r] # 0
  /\ delay' = [delay EXCEPT ![r] = 0]
  /\ UNCHANGED <<leaseVars, reference, rowVars, phase, execs, overdue, checked,
                 storeVars, processVars, ran, expired, boundVars>>

\* resume_market_data_request starts a new attempt in the stage it stopped in.
Resume(r) ==
  /\ status[r] = "BLOCKED" /\ resumes < MaxResumes
  /\ Leave(r, "UPLOADED")
  /\ execs' = [execs EXCEPT ![r] = 0] /\ overdue' = [overdue EXCEPT ![r] = FALSE]
  /\ delay' = [delay EXCEPT ![r] = 0]
  /\ ran' = [ran EXCEPT ![r] = 0] /\ resumes' = resumes + 1
  /\ UNCHANGED <<leaseVars, reference, phase, checked, storeVars, processVars,
                 expired, lapses>>

\* Mutant: a reopened upload starts with a new budget.
ReopenFresh(r) ==
  /\ status[r] = "FAILED" /\ resumes < MaxResumes
  /\ Leave(r, "UPLOADED")
  /\ execs' = [execs EXCEPT ![r] = 0] /\ overdue' = [overdue EXCEPT ![r] = FALSE]
  /\ resumes' = resumes + 1
  /\ UNCHANGED <<leaseVars, reference, phase, delay, checked, storeVars,
                 processVars, ran, expired, lapses>>

\* reopen_failed_market_data_request keeps the budget already spent.
Reopen(r) ==
  /\ status[r] = "FAILED" /\ resumes < MaxResumes
  /\ Leave(r, "UPLOADED")
  /\ resumes' = resumes + 1
  /\ UNCHANGED <<leaseVars, reference, progressVars, storeVars, processVars, ran,
                 expired, lapses>>
-----------------------------------------------------------------------------
Work(e) ==
  \/ Begin(e) \/ Validated(e) \/ CheckBlock(e) \/ ConfirmBlock(e) \/ WriteDone(e)
  \/ PersistReference(e) \/ ReadBack(e) \/ Finish(e)
  \/ Reject(e) \/ \E permanent \in BOOLEAN : Defer(e, permanent)
  \/ LoseClaim(e)

Return(e, r, b) ==
  \E visible, acknowledged \in BOOLEAN : Returns(e, r, b, visible, acknowledged)

Next ==
  \/ \E e \in Epochs :
       \/ Work(e) \/ Stop(e) \/ Retire(e) \/ Crash(e)
       \/ \E r \in Requests : Claim(e, r)
       \/ \E r \in Requests, b \in BlockSet : Return(e, r, b)
  \/ WorkerAcquires \/ WorkerReleases \/ LeaseExpires
  \/ \E r \in Requests :
       \/ ClaimLapses(r) \/ WindowCloses(r) \/ RetryDue(r) \/ Resume(r) \/ Reopen(r)
       \/ \E b \in BlockSet : Arrives(r, b) \/ Vanishes(r, b)

Spec == Init /\ [][Next]_vars

(* A running process goes on with its work and claims what it finds; a write *)
(* that was sent returns; retries fall due and retry windows close; the lease *)
(* of a dead process runs out and a successor is started.                     *)
Fairness ==
  /\ \A e \in Epochs :
       /\ WF_vars(Work(e))
       /\ WF_vars(\E r \in Requests, b \in BlockSet : Return(e, r, b))
       /\ WF_vars(pc[e] \in {"stopped", "dead"} /\ epoch = e /\ LeaseExpires)
  /\ \A e \in Epochs, r \in Requests : SF_vars(Claim(e, r))
  /\ \A r \in Requests : WF_vars(RetryDue(r)) /\ WF_vars(WindowCloses(r))
  /\ WF_vars(WorkerAcquires)

FairSpec == Spec /\ Fairness
-----------------------------------------------------------------------------
\* A completed request is in the store, whole: no takeover, lost write, retry
\* from a checkpoint or skipped stage lets COMPLETED be recorded for a block
\* that was only sent (claim_ingest_and_finish_market_data_request).
CompletedIsStored ==
  \A r \in Requests : status[r] = "COMPLETED" => stored[r] = BlockSet

\* While a process writes a request, the request is claimed by that process,
\* unless its lease ran out: a process that is stopped joins its write before it
\* releases the claim and the lease ("Releasing first permits a second ingester
\* to race the cancelled one").
WritersHandOver ==
  \A w \in flight :
    /\ pc[w[1]] = "sent"
    /\ \/ status[w[2]] = "PROCESSING" /\ owner[w[2]] = w[1]
       \/ w[1] \in expired

\* Automatic executions between two interventions of the operator are bounded:
\* each of the three stages has its own budget, and neither a restart nor a
\* reopened upload renews it.
BudgetBounded == \A r \in Requests : ran[r] <= 3 * MaxExecutions - 2

\* What the other components see of a request.
View == [r \in Requests |-> IF status[r] = "PROCESSING" THEN "UPLOADED" ELSE status[r]]

Contract == INSTANCE IngestionContract WITH state <- View

\* Ingestion implements its contract, the promise that every frozen upload is
\* settled included, across crashes, takeovers, lost claims and retries.
ImplementsContract == Contract!Spec
=============================================================================
