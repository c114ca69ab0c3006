---------------------- MODULE HistoryCollectionProofs ----------------------
(***************************************************************************)
(* Proofs about HistoryCollection, for every set of requests and any number   *)
(* of units, chunks, permits, processes and faults.                           *)
(***************************************************************************)
EXTENDS HistoryCollection, SequenceTheorems, FiniteSetTheorems, TLAPS

\* The permits of one terminal: at most one is outstanding.
OneLive == \A p, q \in Live : p = q

\* An issued permit names a unit of a request.
Issued(p) == pstate[p] # "NONE"
RealGrants == [req : Requests, unit : 0..Units - 1, epoch : 1..MaxEpoch]
Granted ==
  /\ \A p \in Permits : Issued(p) => grant[p] \in RealGrants
  /\ \A p \in Permits : start[p] # "NONE" => Issued(p)
  /\ \A p \in Permits : start[p] = "ACCEPTED" =>
       pstate[p] \in {"STARTED", "FINISHED", "ABORTED"}

\* What the Agent's handler is at belongs to the permit it handles.
Handling ==
  /\ pc \in {"starting", "native", "sealed", "finishing", "aborting"} =>
       cur \in Permits /\ Issued(cur)
  /\ pc = "native" => native[cur] = 1
  /\ pc = "sealed" => cur \in executed /\ aborts[cur] = "NONE" /\ Unit(cur) \in files
  /\ pc = "finishing" => cur \in bound
  /\ pc = "aborting" => aborts[cur] # "NONE"

Frozen == {"UPLOADED", "BLOCKED", "COMPLETED"}

\* Only a request whose units are all collected is uploaded, or past that.
Collected ==
  /\ pc = "uploading" => cur \in Requests /\ next[cur] = Units
  /\ \A r \in Requests :
       chunks[r] > 0 \/ status[r] \in Frozen =>
         next[r] = Units

\* A call that runs was entered once, and has no outcome yet.
Running ==
  \A p \in Permits :
    /\ native[p] \in {0, 1}
    /\ native[p] = 1 => p \in executed /\ aborts[p] = "NONE" /\ Unit(p) \notin files

\* The Agent's facts and the Worker's view of the permit.
Facts ==
  /\ \A p \in executed : pstate[p] \in {"STARTED", "FINISHED", "ABORTED"}
  /\ \A p \in bound : p \in executed /\ aborts[p] = "NONE" /\ Unit(p) \in files
  /\ \A p \in Permits :
       /\ pstate[p] = "FINISHED" => p \in bound
       /\ pstate[p] = "ABORTED" => aborts[p] # "NONE"
       /\ aborts[p] # "NONE" =>
            p \in executed /\ pstate[p] \in {"STARTED", "ABORTED"}
       /\ aborts[p] = "CONFIRMED" => pstate[p] = "ABORTED"

\* A completion or an exit the Worker hears of is in the Agent's journal.
Heard ==
  /\ \A p \in Permits :
       /\ finish[p] # "NONE" => p \in bound
       /\ abort[p] # "NONE" => aborts[p] # "NONE"
       /\ abort[p] = "ACCEPTED" => pstate[p] = "ABORTED"
  /\ FactsNeverRejected

\* A unit is executed again only after every earlier execution ended in an
\* abort the Worker accepted.
Once ==
  \A p, q \in executed :
    Unit(p) = Unit(q) /\ aborts[p] # "CONFIRMED" /\ aborts[q] # "CONFIRMED" => p = q

\* A sealed file has its execution.
Sealed ==
  \A f \in files : \E q \in executed : Unit(q) = f /\ aborts[q] = "NONE"

\* The outstanding permit is for the unit the cursor points at, and the finished
\* permits are those before it.
Cursored ==
  /\ \A p \in Live : next[grant[p].req] = grant[p].unit
  /\ \A p \in Permits : pstate[p] = "FINISHED" => grant[p].unit < next[grant[p].req]
  /\ \A r \in Requests : \A u \in 0..next[r] - 1 :
       \E p \in Permits : pstate[p] = "FINISHED" /\ Unit(p) = <<r, u>>
  /\ \A p, q \in Permits :
       pstate[p] = "FINISHED" /\ pstate[q] = "FINISHED" /\ Unit(p) = Unit(q) => p = q

\* What a message in the Agent's queue may say.
Letter(m) ==
  /\ m.kind = "GRANT" => m.id \in Permits /\ Issued(m.id)
  /\ m.kind = "REQUEST" => m.id \in Requests /\ m.arg <= next[m.id]
  /\ m.kind = "REMOVED" => m.id \in Requests
Letters == \A i \in 1..Len(mail) : \A m \in mail[i] : Letter(m)

IInv ==
  /\ TypeOK /\ OneLive /\ Granted /\ Handling /\ Collected /\ Running /\ Facts
  /\ Heard /\ Once /\ Sealed /\ Cursored /\ Letters
-----------------------------------------------------------------------------
USE DEF leaseVars, requestVars, permitVars, receiptVars, linkVars, handlerVars,
        journalVars, faultVars, serverVars, Permits, Live, Unit, Issued, Frozen
USE LeaseAssumption, CollectionAssumption
-----------------------------------------------------------------------------
(* What a step does to the invariant's variables.  Each action below has one  *)
(* or more of these effects as its outcomes.                                  *)

\* The request table, the lease and the clocks move; permits, receipts and the
\* Agent stay as they are.
Calm ==
  /\ LeaseTypes' /\ RequestTypes' /\ PermitTypes' /\ FaultTypes'
  /\ \A r \in Requests : chunks'[r] > 0 \/ status'[r] \in Frozen => next[r] = Units
  /\ UNCHANGED <<next, pstate, grant, receiptVars, linkVars, handlerVars,
                 journalVars, native>>

\* Messages are queued, taken or dropped.
Mails ==
  /\ LinkTypes' /\ Letters' /\ HandlerTypes'
  /\ UNCHANGED <<serverVars, receiptVars, pc, cur, journalVars, native, faultVars>>

\* A request message starts an upload.
Uploads(r) ==
  /\ LinkTypes' /\ Letters' /\ HandlerTypes' /\ next[r] = Units
  /\ pc' = "uploading" /\ cur' = r
  /\ UNCHANGED <<serverVars, receiptVars, journalVars, native, faultVars>>

\* The session ends, with the handler joined or left to finish its call; or the
\* handler has finished.
Ends ==
  /\ LinkTypes' /\ Letters' /\ FaultTypes' /\ RequestTypes'
  /\ \A r \in Requests : status'[r] \in Frozen => status[r] \in Frozen
  /\ UNCHANGED <<leaseVars, chunks, next, permitVars, receiptVars, journalVars,
                 native>>

EndsBusy == Ends /\ UNCHANGED handlerVars
EndsIdle == Ends /\ HandlerTypes' /\ pc' = "idle"

\* A start is accepted; or it is answered and the permit stays as it is.
StartTaken(p) ==
  /\ start[p] = "PENDING" /\ pstate[p] = "ISSUED"
  /\ pstate' = [pstate EXCEPT ![p] = "STARTED"]
  /\ start' = [start EXCEPT ![p] = "ACCEPTED"]
  /\ UNCHANGED <<leaseVars, requestVars, grant, fresh, resumed, finish, abort,
                 linkVars, handlerVars, journalVars, native, faultVars>>

StartAnswered(p, s) ==
  /\ Issued(p)
  /\ s = "ACCEPTED" => pstate[p] \in {"STARTED", "FINISHED"}
  /\ start' = [start EXCEPT ![p] = s]
  /\ UNCHANGED <<serverVars, finish, abort, linkVars, handlerVars, journalVars,
                 native, faultVars>>

\* A completion moves the cursor; or it is one the Worker already has.
FinishTaken(p) ==
  /\ finish[p] = "PENDING" /\ pstate[p] = "STARTED"
  /\ pstate' = [pstate EXCEPT ![p] = "FINISHED"]
  /\ next' = [next EXCEPT ![grant[p].req] = grant[p].unit + 1]
  /\ streak' \in 0..StreakLimit
  /\ finish' = [finish EXCEPT ![p] = "ACCEPTED"]
  /\ UNCHANGED <<leaseVars, status, stale, opened, chunks, cause, halting, planned,
                 grant, fresh, resumed, start, abort, linkVars, handlerVars,
                 journalVars, native, faultVars>>

FinishAnswered(p, s) ==
  /\ p \in bound
  /\ finish' = [finish EXCEPT ![p] = s]
  /\ UNCHANGED <<serverVars, start, abort, linkVars, handlerVars, journalVars,
                 native, faultVars>>

\* An exit fails the request; or it is one the Worker already has.
AbortTaken(p) ==
  /\ abort[p] = "PENDING" /\ pstate[p] = "STARTED"
  /\ pstate' = [pstate EXCEPT ![p] = "ABORTED"]
  /\ RequestTypes'
  /\ \A r \in Requests : status'[r] \in Frozen => status[r] \in Frozen
  /\ abort' = [abort EXCEPT ![p] = "ACCEPTED"]
  /\ UNCHANGED <<leaseVars, chunks, next, grant, fresh, resumed, start, finish,
                 linkVars, handlerVars, journalVars, native, faultVars>>

AbortAnswered(p, s) ==
  /\ aborts[p] # "NONE"
  /\ s = "ACCEPTED" => pstate[p] = "ABORTED"
  /\ abort' = [abort EXCEPT ![p] = s]
  /\ UNCHANGED <<serverVars, start, finish, linkVars, handlerVars, journalVars,
                 native, faultVars>>

\* A grant starts the unit, resends its completion, or resends its exit.
GrantTaken(p) ==
  /\ LinkTypes' /\ Letters' /\ Issued(p) /\ cur' = p
  /\ UNCHANGED <<serverVars, receiptVars, active, executed, aborts, outage, files,
                 native, faultVars>>

GrantStarts(p) ==
  /\ GrantTaken(p) /\ pc' = "starting"
  /\ accepted' = accepted \cup {p} /\ mark' = grant[p].epoch /\ UNCHANGED bound

GrantFinishes(p) ==
  /\ GrantTaken(p) /\ pc' = "finishing" /\ p \in executed /\ aborts[p] = "NONE"
  /\ Unit(p) \in files /\ bound' = bound \cup {p} /\ UNCHANGED <<accepted, mark>>

GrantAborts(p) ==
  /\ GrantTaken(p) /\ pc' = "aborting" /\ aborts[p] # "NONE"
  /\ UNCHANGED <<accepted, mark, bound>>

\* The result is bound, with the session up or gone.
Binds ==
  /\ pc = "sealed" /\ bound' = bound \cup {cur} /\ HandlerTypes'
  /\ UNCHANGED <<serverVars, receiptVars, linkVars, accepted, mark, executed,
                 aborts, outage, files, native, faultVars>>

BindsUp == Binds /\ pc' = "finishing" /\ UNCHANGED cur
BindsDown == Binds /\ pc' = "idle"

\* The exit is recorded, with the session up or gone.
Records ==
  /\ pc = "native" /\ Unit(cur) \notin files /\ FaultTypes' /\ HandlerTypes'
  /\ native' = [native EXCEPT ![cur] = 0]
  /\ aborts' = [aborts EXCEPT ![cur] = "RECORDED"]
  /\ outage' \subseteq Permits
  /\ UNCHANGED <<serverVars, receiptVars, linkVars, accepted, mark, executed, files,
                 bound>>

RecordsUp == Records /\ pc' = "aborting" /\ UNCHANGED cur
RecordsDown == Records /\ pc' = "idle"

\* The Agent hears that the Worker accepted the exit.
Settles(p) ==
  /\ abort[p] = "ACCEPTED" /\ HandlerTypes'
  /\ pc' = "idle" \/ UNCHANGED <<pc, cur>>
  /\ aborts' = [aborts EXCEPT ![p] = "CONFIRMED"]
  /\ UNCHANGED <<serverVars, receiptVars, linkVars, accepted, mark, executed,
                 outage, files, bound, native, faultVars>>

\* A permit is issued; one that expired unstarted makes room for it.
Issues(p, r, e) ==
  /\ pstate[p] = "NONE" /\ next[r] < Units /\ RequestTypes' /\ PermitTypes'
  /\ \A q \in Requests : status'[q] \in Frozen => status[q] \in Frozen
  /\ grant' = [grant EXCEPT ![p] = [req |-> r, unit |-> next[r], epoch |-> e]]
  /\ pstate'[p] = "ISSUED"
  /\ \A q \in Permits \ {p} :
       \/ pstate'[q] = pstate[q] /\ q \notin Live
       \/ pstate[q] = "ISSUED" /\ pstate'[q] = "EXPIRED"
  /\ UNCHANGED <<leaseVars, chunks, next, receiptVars, linkVars, handlerVars,
                 journalVars, native, faultVars>>


\* The invariant holds initially.
LEMMA InitInv == Init => IInv
<1> SUFFICES ASSUME Init PROVE IInv OBVIOUS
<1>1. LeaseTypes
  <2>1. epoch \in 0..MaxEpoch
    BY DEF Init, LeaseInit
  <2>2. live \in BOOLEAN
    BY DEF Init, LeaseInit
  <2> QED
    BY <2>1, <2>2 DEF LeaseTypes
<1>2. RequestTypes
  BY DEF Init, RequestTypes, Collecting
<1>3. PermitTypes /\ ReceiptTypes
  BY DEF Init, PermitTypes, ReceiptTypes, Receipts, Grants
<1>4. LinkTypes
  BY DEF Init, LinkTypes
<1>5. HandlerTypes
  BY DEF Init, HandlerTypes, Unrouted
<1>6. JournalTypes /\ FaultTypes
  BY DEF Init, JournalTypes, FaultTypes
<1>7. OneLive /\ Granted /\ Handling /\ Collected
  BY DEF Init, OneLive, Granted, Handling, Collected
<1>8. Running /\ Facts /\ Heard /\ Once /\ Sealed
  BY DEF Init, Running, Facts, Heard, FactsNeverRejected, Once, Sealed
<1>9. Cursored /\ Letters
  BY DEF Init, Cursored, Letters
<1> QED
  BY <1>1, <1>2, <1>3, <1>4, <1>5, <1>6, <1>7, <1>8, <1>9 DEF IInv, TypeOK


\* Calm keeps the invariant.
LEMMA CalmInv ==
  ASSUME IInv, Calm
  PROVE  IInv'
<1>1. (LeaseTypes /\ RequestTypes /\ PermitTypes /\ FaultTypes)'
  BY DEF Calm
<1>2. (ReceiptTypes /\ LinkTypes /\ HandlerTypes /\ JournalTypes)'
  BY DEF IInv, TypeOK, ReceiptTypes, LinkTypes, HandlerTypes, JournalTypes,
     Receipts, Calm
<1>3. (OneLive /\ Granted /\ Handling /\ Running)'
  BY DEF IInv, OneLive, Granted, Handling, Running, RealGrants, Calm
<1>4. (Facts /\ Heard /\ Once /\ Sealed)'
  BY DEF IInv, Facts, Heard, Once, Sealed, FactsNeverRejected, Calm
<1>5. (Cursored /\ Letters)'
  BY DEF IInv, Cursored, Letters, Letter, Calm
<1>6. Collected'
  BY DEF IInv, TypeOK, Collected, RequestTypes, HandlerTypes, Calm
<1> QED
  BY <1>1, <1>2, <1>3, <1>4, <1>5, <1>6 DEF IInv, TypeOK

\* Mails keeps the invariant.
LEMMA MailsInv ==
  ASSUME IInv, Mails
  PROVE  IInv'
<1>1. (LinkTypes /\ HandlerTypes /\ Letters)'
  BY DEF Mails
<1>2. (LeaseTypes /\ RequestTypes /\ PermitTypes /\ ReceiptTypes /\
       JournalTypes /\ FaultTypes)'
  BY DEF IInv, TypeOK, LeaseTypes, RequestTypes, PermitTypes, ReceiptTypes,
     JournalTypes, FaultTypes, Receipts, Mails
<1>3. (OneLive /\ Granted /\ Handling /\ Collected)'
  BY DEF IInv, OneLive, Granted, Handling, Collected, RealGrants, Mails
<1>4. (Running /\ Facts /\ Heard /\ Once)'
  BY DEF IInv, Running, Facts, Heard, Once, FactsNeverRejected, Mails
<1>5. (Sealed /\ Cursored)'
  BY DEF IInv, Sealed, Cursored, Mails
<1> QED
  BY <1>1, <1>2, <1>3, <1>4, <1>5 DEF IInv, TypeOK

\* Uploads keeps the invariant.
LEMMA UploadsInv ==
  ASSUME IInv, NEW r \in Requests, Uploads(r)
  PROVE  IInv'
<1>1. (LinkTypes /\ HandlerTypes /\ Letters)'
  BY DEF Uploads
<1>2. (LeaseTypes /\ RequestTypes /\ PermitTypes /\ ReceiptTypes /\
       JournalTypes /\ FaultTypes)'
  BY DEF IInv, TypeOK, LeaseTypes, RequestTypes, PermitTypes, ReceiptTypes,
     JournalTypes, FaultTypes, Receipts, Uploads
<1>3. (OneLive /\ Granted /\ Running /\ Facts)'
  BY DEF IInv, OneLive, Granted, Running, Facts, RealGrants, Uploads
<1>4. (Heard /\ Once /\ Sealed /\ Cursored)'
  BY DEF IInv, Heard, Once, Sealed, Cursored, FactsNeverRejected, Uploads
<1>5. Handling'
  BY DEF IInv, TypeOK, Handling, PermitTypes, HandlerTypes, JournalTypes, Uploads
<1>6. Collected'
  BY DEF IInv, TypeOK, Collected, RequestTypes, HandlerTypes, Uploads
<1> QED
  BY <1>1, <1>2, <1>3, <1>4, <1>5, <1>6 DEF IInv, TypeOK

\* EndsBusy keeps the invariant.
LEMMA EndsBusyInv ==
  ASSUME IInv, EndsBusy
  PROVE  IInv'
<1>1. (LinkTypes /\ Letters /\ FaultTypes /\ RequestTypes)'
  BY DEF EndsBusy, Ends
<1>2. (LeaseTypes /\ PermitTypes /\ ReceiptTypes /\ HandlerTypes /\ JournalTypes)'
  BY DEF IInv, TypeOK, LeaseTypes, PermitTypes, ReceiptTypes, HandlerTypes,
     JournalTypes, Receipts, EndsBusy, Ends
<1>3. (OneLive /\ Granted /\ Handling /\ Running)'
  BY DEF IInv, OneLive, Granted, Handling, Running, RealGrants, EndsBusy, Ends
<1>4. (Facts /\ Heard /\ Once /\ Sealed)'
  BY DEF IInv, Facts, Heard, Once, Sealed, FactsNeverRejected, EndsBusy, Ends
<1>5. (Cursored)'
  BY DEF IInv, Cursored, EndsBusy, Ends
<1>6. Collected'
  BY DEF IInv, TypeOK, Collected, RequestTypes, HandlerTypes, EndsBusy, Ends
<1> QED
  BY <1>1, <1>2, <1>3, <1>4, <1>5, <1>6 DEF IInv, TypeOK

\* EndsIdle keeps the invariant.
LEMMA EndsIdleInv ==
  ASSUME IInv, EndsIdle
  PROVE  IInv'
<1>1. (LinkTypes /\ Letters /\ FaultTypes /\ RequestTypes /\ HandlerTypes)'
  BY DEF EndsIdle, Ends
<1>2. (LeaseTypes /\ PermitTypes /\ ReceiptTypes /\ JournalTypes)'
  BY DEF IInv, TypeOK, LeaseTypes, PermitTypes, ReceiptTypes, JournalTypes,
     Receipts, EndsIdle, Ends
<1>3. (OneLive /\ Granted /\ Running /\ Facts)'
  BY DEF IInv, OneLive, Granted, Running, Facts, RealGrants, EndsIdle, Ends
<1>4. (Heard /\ Once /\ Sealed /\ Cursored)'
  BY DEF IInv, Heard, Once, Sealed, Cursored, FactsNeverRejected, EndsIdle, Ends
<1>5. Handling'
  BY DEF IInv, TypeOK, Handling, PermitTypes, HandlerTypes, JournalTypes, EndsIdle,
     Ends
<1>6. Collected'
  BY DEF IInv, TypeOK, Collected, RequestTypes, HandlerTypes, EndsIdle, Ends
<1> QED
  BY <1>1, <1>2, <1>3, <1>4, <1>5, <1>6 DEF IInv, TypeOK

\* StartTaken keeps the invariant.
LEMMA StartTakenInv ==
  ASSUME IInv, NEW p \in Permits, StartTaken(p)
  PROVE  IInv'
<1>1. (LeaseTypes /\ RequestTypes /\ LinkTypes /\ HandlerTypes /\ JournalTypes /\
       FaultTypes)'
  BY DEF IInv, TypeOK, LeaseTypes, RequestTypes, LinkTypes, HandlerTypes,
     JournalTypes, FaultTypes, StartTaken
<1>2. (Collected /\ Running /\ Once /\ Sealed)'
  BY DEF IInv, Collected, Running, Once, Sealed, StartTaken
<1>3. PermitTypes'
  BY DEF IInv, TypeOK, PermitTypes, StartTaken
<1>4. ReceiptTypes'
  BY DEF IInv, TypeOK, ReceiptTypes, Receipts, StartTaken
<1>5. OneLive'
  BY DEF IInv, TypeOK, OneLive, PermitTypes, StartTaken
<1>6. Granted'
  BY DEF IInv, TypeOK, Granted, PermitTypes, ReceiptTypes, RealGrants, Receipts,
     StartTaken
<1>7. Handling'
  BY DEF IInv, TypeOK, Handling, PermitTypes, HandlerTypes, JournalTypes, StartTaken
<1>8. Facts'
  BY DEF IInv, TypeOK, Facts, PermitTypes, JournalTypes, StartTaken
<1>9. Heard'
  BY DEF IInv, TypeOK, Heard, PermitTypes, ReceiptTypes, JournalTypes,
     FactsNeverRejected, Receipts, StartTaken
<1>10. Cursored'
  BY DEF IInv, TypeOK, Cursored, RequestTypes, PermitTypes, StartTaken
<1>11. Letters'
  BY DEF IInv, TypeOK, Letters, RequestTypes, PermitTypes, LinkTypes, Letter,
     StartTaken
<1> QED
  BY <1>1, <1>2, <1>3, <1>4, <1>5, <1>6, <1>7, <1>8, <1>9, <1>10, <1>11 DEF IInv, TypeOK

\* StartAnswered keeps the invariant.
LEMMA StartAnsweredInv ==
  ASSUME IInv, NEW p \in Permits, NEW s \in {"PENDING", "ACCEPTED", "REJECTED"},
         StartAnswered(p, s)
  PROVE  IInv'
<1>1. (LeaseTypes /\ RequestTypes /\ PermitTypes /\ LinkTypes /\ HandlerTypes /\
       JournalTypes /\ FaultTypes)'
  BY DEF IInv, TypeOK, LeaseTypes, RequestTypes, PermitTypes, LinkTypes,
     HandlerTypes, JournalTypes, FaultTypes, StartAnswered
<1>2. (OneLive /\ Handling /\ Collected /\ Running)'
  BY DEF IInv, OneLive, Handling, Collected, Running, StartAnswered
<1>3. (Facts /\ Heard /\ Once /\ Sealed)'
  BY DEF IInv, Facts, Heard, Once, Sealed, FactsNeverRejected, StartAnswered
<1>4. (Cursored /\ Letters)'
  BY DEF IInv, Cursored, Letters, Letter, StartAnswered
<1>5. ReceiptTypes'
  BY DEF IInv, TypeOK, ReceiptTypes, Receipts, StartAnswered
<1>6. Granted'
  BY DEF IInv, TypeOK, Granted, PermitTypes, ReceiptTypes, RealGrants, Receipts,
     StartAnswered
<1> QED
  BY <1>1, <1>2, <1>3, <1>4, <1>5, <1>6 DEF IInv, TypeOK

\* FinishTaken keeps the invariant.
LEMMA FinishTakenInv ==
  ASSUME IInv, NEW p \in Permits, FinishTaken(p)
  PROVE  IInv'
<1>1. (LeaseTypes /\ LinkTypes /\ HandlerTypes /\ JournalTypes /\ FaultTypes)'
  BY DEF IInv, TypeOK, LeaseTypes, LinkTypes, HandlerTypes, JournalTypes,
     FaultTypes, FinishTaken
<1>2. (Running /\ Once /\ Sealed)'
  BY DEF IInv, Running, Once, Sealed, FinishTaken
<1>3. RequestTypes'
  <2>1. grant[p].req \in Requests /\ grant[p].unit + 1 \in 0..Units
    BY DEF IInv, TypeOK, Granted, RealGrants, Issued, FinishTaken
  <2> QED
    BY <2>1 DEF IInv, TypeOK, RequestTypes, FinishTaken
<1>4. PermitTypes'
  BY DEF IInv, TypeOK, PermitTypes, FinishTaken
<1>5. ReceiptTypes'
  BY DEF IInv, TypeOK, ReceiptTypes, Receipts, FinishTaken
<1>6. OneLive'
  BY DEF IInv, TypeOK, OneLive, PermitTypes, FinishTaken
<1>7. Granted'
  BY DEF IInv, TypeOK, Granted, PermitTypes, ReceiptTypes, RealGrants, Receipts,
     FinishTaken
<1>8. Handling'
  BY DEF IInv, TypeOK, Handling, PermitTypes, HandlerTypes, JournalTypes,
     FinishTaken
<1>9. Collected'
  BY DEF IInv, TypeOK, Collected, RequestTypes, HandlerTypes, Cursored, Granted,
     RealGrants, FinishTaken
<1>10. Facts'
  BY DEF IInv, TypeOK, Facts, PermitTypes, JournalTypes, Heard, FactsNeverRejected,
     FinishTaken
<1>11. Heard'
  BY DEF IInv, TypeOK, Heard, PermitTypes, ReceiptTypes, JournalTypes,
     FactsNeverRejected, Receipts, FinishTaken
<1>12. Cursored'
  <2>1. /\ grant[p] \in RealGrants /\ next[grant[p].req] = grant[p].unit /\ p \in Live
        /\ grant[p].req \in Requests /\ grant[p].unit \in Nat
    BY DEF IInv, Granted, RealGrants, Cursored, FinishTaken
  <2>2. /\ next'[grant[p].req] = grant[p].unit + 1
        /\ \A r \in Requests : r # grant[p].req => next'[r] = next[r]
        /\ \A r \in Requests : next[r] \in Nat
    BY <2>1 DEF IInv, TypeOK, RequestTypes, FinishTaken
  <2>3. /\ \A q \in Permits : pstate'[q] = "FINISHED" <=> pstate[q] = "FINISHED" \/ q = p
        /\ \A q \in Permits : q # p /\ pstate'[q] = pstate[q] => q \notin Live
        /\ pstate'[p] = "FINISHED" /\ grant' = grant
    BY <2>1 DEF IInv, TypeOK, PermitTypes, OneLive, FinishTaken
  <2>nat. \A r \in Requests : next'[r] \in Nat
    BY <1>3 DEF RequestTypes
  <2>4. \A q \in Live' : next'[grant'[q].req] = grant'[q].unit
    BY <2>1, <2>3 DEF IInv, TypeOK, PermitTypes, OneLive, FinishTaken
  <2>5. ASSUME NEW q \in Permits, pstate'[q] = "FINISHED"
        PROVE  grant'[q].unit < next'[grant'[q].req]
    <3>1. CASE q = p
      BY <2>1, <2>2, <2>3, <3>1
    <3>2. CASE q # p
      <4>1. /\ pstate[q] = "FINISHED" /\ grant[q].unit < next[grant[q].req]
            /\ grant[q].req \in Requests /\ grant[q].unit \in Nat
        BY <2>3, <2>5, <3>2 DEF IInv, Granted, RealGrants, Cursored
      <4>3. next'[grant[q].req] \in Nat /\ next[grant[q].req] \in Nat
        BY <2>2, <2>nat, <4>1
      <4>4. ASSUME grant[q].req = grant[p].req
            PROVE  next'[grant[q].req] >= next[grant[q].req]
        <5>1. /\ next'[grant[q].req] = grant[p].unit + 1
              /\ next[grant[q].req] = grant[p].unit
          BY <2>1, <2>2, <4>4
        <5> QED
          BY <5>1, <2>1
      <4>5. ASSUME grant[q].req # grant[p].req
            PROVE  next'[grant[q].req] >= next[grant[q].req]
        <5>1. next'[grant[q].req] = next[grant[q].req]
          BY <2>2, <4>1, <4>5
        <5> QED
          BY <5>1, <4>3
      <4>2. next'[grant[q].req] >= next[grant[q].req]
        BY <4>4, <4>5
      <4> QED
        BY <2>3, <4>1, <4>2, <4>3
    <3> QED
      BY <3>1, <3>2
  <2>6. ASSUME NEW r \in Requests, NEW u \in 0..next'[r] - 1
        PROVE  \E q \in Permits : pstate'[q] = "FINISHED" /\ Unit(q)' = <<r, u>>
    <3>1. CASE u \in 0..next[r] - 1
      <4>1. PICK q \in Permits : pstate[q] = "FINISHED" /\ Unit(q) = <<r, u>>
        BY <3>1 DEF IInv, Cursored
      <4> QED
        BY <2>3, <4>1
    <3>2. CASE u \notin 0..next[r] - 1
      <4>1. r = grant[p].req /\ u = grant[p].unit
        BY <2>1, <2>2, <3>2
      <4> QED
        BY <2>3, <4>1
    <3> QED
      BY <3>1, <3>2
  <2>7. ASSUME NEW q \in Permits, NEW s \in Permits, pstate'[q] = "FINISHED",
               pstate'[s] = "FINISHED", Unit(q)' = Unit(s)'
        PROVE  q = s
    <3>1. \A x \in Permits : pstate[x] = "FINISHED" => Unit(x) # Unit(p)
      BY <2>1 DEF IInv, Cursored
    <3> QED
      BY <2>3, <2>7, <3>1 DEF IInv, Cursored
  <2> QED
    BY <2>4, <2>5, <2>6, <2>7 DEF Cursored
<1>13. Letters'
  <2>1. grant[p] \in RealGrants /\ next[grant[p].req] = grant[p].unit
    BY DEF IInv, Granted, Cursored, FinishTaken
  <2>2. \A r \in Requests : next'[r] >= next[r] /\ next[r] \in Nat /\ next'[r] \in Nat
    BY <2>1 DEF IInv, TypeOK, RequestTypes, RealGrants, FinishTaken
  <2>3. ASSUME NEW i \in 1..Len(mail), NEW m \in mail[i]
        PROVE  Letter(m)'
    <3>1. Letter(m) /\ m.arg \in Nat
      BY DEF IInv, TypeOK, LinkTypes, Letters, Messages
    <3>2. m.kind = "GRANT" => m.id \in Permits /\ Issued(m.id)'
      BY <3>1 DEF Letter, IInv, TypeOK, PermitTypes, FinishTaken
    <3>3. ASSUME m.kind = "REQUEST"
          PROVE  m.id \in Requests /\ m.arg <= next'[m.id]
      <4>1. m.id \in Requests /\ m.arg <= next[m.id]
        BY <3>1, <3>3 DEF Letter
      <4>2. next'[m.id] >= next[m.id] /\ next[m.id] \in Nat /\ next'[m.id] \in Nat
        BY <2>2, <4>1
      <4> QED
        BY <3>1, <4>1, <4>2
    <3> QED
      BY <3>1, <3>2, <3>3 DEF Letter
  <2> QED
    BY <2>3 DEF Letters, FinishTaken
<1> QED
  BY <1>1, <1>2, <1>3, <1>4, <1>5, <1>6, <1>7, <1>8, <1>9, <1>10, <1>11, <1>12,
     <1>13 DEF IInv, TypeOK

\* FinishAnswered keeps the invariant.
LEMMA FinishAnsweredInv ==
  ASSUME IInv, NEW p \in Permits, NEW s \in {"PENDING", "ACCEPTED"},
         FinishAnswered(p, s)
  PROVE  IInv'
<1>1. (LeaseTypes /\ RequestTypes /\ PermitTypes /\ LinkTypes /\ HandlerTypes /\
       JournalTypes /\ FaultTypes)'
  BY DEF IInv, TypeOK, LeaseTypes, RequestTypes, PermitTypes, LinkTypes,
     HandlerTypes, JournalTypes, FaultTypes, FinishAnswered
<1>2. (OneLive /\ Granted /\ Handling /\ Collected)'
  BY DEF IInv, OneLive, Granted, Handling, Collected, RealGrants, FinishAnswered
<1>3. (Running /\ Facts /\ Once /\ Sealed)'
  BY DEF IInv, Running, Facts, Once, Sealed, FinishAnswered
<1>4. (Cursored /\ Letters)'
  BY DEF IInv, Cursored, Letters, Letter, FinishAnswered
<1>5. ReceiptTypes'
  BY DEF IInv, TypeOK, ReceiptTypes, Receipts, FinishAnswered
<1>6. Heard'
  BY DEF IInv, TypeOK, Heard, PermitTypes, ReceiptTypes, JournalTypes,
     FactsNeverRejected, Receipts, FinishAnswered
<1> QED
  BY <1>1, <1>2, <1>3, <1>4, <1>5, <1>6 DEF IInv, TypeOK

\* AbortTaken keeps the invariant.
LEMMA AbortTakenInv ==
  ASSUME IInv, NEW p \in Permits, AbortTaken(p)
  PROVE  IInv'
<1>1. (RequestTypes)'
  BY DEF AbortTaken
<1>2. (LeaseTypes /\ LinkTypes /\ HandlerTypes /\ JournalTypes /\ FaultTypes)'
  BY DEF IInv, TypeOK, LeaseTypes, LinkTypes, HandlerTypes, JournalTypes,
     FaultTypes, AbortTaken
<1>3. (Running /\ Once /\ Sealed)'
  BY DEF IInv, Running, Once, Sealed, AbortTaken
<1>4. PermitTypes'
  BY DEF IInv, TypeOK, PermitTypes, AbortTaken
<1>5. ReceiptTypes'
  BY DEF IInv, TypeOK, ReceiptTypes, Receipts, AbortTaken
<1>6. OneLive'
  BY DEF IInv, TypeOK, OneLive, PermitTypes, AbortTaken
<1>7. Granted'
  BY DEF IInv, TypeOK, Granted, PermitTypes, ReceiptTypes, RealGrants, Receipts,
     AbortTaken
<1>8. Handling'
  BY DEF IInv, TypeOK, Handling, PermitTypes, HandlerTypes, JournalTypes, AbortTaken
<1>9. Collected'
  BY DEF IInv, TypeOK, Collected, RequestTypes, HandlerTypes, AbortTaken
<1>10. Facts'
  BY DEF IInv, TypeOK, Facts, PermitTypes, JournalTypes, Heard, FactsNeverRejected,
     AbortTaken
<1>11. Heard'
  BY DEF IInv, TypeOK, Heard, PermitTypes, ReceiptTypes, JournalTypes,
     FactsNeverRejected, Receipts, AbortTaken
<1>12. Cursored'
  BY DEF IInv, TypeOK, Cursored, RequestTypes, PermitTypes, AbortTaken
<1>13. Letters'
  BY DEF IInv, TypeOK, Letters, RequestTypes, PermitTypes, LinkTypes, Letter,
     AbortTaken
<1> QED
  BY <1>1, <1>2, <1>3, <1>4, <1>5, <1>6, <1>7, <1>8, <1>9, <1>10, <1>11, <1>12,
     <1>13 DEF IInv, TypeOK

\* AbortAnswered keeps the invariant.
LEMMA AbortAnsweredInv ==
  ASSUME IInv, NEW p \in Permits, NEW s \in {"PENDING", "ACCEPTED"},
         AbortAnswered(p, s)
  PROVE  IInv'
<1>1. (LeaseTypes /\ RequestTypes /\ PermitTypes /\ LinkTypes /\ HandlerTypes /\
       JournalTypes /\ FaultTypes)'
  BY DEF IInv, TypeOK, LeaseTypes, RequestTypes, PermitTypes, LinkTypes,
     HandlerTypes, JournalTypes, FaultTypes, AbortAnswered
<1>2. (OneLive /\ Granted /\ Handling /\ Collected)'
  BY DEF IInv, OneLive, Granted, Handling, Collected, RealGrants, AbortAnswered
<1>3. (Running /\ Facts /\ Once /\ Sealed)'
  BY DEF IInv, Running, Facts, Once, Sealed, AbortAnswered
<1>4. (Cursored /\ Letters)'
  BY DEF IInv, Cursored, Letters, Letter, AbortAnswered
<1>5. ReceiptTypes'
  BY DEF IInv, TypeOK, ReceiptTypes, Receipts, AbortAnswered
<1>6. Heard'
  BY DEF IInv, TypeOK, Heard, PermitTypes, ReceiptTypes, JournalTypes,
     FactsNeverRejected, Receipts, AbortAnswered
<1> QED
  BY <1>1, <1>2, <1>3, <1>4, <1>5, <1>6 DEF IInv, TypeOK

\* GrantStarts keeps the invariant.
LEMMA GrantStartsInv ==
  ASSUME IInv, NEW p \in Permits, GrantStarts(p)
  PROVE  IInv'
<1>1. (LinkTypes /\ Letters)'
  BY DEF GrantStarts, GrantTaken
<1>2. (LeaseTypes /\ RequestTypes /\ PermitTypes /\ ReceiptTypes /\ FaultTypes)'
  BY DEF IInv, TypeOK, LeaseTypes, RequestTypes, PermitTypes, ReceiptTypes,
     FaultTypes, Receipts, GrantStarts, GrantTaken
<1>3. (OneLive /\ Granted /\ Running /\ Facts)'
  BY DEF IInv, OneLive, Granted, Running, Facts, RealGrants, GrantStarts, GrantTaken
<1>4. (Heard /\ Once /\ Sealed /\ Cursored)'
  BY DEF IInv, Heard, Once, Sealed, Cursored, FactsNeverRejected, GrantStarts,
     GrantTaken
<1>5. HandlerTypes'
  BY DEF IInv, TypeOK, HandlerTypes, GrantStarts, GrantTaken
<1>6. JournalTypes'
  <2>1. grant[p].epoch \in 0..MaxEpoch
    BY DEF IInv, Granted, RealGrants, GrantStarts, GrantTaken
  <2> QED
    BY <2>1 DEF IInv, TypeOK, JournalTypes, GrantStarts, GrantTaken
<1>7. Handling'
  BY DEF IInv, TypeOK, Handling, PermitTypes, HandlerTypes, JournalTypes,
     GrantStarts, GrantTaken
<1>8. Collected'
  BY DEF IInv, TypeOK, Collected, RequestTypes, HandlerTypes, GrantStarts,
     GrantTaken
<1> QED
  BY <1>1, <1>2, <1>3, <1>4, <1>5, <1>6, <1>7, <1>8 DEF IInv, TypeOK

\* GrantFinishes keeps the invariant.
LEMMA GrantFinishesInv ==
  ASSUME IInv, NEW p \in Permits, GrantFinishes(p)
  PROVE  IInv'
<1>1. (LinkTypes /\ Letters)'
  BY DEF GrantFinishes, GrantTaken
<1>2. (LeaseTypes /\ RequestTypes /\ PermitTypes /\ ReceiptTypes /\ FaultTypes)'
  BY DEF IInv, TypeOK, LeaseTypes, RequestTypes, PermitTypes, ReceiptTypes,
     FaultTypes, Receipts, GrantFinishes, GrantTaken
<1>3. (OneLive /\ Granted /\ Running /\ Once)'
  BY DEF IInv, OneLive, Granted, Running, Once, RealGrants, GrantFinishes,
     GrantTaken
<1>4. (Sealed /\ Cursored)'
  BY DEF IInv, Sealed, Cursored, GrantFinishes, GrantTaken
<1>5. HandlerTypes'
  BY DEF IInv, TypeOK, HandlerTypes, GrantFinishes, GrantTaken
<1>6. JournalTypes'
  BY DEF IInv, TypeOK, JournalTypes, GrantFinishes, GrantTaken
<1>7. Handling'
  BY DEF IInv, TypeOK, Handling, PermitTypes, HandlerTypes, JournalTypes,
     GrantFinishes, GrantTaken
<1>8. Collected'
  BY DEF IInv, TypeOK, Collected, RequestTypes, HandlerTypes, GrantFinishes,
     GrantTaken
<1>9. Facts'
  BY DEF IInv, TypeOK, Facts, PermitTypes, JournalTypes, GrantFinishes, GrantTaken
<1>10. Heard'
  BY DEF IInv, TypeOK, Heard, PermitTypes, ReceiptTypes, JournalTypes,
     FactsNeverRejected, Receipts, GrantFinishes, GrantTaken
<1> QED
  BY <1>1, <1>2, <1>3, <1>4, <1>5, <1>6, <1>7, <1>8, <1>9, <1>10 DEF IInv, TypeOK

\* GrantAborts keeps the invariant.
LEMMA GrantAbortsInv ==
  ASSUME IInv, NEW p \in Permits, GrantAborts(p)
  PROVE  IInv'
<1>1. (LinkTypes /\ Letters)'
  BY DEF GrantAborts, GrantTaken
<1>2. (LeaseTypes /\ RequestTypes /\ PermitTypes /\ ReceiptTypes /\
       JournalTypes /\ FaultTypes)'
  BY DEF IInv, TypeOK, LeaseTypes, RequestTypes, PermitTypes, ReceiptTypes,
     JournalTypes, FaultTypes, Receipts, GrantAborts, GrantTaken
<1>3. (OneLive /\ Granted /\ Running /\ Facts)'
  BY DEF IInv, OneLive, Granted, Running, Facts, RealGrants, GrantAborts, GrantTaken
<1>4. (Heard /\ Once /\ Sealed /\ Cursored)'
  BY DEF IInv, Heard, Once, Sealed, Cursored, FactsNeverRejected, GrantAborts,
     GrantTaken
<1>5. HandlerTypes'
  BY DEF IInv, TypeOK, HandlerTypes, GrantAborts, GrantTaken
<1>6. Handling'
  BY DEF IInv, TypeOK, Handling, PermitTypes, HandlerTypes, JournalTypes,
     GrantAborts, GrantTaken
<1>7. Collected'
  BY DEF IInv, TypeOK, Collected, RequestTypes, HandlerTypes, GrantAborts,
     GrantTaken
<1> QED
  BY <1>1, <1>2, <1>3, <1>4, <1>5, <1>6, <1>7 DEF IInv, TypeOK

\* EnterNative keeps the invariant.
LEMMA EnterNativeInv ==
  ASSUME IInv, EnterNative
  PROVE  IInv'
<1>1. /\ cur \in Permits /\ cur \notin executed /\ pc = "starting" /\ Issued(cur)
      /\ pstate[cur] = "STARTED" /\ aborts[cur] = "NONE" /\ native[cur] = 0
      /\ Unit(cur) \notin files /\ cur \notin bound
      /\ \A q \in executed : Unit(q) = Unit(cur) => aborts[q] = "CONFIRMED"
      /\ executed' = executed \cup {cur} /\ pc' = "native"
      /\ native' = [native EXCEPT ![cur] = 1]
      /\ UNCHANGED <<serverVars, receiptVars, linkVars, active, cur, accepted, mark,
                     aborts, outage, files, bound, faultVars>>
  <2>1. cur \in Permits /\ cur \notin executed /\ Issued(cur)
    BY DEF IInv, Handling, EnterNative, Unexecuted
  <2>2. \A q \in executed : Unit(q) = Unit(cur) => aborts[q] = "CONFIRMED"
    BY <2>1 DEF EnterNative, Unexecuted, Resolved
  <2>3. pstate[cur] = "STARTED" /\ aborts[cur] = "NONE" /\ cur \notin bound
    BY <2>1 DEF IInv, TypeOK, PermitTypes, JournalTypes, Granted, Facts, EnterNative
  <2>4. native[cur] = 0
    BY <2>1 DEF IInv, Running
  <2>5. Unit(cur) \notin files
    BY <2>2 DEF IInv, Sealed
  <2>6. native' = [native EXCEPT ![cur] = 1]
    BY <2>1, <2>4 DEF IInv, TypeOK, JournalTypes, EnterNative
  <2> QED
    BY <2>1, <2>2, <2>3, <2>4, <2>5, <2>6 DEF EnterNative
<1>2. (LeaseTypes /\ RequestTypes /\ PermitTypes /\ ReceiptTypes /\ LinkTypes /\
       FaultTypes)'
  BY DEF IInv, TypeOK, LeaseTypes, RequestTypes, PermitTypes, ReceiptTypes,
     LinkTypes, FaultTypes, Receipts, EnterNative
<1>3. (OneLive /\ Granted /\ Heard /\ Cursored)'
  BY DEF IInv, OneLive, Granted, Heard, Cursored, RealGrants, FactsNeverRejected,
     EnterNative
<1>4. (Letters)'
  BY DEF IInv, Letters, Letter, EnterNative
<1>5. HandlerTypes'
  BY <1>1 DEF IInv, TypeOK, HandlerTypes
<1>6. JournalTypes'
  BY <1>1 DEF IInv, TypeOK, JournalTypes
<1>7. Handling'
  BY <1>1 DEF IInv, TypeOK, Handling, PermitTypes, HandlerTypes, JournalTypes
<1>8. Collected'
  BY <1>1 DEF IInv, TypeOK, Collected, RequestTypes, HandlerTypes
<1>9. Running'
  BY <1>1 DEF IInv, TypeOK, Running, PermitTypes, JournalTypes
<1>10. Facts'
  BY <1>1 DEF IInv, TypeOK, Facts, PermitTypes, JournalTypes
<1>11. Once'
  BY <1>1 DEF IInv, TypeOK, Once, PermitTypes, JournalTypes
<1>12. Sealed'
  BY <1>1 DEF IInv, TypeOK, Sealed, PermitTypes, JournalTypes
<1> QED
  BY <1>2, <1>3, <1>4, <1>5, <1>6, <1>7, <1>8, <1>9, <1>10, <1>11, <1>12 DEF IInv, TypeOK

\* NativeReturns keeps the invariant.
LEMMA NativeReturnsInv ==
  ASSUME IInv, NativeReturns
  PROVE  IInv'
<1>1. /\ cur \in Permits /\ cur \in executed /\ native[cur] = 1 /\ aborts[cur] = "NONE"
      /\ grant[cur] \in RealGrants /\ pc' = "sealed"
      /\ native' = [native EXCEPT ![cur] = 0] /\ files' = files \cup {Unit(cur)}
      /\ UNCHANGED <<serverVars, receiptVars, linkVars, active, cur, accepted, mark,
                     executed, aborts, outage, bound, faultVars>>
  <2>1. cur \in Permits /\ native[cur] = 1 /\ grant[cur] \in RealGrants
    BY DEF IInv, Handling, Granted, NativeReturns
  <2>2. cur \in executed /\ aborts[cur] = "NONE"
    BY <2>1 DEF IInv, Running
  <2>3. native' = [native EXCEPT ![cur] = 0]
    BY <2>1 DEF IInv, TypeOK, JournalTypes, NativeReturns
  <2> QED
    BY <2>1, <2>2, <2>3 DEF NativeReturns
<1>2. (LeaseTypes /\ RequestTypes /\ PermitTypes /\ ReceiptTypes /\ LinkTypes /\
       FaultTypes)'
  BY DEF IInv, TypeOK, LeaseTypes, RequestTypes, PermitTypes, ReceiptTypes,
     LinkTypes, FaultTypes, Receipts, NativeReturns
<1>3. (OneLive /\ Granted /\ Heard /\ Once)'
  BY DEF IInv, OneLive, Granted, Heard, Once, RealGrants, FactsNeverRejected,
     NativeReturns
<1>4. (Cursored /\ Letters)'
  BY DEF IInv, Cursored, Letters, Letter, NativeReturns
<1>5. HandlerTypes'
  BY <1>1 DEF IInv, TypeOK, HandlerTypes
<1>6. JournalTypes'
  BY <1>1 DEF IInv, TypeOK, JournalTypes, RealGrants
<1>7. Handling'
  <2>1. Unit(cur)' \in files' /\ Issued(cur)'
    BY <1>1 DEF IInv, Handling, NativeReturns
  <2> QED
    BY <1>1, <2>1 DEF Handling
<1>8. Collected'
  BY <1>1 DEF IInv, TypeOK, Collected, RequestTypes, HandlerTypes
<1>9. Running'
  <2> SUFFICES ASSUME NEW p \in Permits
               PROVE  (/\ native[p] \in {0, 1}
                       /\ native[p] = 1 =>
                            p \in executed /\ aborts[p] = "NONE" /\ Unit(p) \notin files)'
    BY DEF Running
  <2>1. CASE p = cur
    BY <1>1, <2>1 DEF IInv, TypeOK, JournalTypes
  <2>2. CASE p # cur
    <3>1. native'[p] = native[p]
      BY <1>1, <2>2 DEF IInv, TypeOK, JournalTypes
    <3>2. native[p] = 1 => Unit(p) # Unit(cur)
      BY <1>1, <2>2 DEF IInv, Running, Once
    <3> QED
      BY <1>1, <3>1, <3>2 DEF IInv, Running
  <2> QED
    BY <2>1, <2>2
<1>10. Facts'
  BY <1>1 DEF IInv, TypeOK, Facts, PermitTypes, JournalTypes
<1>11. Sealed'
  BY <1>1 DEF IInv, TypeOK, Sealed, PermitTypes, JournalTypes
<1> QED
  BY <1>2, <1>3, <1>4, <1>5, <1>6, <1>7, <1>8, <1>9, <1>10, <1>11 DEF IInv, TypeOK

\* BindsUp keeps the invariant.
LEMMA BindsUpInv ==
  ASSUME IInv, BindsUp
  PROVE  IInv'
<1>1. (HandlerTypes)'
  BY DEF BindsUp, Binds
<1>2. (LeaseTypes /\ RequestTypes /\ PermitTypes /\ ReceiptTypes /\ LinkTypes /\
       FaultTypes)'
  BY DEF IInv, TypeOK, LeaseTypes, RequestTypes, PermitTypes, ReceiptTypes,
     LinkTypes, FaultTypes, Receipts, BindsUp, Binds
<1>3. (OneLive /\ Granted /\ Running /\ Once)'
  BY DEF IInv, OneLive, Granted, Running, Once, RealGrants, BindsUp, Binds
<1>4. (Sealed /\ Cursored /\ Letters)'
  BY DEF IInv, Sealed, Cursored, Letters, Letter, BindsUp, Binds
<1>5. JournalTypes'
  BY DEF IInv, TypeOK, JournalTypes, Handling, BindsUp, Binds
<1>6. Handling'
  BY DEF IInv, TypeOK, Handling, PermitTypes, HandlerTypes, JournalTypes, BindsUp,
     Binds
<1>7. Collected'
  BY DEF IInv, TypeOK, Collected, RequestTypes, HandlerTypes, BindsUp, Binds
<1>8. Facts'
  BY DEF IInv, TypeOK, Facts, PermitTypes, JournalTypes, Handling, BindsUp, Binds
<1>9. Heard'
  BY DEF IInv, TypeOK, Heard, PermitTypes, ReceiptTypes, JournalTypes, Handling,
     FactsNeverRejected, Receipts, BindsUp, Binds
<1> QED
  BY <1>1, <1>2, <1>3, <1>4, <1>5, <1>6, <1>7, <1>8, <1>9 DEF IInv, TypeOK

\* BindsDown keeps the invariant.
LEMMA BindsDownInv ==
  ASSUME IInv, BindsDown
  PROVE  IInv'
<1>1. (HandlerTypes)'
  BY DEF BindsDown, Binds
<1>2. (LeaseTypes /\ RequestTypes /\ PermitTypes /\ ReceiptTypes /\ LinkTypes /\
       FaultTypes)'
  BY DEF IInv, TypeOK, LeaseTypes, RequestTypes, PermitTypes, ReceiptTypes,
     LinkTypes, FaultTypes, Receipts, BindsDown, Binds
<1>3. (OneLive /\ Granted /\ Running /\ Once)'
  BY DEF IInv, OneLive, Granted, Running, Once, RealGrants, BindsDown, Binds
<1>4. (Sealed /\ Cursored /\ Letters)'
  BY DEF IInv, Sealed, Cursored, Letters, Letter, BindsDown, Binds
<1>5. JournalTypes'
  BY DEF IInv, TypeOK, JournalTypes, Handling, BindsDown, Binds
<1>6. Handling'
  BY DEF IInv, TypeOK, Handling, PermitTypes, HandlerTypes, JournalTypes, BindsDown,
     Binds
<1>7. Collected'
  BY DEF IInv, TypeOK, Collected, RequestTypes, HandlerTypes, BindsDown, Binds
<1>8. Facts'
  BY DEF IInv, TypeOK, Facts, PermitTypes, JournalTypes, Handling, BindsDown, Binds
<1>9. Heard'
  BY DEF IInv, TypeOK, Heard, PermitTypes, ReceiptTypes, JournalTypes, Handling,
     FactsNeverRejected, Receipts, BindsDown, Binds
<1> QED
  BY <1>1, <1>2, <1>3, <1>4, <1>5, <1>6, <1>7, <1>8, <1>9 DEF IInv, TypeOK

\* RecordsUp keeps the invariant.
LEMMA RecordsUpInv ==
  ASSUME IInv, RecordsUp
  PROVE  IInv'
<1>1. (FaultTypes /\ HandlerTypes)'
  BY DEF RecordsUp, Records
<1>2. (LeaseTypes /\ RequestTypes /\ PermitTypes /\ ReceiptTypes /\ LinkTypes)'
  BY DEF IInv, TypeOK, LeaseTypes, RequestTypes, PermitTypes, ReceiptTypes,
     LinkTypes, Receipts, RecordsUp, Records
<1>3. (OneLive /\ Granted /\ Cursored /\ Letters)'
  BY DEF IInv, OneLive, Granted, Cursored, Letters, RealGrants, Letter, RecordsUp,
     Records
<1>4. JournalTypes'
  BY DEF IInv, TypeOK, JournalTypes, Handling, RecordsUp, Records
<1>5. Handling'
  BY DEF IInv, TypeOK, Handling, PermitTypes, HandlerTypes, JournalTypes, Running,
     Facts, Once, RecordsUp, Records
<1>6. Collected'
  BY DEF IInv, TypeOK, Collected, RequestTypes, HandlerTypes, RecordsUp, Records
<1>7. Running'
  BY DEF IInv, TypeOK, Running, PermitTypes, JournalTypes, Handling, Facts, Once,
     RecordsUp, Records
<1>8. Facts'
  BY DEF IInv, TypeOK, Facts, PermitTypes, JournalTypes, Handling, Running, Once,
     RecordsUp, Records
<1>9. Heard'
  BY DEF IInv, TypeOK, Heard, PermitTypes, ReceiptTypes, JournalTypes, Handling,
     Running, Facts, Once, FactsNeverRejected, Receipts, RecordsUp, Records
<1>10. Once'
  BY DEF IInv, TypeOK, Once, PermitTypes, JournalTypes, Handling, Running, Facts,
     RecordsUp, Records
<1>11. Sealed'
  BY DEF IInv, TypeOK, Sealed, PermitTypes, JournalTypes, Handling, Running, Facts,
     Once, RecordsUp, Records
<1> QED
  BY <1>1, <1>2, <1>3, <1>4, <1>5, <1>6, <1>7, <1>8, <1>9, <1>10, <1>11 DEF IInv, TypeOK

\* RecordsDown keeps the invariant.
LEMMA RecordsDownInv ==
  ASSUME IInv, RecordsDown
  PROVE  IInv'
<1>1. (FaultTypes /\ HandlerTypes)'
  BY DEF RecordsDown, Records
<1>2. (LeaseTypes /\ RequestTypes /\ PermitTypes /\ ReceiptTypes /\ LinkTypes)'
  BY DEF IInv, TypeOK, LeaseTypes, RequestTypes, PermitTypes, ReceiptTypes,
     LinkTypes, Receipts, RecordsDown, Records
<1>3. (OneLive /\ Granted /\ Cursored /\ Letters)'
  BY DEF IInv, OneLive, Granted, Cursored, Letters, RealGrants, Letter, RecordsDown,
     Records
<1>4. JournalTypes'
  BY DEF IInv, TypeOK, JournalTypes, Handling, RecordsDown, Records
<1>5. Handling'
  BY DEF IInv, TypeOK, Handling, PermitTypes, HandlerTypes, JournalTypes, Running,
     Facts, Once, RecordsDown, Records
<1>6. Collected'
  BY DEF IInv, TypeOK, Collected, RequestTypes, HandlerTypes, RecordsDown, Records
<1>7. Running'
  BY DEF IInv, TypeOK, Running, PermitTypes, JournalTypes, Handling, Facts, Once,
     RecordsDown, Records
<1>8. Facts'
  BY DEF IInv, TypeOK, Facts, PermitTypes, JournalTypes, Handling, Running, Once,
     RecordsDown, Records
<1>9. Heard'
  BY DEF IInv, TypeOK, Heard, PermitTypes, ReceiptTypes, JournalTypes, Handling,
     Running, Facts, Once, FactsNeverRejected, Receipts, RecordsDown, Records
<1>10. Once'
  BY DEF IInv, TypeOK, Once, PermitTypes, JournalTypes, Handling, Running, Facts,
     RecordsDown, Records
<1>11. Sealed'
  BY DEF IInv, TypeOK, Sealed, PermitTypes, JournalTypes, Handling, Running, Facts,
     Once, RecordsDown, Records
<1> QED
  BY <1>1, <1>2, <1>3, <1>4, <1>5, <1>6, <1>7, <1>8, <1>9, <1>10, <1>11 DEF IInv, TypeOK

\* Settles keeps the invariant.
LEMMA SettlesInv ==
  ASSUME IInv, NEW p \in Permits, Settles(p)
  PROVE  IInv'
<1>1. (HandlerTypes)'
  BY DEF Settles
<1>2. (LeaseTypes /\ RequestTypes /\ PermitTypes /\ ReceiptTypes /\ LinkTypes /\
       FaultTypes)'
  BY DEF IInv, TypeOK, LeaseTypes, RequestTypes, PermitTypes, ReceiptTypes,
     LinkTypes, FaultTypes, Receipts, Settles
<1>3. (OneLive /\ Granted /\ Cursored /\ Letters)'
  BY DEF IInv, OneLive, Granted, Cursored, Letters, RealGrants, Letter, Settles
<1>4. JournalTypes'
  BY DEF IInv, TypeOK, JournalTypes, Settles
<1>5. Handling'
  BY DEF IInv, TypeOK, Handling, PermitTypes, HandlerTypes, JournalTypes, Heard,
     FactsNeverRejected, Settles
<1>6. Collected'
  BY DEF IInv, TypeOK, Collected, RequestTypes, HandlerTypes, Settles
<1>7. Running'
  BY DEF IInv, TypeOK, Running, PermitTypes, JournalTypes, Facts, Heard,
     FactsNeverRejected, Settles
<1>8. Facts'
  BY DEF IInv, TypeOK, Facts, PermitTypes, JournalTypes, Heard, FactsNeverRejected,
     Settles
<1>9. Heard'
  BY DEF IInv, TypeOK, Heard, PermitTypes, ReceiptTypes, JournalTypes,
     FactsNeverRejected, Receipts, Settles
<1>10. Once'
  BY DEF IInv, TypeOK, Once, PermitTypes, JournalTypes, Settles
<1>11. Sealed'
  BY DEF IInv, TypeOK, Sealed, PermitTypes, JournalTypes, Facts, Heard,
     FactsNeverRejected, Settles
<1> QED
  BY <1>1, <1>2, <1>3, <1>4, <1>5, <1>6, <1>7, <1>8, <1>9, <1>10, <1>11 DEF IInv, TypeOK

\* OrphanExits keeps the invariant.
LEMMA OrphanExitsInv ==
  ASSUME IInv, NEW p \in Permits, OrphanExits(p)
  PROVE  IInv'
<1>1. (LeaseTypes /\ RequestTypes /\ PermitTypes /\ ReceiptTypes /\ LinkTypes /\
       HandlerTypes /\ FaultTypes)'
  BY DEF IInv, TypeOK, LeaseTypes, RequestTypes, PermitTypes, ReceiptTypes,
     LinkTypes, HandlerTypes, FaultTypes, Receipts, OrphanExits
<1>2. (OneLive /\ Granted /\ Collected /\ Facts)'
  BY DEF IInv, OneLive, Granted, Collected, Facts, RealGrants, OrphanExits
<1>3. (Heard /\ Once /\ Sealed /\ Cursored)'
  BY DEF IInv, Heard, Once, Sealed, Cursored, FactsNeverRejected, OrphanExits
<1>4. (Letters)'
  BY DEF IInv, Letters, Letter, OrphanExits
<1>5. JournalTypes'
  BY DEF IInv, TypeOK, JournalTypes, OrphanExits
<1>6. Handling'
  BY DEF IInv, TypeOK, Handling, PermitTypes, HandlerTypes, JournalTypes, Running,
     OrphanExits
<1>7. Running'
  BY DEF IInv, TypeOK, Running, PermitTypes, JournalTypes, OrphanExits
<1> QED
  BY <1>1, <1>2, <1>3, <1>4, <1>5, <1>6, <1>7 DEF IInv, TypeOK

\* Issues keeps the invariant.
LEMMA IssuesInv ==
  ASSUME IInv, NEW p \in Permits, NEW r \in Requests, NEW e \in 1..MaxEpoch,
         Issues(p, r, e)
  PROVE  IInv'
<1>1. /\ \A q \in executed : q # p /\ grant'[q] = grant[q] /\ pstate'[q] = pstate[q]
      /\ \A q \in Permits : pstate[q] # "NONE" => q # p /\ grant'[q] = grant[q]
      /\ p \notin executed /\ p \notin bound /\ native[p] = 0
      /\ grant'[p] = [req |-> r, unit |-> next[r], epoch |-> e]
  <2>1. \A q \in executed : pstate[q] \in {"STARTED", "FINISHED", "ABORTED"}
    BY DEF IInv, Facts
  <2>2. p \notin executed
    BY <2>1 DEF Issues
  <2>3. p \notin bound /\ native[p] = 0
    BY <2>2 DEF IInv, Facts, Running
  <2>4. \A q \in Permits : q # p => grant'[q] = grant[q]
    BY DEF IInv, TypeOK, PermitTypes, Issues
  <2>5. \A q \in executed : q \in Permits /\ q # p
    BY <2>2 DEF IInv, TypeOK, JournalTypes
  <2>6. \A q \in executed : pstate'[q] = pstate[q]
    BY <2>1, <2>5 DEF Issues
  <2>7. grant'[p] = [req |-> r, unit |-> next[r], epoch |-> e]
    BY DEF IInv, TypeOK, PermitTypes, Issues
  <2>8. \A q \in Permits : pstate[q] # "NONE" => q # p
    BY DEF Issues
  <2> QED
    BY <2>2, <2>3, <2>4, <2>5, <2>6, <2>7, <2>8
<1>2. (RequestTypes /\ PermitTypes)'
  BY DEF Issues
<1>3. (LeaseTypes /\ ReceiptTypes /\ LinkTypes /\ HandlerTypes /\ JournalTypes /\
       FaultTypes)'
  BY DEF IInv, TypeOK, LeaseTypes, ReceiptTypes, LinkTypes, HandlerTypes,
     JournalTypes, FaultTypes, Receipts, Issues
<1>4. OneLive'
  BY <1>1 DEF IInv, TypeOK, OneLive, PermitTypes, Issues
<1>5. Granted'
  <2>1. ASSUME NEW q \in Permits, Issued(q)'
        PROVE  grant'[q] \in RealGrants
    <3>1. CASE q = p
      BY <1>1, <3>1 DEF IInv, TypeOK, RequestTypes, RealGrants, Issues
    <3>2. CASE q # p
      BY <1>1, <2>1, <3>2 DEF IInv, TypeOK, PermitTypes, Granted, Issues
    <3> QED
      BY <3>1, <3>2
  <2>2. ASSUME NEW q \in Permits
        PROVE  (/\ start[q] # "NONE" => Issued(q)
                /\ start[q] = "ACCEPTED" =>
                     pstate[q] \in {"STARTED", "FINISHED", "ABORTED"})'
    BY <1>1 DEF IInv, TypeOK, PermitTypes, ReceiptTypes, Granted, Issues
  <2> QED
    BY <2>1, <2>2 DEF Granted
<1>6. Handling'
  BY <1>1 DEF IInv, TypeOK, Handling, PermitTypes, HandlerTypes, JournalTypes,
     Running, Facts, Issues
<1>7. Collected'
  BY <1>1 DEF IInv, TypeOK, Collected, RequestTypes, HandlerTypes, Issues
<1>8. Running'
  BY <1>1 DEF IInv, TypeOK, Running, PermitTypes, JournalTypes, Issues
<1>9. Facts'
  BY <1>1 DEF IInv, TypeOK, Facts, PermitTypes, JournalTypes, Issues
<1>10. Heard'
  BY <1>1 DEF IInv, TypeOK, Heard, PermitTypes, ReceiptTypes, JournalTypes,
     FactsNeverRejected, Receipts, Issues
<1>11. Once'
  <2>1. \A q \in executed : Unit(q)' = Unit(q)
    BY <1>1
  <2> QED
    BY <2>1 DEF IInv, Once, Issues
<1>12. Sealed'
  BY <1>1 DEF IInv, TypeOK, Sealed, PermitTypes, JournalTypes, Issues
<1>13. Cursored'
  <2>1. \A q \in Live' : q = p
    BY DEF Issues
  <2>2. \A q \in Permits : pstate'[q] = "FINISHED" <=> pstate[q] = "FINISHED"
    BY DEF Issues
  <2>3. \A q \in Permits : pstate[q] = "FINISHED" => grant'[q] = grant[q]
    BY <1>1
  <2>4. next' = next
    BY DEF Issues
  <2>5. \A q \in Live' : next'[grant'[q].req] = grant'[q].unit
    BY <1>1, <2>1, <2>4
  <2>6. \A q \in Permits : pstate'[q] = "FINISHED" =>
          grant'[q].unit < next'[grant'[q].req]
    BY <2>2, <2>3, <2>4 DEF IInv, Cursored
  <2>7. \A s \in Requests : \A u \in 0..next'[s] - 1 :
          \E q \in Permits : pstate'[q] = "FINISHED" /\ Unit(q)' = <<s, u>>
    BY <2>2, <2>3, <2>4 DEF IInv, Cursored
  <2>8. \A q, s \in Permits :
          pstate'[q] = "FINISHED" /\ pstate'[s] = "FINISHED" /\ Unit(q)' = Unit(s)' => q = s
    BY <2>2, <2>3 DEF IInv, Cursored
  <2> QED
    BY <2>5, <2>6, <2>7, <2>8 DEF Cursored
<1>14. Letters'
  BY <1>1 DEF IInv, TypeOK, Letters, RequestTypes, PermitTypes, LinkTypes, Letter,
     Issues
<1> QED
  BY <1>2, <1>3, <1>4, <1>5, <1>6, <1>7, <1>8, <1>9, <1>10, <1>11, <1>12, <1>13,
     <1>14 DEF IInv, TypeOK

\* A step that changes nothing keeps the invariant.
LEMMA StutterInv ==
  ASSUME IInv, UNCHANGED vars
  PROVE  IInv'
<1>1. Calm
  BY DEF IInv, TypeOK, vars, Calm, LeaseTypes, RequestTypes, PermitTypes, FaultTypes,
     Collected
<1> QED
  BY <1>1, CalmInv
-----------------------------------------------------------------------------
(* The queue of messages.                                                    *)

\* Taking a message leaves only messages that were there.
LEMMA TakeLetters ==
  ASSUME IInv, mail # <<>>, NEW m \in Head(mail), Take(m),
         UNCHANGED <<session, sent, pstate, next>>
  PROVE  LinkTypes' /\ Letters'
<1> DEFINE T == SUBSET Messages
<1>1. mail \in Seq(T)
  BY DEF IInv, TypeOK, LinkTypes
<1>2. /\ Head(mail) = mail[1] /\ Head(mail) \in T /\ Len(mail) \in Nat \ {0}
      /\ Tail(mail) \in Seq(T) /\ Len(Tail(mail)) = Len(mail) - 1
      /\ \A i \in 1..Len(Tail(mail)) : Tail(mail)[i] = mail[i + 1]
  BY <1>1, HeadTailProperties, EmptySeq, LenProperties
<1>3. /\ mail' \in Seq(T)
      /\ \A i \in 1..Len(mail') : \E j \in 1..Len(mail) : mail'[i] \subseteq mail[j]
  <2>1. CASE Head(mail) = {m}
    BY <1>2, <2>1 DEF Take
  <2>2. CASE Head(mail) # {m}
    <3> DEFINE h == <<Head(mail) \ {m}>>
    <3>1. h \in Seq(T) /\ Len(h) = 1 /\ h[1] = Head(mail) \ {m}
      BY <1>2
    <3>2. mail' = h \o Tail(mail)
      BY <2>2 DEF Take
    <3>3. /\ mail' \in Seq(T) /\ Len(mail') = 1 + Len(Tail(mail))
          /\ \A i \in 1..Len(mail') :
               mail'[i] = IF i <= 1 THEN h[i] ELSE Tail(mail)[i - 1]
      <4> HIDE DEF h, T
      <4>1. /\ h \o Tail(mail) \in Seq(T)
            /\ Len(h \o Tail(mail)) = Len(h) + Len(Tail(mail))
            /\ \A i \in 1..Len(h) + Len(Tail(mail)) :
                 (h \o Tail(mail))[i] =
                   IF i <= Len(h) THEN h[i] ELSE Tail(mail)[i - Len(h)]
        <5>1. h \in Seq(T) /\ Tail(mail) \in Seq(T)
          BY <1>2, <3>1
        <5> QED
          BY <5>1, ConcatProperties, Zenon
      <4> QED
        BY <3>1, <3>2, <4>1
    <3>4. ASSUME NEW i \in 1..Len(mail')
          PROVE  \E j \in 1..Len(mail) : mail'[i] \subseteq mail[j]
      <4>1. CASE i = 1
        BY <1>2, <3>1, <3>3, <4>1
      <4>2. CASE i # 1
        <5>1. i - 1 \in 1..Len(Tail(mail)) /\ mail'[i] = Tail(mail)[i - 1]
          BY <1>2, <3>3, <4>2
        <5>2. i \in 1..Len(mail) /\ Tail(mail)[i - 1] = mail[i]
          BY <1>2, <5>1
        <5> QED
          BY <5>1, <5>2
      <4> QED
        BY <4>1, <4>2
    <3> QED
      BY <3>3, <3>4
  <2> QED
    BY <2>1, <2>2
<1>4. ASSUME NEW i \in 1..Len(mail'), NEW n \in mail'[i]
      PROVE  Letter(n)'
  <2>1. PICK j \in 1..Len(mail) : mail'[i] \subseteq mail[j]
    BY <1>3
  <2>2. Letter(n)
    BY <2>1 DEF IInv, Letters
  <2> QED
    BY <2>2 DEF Letter
<1> QED
  BY <1>3, <1>4 DEF IInv, TypeOK, LinkTypes, Letters

\* What the delivery loop sends may be in the queue.
LEMMA BatchLetters ==
  ASSUME IInv
  PROVE  /\ Batch \subseteq Messages /\ Work \subseteq Messages
         /\ \A m \in Batch : Letter(m)
<1>1. ASSUME NEW r \in Requests
      PROVE  /\ RequestMessage(r) \in Messages /\ Letter(RequestMessage(r))
             /\ RemovedMessage(r) \in Messages /\ Letter(RemovedMessage(r))
  BY DEF IInv, TypeOK, RequestTypes, RequestMessage, RemovedMessage, Messages, Letter
<1>2. ASSUME NEW p \in Live
      PROVE  GrantMessage(p) \in Messages /\ Letter(GrantMessage(p))
  BY DEF GrantMessage, Messages, Letter
<1>3. Routing \subseteq Requests /\ GrantsRouted \subseteq Live
  BY DEF IInv, TypeOK, RequestTypes, Routing, GrantsRouted
<1>4. Work \subseteq Messages /\ \A m \in Work : Letter(m)
  BY <1>1, <1>2, <1>3 DEF Work
<1> QED
  BY <1>1, <1>4 DEF Batch

\* The first message of the queue is one the invariant describes.
LEMMA FirstLetter ==
  ASSUME IInv, NEW m, First(m)
  PROVE  mail # <<>> /\ m \in Head(mail) /\ m \in Messages /\ Letter(m)
<1>1. mail # <<>> /\ m \in Head(mail)
  BY DEF First
<1>2. Head(mail) = mail[1] /\ Head(mail) \subseteq Messages /\ 1 \in 1..Len(mail)
  BY <1>1, HeadTailProperties, EmptySeq, LenProperties DEF IInv, TypeOK, LinkTypes
<1> QED
  BY <1>1, <1>2 DEF IInv, Letters
-----------------------------------------------------------------------------
(* The actions.                                                              *)

\* RegisterPlan keeps the invariant.
LEMMA RegisterPlanInv ==
  ASSUME IInv, NEW e \in Holders, NEW r \in Requests, RegisterPlan(e, r)
  PROVE  IInv'
<1>1. LeaseTypes' /\ FaultTypes'
  BY DEF IInv, TypeOK, LeaseTypes, FaultTypes, RegisterPlan
<1>2. RequestTypes'
  BY DEF IInv, TypeOK, RequestTypes, HandlerTypes, Collected, RegisterPlan
<1>3. PermitTypes'
  BY DEF IInv, TypeOK, PermitTypes, RequestTypes, RegisterPlan
<1>4. \A q \in Requests : chunks'[q] > 0 \/ status'[q] \in Frozen => next[q] = Units
  BY DEF IInv, TypeOK, RequestTypes, HandlerTypes, Collected, RegisterPlan
<1>5. UNCHANGED <<next, pstate, grant, receiptVars, linkVars, handlerVars,
                  journalVars, native>>
  BY DEF RegisterPlan
<1> QED
  BY <1>1, <1>2, <1>3, <1>4, <1>5, CalmInv DEF Calm

\* RejectPlan keeps the invariant.
LEMMA RejectPlanInv ==
  ASSUME IInv, NEW e \in Holders, NEW r \in Requests, RejectPlan(e, r)
  PROVE  IInv'
<1>1. LeaseTypes' /\ FaultTypes'
  BY DEF IInv, TypeOK, LeaseTypes, FaultTypes, RejectPlan
<1>2. RequestTypes'
  BY DEF IInv, TypeOK, RequestTypes, HandlerTypes, Collected, RejectPlan
<1>3. PermitTypes'
  BY DEF IInv, TypeOK, PermitTypes, RequestTypes, RejectPlan
<1>4. \A q \in Requests : chunks'[q] > 0 \/ status'[q] \in Frozen => next[q] = Units
  BY DEF IInv, TypeOK, RequestTypes, HandlerTypes, Collected, RejectPlan
<1>5. UNCHANGED <<next, pstate, grant, receiptVars, linkVars, handlerVars,
                  journalVars, native>>
  BY DEF RejectPlan
<1> QED
  BY <1>1, <1>2, <1>3, <1>4, <1>5, CalmInv DEF Calm

\* Requeue keeps the invariant.
LEMMA RequeueInv ==
  ASSUME IInv, NEW e \in Holders, Requeue(e)
  PROVE  IInv'
<1>1. LeaseTypes' /\ FaultTypes'
  BY DEF IInv, TypeOK, LeaseTypes, FaultTypes, Requeue, Routed, Collecting
<1>2. RequestTypes'
  BY DEF IInv, TypeOK, RequestTypes, HandlerTypes, Collected, Requeue, Routed, Collecting
<1>3. PermitTypes'
  BY DEF IInv, TypeOK, PermitTypes, RequestTypes, Requeue, Routed, Collecting
<1>4. \A q \in Requests : chunks'[q] > 0 \/ status'[q] \in Frozen => next[q] = Units
  BY DEF IInv, TypeOK, RequestTypes, HandlerTypes, Collected, Requeue, Routed, Collecting
<1>5. UNCHANGED <<next, pstate, grant, receiptVars, linkVars, handlerVars,
                  journalVars, native>>
  BY DEF Requeue, Routed, Collecting
<1> QED
  BY <1>1, <1>2, <1>3, <1>4, <1>5, CalmInv DEF Calm

\* Resume keeps the invariant.
LEMMA ResumeInv ==
  ASSUME IInv, NEW r \in Requests, Resume(r)
  PROVE  IInv'
<1>1. LeaseTypes' /\ FaultTypes'
  BY DEF IInv, TypeOK, LeaseTypes, FaultTypes, Resume, Collecting
<1>2. RequestTypes'
  BY DEF IInv, TypeOK, RequestTypes, HandlerTypes, Collected, Resume, Collecting
<1>3. PermitTypes'
  <2>1. cause[r] \in Permits /\ resumed' = resumed \cup {cause[r]}
    BY DEF IInv, TypeOK, RequestTypes, Resume
  <2> QED
    BY <2>1 DEF IInv, TypeOK, PermitTypes, Resume
<1>4. \A q \in Requests : chunks'[q] > 0 \/ status'[q] \in Frozen => next[q] = Units
  BY DEF IInv, TypeOK, RequestTypes, HandlerTypes, Collected, Resume, Collecting
<1>5. UNCHANGED <<next, pstate, grant, receiptVars, linkVars, handlerVars,
                  journalVars, native>>
  BY DEF Resume, Collecting
<1> QED
  BY <1>1, <1>2, <1>3, <1>4, <1>5, CalmInv DEF Calm

\* PutChunk keeps the invariant.
LEMMA PutChunkInv ==
  ASSUME IInv, PutChunk
  PROVE  IInv'
<1>1. LeaseTypes' /\ FaultTypes'
  BY DEF IInv, TypeOK, LeaseTypes, FaultTypes, PutChunk, Collecting
<1>2. RequestTypes'
  BY DEF IInv, TypeOK, RequestTypes, HandlerTypes, Collected, PutChunk, Collecting
<1>3. PermitTypes'
  BY DEF IInv, TypeOK, PermitTypes, RequestTypes, PutChunk, Collecting
<1>4. \A q \in Requests : chunks'[q] > 0 \/ status'[q] \in Frozen => next[q] = Units
  BY DEF IInv, TypeOK, RequestTypes, HandlerTypes, Collected, PutChunk, Collecting
<1>5. UNCHANGED <<next, pstate, grant, receiptVars, linkVars, handlerVars,
                  journalVars, native>>
  BY DEF PutChunk, Collecting
<1> QED
  BY <1>1, <1>2, <1>3, <1>4, <1>5, CalmInv DEF Calm

\* CompleteUpload keeps the invariant.
LEMMA CompleteUploadInv ==
  ASSUME IInv, CompleteUpload
  PROVE  IInv'
<1>1. LeaseTypes' /\ FaultTypes'
  BY DEF IInv, TypeOK, LeaseTypes, FaultTypes, CompleteUpload, Collecting
<1>2. RequestTypes'
  BY DEF IInv, TypeOK, RequestTypes, HandlerTypes, Collected, CompleteUpload, Collecting
<1>3. PermitTypes'
  BY DEF IInv, TypeOK, PermitTypes, RequestTypes, CompleteUpload, Collecting
<1>4. \A q \in Requests : chunks'[q] > 0 \/ status'[q] \in Frozen => next[q] = Units
  BY DEF IInv, TypeOK, RequestTypes, HandlerTypes, Collected, CompleteUpload, Collecting
<1>5. UNCHANGED <<next, pstate, grant, receiptVars, linkVars, handlerVars,
                  journalVars, native>>
  BY DEF CompleteUpload, Collecting
<1> QED
  BY <1>1, <1>2, <1>3, <1>4, <1>5, CalmInv DEF Calm

\* WorkerAcquires keeps the invariant.
LEMMA WorkerAcquiresInv ==
  ASSUME IInv, WorkerAcquires
  PROVE  IInv'
<1>1. LeaseTypes' /\ FaultTypes'
  BY DEF IInv, TypeOK, LeaseTypes, FaultTypes, WorkerAcquires, Acquire, Idle
<1>2. RequestTypes'
  BY DEF IInv, TypeOK, RequestTypes, HandlerTypes, Collected, WorkerAcquires, Acquire, Idle
<1>3. PermitTypes'
  BY DEF IInv, TypeOK, PermitTypes, RequestTypes, WorkerAcquires, Acquire, Idle
<1>4. \A q \in Requests : chunks'[q] > 0 \/ status'[q] \in Frozen => next[q] = Units
  BY DEF IInv, TypeOK, RequestTypes, HandlerTypes, Collected, WorkerAcquires, Acquire, Idle
<1>5. UNCHANGED <<next, pstate, grant, receiptVars, linkVars, handlerVars,
                  journalVars, native>>
  BY DEF WorkerAcquires, Acquire, Idle
<1> QED
  BY <1>1, <1>2, <1>3, <1>4, <1>5, CalmInv DEF Calm

\* WorkerReleases keeps the invariant.
LEMMA WorkerReleasesInv ==
  ASSUME IInv, WorkerReleases
  PROVE  IInv'
<1>1. LeaseTypes' /\ FaultTypes'
  BY DEF IInv, TypeOK, LeaseTypes, FaultTypes, WorkerReleases, Release, Expire, Idle
<1>2. RequestTypes'
  BY DEF IInv, TypeOK, RequestTypes, HandlerTypes, Collected, WorkerReleases, Release, Expire, Idle
<1>3. PermitTypes'
  BY DEF IInv, TypeOK, PermitTypes, RequestTypes, WorkerReleases, Release, Expire, Idle
<1>4. \A q \in Requests : chunks'[q] > 0 \/ status'[q] \in Frozen => next[q] = Units
  BY DEF IInv, TypeOK, RequestTypes, HandlerTypes, Collected, WorkerReleases, Release, Expire, Idle
<1>5. UNCHANGED <<next, pstate, grant, receiptVars, linkVars, handlerVars,
                  journalVars, native>>
  BY DEF WorkerReleases, Release, Expire, Idle
<1> QED
  BY <1>1, <1>2, <1>3, <1>4, <1>5, CalmInv DEF Calm

\* LeaseExpires keeps the invariant.
LEMMA LeaseExpiresInv ==
  ASSUME IInv, LeaseExpires
  PROVE  IInv'
<1>1. LeaseTypes' /\ FaultTypes'
  BY DEF IInv, TypeOK, LeaseTypes, FaultTypes, LeaseExpires, Expire, Idle
<1>2. RequestTypes'
  BY DEF IInv, TypeOK, RequestTypes, HandlerTypes, Collected, LeaseExpires, Expire, Idle
<1>3. PermitTypes'
  BY DEF IInv, TypeOK, PermitTypes, RequestTypes, LeaseExpires, Expire, Idle
<1>4. \A q \in Requests : chunks'[q] > 0 \/ status'[q] \in Frozen => next[q] = Units
  BY DEF IInv, TypeOK, RequestTypes, HandlerTypes, Collected, LeaseExpires, Expire, Idle
<1>5. UNCHANGED <<next, pstate, grant, receiptVars, linkVars, handlerVars,
                  journalVars, native>>
  BY DEF LeaseExpires, Expire, Idle
<1> QED
  BY <1>1, <1>2, <1>3, <1>4, <1>5, CalmInv DEF Calm

\* PermitExpires keeps the invariant.
LEMMA PermitExpiresInv ==
  ASSUME IInv, NEW p \in Permits, PermitExpires(p)
  PROVE  IInv'
<1>1. LeaseTypes' /\ FaultTypes'
  BY DEF IInv, TypeOK, LeaseTypes, FaultTypes, PermitExpires, Idle
<1>2. RequestTypes'
  BY DEF IInv, TypeOK, RequestTypes, HandlerTypes, Collected, PermitExpires, Idle
<1>3. PermitTypes'
  BY DEF IInv, TypeOK, PermitTypes, RequestTypes, PermitExpires, Idle
<1>4. \A q \in Requests : chunks'[q] > 0 \/ status'[q] \in Frozen => next[q] = Units
  BY DEF IInv, TypeOK, RequestTypes, HandlerTypes, Collected, PermitExpires, Idle
<1>5. UNCHANGED <<next, pstate, grant, receiptVars, linkVars, handlerVars,
                  journalVars, native>>
  BY DEF PermitExpires, Idle
<1> QED
  BY <1>1, <1>2, <1>3, <1>4, <1>5, CalmInv DEF Calm

\* DeliveryLapses keeps the invariant.
LEMMA DeliveryLapsesInv ==
  ASSUME IInv, NEW r \in Requests, DeliveryLapses(r)
  PROVE  IInv'
<1>1. LeaseTypes' /\ FaultTypes'
  BY DEF IInv, TypeOK, LeaseTypes, FaultTypes, DeliveryLapses, Idle
<1>2. RequestTypes'
  BY DEF IInv, TypeOK, RequestTypes, HandlerTypes, Collected, DeliveryLapses, Idle
<1>3. PermitTypes'
  BY DEF IInv, TypeOK, PermitTypes, RequestTypes, DeliveryLapses, Idle
<1>4. \A q \in Requests : chunks'[q] > 0 \/ status'[q] \in Frozen => next[q] = Units
  BY DEF IInv, TypeOK, RequestTypes, HandlerTypes, Collected, DeliveryLapses, Idle
<1>5. UNCHANGED <<next, pstate, grant, receiptVars, linkVars, handlerVars,
                  journalVars, native>>
  BY DEF DeliveryLapses, Idle
<1> QED
  BY <1>1, <1>2, <1>3, <1>4, <1>5, CalmInv DEF Calm

\* Ingestion and the operator's interventions keep the invariant.
LEMMA IngestInv ==
  ASSUME IInv, NEW r \in Requests, Ingest(r)
  PROVE  IInv'
<1>1. next[r] = Units
  BY DEF IInv, TypeOK, RequestTypes, Collected, Ingest
<1>2. \E s \in {"UPLOADED", "BLOCKED", "COMPLETED", "FAILED"} :
        status' = [status EXCEPT ![r] = s]
  <2>1. status[r] \in {"UPLOADED", "BLOCKED", "FAILED"}
    BY DEF Ingest
  <2>2. Contract!Moves[status[r]] \subseteq {"UPLOADED", "BLOCKED", "COMPLETED", "FAILED"}
    BY <2>1 DEF Contract!Moves
  <2> QED
    BY <2>2 DEF Ingest
<1>3. faults' \in 0..MaxFaults
  <2>1. faults' \in {faults, faults + 1} /\ faults' <= MaxFaults
    BY DEF Ingest
  <2> QED
    BY <2>1 DEF IInv, TypeOK, FaultTypes
<1>4. LeaseTypes' /\ PermitTypes' /\ FaultTypes'
  BY <1>3 DEF IInv, TypeOK, LeaseTypes, PermitTypes, FaultTypes, Ingest
<1>5. RequestTypes'
  BY <1>2 DEF IInv, TypeOK, RequestTypes, Ingest
<1>6. \A q \in Requests : chunks'[q] > 0 \/ status'[q] \in Frozen => next[q] = Units
  BY <1>1, <1>2 DEF IInv, TypeOK, RequestTypes, Collected, Ingest
<1>7. UNCHANGED <<next, pstate, grant, receiptVars, linkVars, handlerVars,
                  journalVars, native>>
  BY DEF Ingest
<1> QED
  BY <1>4, <1>5, <1>6, <1>7, CalmInv DEF Calm

\* Issue keeps the invariant.
LEMMA IssueInv ==
  ASSUME IInv, NEW e \in Holders, NEW p \in Permits, Issue(e, p)
  PROVE  IInv'
<1>1. PICK r \in planned :
        /\ status[r] \in Collecting /\ next[r] < Units
        /\ grant' = [grant EXCEPT ![p] = [req |-> r, unit |-> next[r], epoch |-> e]]
        /\ status' = [status EXCEPT ![r] = IF @ = "QUEUED" THEN "DELIVERED" ELSE @]
        /\ stale' = [stale EXCEPT ![r] = @ /\ status[r] # "QUEUED"]
        /\ opened' = [opened EXCEPT ![r] = IF status[r] = "QUEUED" THEN p ELSE @]
  BY DEF Issue, Candidates
<1>2. r \in Requests /\ e \in 1..MaxEpoch
  BY DEF IInv, TypeOK, RequestTypes, LeaseTypes, Holders
<1>3. RequestTypes'
  <2>1. status' \in [Requests -> Collecting \cup {"UPLOADED", "BLOCKED", "COMPLETED",
                                                "FAILED"}]
    BY <1>1, <1>2 DEF IInv, TypeOK, RequestTypes, Collecting
  <2>2. stale' \in [Requests -> BOOLEAN]
    BY <1>1, <1>2 DEF IInv, TypeOK, RequestTypes
  <2>3. opened' \in [Requests -> 0..MaxPermits]
    BY <1>1, <1>2 DEF IInv, TypeOK, RequestTypes
  <2> QED
    BY <2>1, <2>2, <2>3 DEF IInv, TypeOK, RequestTypes, Issue
<1>4. PermitTypes'
  <2>1. grant' \in [Permits -> Grants]
    BY <1>1, <1>2 DEF IInv, TypeOK, PermitTypes, RequestTypes, Grants
  <2>2. fresh' \in [Permits -> BOOLEAN] /\ resumed' \subseteq Permits
    BY DEF IInv, TypeOK, PermitTypes, Issue
  <2>3. pstate' \in [Permits -> {"NONE", "ISSUED", "STARTED", "FINISHED", "ABORTED",
                                 "EXPIRED"}]
    BY DEF IInv, TypeOK, PermitTypes, Issue
  <2> QED
    BY <2>1, <2>2, <2>3 DEF PermitTypes
<1>5. \A q \in Requests : status'[q] \in Frozen => status[q] \in Frozen
  BY <1>1, <1>2 DEF IInv, TypeOK, RequestTypes
<1>6. pstate[p] = "NONE" /\ pstate'[p] = "ISSUED"
  BY DEF Issue
<1>7. \A q \in Permits \ {p} :
        \/ pstate'[q] = pstate[q] /\ q \notin Live
        \/ pstate[q] = "ISSUED" /\ pstate'[q] = "EXPIRED"
  BY DEF Issue, Lapsed
<1>8. UNCHANGED <<leaseVars, chunks, next, receiptVars, linkVars, handlerVars,
                  journalVars, native, faultVars>>
  BY DEF Issue
<1>9. Issues(p, r, e)
  BY <1>1, <1>3, <1>4, <1>5, <1>6, <1>7, <1>8 DEF Issues
<1> QED
  BY <1>2, <1>9, IssuesInv

\* ConsumeStart keeps the invariant.
LEMMA ConsumeStartInv ==
  ASSUME IInv, NEW e \in Holders, NEW p \in Permits, ConsumeStart(e, p)
  PROVE  IInv'
<1>1. CASE Starts(e, p)
  <2>1. StartTaken(p)
    BY <1>1 DEF ConsumeStart, Starts, StartTaken
  <2> QED
    BY <2>1, StartTakenInv
<1>2. CASE ~Starts(e, p) /\ pstate[p] \in {"STARTED", "FINISHED"}
  <2>1. StartAnswered(p, "ACCEPTED")
    BY <1>2 DEF ConsumeStart, StartAnswered
  <2> QED
    BY <2>1, StartAnsweredInv
<1>3. CASE ~Starts(e, p) /\ pstate[p] \notin {"STARTED", "FINISHED"}
  <2>1. Issued(p)
    BY DEF IInv, Granted, ConsumeStart
  <2>2. StartAnswered(p, "REJECTED")
    BY <1>3, <2>1 DEF ConsumeStart, StartAnswered
  <2> QED
    BY <2>2, StartAnsweredInv
<1> QED
  BY <1>1, <1>2, <1>3

\* ConsumeFinish keeps the invariant: a completion the Agent has bound is never
\* rejected.
LEMMA ConsumeFinishInv ==
  ASSUME IInv, NEW e \in Holders, NEW p \in Permits, ConsumeFinish(e, p)
  PROVE  IInv'
<1>1. p \in bound /\ pstate[p] \in {"STARTED", "FINISHED"}
  BY DEF IInv, Heard, Facts, ConsumeFinish
<1>2. CASE pstate[p] = "STARTED"
  <2>1. /\ grant[p].req \in Requests /\ grant[p].unit \in 0..Units - 1
        /\ next[grant[p].req] = grant[p].unit
    BY <1>2 DEF IInv, Granted, RealGrants, Cursored
  <2>2. Advances(p)
    BY <1>2, <2>1 DEF Advances
  <2>3. streak' \in 0..StreakLimit
    BY <2>2 DEF IInv, TypeOK, RequestTypes, ConsumeFinish, StreakAfter
  <2>4. next' = [next EXCEPT ![grant[p].req] = grant[p].unit + 1]
    BY <2>1, <2>2 DEF ConsumeFinish, Cursor
  <2>5. FinishTaken(p)
    BY <1>2, <2>2, <2>3, <2>4 DEF ConsumeFinish, FinishTaken
  <2> QED
    BY <2>5, FinishTakenInv
<1>3. CASE pstate[p] = "FINISHED"
  <2>1. FinishAnswered(p, "ACCEPTED")
    BY <1>1, <1>3 DEF ConsumeFinish, Advances, FinishAnswered
  <2> QED
    BY <2>1, FinishAnsweredInv
<1> QED
  BY <1>1, <1>2, <1>3

\* ConsumeAbort keeps the invariant: an exit the Agent has recorded is never
\* rejected, because a request with an outstanding permit is not frozen.
LEMMA ConsumeAbortInv ==
  ASSUME IInv, NEW e \in Holders, NEW p \in Permits, ConsumeAbort(e, p)
  PROVE  IInv'
<1>1. aborts[p] # "NONE" /\ pstate[p] \in {"STARTED", "ABORTED"}
  BY DEF IInv, Heard, Facts, ConsumeAbort
<1>2. CASE pstate[p] = "STARTED"
  <2>1. /\ grant[p].req \in Requests /\ grant[p].unit \in 0..Units - 1
        /\ next[grant[p].req] = grant[p].unit
    BY <1>2 DEF IInv, Granted, RealGrants, Cursored
  <2>2. status[grant[p].req] \notin Frozen
    <3>1. next[grant[p].req] # Units
      BY <2>1
    <3> QED
      BY <2>1, <3>1 DEF IInv, Collected
  <2>3. Fails(p)
    BY <1>2, <2>1, <2>2 DEF Fails, IInv, TypeOK, RequestTypes
  <2>4. status' = [status EXCEPT ![grant[p].req] = "FAILED"]
    BY <2>3 DEF ConsumeAbort
  <2>5. cause' \in [Requests -> 0..MaxPermits]
    BY <2>1 DEF IInv, TypeOK, RequestTypes, ConsumeAbort
  <2>6. RequestTypes'
    BY <2>1, <2>4, <2>5 DEF IInv, TypeOK, RequestTypes, ConsumeAbort
  <2>7. \A r \in Requests : status'[r] \in Frozen => status[r] \in Frozen
    BY <2>1, <2>4 DEF IInv, TypeOK, RequestTypes
  <2>8. AbortTaken(p)
    BY <1>2, <2>3, <2>6, <2>7 DEF ConsumeAbort, AbortTaken
  <2> QED
    BY <2>8, AbortTakenInv
<1>3. CASE pstate[p] = "ABORTED"
  <2>1. AbortAnswered(p, "ACCEPTED")
    BY <1>1, <1>3 DEF ConsumeAbort, Fails, AbortAnswered
  <2> QED
    BY <2>1, AbortAnsweredInv
<1> QED
  BY <1>1, <1>2, <1>3
-----------------------------------------------------------------------------

\* However the session ends, the invariant holds.
LEMMA DropInv ==
  ASSUME IInv, DropSession, FaultTypes',
         UNCHANGED <<serverVars, receiptVars, journalVars, native, lapses>>
  PROVE  IInv'
<1>1. LinkTypes' /\ Letters'
  BY DEF DropSession, LinkTypes, Letters
<1>2. Ends
  BY <1>1 DEF IInv, TypeOK, RequestTypes, Ends
<1>3. CASE pc \in {"native", "sealed"}
  <2>1. EndsBusy
    BY <1>2, <1>3 DEF DropSession, EndsBusy
  <2> QED
    BY <2>1, EndsBusyInv
<1>4. CASE pc \notin {"native", "sealed"}
  <2>1. HandlerTypes' /\ pc' = "idle"
    BY <1>4 DEF DropSession, ResetHandler, HandlerTypes
  <2>2. EndsIdle
    BY <1>2, <2>1 DEF EndsIdle
  <2> QED
    BY <2>2, EndsIdleInv
<1> QED
  BY <1>3, <1>4

\* The actions that only end the session keep the invariant.
LEMMA DropsInv ==
  ASSUME IInv,
         \/ LinkBreaks \/ DeliveryRefused \/ ConfirmationFails
         \/ \E m \in Inbox : TakeRefused(m)
  PROVE  IInv'
<1>1. faults' \in 0..MaxFaults /\ FaultTypes'
  <2>1. faults' = faults \/ (faults < MaxFaults /\ faults' = faults + 1)
    BY DEF LinkBreaks, DeliveryRefused, ConfirmationFails, TakeRefused
  <2>2. lapses' = lapses
    BY DEF LinkBreaks, DeliveryRefused, ConfirmationFails, TakeRefused
  <2> QED
    BY <2>1, <2>2 DEF IInv, TypeOK, FaultTypes
<1>2. DropSession /\ UNCHANGED <<serverVars, receiptVars, journalVars, native, lapses>>
  BY DEF LinkBreaks, DeliveryRefused, ConfirmationFails, TakeRefused
<1> QED
  BY <1>1, <1>2, DropInv

\* A crash and an unknown outcome reset the handler.
LEMMA CrashInv ==
  ASSUME IInv, AgentCrashes \/ OutcomeUnknown
  PROVE  IInv'
<1>1. FaultTypes'
  BY DEF IInv, TypeOK, FaultTypes, AgentCrashes, OutcomeUnknown
<1>2. LinkTypes' /\ Letters'
  <2>1. mail' = <<>> /\ sent' = {} /\ session' \in {session, "LINGERING"}
    BY DEF AgentCrashes, OutcomeUnknown
  <2> QED
    BY <2>1 DEF IInv, TypeOK, LinkTypes, Letters
<1>3. HandlerTypes' /\ pc' = "idle"
  BY DEF AgentCrashes, OutcomeUnknown, ResetHandler, HandlerTypes
<1>4. UNCHANGED <<serverVars, receiptVars, journalVars, native>>
  BY DEF AgentCrashes, OutcomeUnknown
<1>5. EndsIdle
  BY <1>1, <1>2, <1>3, <1>4 DEF IInv, TypeOK, RequestTypes, Ends, EndsIdle
<1> QED
  BY <1>5, EndsIdleInv

\* The handler finishes: a completion is confirmed or an upload accepted.
LEMMA FinishedInv ==
  ASSUME IInv, FinishConfirmed \/ UploadAccepted
  PROVE  IInv'
<1>1. /\ pc' = "idle" /\ cur' = 0
      /\ UNCHANGED <<serverVars, receiptVars, linkVars, active, journalVars, native,
                     faultVars>>
  BY DEF FinishConfirmed, UploadAccepted
<1>2. LinkTypes' /\ Letters' /\ FaultTypes' /\ HandlerTypes'
  BY <1>1 DEF IInv, TypeOK, LinkTypes, Letters, Letter, FaultTypes, HandlerTypes
<1>3. EndsIdle
  BY <1>1, <1>2 DEF IInv, TypeOK, RequestTypes, Ends, EndsIdle
<1> QED
  BY <1>3, EndsIdleInv

\* UploadRejected keeps the invariant.
LEMMA UploadRejectedInv ==
  ASSUME IInv, UploadRejected
  PROVE  IInv'
<1>1. LinkTypes' /\ Letters' /\ HandlerTypes' /\ pc' = "idle"
  BY DEF UploadRejected, DropSession, ResetHandler, LinkTypes, Letters, HandlerTypes
<1>2. FaultTypes'
  BY DEF IInv, TypeOK, FaultTypes, UploadRejected
<1>3. cur \in Requests /\ status' = [status EXCEPT ![cur] = "FAILED"]
  BY DEF IInv, Collected, UploadRejected
<1>4. RequestTypes' /\ \A r \in Requests : status'[r] \in Frozen => status[r] \in Frozen
  BY <1>3 DEF IInv, TypeOK, RequestTypes, UploadRejected
<1>5. EndsIdle
  BY <1>1, <1>2, <1>4 DEF Ends, EndsIdle, UploadRejected
<1> QED
  BY <1>5, EndsIdleInv

\* The link's own actions keep the invariant.
LEMMA LinkInv ==
  ASSUME IInv, Connect \/ SessionLapses
  PROVE  IInv'
<1>1. LinkTypes' /\ Letters' /\ HandlerTypes'
  BY DEF IInv, TypeOK, LinkTypes, Letters, Letter, HandlerTypes, Connect, SessionLapses
<1>2. Mails
  BY <1>1 DEF Mails, Connect, SessionLapses
<1> QED
  BY <1>2, MailsInv

\* Deliver keeps the invariant.
LEMMA DeliverInv ==
  ASSUME IInv, Deliver
  PROVE  IInv'
<1> DEFINE T == SUBSET Messages
<1>1. mail \in Seq(T) /\ Batch \in T /\ Work \subseteq Messages
  BY BatchLetters DEF IInv, TypeOK, LinkTypes
<1>2. mail' = mail \/ mail' = Append(mail, Batch)
  BY DEF Deliver
<1>3. UNCHANGED <<serverVars, receiptVars, session, handlerVars, journalVars, native,
                  faultVars>>
  BY DEF Deliver
<1>4. mail' \in Seq(T)
  BY <1>1, <1>2
<1>5. ASSUME NEW i \in 1..Len(mail'), NEW m \in mail'[i]
      PROVE  Letter(m)'
  <2>1. mail'[i] = Batch \/ (i \in 1..Len(mail) /\ mail'[i] = mail[i])
    BY <1>1, <1>2
  <2>2. Letter(m)
    BY <2>1, BatchLetters DEF IInv, Letters
  <2> QED
    BY <1>3, <2>2 DEF Letter
<1>6. LinkTypes' /\ Letters' /\ HandlerTypes'
  BY <1>1, <1>3, <1>4, <1>5 DEF IInv, TypeOK, LinkTypes, Letters, HandlerTypes, Deliver
<1>7. Mails
  BY <1>3, <1>6 DEF Mails
<1> QED
  BY <1>7, MailsInv
-----------------------------------------------------------------------------
(* The Agent's handler.                                                      *)

\* A permit that was executed and not aborted is bound, not taken for another's.
LEMMA BindExact ==
  ASSUME IInv, NEW p \in executed, aborts[p] = "NONE", Bind(p)
  PROVE  bound' = bound \cup {p}
<1>1. ASSUME NEW q \in bound, Unit(q) = Unit(p)
      PROVE  p \in bound
  <2>1. q \in executed /\ aborts[q] = "NONE"
    BY DEF IInv, Facts
  <2>2. q = p
    BY <1>1, <2>1 DEF IInv, Once
  <2> QED
    BY <2>2
<1> QED
  BY <1>1 DEF Bind

\* TakeRemoved keeps the invariant.
LEMMA TakeRemovedInv ==
  ASSUME IInv, NEW m, TakeRemoved(m)
  PROVE  IInv'
<1>1. mail # <<>> /\ m \in Head(mail) /\ m \in Messages /\ Letter(m)
  BY FirstLetter DEF TakeRemoved
<1>2. Take(m) /\ UNCHANGED <<session, sent, pstate, next>>
  BY DEF TakeRemoved
<1>3. LinkTypes' /\ Letters'
  BY <1>1, <1>2, TakeLetters
<1>4. HandlerTypes'
  BY DEF IInv, TypeOK, HandlerTypes, TakeRemoved
<1>5. Mails
  BY <1>3, <1>4 DEF Mails, TakeRemoved
<1> QED
  BY <1>5, MailsInv

\* TakeRequest keeps the invariant: the upload begins with every unit finished.
LEMMA TakeRequestInv ==
  ASSUME IInv, NEW m, TakeRequest(m)
  PROVE  IInv'
<1>1. mail # <<>> /\ m \in Head(mail) /\ m \in Messages /\ Letter(m)
  BY FirstLetter DEF TakeRequest
<1>2. Take(m) /\ UNCHANGED <<session, sent, pstate, next>>
  BY DEF TakeRequest
<1>3. LinkTypes' /\ Letters'
  BY <1>1, <1>2, TakeLetters
<1>4. m.id \in Requests /\ m.arg \in Nat /\ m.arg <= next[m.id]
  BY <1>1 DEF Letter, Messages, TakeRequest
<1>5. next[m.id] \in 0..Units /\ m.arg \in 0..Units
  <2>1. next \in [Requests -> 0..Units]
    BY DEF IInv, TypeOK, RequestTypes
  <2>2. next[m.id] \in 0..Units
    BY <1>4, <2>1
  <2> QED
    BY <1>4, <2>2
<1>6. active' \in [Requests -> {Unrouted} \cup (0..Units)]
  BY <1>4, <1>5 DEF IInv, TypeOK, HandlerTypes, TakeRequest
<1>7. CASE m.arg = Units
  <2>1. pc' = "uploading" /\ cur' = m.id /\ next[m.id] = Units
    BY <1>4, <1>5, <1>7 DEF TakeRequest
  <2>2. HandlerTypes'
    BY <1>4, <1>6, <2>1 DEF HandlerTypes
  <2>3. Uploads(m.id)
    BY <1>3, <2>1, <2>2 DEF Uploads, TakeRequest
  <2> QED
    BY <1>4, <2>3, UploadsInv
<1>8. CASE m.arg # Units
  <2>1. UNCHANGED <<pc, cur>>
    BY <1>8 DEF TakeRequest
  <2>2. HandlerTypes'
    BY <1>6, <2>1 DEF IInv, TypeOK, HandlerTypes
  <2>3. Mails
    BY <1>3, <2>1, <2>2 DEF Mails, TakeRequest
  <2> QED
    BY <2>3, MailsInv
<1> QED
  BY <1>7, <1>8

\* TakeGrant keeps the invariant, whichever way the permit is executed.
LEMMA TakeGrantInv ==
  ASSUME IInv, NEW m, TakeGrant(m)
  PROVE  IInv'
<1> DEFINE p == m.id
<1>1. mail # <<>> /\ m \in Head(mail) /\ m \in Messages /\ Letter(m)
  BY FirstLetter DEF TakeGrant
<1>2. Take(m) /\ UNCHANGED <<session, sent, pstate, next>>
  BY DEF TakeGrant
<1>3. LinkTypes' /\ Letters'
  BY <1>1, <1>2, TakeLetters
<1>4. p \in Permits /\ Issued(p)
  BY <1>1 DEF Letter, TakeGrant
<1>5. GrantTaken(p)
  BY <1>3, <1>4 DEF GrantTaken, TakeGrant
<1>6. CASE /\ accepted' = accepted \cup {p} /\ mark' = grant[p].epoch
           /\ pc' = "starting" /\ UNCHANGED bound
  <2>1. GrantStarts(p)
    BY <1>5, <1>6 DEF GrantStarts
  <2> QED
    BY <1>4, <2>1, GrantStartsInv
<1>7. CASE Recoverable(p, m) /\ Bind(p) /\ pc' = "finishing" /\ UNCHANGED <<accepted, mark>>
  <2>1. p \in executed /\ aborts[p] = "NONE" /\ Unit(p) \in files
    BY <1>7 DEF Recoverable
  <2>2. bound' = bound \cup {p}
    BY <1>7, <2>1, BindExact
  <2>3. GrantFinishes(p)
    BY <1>5, <1>7, <2>1, <2>2 DEF GrantFinishes
  <2> QED
    BY <1>4, <2>3, GrantFinishesInv
<1>8. CASE Failed(p, m) /\ pc' = "aborting" /\ UNCHANGED <<accepted, mark, bound>>
  <2>1. GrantAborts(p)
    BY <1>5, <1>8 DEF GrantAborts, Failed
  <2> QED
    BY <1>4, <2>1, GrantAbortsInv
<1> QED
  BY <1>6, <1>7, <1>8 DEF TakeGrant

\* Receipts are posted, by the handler or by the recovery of retained aborts.
LEMMA PostsInv ==
  ASSUME IInv, PostStart \/ PostFinish \/ PostAbort
  PROVE  IInv'
<1>1. CASE PostStart
  <2>1. cur \in Permits /\ Issued(cur)
    BY <1>1 DEF IInv, Handling, PostStart
  <2>2. StartAnswered(cur, "PENDING")
    BY <1>1, <2>1 DEF PostStart, StartAnswered
  <2> QED
    BY <2>1, <2>2, StartAnsweredInv
<1>2. CASE PostFinish
  <2>1. cur \in Permits /\ cur \in bound
    BY <1>2 DEF IInv, Handling, PostFinish
  <2>2. FinishAnswered(cur, "PENDING")
    BY <1>2, <2>1 DEF PostFinish, FinishAnswered
  <2> QED
    BY <2>1, <2>2, FinishAnsweredInv
<1>3. CASE PostAbort
  <2>1. cur \in Permits /\ aborts[cur] # "NONE"
    BY <1>3 DEF IInv, Handling, PostAbort
  <2>2. AbortAnswered(cur, "PENDING")
    BY <1>3, <2>1 DEF PostAbort, AbortAnswered
  <2> QED
    BY <2>1, <2>2, AbortAnsweredInv
<1> QED
  BY <1>1, <1>2, <1>3

\* The recovery of retained aborts keeps the invariant.
LEMMA RecoverInv ==
  ASSUME IInv, NEW p \in Permits, RecoverPostAbort(p) \/ RecoverConfirmAbort(p)
  PROVE  IInv'
<1>1. CASE RecoverPostAbort(p)
  <2>1. AbortAnswered(p, "PENDING")
    BY <1>1 DEF RecoverPostAbort, AbortAnswered
  <2> QED
    BY <2>1, AbortAnsweredInv
<1>2. CASE RecoverConfirmAbort(p)
  <2>1. HandlerTypes'
    BY <1>2 DEF IInv, TypeOK, HandlerTypes, RecoverConfirmAbort
  <2>2. Settles(p)
    BY <1>2, <2>1 DEF RecoverConfirmAbort, Settles
  <2> QED
    BY <2>2, SettlesInv
<1> QED
  BY <1>1, <1>2

\* AbortConfirmed keeps the invariant.
LEMMA AbortConfirmedInv ==
  ASSUME IInv, AbortConfirmed
  PROVE  IInv'
<1>1. cur \in Permits
  BY DEF IInv, Handling, AbortConfirmed
<1>2. HandlerTypes'
  BY DEF IInv, TypeOK, HandlerTypes, AbortConfirmed
<1>3. Settles(cur)
  BY <1>2 DEF AbortConfirmed, Settles
<1> QED
  BY <1>1, <1>3, SettlesInv

\* BindResult keeps the invariant.
LEMMA BindResultInv ==
  ASSUME IInv, BindResult
  PROVE  IInv'
<1>1. cur \in executed /\ aborts[cur] = "NONE"
  BY DEF IInv, Handling, BindResult
<1>2. bound' = bound \cup {cur}
  BY <1>1, BindExact DEF BindResult
<1>3. CASE session = "UP"
  <2>1. HandlerTypes' /\ pc' = "finishing" /\ UNCHANGED cur
    BY <1>3 DEF IInv, TypeOK, HandlerTypes, BindResult
  <2>2. BindsUp
    BY <1>2, <2>1 DEF Binds, BindsUp, BindResult
  <2> QED
    BY <2>2, BindsUpInv
<1>4. CASE session # "UP"
  <2>1. HandlerTypes' /\ pc' = "idle"
    BY <1>4 DEF HandlerTypes, ResetHandler, BindResult
  <2>2. BindsDown
    BY <1>2, <2>1 DEF Binds, BindsDown, BindResult
  <2> QED
    BY <2>2, BindsDownInv
<1> QED
  BY <1>3, <1>4

\* NativeFails keeps the invariant.
LEMMA NativeFailsInv ==
  ASSUME IInv, NEW unavailable \in BOOLEAN, NativeFails(unavailable)
  PROVE  IInv'
<1>1. cur \in Permits /\ native[cur] = 1
  BY DEF IInv, Handling, NativeFails
<1>2. native' = [native EXCEPT ![cur] = 0]
  BY <1>1 DEF IInv, TypeOK, JournalTypes, NativeFails
<1>3. outage' \subseteq Permits
  BY <1>1 DEF IInv, TypeOK, JournalTypes, NativeFails
<1>4. FaultTypes'
  BY DEF IInv, TypeOK, FaultTypes, NativeFails
<1>5. CASE session = "UP"
  <2>1. HandlerTypes' /\ pc' = "aborting" /\ UNCHANGED cur
    BY <1>5 DEF IInv, TypeOK, HandlerTypes, NativeFails
  <2>2. RecordsUp
    BY <1>2, <1>3, <1>4, <2>1 DEF Records, RecordsUp, NativeFails
  <2> QED
    BY <2>2, RecordsUpInv
<1>6. CASE session # "UP"
  <2>1. HandlerTypes' /\ pc' = "idle"
    BY <1>6 DEF HandlerTypes, ResetHandler, NativeFails
  <2>2. RecordsDown
    BY <1>2, <1>3, <1>4, <2>1 DEF Records, RecordsDown, NativeFails
  <2> QED
    BY <2>2, RecordsDownInv
<1> QED
  BY <1>5, <1>6
-----------------------------------------------------------------------------
(* The specification.                                                        *)

\* Every step keeps the invariant.
LEMMA NextInv ==
  ASSUME IInv, [Next]_vars
  PROVE  IInv'
<1>1. CASE Worker
  BY <1>1, RegisterPlanInv, RejectPlanInv, IssueInv, ConsumeStartInv, ConsumeFinishInv,
     ConsumeAbortInv, RequeueInv DEF Worker
<1>2. CASE Timers
  BY <1>2, WorkerAcquiresInv, WorkerReleasesInv, LeaseExpiresInv, PermitExpiresInv,
     DeliveryLapsesInv DEF Timers
<1>3. CASE Link
  BY <1>3, LinkInv, DropsInv, CrashInv, DeliverInv, OrphanExitsInv DEF Link
<1>4. CASE Handle
  BY <1>4, TakeRemovedInv, TakeRequestInv, TakeGrantInv, DropsInv DEF Handle
<1>5. CASE Execute
  BY <1>5, PostsInv, EnterNativeInv, NativeReturnsInv, BindResultInv, NativeFailsInv,
     CrashInv, FinishedInv, AbortConfirmedInv, DropsInv DEF Execute
<1>6. CASE Recover
  BY <1>6, RecoverInv DEF Recover
<1>7. CASE Upload
  BY <1>7, PutChunkInv, CompleteUploadInv, FinishedInv, UploadRejectedInv DEF Upload
<1>8. CASE Operator
  BY <1>8, ResumeInv, IngestInv DEF Operator
<1>9. CASE UNCHANGED vars
  BY <1>9, StutterInv
<1> QED
  BY <1>1, <1>2, <1>3, <1>4, <1>5, <1>6, <1>7, <1>8, <1>9 DEF Next

\* Every reachable state of the collection satisfies the inductive invariant:
\* the Worker's permits and cursor, the receipts and the Agent's journal agree.
THEOREM CollectionInvariant == Spec => []IInv
<1>1. Init => IInv
  BY InitInv
<1>2. IInv /\ [Next]_vars => IInv'
  BY NextInv
<1> QED
  BY <1>1, <1>2, PTL DEF Spec

\* The tables, the journal and the messages keep their types.
THEOREM CollectionTypes == Spec => []TypeOK
<1>1. IInv => TypeOK
  BY DEF IInv
<1> QED
  BY <1>1, CollectionInvariant, PTL

\* A failover, an expired permit, a replayed grant or a crash that orphans the
\* helper never leads to two native calls (issue_next, begin_collection_execution).
THEOREM OneNativeCall == Spec => []NativeExclusive
<1>1. IInv => NativeExclusive
  <2> SUFFICES ASSUME IInv, NEW p \in Permits, NEW q \in Permits,
                      native[p] > 0, native[q] > 0
               PROVE  p = q /\ native[p] = 1
    BY DEF NativeExclusive
  <2>1. ASSUME NEW s \in Permits, native[s] > 0
        PROVE  native[s] = 1 /\ s \in Live
    <3>1. native[s] = 1 /\ s \in executed /\ aborts[s] = "NONE" /\ Unit(s) \notin files
      BY <2>1 DEF IInv, Running
    <3>2. pstate[s] = "STARTED"
      BY <3>1 DEF IInv, Facts
    <3> QED
      BY <3>1, <3>2
  <2> QED
    BY <2>1 DEF IInv, OneLive
<1> QED
  BY <1>1, CollectionInvariant, PTL

\* The finished permits of a request are one for each unit before its cursor
\* (consume_finish moves both in one transaction).
THEOREM CursorIsExact == Spec => []CursorExact
<1>1. IInv => CursorExact
  <2> SUFFICES ASSUME IInv, NEW r \in Requests
               PROVE  LET done == {p \in Permits : pstate[p] = "FINISHED"
                                                   /\ grant[p].req = r} IN
                      /\ {grant[p].unit : p \in done} = 0..(next[r] - 1)
                      /\ \A p, q \in done : grant[p].unit = grant[q].unit => p = q
    BY DEF CursorExact
  <2> DEFINE done == {p \in Permits : pstate[p] = "FINISHED" /\ grant[p].req = r}
  <2>1. ASSUME NEW p \in done
        PROVE  grant[p].unit \in 0..(next[r] - 1)
    <3>1. grant[p].unit \in Nat /\ grant[p].unit < next[r] /\ next[r] \in Nat
      BY DEF IInv, TypeOK, RequestTypes, Granted, RealGrants, Cursored
    <3> QED
      BY <3>1
  <2>2. ASSUME NEW u \in 0..(next[r] - 1)
        PROVE  \E p \in done : grant[p].unit = u
    <3>1. PICK p \in Permits : pstate[p] = "FINISHED" /\ Unit(p) = <<r, u>>
      BY DEF IInv, Cursored
    <3> QED
      BY <3>1
  <2>3. \A p, q \in done : grant[p].unit = grant[q].unit => p = q
    BY DEF IInv, Cursored
  <2> QED
    BY <2>1, <2>2, <2>3
<1> QED
  BY <1>1, CollectionInvariant, PTL

\* What is uploaded and frozen was made from every unit's sealed result
\* (complete_upload, prepare_request).
THEOREM UploadIsWhole == Spec => []UploadWhole
<1>1. IInv => UploadWhole
  <2> SUFFICES ASSUME IInv, NEW r \in Requests, status[r] \in Frozen,
                      NEW u \in 0..(Units - 1)
               PROVE  /\ <<r, u>> \in files
                      /\ \E p \in bound : pstate[p] = "FINISHED" /\ Unit(p) = <<r, u>>
    BY DEF UploadWhole
  <2>1. next[r] = Units
    BY DEF IInv, Collected
  <2>2. PICK p \in Permits : pstate[p] = "FINISHED" /\ Unit(p) = <<r, u>>
    BY <2>1 DEF IInv, Cursored
  <2>3. p \in bound /\ Unit(p) \in files
    BY <2>2 DEF IInv, Facts
  <2> QED
    BY <2>2, <2>3
<1> QED
  BY <1>1, CollectionInvariant, PTL

\* The Worker never rejects a completion or an exit that the Agent has recorded
\* (consume_finish, consume_abort).
THEOREM FactsAccepted == Spec => []FactsNeverRejected
<1>1. IInv => FactsNeverRejected
  BY DEF IInv, Heard
<1> QED
  BY <1>1, CollectionInvariant, PTL
-----------------------------------------------------------------------------
(* What a step may do.                                                       *)

\* Only a completion or an exit takes a permit out of STARTED.
LEMMA SlotStep ==
  ASSUME IInv, [Next]_vars, NEW p \in Permits,
         pstate[p] = "STARTED", pstate'[p] # "STARTED"
  PROVE  finish[p] = "PENDING" \/ abort[p] = "PENDING"
<1>1. pstate' # pstate
  OBVIOUS
<1>2. CASE Worker
  <2>1. PICK e \in Holders :
          \/ \E r \in Requests : RegisterPlan(e, r) \/ RejectPlan(e, r)
          \/ \E q \in Permits : \/ Issue(e, q) \/ ConsumeStart(e, q)
                                \/ ConsumeFinish(e, q) \/ ConsumeAbort(e, q)
          \/ Requeue(e)
    BY <1>2 DEF Worker
  <2>2. ~\E r \in Requests : RegisterPlan(e, r) \/ RejectPlan(e, r)
    BY <1>1 DEF RegisterPlan, RejectPlan
  <2>3. ~Requeue(e)
    BY <1>1 DEF Requeue
  <2>4. PICK q \in Permits : \/ Issue(e, q) \/ ConsumeStart(e, q)
                             \/ ConsumeFinish(e, q) \/ ConsumeAbort(e, q)
    BY <2>1, <2>2, <2>3
  <2>5. ~Issue(e, q)
    BY DEF Issue, Lapsed
  <2>6. ~ConsumeStart(e, q)
    BY DEF IInv, TypeOK, PermitTypes, ConsumeStart
  <2>7. CASE ConsumeFinish(e, q)
    BY <2>7 DEF IInv, TypeOK, PermitTypes, ConsumeFinish
  <2>8. CASE ConsumeAbort(e, q)
    BY <2>8 DEF IInv, TypeOK, PermitTypes, ConsumeAbort
  <2> QED
    BY <2>4, <2>5, <2>6, <2>7, <2>8
<1>3. ~Timers
  BY <1>1 DEF Timers, WorkerAcquires, WorkerReleases, LeaseExpires, PermitExpires,
     DeliveryLapses
<1>4. ~Link
  BY <1>1 DEF Link, Connect, SessionLapses, LinkBreaks, AgentCrashes, Deliver,
     DeliveryRefused, OrphanExits
<1>5. ~Handle
  BY <1>1 DEF Handle, TakeRemoved, TakeRequest, TakeGrant, TakeRefused
<1>6. ~Execute
  BY <1>1 DEF Execute, PostStart, EnterNative, NativeReturns, BindResult, NativeFails,
     OutcomeUnknown, PostFinish, FinishConfirmed, PostAbort, AbortConfirmed,
     ConfirmationFails
<1>7. ~Recover /\ ~Upload
  BY <1>1 DEF Recover, RecoverPostAbort, RecoverConfirmAbort, Upload, PutChunk,
     CompleteUpload, UploadAccepted, UploadRejected
<1>8. ~Operator
  BY <1>1 DEF Operator, Resume, Ingest
<1>9. ~UNCHANGED vars
  BY <1>1 DEF vars
<1> QED
  BY <1>2, <1>3, <1>4, <1>5, <1>6, <1>7, <1>8, <1>9 DEF Next

\* The native slot is given up only after the call exited, with its outcome in
\* the Agent's journal (consume_finish, consume_abort, issue_next).
THEOREM SlotIsHeld == Spec => SlotHeldUntilExit
<1> DEFINE Held == \A p \in Permits :
                     pstate[p] = "STARTED" /\ pstate'[p] # "STARTED" =>
                       native[p] = 0 /\ (p \in bound \/ aborts[p] # "NONE")
<1>1. IInv /\ [Next]_vars => Held
  <2> SUFFICES ASSUME IInv, [Next]_vars, NEW p \in Permits,
                      pstate[p] = "STARTED", pstate'[p] # "STARTED"
               PROVE  native[p] = 0 /\ (p \in bound \/ aborts[p] # "NONE")
    OBVIOUS
  <2>1. p \in bound \/ aborts[p] # "NONE"
    BY SlotStep DEF IInv, Heard
  <2>2. native[p] # 1
    BY <2>1 DEF IInv, Running, Facts
  <2> QED
    BY <2>1, <2>2 DEF IInv, Running
<1>2. Spec => [][Held]_vars
  BY <1>1, CollectionInvariant, PTL DEF Spec
<1> QED
  BY <1>2 DEF SlotHeldUntilExit

\* Only EnterNative begins a native call.
LEMMA NativeStep ==
  ASSUME IInv, [Next]_vars, NEW p \in Permits, native'[p] > native[p]
  PROVE  EnterNative /\ p = cur
<1>0. native \in [Permits -> Nat]
  BY DEF IInv, TypeOK, JournalTypes
<1>1. native' # native
  BY <1>0
<1>2. ~Worker
  BY <1>1 DEF Worker, RegisterPlan, RejectPlan, Issue, ConsumeStart, ConsumeFinish,
     ConsumeAbort, Requeue
<1>3. ~Timers
  BY <1>1 DEF Timers, WorkerAcquires, WorkerReleases, LeaseExpires, PermitExpires,
     DeliveryLapses, Idle
<1>4. ~Link
  <2>1. ~\E q \in Permits : OrphanExits(q)
    BY <1>0 DEF OrphanExits
  <2> QED
    BY <1>1, <2>1 DEF Link, Connect, SessionLapses, LinkBreaks, AgentCrashes, Deliver,
       DeliveryRefused
<1>5. ~Handle
  BY <1>1 DEF Handle, TakeRemoved, TakeRequest, TakeGrant, TakeRefused
<1>6. ~NativeReturns /\ ~\E unavailable \in BOOLEAN : NativeFails(unavailable)
  <2>1. native' # [native EXCEPT ![cur] = @ - 1]
    BY <1>0
  <2> QED
    BY <2>1 DEF NativeReturns, NativeFails
<1>7. Execute => EnterNative
  BY <1>1, <1>6 DEF Execute, PostStart, BindResult, OutcomeUnknown, PostFinish,
     FinishConfirmed, PostAbort, AbortConfirmed, ConfirmationFails
<1>8. ~Recover /\ ~Upload
  BY <1>1 DEF Recover, RecoverPostAbort, RecoverConfirmAbort, Upload, PutChunk,
     CompleteUpload, UploadAccepted, UploadRejected
<1>9. ~Operator
  BY <1>1 DEF Operator, Resume, Ingest
<1>10. ~UNCHANGED vars
  BY <1>1 DEF vars
<1>11. EnterNative
  BY <1>2, <1>3, <1>4, <1>5, <1>7, <1>8, <1>9, <1>10 DEF Next
<1>12. p = cur
  BY <1>0, <1>11 DEF EnterNative
<1> QED
  BY <1>11, <1>12

\* The native call is entered only for the unit the cursor points at, and never
\* for one whose result is sealed (begin_collection_execution).
THEOREM NeverRecollected == Spec => NoRecollection
<1> DEFINE New == \A p \in Permits : native'[p] > native[p] =>
                    Unit(p) \notin files /\ grant[p].unit = next[grant[p].req]
<1>1. IInv /\ [Next]_vars => New
  <2> SUFFICES ASSUME IInv, [Next]_vars, NEW p \in Permits, native'[p] > native[p]
               PROVE  Unit(p) \notin files /\ grant[p].unit = next[grant[p].req]
    OBVIOUS
  <2>1. EnterNative /\ p = cur
    BY NativeStep
  <2>2. start[p] = "ACCEPTED" /\ p \notin executed /\ Issued(p)
    BY <2>1 DEF EnterNative, Unexecuted, IInv, Handling
  <2>3. \A q \in executed : Unit(q) = Unit(p) => aborts[q] = "CONFIRMED"
    BY <2>1, <2>2 DEF EnterNative, Unexecuted, Resolved
  <2>4. Unit(p) \notin files
    BY <2>3 DEF IInv, Sealed
  <2>5. pstate[p] = "STARTED"
    BY <2>2 DEF IInv, Granted, Facts
  <2> QED
    BY <2>4, <2>5 DEF IInv, Cursored
<1>2. Spec => [][New]_vars
  BY <1>1, CollectionInvariant, PTL DEF Spec
<1> QED
  BY <1>2 DEF NoRecollection
-----------------------------------------------------------------------------
(* The pipeline's limit.                                                     *)

\* The sets that are counted are finite.
LEMMA HoldingSets ==
  /\ IsFiniteSet(Holding) /\ IsFiniteSet(Admitted) /\ IsFiniteSet(Holding')
  /\ Cardinality(Holding) <= Cardinality(Admitted)
  /\ Cardinality(Holding) \in Nat /\ Cardinality(Admitted) \in Nat
  /\ Cardinality(Holding') \in Nat
<1>1. Holding \subseteq Requests /\ Holding' \subseteq Requests
      /\ Admitted \subseteq Requests /\ Holding \subseteq Admitted
  BY DEF Holding, Admitted
<1>2. IsFiniteSet(Holding) /\ IsFiniteSet(Admitted) /\ IsFiniteSet(Holding')
  BY <1>1, FS_Subset
<1>3. Cardinality(Holding) <= Cardinality(Admitted)
  BY <1>1, <1>2, FS_Subset
<1> QED
  BY <1>2, <1>3, FS_CardinalityType

\* The request table and the grants stay, but for statuses that leave the pipeline.
LEMMA LeavesHolding ==
  ASSUME UNCHANGED <<chunks, grant>>,
         \A r \in Requests :
           status'[r] = status[r] \/ status'[r] \notin Collecting
           \/ (status[r] \in Routed /\ status'[r] = "QUEUED")
  PROVE  Holding' \subseteq Holding
BY DEF Holding, Collecting, Routed

\* A permit takes a place only for a request that has one, or below the limit.
LEMMA IssueHolding ==
  ASSUME IInv, NEW e \in Holders, NEW p \in Permits, Issue(e, p)
  PROVE  Holding' \subseteq Holding \/ Cardinality(Holding') <= MaxInflight
<1>0. PICK open \in BOOLEAN : \E r \in Candidates(open) :
        /\ grant' = [grant EXCEPT ![p] = [req |-> r, unit |-> next[r], epoch |-> e]]
        /\ status' = [status EXCEPT ![r] = IF @ = "QUEUED" THEN "DELIVERED" ELSE @]
  BY DEF Issue
<1>1. PICK r \in Candidates(open) :
        /\ grant' = [grant EXCEPT ![p] = [req |-> r, unit |-> next[r], epoch |-> e]]
        /\ status' = [status EXCEPT ![r] = IF @ = "QUEUED" THEN "DELIVERED" ELSE @]
  BY <1>0
<1>2. r \in Requests /\ status[r] \in Collecting
      /\ (Cardinality(Admitted) < MaxInflight \/ r \in Admitted)
  BY DEF Candidates, IInv, TypeOK, RequestTypes
<1>3. UNCHANGED chunks
  BY DEF Issue
<1>4. Holding' \subseteq Holding \cup {r}
  BY <1>1, <1>2, <1>3 DEF Holding, IInv, TypeOK, RequestTypes, PermitTypes
<1>5. CASE r \in Admitted
  <2>1. r \in Holding
    BY <1>2, <1>5 DEF Admitted, Collecting
  <2> QED
    BY <2>1, <1>4
<1>6. CASE Cardinality(Admitted) < MaxInflight
  <2>1. /\ IsFiniteSet(Holding \cup {r})
        /\ Cardinality(Holding \cup {r}) =
             IF r \in Holding THEN Cardinality(Holding) ELSE Cardinality(Holding) + 1
    BY HoldingSets, FS_AddElement, Zenon
  <2>2. Cardinality(Holding') <= Cardinality(Holding \cup {r})
    BY <1>4, <2>1, FS_Subset
  <2> QED
    BY <1>6, <2>1, <2>2, HoldingSets
<1> QED
  BY <1>2, <1>5, <1>6

\* What is being uploaded has a permit for its first unit, so it has its place.
LEMMA PutChunkHolding ==
  ASSUME IInv, PutChunk
  PROVE  Holding' \subseteq Holding
<1>1. cur \in Requests /\ next[cur] = Units /\ status[cur] \in Collecting
  BY DEF PutChunk, IInv, Collected
<1>2. PICK p \in Permits : Unit(p) = <<cur, 0>>
  <2>1. 0 \in 0..next[cur] - 1
    BY <1>1
  <2>2. \A u \in 0..next[cur] - 1 :
          \E p \in Permits : pstate[p] = "FINISHED" /\ Unit(p) = <<cur, u>>
    BY <1>1 DEF IInv, Cursored
  <2> QED
    BY <2>1, <2>2
<1>3. cur \in Holding
  BY <1>1, <1>2 DEF Holding, Collecting, Routed
<1>4. /\ chunks' = [chunks EXCEPT ![cur] = @ + 1]
      /\ status' = [status EXCEPT ![cur] = "RECEIVING"]
      /\ UNCHANGED grant
  BY DEF PutChunk
<1>5. /\ chunks \in [Requests -> 0..Chunks]
      /\ status \in [Requests -> Collecting \cup {"UPLOADED", "BLOCKED", "COMPLETED",
                                                 "FAILED"}]
  BY DEF IInv, TypeOK, RequestTypes
<1> QED
  BY <1>1, <1>3, <1>4, <1>5 DEF Holding

\* A resume is recorded.
LEMMA ResumeRecorded ==
  ASSUME NEW r \in Requests, Resume(r)
  PROVE  resumed' # resumed /\ resumed' # {}
BY DEF Resume

\* Every step asks for a place, but the resume.
LEMMA HoldingStep ==
  ASSUME IInv, [Next]_vars
  PROVE  \/ UNCHANGED resumed /\ Holding' \subseteq Holding
         \/ UNCHANGED resumed /\ Cardinality(Holding') <= MaxInflight
         \/ resumed' # resumed /\ resumed' # {}
<1> DEFINE Goal == \/ UNCHANGED resumed /\ Holding' \subseteq Holding
                   \/ UNCHANGED resumed /\ Cardinality(Holding') <= MaxInflight
                   \/ resumed' # resumed /\ resumed' # {}
<1> SUFFICES Goal
  OBVIOUS
<1>0. ASSUME UNCHANGED <<status, chunks, grant, resumed>>
      PROVE  Goal
  BY <1>0, LeavesHolding
<1>t. status \in [Requests -> Collecting \cup {"UPLOADED", "BLOCKED", "COMPLETED", "FAILED"}]
  BY DEF IInv, TypeOK, RequestTypes
<1>1. CASE Worker
  <2>1. PICK e \in Holders :
          \/ \E r \in Requests : RegisterPlan(e, r) \/ RejectPlan(e, r)
          \/ \E q \in Permits : \/ Issue(e, q) \/ ConsumeStart(e, q)
                                \/ ConsumeFinish(e, q) \/ ConsumeAbort(e, q)
          \/ Requeue(e)
    BY <1>1 DEF Worker
  <2>2. ASSUME NEW r \in Requests, RegisterPlan(e, r) PROVE Goal
    BY <2>2, <1>0 DEF RegisterPlan
  <2>3. ASSUME NEW r \in Requests, RejectPlan(e, r) PROVE Goal
    BY <2>3, <1>t, LeavesHolding DEF RejectPlan, Collecting
  <2>4. ASSUME NEW q \in Permits, ConsumeStart(e, q) \/ ConsumeFinish(e, q) PROVE Goal
    BY <2>4, <1>0 DEF ConsumeStart, ConsumeFinish
  <2>5. ASSUME NEW q \in Permits, ConsumeAbort(e, q) PROVE Goal
    BY <2>5, <1>t, LeavesHolding DEF ConsumeAbort, Collecting
  <2>6. ASSUME Requeue(e) PROVE Goal
    BY <2>6, <1>t, LeavesHolding DEF Requeue
  <2>7. ASSUME NEW q \in Permits, Issue(e, q) PROVE Goal
    BY <2>7, IssueHolding DEF Issue
  <2> HIDE DEF Goal
  <2> QED
    BY <2>1, <2>2, <2>3, <2>4, <2>5, <2>6, <2>7
<1>2. CASE Timers
  BY <1>2, <1>0 DEF Timers, WorkerAcquires, WorkerReleases, LeaseExpires, PermitExpires,
     DeliveryLapses
<1>3. CASE Link
  BY <1>3, <1>0 DEF Link, Connect, SessionLapses, LinkBreaks, AgentCrashes, Deliver,
     DeliveryRefused, OrphanExits
<1>4. CASE Handle
  BY <1>4, <1>0 DEF Handle, TakeRemoved, TakeRequest, TakeGrant, TakeRefused
<1>5. CASE Execute
  BY <1>5, <1>0 DEF Execute, PostStart, EnterNative, NativeReturns, BindResult,
     NativeFails, OutcomeUnknown, PostFinish, FinishConfirmed, PostAbort,
     AbortConfirmed, ConfirmationFails
<1>6. CASE Recover
  BY <1>6, <1>0 DEF Recover, RecoverPostAbort, RecoverConfirmAbort
<1>7. CASE Upload
  <2>1. ASSUME CompleteUpload \/ UploadRejected PROVE Goal
    BY <2>1, <1>t, LeavesHolding DEF CompleteUpload, UploadRejected, Collecting
  <2>2. ASSUME UploadAccepted PROVE Goal
    BY <2>2, <1>0 DEF UploadAccepted
  <2>3. ASSUME PutChunk PROVE Goal
    BY <2>3, PutChunkHolding DEF PutChunk
  <2> HIDE DEF Goal
  <2> QED
    BY <1>7, <2>1, <2>2, <2>3 DEF Upload
<1>8. CASE Operator
  <2>1. ASSUME NEW r \in Requests, Resume(r) PROVE Goal
    BY <2>1, ResumeRecorded
  <2>2. ASSUME NEW r \in Requests, Ingest(r) PROVE Goal
    BY <2>2, <1>t, LeavesHolding DEF Ingest, Collecting, Contract!Moves
  <2> HIDE DEF Goal
  <2> QED
    BY <1>8, <2>1, <2>2 DEF Operator
<1>9. CASE UNCHANGED vars
  BY <1>9, <1>0 DEF vars
<1> HIDE DEF Goal
<1> QED
  BY <1>1, <1>2, <1>3, <1>4, <1>5, <1>6, <1>7, <1>8, <1>9 DEF Next

\* A request comes into the pipeline only while there is a place, unless the
\* operator resumes it: a place is asked for when the first permit is issued, and a
\* requeued or uploading request has it (issue_next, resume_collection).
THEOREM PlacesAreGranted == Spec => PlacesGranted
<1>1. IInv /\ [Next]_vars =>
        [\/ Holding' \subseteq Holding
         \/ Cardinality(Holding') <= MaxInflight
         \/ resumed' # resumed]_vars
  BY HoldingStep
<1> QED
  BY <1>1, CollectionInvariant, PTL DEF Spec, PlacesGranted

\* As long as nothing was resumed, the session never has to route more requests
\* than the pipeline admits (HistorySessionStore.work).
THEOREM AdmissionHoldsUnresumed == Spec => [](resumed = {} => AdmissionHolds)
<1> DEFINE Places == resumed = {} => Cardinality(Holding) <= MaxInflight
<1>1. Init => Places
  <2>1. Init => Holding = {}
    BY DEF Init, Holding, NoGrant, Routed
  <2> QED
    BY <2>1, FS_EmptySet
<1>2. IInv /\ Places /\ [Next]_vars => Places'
  <2> SUFFICES ASSUME IInv, Places, [Next]_vars, resumed' = {}
               PROVE  Cardinality(Holding') <= MaxInflight
    OBVIOUS
  <2>1. CASE UNCHANGED resumed /\ Holding' \subseteq Holding
    <3>1. Cardinality(Holding') <= Cardinality(Holding)
      BY <2>1, HoldingSets, FS_Subset
    <3> QED
      BY <2>1, <3>1, HoldingSets
  <2> QED
    BY <2>1, HoldingStep
<1>3. IInv /\ Places => (resumed = {} => AdmissionHolds)
  <2> SUFFICES ASSUME IInv, Places, resumed = {} PROVE AdmissionHolds
    OBVIOUS
  <2>1. Routing \subseteq Holding
    BY DEF Routing, Holding, IInv, TypeOK, RequestTypes
  <2>2. IsFiniteSet(Routing) /\ Cardinality(Routing) <= Cardinality(Holding)
    BY <2>1, HoldingSets, FS_Subset
  <2> QED
    BY <2>2, HoldingSets, FS_CardinalityType DEF AdmissionHolds
<1> QED
  BY <1>1, <1>2, <1>3, CollectionInvariant, PTL DEF Spec
=============================================================================
