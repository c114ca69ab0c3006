---------------------- MODULE MarketDataIngestionProofs ----------------------
(***************************************************************************)
(* Proofs about MarketDataIngestion, for every set of requests, any number of *)
(* processes, blocks and executions, and every bound.                         *)
(***************************************************************************)
EXTENDS MarketDataIngestion, TLAPS

\* A process that runs holds a request, and the lease once was its own.
Employed ==
  \A e \in Epochs :
    /\ pc[e] \in Running => job[e] \in Requests /\ e <= epoch
    /\ pc[e] \in {"sent", "landed", "failed"} => at[e] \in BlockSet
    /\ e > epoch => pc[e] = "none"

\* What is read back or committed is in the store.
Backed ==
  /\ CompletedIsStored
  /\ \A e \in Epochs : pc[e] = "verified" => stored[job[e]] = BlockSet

\* A lease in force is held by a process; a process without it has ended, unless
\* the lease ran out under it.
Ended ==
  /\ live => epoch \in Epochs
  /\ \A e \in Epochs :
       e <= epoch /\ ~Guard(e) =>
         e \in expired \/ pc[e] \in {"stopped", "dead"}

\* A call of the store is the one its process waits for.
Held ==
  \A w \in flight : pc[w[1]] = "sent" /\ job[w[1]] = w[2] /\ at[w[1]] = w[3]

\* The claim the row carries is the one process e works under.
Claims(e) == status[job[e]] = "PROCESSING" /\ owner[job[e]] = e

\* A process with a valid claim is where the recorded stage says.
Staged ==
  /\ \A e \in Epochs :
       /\ pc[e] = "validate" /\ Claims(e) => phase[job[e]] # "NONE"
       /\ pc[e] \in {"write", "sent", "landed"} /\ Claims(e) =>
            phase[job[e]] = "WRITE"
  /\ \A r \in Requests : phase[r] = "VERIFIED" => status[r] = "COMPLETED"

\* What the stages before this one may have used.
Earlier(p) ==
  CASE p \in {"NONE", "VALIDATE"} -> 0
    [] p = "WRITE" -> MaxExecutions - 1
    [] OTHER -> 2 * MaxExecutions - 2

\* The executions since the last intervention are those of this stage and of the
\* stages before it.
Counted == \A r \in Requests : ran[r] <= Earlier(phase[r]) + execs[r]

IInv ==
  /\ TypeOK /\ Employed /\ Backed /\ Ended /\ Held /\ WritersHandOver /\ Staged
  /\ Counted
-----------------------------------------------------------------------------
USE DEF leaseVars, rowVars, progressVars, storeVars, processVars, boundVars,
        Epochs, BlockSet, Running, Guard, Current, Holders
USE LeaseAssumption, IngestionAssumption
-----------------------------------------------------------------------------
(* The two outcomes of Begin, the three of Validated and the two of Stop.    *)

BeginBlocks(e) ==
  LET r == job[e] IN
  /\ pc[e] = "claimed" /\ Current(e, r)
  /\ phase' = [phase EXCEPT ![r] = IF @ = "NONE" THEN "VALIDATE" ELSE @]
  /\ Leave(r, "BLOCKED") /\ Done(e)
  /\ UNCHANGED <<leaseVars, reference, execs, overdue, delay, checked, storeVars, ran,
                 expired, boundVars>>

BeginRuns(e) ==
  LET r == job[e] IN
  /\ pc[e] = "claimed" /\ Current(e, r) /\ execs[r] < MaxExecutions
  /\ phase' = [phase EXCEPT ![r] = IF @ = "NONE" THEN "VALIDATE" ELSE @]
  /\ execs' = [execs EXCEPT ![r] = @ + 1] /\ ran' = [ran EXCEPT ![r] = @ + 1]
  /\ Goto(e, "validate")
  /\ UNCHANGED <<leaseVars, reference, rowVars, overdue, delay, checked, storeVars,
                 expired, boundVars>>

ValidatedFirst(e) ==
  LET r == job[e] IN
  /\ pc[e] = "validate" /\ Current(e, r) /\ phase[r] = "VALIDATE"
  /\ Advance(r, "WRITE") /\ Goto(e, "write")
  /\ UNCHANGED <<leaseVars, reference, rowVars, delay, checked, storeVars, ran,
                 expired, boundVars>>

ValidatedAgain(e, s) ==
  LET r == job[e] IN
  /\ pc[e] = "validate" /\ Current(e, r) /\ phase[r] # "VALIDATE"
  /\ phase[r] = "READBACK" <=> s = "readback"
  /\ Goto(e, s)
  /\ UNCHANGED <<leaseVars, reference, rowVars, progressVars, storeVars, ran,
                 expired, boundVars>>

StopReleases(e) ==
  LET r == job[e] IN
  /\ pc[e] \in Running \ {"sent"} /\ Current(e, r)
  /\ Leave(r, "UPLOADED") /\ End(e, "stopped")
  /\ UNCHANGED <<leaseVars, reference, progressVars, storeVars, ran, expired,
                 boundVars>>

StopKeeps(e) ==
  /\ pc[e] \in Running \ {"sent"} /\ ~Current(e, job[e]) /\ End(e, "stopped")
  /\ UNCHANGED <<leaseVars, reference, rowVars, progressVars, storeVars, ran, expired,
                 boundVars>>


\* The invariant holds initially.
LEMMA InitInv == Init => IInv
<1> SUFFICES ASSUME Init PROVE IInv OBVIOUS
<1>1. TypeOK
  <2>1. LeaseTypes
    <3>1. epoch \in 0..MaxEpoch
      BY DEF Init, LeaseInit
    <3>2. live \in BOOLEAN
      BY DEF Init, LeaseInit
    <3> QED
      BY <3>1, <3>2 DEF LeaseTypes
  <2>2. RowTypes
    BY DEF Init, RowTypes
  <2>3. ProgressTypes
    BY DEF Init, ProgressTypes
  <2>4. StoreTypes
    BY DEF Init, StoreTypes
  <2>5. ProcessTypes
    BY DEF Init, ProcessTypes
  <2>6. CountTypes
    BY DEF Init, CountTypes
  <2> QED
    BY <2>1, <2>2, <2>3, <2>4, <2>5, <2>6 DEF TypeOK
<1>2. Employed /\ Backed /\ Ended
  BY DEF Init, LeaseInit, Employed, Backed, CompletedIsStored, Ended
<1>3. Held /\ WritersHandOver /\ Staged
  BY DEF Init, Held, WritersHandOver, Staged, Claims
<1>4. Counted
  BY DEF Init, Counted, Earlier
<1> QED
  BY <1>1, <1>2, <1>3, <1>4 DEF IInv

\* BeginBlocks keeps the invariant.
LEMMA BeginBlocksInv ==
  ASSUME IInv, NEW e \in Epochs, BeginBlocks(e)
  PROVE  IInv'
<1>1. (LeaseTypes /\ StoreTypes /\ CountTypes)'
  BY DEF IInv, TypeOK, LeaseTypes, StoreTypes, CountTypes, BeginBlocks
<1>2. RowTypes'
  BY DEF IInv, TypeOK, RowTypes, LeaseTypes, ProcessTypes, Employed, BeginBlocks,
     Leave, Done, End
<1>3. ProgressTypes'
  BY DEF IInv, TypeOK, ProgressTypes, ProcessTypes, Employed,
     BeginBlocks, Leave, Done, End
<1>4. ProcessTypes'
  BY DEF IInv, TypeOK, ProcessTypes, Employed,
     LeaseTypes, BeginBlocks, Leave, Done, End
<1>5. Employed'
  BY DEF IInv, TypeOK, Employed, ProcessTypes,
     LeaseTypes, BeginBlocks, Leave, Done, End
<1>6. Backed'
  BY DEF IInv, TypeOK, Backed, RowTypes, StoreTypes, ProcessTypes, Employed,
     CompletedIsStored, BeginBlocks, Leave, Done, End
<1>7. Ended'
  BY DEF IInv, TypeOK, Ended, ProcessTypes, LeaseTypes, Employed, CountTypes,
     BeginBlocks, Leave, Done, End
<1>8. Held'
  BY DEF IInv, TypeOK, Held, ProcessTypes, StoreTypes, Employed, BeginBlocks, Leave,
     Done, End
<1>9. WritersHandOver'
  BY DEF IInv, TypeOK, WritersHandOver, Held, Ended, Employed, ProcessTypes,
     StoreTypes, RowTypes, LeaseTypes, CountTypes, BeginBlocks, Leave, Done, End
<1>10. Staged'
  BY DEF IInv, TypeOK, Staged, ProcessTypes, RowTypes, ProgressTypes, Employed,
     Claims, BeginBlocks, Leave, Done, End
<1>11. Counted'
  BY DEF IInv, TypeOK, Counted, ProgressTypes, CountTypes,
     ProcessTypes, Employed, Staged, Earlier, Claims, BeginBlocks, Leave, Done, End
<1> QED
  BY <1>1, <1>2, <1>3, <1>4, <1>5, <1>6, <1>7, <1>8, <1>9, <1>10, <1>11 DEF IInv, TypeOK

\* BeginRuns keeps the invariant.
LEMMA BeginRunsInv ==
  ASSUME IInv, NEW e \in Epochs, BeginRuns(e)
  PROVE  IInv'
<1>1. (LeaseTypes /\ RowTypes /\ StoreTypes)'
  BY DEF IInv, TypeOK, LeaseTypes, RowTypes, StoreTypes, BeginRuns
<1>2. ProgressTypes'
  BY DEF IInv, TypeOK, ProgressTypes, ProcessTypes, Employed,
     BeginRuns, Goto
<1>3. ProcessTypes'
  BY DEF IInv, TypeOK, ProcessTypes, Employed,
     LeaseTypes, BeginRuns, Goto
<1>4. CountTypes'
  BY DEF IInv, TypeOK, CountTypes, ProcessTypes, Employed,
     BeginRuns, Goto
<1>5. Employed'
  BY DEF IInv, TypeOK, Employed, ProcessTypes,
     LeaseTypes, BeginRuns, Goto
<1>6. Backed'
  BY DEF IInv, TypeOK, Backed, RowTypes, StoreTypes, ProcessTypes, Employed,
     CompletedIsStored, BeginRuns, Goto
<1>7. Ended'
  BY DEF IInv, TypeOK, Ended, ProcessTypes, LeaseTypes, Employed, CountTypes,
     BeginRuns, Goto
<1>8. Held'
  BY DEF IInv, TypeOK, Held, ProcessTypes, StoreTypes, Employed, BeginRuns, Goto
<1>9. WritersHandOver'
  BY DEF IInv, TypeOK, WritersHandOver, Held, Ended, Employed, ProcessTypes,
     StoreTypes, RowTypes, LeaseTypes, CountTypes, BeginRuns, Goto
<1>10. Staged'
  BY DEF IInv, TypeOK, Staged, ProcessTypes, RowTypes, ProgressTypes, Employed,
     Claims, BeginRuns, Goto
<1>11. Counted'
  <2> SUFFICES ASSUME NEW q \in Requests
               PROVE  (ran[q] <= Earlier(phase[q]) + execs[q])'
    BY DEF Counted
  <2>1. /\ job[e] \in Requests /\ ran[q] \in Nat /\ execs[q] \in 0..MaxExecutions
        /\ ran[q] <= Earlier(phase[q]) + execs[q]
    BY DEF IInv, TypeOK, Counted, ProgressTypes, CountTypes, ProcessTypes, Employed,
       BeginRuns
  <2>2. CASE q = job[e]
    BY <2>1, <2>2 DEF IInv, TypeOK, ProgressTypes, Staged,
       Earlier, Claims, BeginRuns, Goto
  <2>3. CASE q # job[e]
    BY <2>1, <2>3 DEF IInv, TypeOK, ProgressTypes, CountTypes, BeginRuns, Goto
  <2> QED
    BY <2>2, <2>3
<1> QED
  BY <1>1, <1>2, <1>3, <1>4, <1>5, <1>6, <1>7, <1>8, <1>9, <1>10, <1>11 DEF IInv, TypeOK

\* Begin keeps the invariant.
LEMMA BeginInv ==
  ASSUME IInv, NEW e \in Epochs, Begin(e)
  PROVE  IInv'
<1>1. job[e] \in Requests /\ execs[job[e]] \in 0..MaxExecutions
  BY DEF IInv, TypeOK, ProgressTypes, Employed, Begin
<1>2. CASE Exhausted(job[e])
  <2>1. BeginBlocks(e)
    BY <1>2 DEF Begin, BeginBlocks
  <2> QED
    BY <2>1, BeginBlocksInv
<1>3. CASE ~Exhausted(job[e])
  <2>1. execs[job[e]] < MaxExecutions
    BY <1>1, <1>3 DEF Exhausted
  <2>2. BeginRuns(e)
    BY <1>3, <2>1 DEF Begin, BeginRuns, Keep
  <2> QED
    BY <2>2, BeginRunsInv
<1> QED
  BY <1>2, <1>3

\* ValidatedFirst keeps the invariant.
LEMMA ValidatedFirstInv ==
  ASSUME IInv, NEW e \in Epochs, ValidatedFirst(e)
  PROVE  IInv'
<1>1. (LeaseTypes /\ RowTypes /\ StoreTypes /\ CountTypes)'
  BY DEF IInv, TypeOK, LeaseTypes, RowTypes, StoreTypes, CountTypes, ValidatedFirst
<1>2. ProgressTypes'
  BY DEF IInv, TypeOK, ProgressTypes, ProcessTypes, Employed,
     ValidatedFirst, Advance, Goto
<1>3. ProcessTypes'
  BY DEF IInv, TypeOK, ProcessTypes, Employed,
     LeaseTypes, ValidatedFirst, Advance, Goto
<1>4. Employed'
  BY DEF IInv, TypeOK, Employed, ProcessTypes,
     LeaseTypes, ValidatedFirst, Advance, Goto
<1>5. Backed'
  BY DEF IInv, TypeOK, Backed, RowTypes, StoreTypes, ProcessTypes, Employed,
     CompletedIsStored, ValidatedFirst, Advance, Goto
<1>6. Ended'
  BY DEF IInv, TypeOK, Ended, ProcessTypes, LeaseTypes, Employed, CountTypes,
     ValidatedFirst, Advance, Goto
<1>7. Held'
  BY DEF IInv, TypeOK, Held, ProcessTypes, StoreTypes, Employed, ValidatedFirst,
     Advance, Goto
<1>8. WritersHandOver'
  BY DEF IInv, TypeOK, WritersHandOver, Held, Ended, Employed, ProcessTypes,
     StoreTypes, RowTypes, LeaseTypes, CountTypes, ValidatedFirst, Advance, Goto
<1>9. Staged'
  BY DEF IInv, TypeOK, Staged, ProcessTypes, RowTypes, ProgressTypes, Employed,
     Claims, ValidatedFirst, Advance, Goto
<1>10. Counted'
  <2> SUFFICES ASSUME NEW q \in Requests
               PROVE  (ran[q] <= Earlier(phase[q]) + execs[q])'
    BY DEF Counted
  <2>1. /\ job[e] \in Requests /\ ran[q] \in Nat /\ execs[q] \in 0..MaxExecutions
        /\ ran[q] <= Earlier(phase[q]) + execs[q]
    BY DEF IInv, TypeOK, Counted, ProgressTypes, CountTypes, ProcessTypes, Employed,
       ValidatedFirst
  <2>2. CASE q = job[e]
    BY <2>1, <2>2 DEF IInv, TypeOK, ProgressTypes, Staged,
       Earlier, Claims, ValidatedFirst, Advance, Goto
  <2>3. CASE q # job[e]
    BY <2>1, <2>3 DEF IInv, TypeOK, ProgressTypes, CountTypes, ValidatedFirst,
       Advance, Goto
  <2> QED
    BY <2>2, <2>3
<1> QED
  BY <1>1, <1>2, <1>3, <1>4, <1>5, <1>6, <1>7, <1>8, <1>9, <1>10 DEF IInv, TypeOK

\* ValidatedAgain keeps the invariant.
LEMMA ValidatedAgainInv ==
  ASSUME IInv, NEW e \in Epochs,
         NEW s \in {"readback", "write"}, ValidatedAgain(e, s)
  PROVE  IInv'
<1>1. (LeaseTypes /\ RowTypes /\ ProgressTypes /\ StoreTypes /\
        CountTypes /\ Counted)'
  BY DEF IInv, TypeOK, LeaseTypes, RowTypes, ProgressTypes, StoreTypes, CountTypes,
         Counted, Earlier, ValidatedAgain
<1>2. ProcessTypes'
  BY DEF IInv, TypeOK, ProcessTypes, Employed,
     LeaseTypes, ValidatedAgain, Goto
<1>3. Employed'
  BY DEF IInv, TypeOK, Employed, ProcessTypes,
     LeaseTypes, ValidatedAgain, Goto
<1>4. Backed'
  BY DEF IInv, TypeOK, Backed, RowTypes, StoreTypes, ProcessTypes, Employed,
     CompletedIsStored, ValidatedAgain, Goto
<1>5. Ended'
  BY DEF IInv, TypeOK, Ended, ProcessTypes, LeaseTypes, Employed, CountTypes,
     ValidatedAgain, Goto
<1>6. Held'
  BY DEF IInv, TypeOK, Held, ProcessTypes, StoreTypes, Employed, ValidatedAgain,
     Goto
<1>7. WritersHandOver'
  BY DEF IInv, TypeOK, WritersHandOver, Held, Ended, Employed, ProcessTypes,
     StoreTypes, RowTypes, LeaseTypes, CountTypes, ValidatedAgain, Goto
<1>8. Staged'
  BY DEF IInv, TypeOK, Staged, ProcessTypes, RowTypes, ProgressTypes, Employed,
     Claims, ValidatedAgain, Goto
<1> QED
  BY <1>1, <1>2, <1>3, <1>4, <1>5, <1>6, <1>7, <1>8 DEF IInv, TypeOK

\* Validated keeps the invariant.
LEMMA ValidatedInv ==
  ASSUME IInv, NEW e \in Epochs, Validated(e)
  PROVE  IInv'
<1>1. CASE phase[job[e]] = "VALIDATE"
  <2>1. ValidatedFirst(e)
    BY <1>1 DEF Validated, ValidatedFirst, Keep
  <2> QED
    BY <2>1, ValidatedFirstInv
<1>2. CASE phase[job[e]] # "VALIDATE"
  <2>1. CASE phase[job[e]] = "READBACK"
    <3>1. ValidatedAgain(e, "readback")
      BY <1>2, <2>1 DEF Validated, ValidatedAgain, Keep, Goto
    <3> QED
      BY <3>1, ValidatedAgainInv
  <2>2. CASE phase[job[e]] # "READBACK"
    <3>1. ValidatedAgain(e, "write")
      BY <1>2, <2>2 DEF Validated, ValidatedAgain, Keep, Goto
    <3> QED
      BY <3>1, ValidatedAgainInv
  <2> QED
    BY <2>1, <2>2
<1> QED
  BY <1>1, <1>2

\* CheckBlock keeps the invariant.
LEMMA CheckBlockInv ==
  ASSUME IInv, NEW e \in Epochs, CheckBlock(e)
  PROVE  IInv'
<1>1. (LeaseTypes /\ RowTypes /\ ProgressTypes /\ CountTypes /\ Counted)'
  BY DEF IInv, TypeOK, LeaseTypes, RowTypes, ProgressTypes, CountTypes, Counted,
         Earlier, CheckBlock
<1>2. StoreTypes'
  BY DEF IInv, TypeOK, StoreTypes, ProcessTypes, Employed, CheckBlock, Goto, Known
<1>3. ProcessTypes'
  <2>1. CASE Known(e, job[e])
    BY <2>1 DEF IInv, TypeOK, ProcessTypes,
       Employed, LeaseTypes, CheckBlock, Goto, Known
  <2>2. CASE ~Known(e, job[e])
    BY <2>2 DEF IInv, TypeOK, ProcessTypes,
       Employed, LeaseTypes, CheckBlock, Goto, Known
  <2> QED
    BY <2>1, <2>2
<1>4. Employed'
  BY DEF IInv, TypeOK, Employed, ProcessTypes,
     LeaseTypes, CheckBlock, Goto
<1>5. Backed'
  BY DEF IInv, TypeOK, Backed, RowTypes, StoreTypes, ProcessTypes, Employed,
     CompletedIsStored, CheckBlock, Goto
<1>6. Ended'
  BY DEF IInv, TypeOK, Ended, ProcessTypes, LeaseTypes, Employed, CountTypes,
     CheckBlock, Goto
<1>7. Held'
  BY DEF IInv, TypeOK, Held, ProcessTypes, StoreTypes, Employed, CheckBlock, Goto
<1>8. WritersHandOver'
  <2>1. CASE Known(e, job[e])
    BY <2>1 DEF IInv, TypeOK, WritersHandOver, Held, Ended, Employed, ProcessTypes,
       StoreTypes, RowTypes, LeaseTypes, CountTypes, CheckBlock, Goto
  <2>2. CASE ~Known(e, job[e])
    BY <2>2 DEF IInv, TypeOK, WritersHandOver, Held, Ended, Employed, ProcessTypes,
       StoreTypes, RowTypes, LeaseTypes, CountTypes, CheckBlock, Goto
  <2> QED
    BY <2>1, <2>2
<1>9. Staged'
  <2>1. CASE Known(e, job[e])
    BY <2>1 DEF IInv, TypeOK, Staged, ProcessTypes, RowTypes, ProgressTypes,
       Employed, Claims, CheckBlock, Goto
  <2>2. CASE ~Known(e, job[e])
    BY <2>2 DEF IInv, TypeOK, Staged, ProcessTypes, RowTypes, ProgressTypes,
       Employed, Claims, CheckBlock, Goto
  <2> QED
    BY <2>1, <2>2
<1> QED
  BY <1>1, <1>2, <1>3, <1>4, <1>5, <1>6, <1>7, <1>8, <1>9 DEF IInv, TypeOK

\* ConfirmBlock keeps the invariant.
LEMMA ConfirmBlockInv ==
  ASSUME IInv, NEW e \in Epochs, ConfirmBlock(e)
  PROVE  IInv'
<1>1. (LeaseTypes /\ RowTypes /\ StoreTypes /\ CountTypes /\ Counted)'
  BY DEF IInv, TypeOK, LeaseTypes, RowTypes, StoreTypes, CountTypes, Counted,
         Earlier, ConfirmBlock
<1>2. ProgressTypes'
  BY DEF IInv, TypeOK, ProgressTypes, ProcessTypes, Employed,
     ConfirmBlock
<1>3. ProcessTypes'
  BY DEF IInv, TypeOK, ProcessTypes, Employed,
     LeaseTypes, ConfirmBlock
<1>4. Employed'
  BY DEF IInv, TypeOK, Employed, ProcessTypes,
     LeaseTypes, ConfirmBlock
<1>5. Backed'
  BY DEF IInv, TypeOK, Backed, RowTypes, StoreTypes, ProcessTypes, Employed,
     CompletedIsStored, ConfirmBlock
<1>6. Ended'
  BY DEF IInv, TypeOK, Ended, ProcessTypes, LeaseTypes, Employed, CountTypes,
     ConfirmBlock
<1>7. Held'
  BY DEF IInv, TypeOK, Held, ProcessTypes, StoreTypes, Employed, ConfirmBlock
<1>8. WritersHandOver'
  BY DEF IInv, TypeOK, WritersHandOver, Held, Ended, Employed, ProcessTypes,
     StoreTypes, RowTypes, LeaseTypes, CountTypes, ConfirmBlock
<1>9. Staged'
  BY DEF IInv, TypeOK, Staged, ProcessTypes, RowTypes, ProgressTypes, Employed,
     Claims, ConfirmBlock
<1> QED
  BY <1>1, <1>2, <1>3, <1>4, <1>5, <1>6, <1>7, <1>8, <1>9 DEF IInv, TypeOK

\* WriteDone keeps the invariant.
LEMMA WriteDoneInv ==
  ASSUME IInv, NEW e \in Epochs, WriteDone(e)
  PROVE  IInv'
<1>1. (LeaseTypes /\ RowTypes /\ StoreTypes /\ CountTypes)'
  BY DEF IInv, TypeOK, LeaseTypes, RowTypes, StoreTypes, CountTypes, WriteDone
<1>2. ProgressTypes'
  BY DEF IInv, TypeOK, ProgressTypes, ProcessTypes, Employed,
     WriteDone, Advance, Goto
<1>3. ProcessTypes'
  BY DEF IInv, TypeOK, ProcessTypes, Employed,
     LeaseTypes, WriteDone, Advance, Goto
<1>4. Employed'
  BY DEF IInv, TypeOK, Employed, ProcessTypes,
     LeaseTypes, WriteDone, Advance, Goto
<1>5. Backed'
  BY DEF IInv, TypeOK, Backed, RowTypes, StoreTypes, ProcessTypes, Employed,
     CompletedIsStored, WriteDone, Advance, Goto
<1>6. Ended'
  BY DEF IInv, TypeOK, Ended, ProcessTypes, LeaseTypes, Employed, CountTypes,
     WriteDone, Advance, Goto
<1>7. Held'
  BY DEF IInv, TypeOK, Held, ProcessTypes, StoreTypes, Employed, WriteDone, Advance,
     Goto
<1>8. WritersHandOver'
  BY DEF IInv, TypeOK, WritersHandOver, Held, Ended, Employed, ProcessTypes,
     StoreTypes, RowTypes, LeaseTypes, CountTypes, WriteDone, Advance, Goto
<1>9. Staged'
  BY DEF IInv, TypeOK, Staged, ProcessTypes, RowTypes, ProgressTypes, Employed,
     Claims, WriteDone, Advance, Goto
<1>10. Counted'
  <2> SUFFICES ASSUME NEW q \in Requests
               PROVE  (ran[q] <= Earlier(phase[q]) + execs[q])'
    BY DEF Counted
  <2>1. /\ job[e] \in Requests /\ ran[q] \in Nat /\ execs[q] \in 0..MaxExecutions
        /\ ran[q] <= Earlier(phase[q]) + execs[q]
    BY DEF IInv, TypeOK, Counted, ProgressTypes, CountTypes, ProcessTypes, Employed,
       WriteDone
  <2>2. CASE q = job[e]
    <3>1. phase[job[e]] = "WRITE"
      BY DEF IInv, Staged, Claims, WriteDone
    <3> QED
      BY <2>1, <2>2, <3>1 DEF IInv, TypeOK, ProgressTypes, Earlier,
         WriteDone, Advance, Goto
  <2>3. CASE q # job[e]
    BY <2>1, <2>3 DEF IInv, TypeOK, ProgressTypes, CountTypes, WriteDone, Advance,
       Goto
  <2> QED
    BY <2>2, <2>3
<1> QED
  BY <1>1, <1>2, <1>3, <1>4, <1>5, <1>6, <1>7, <1>8, <1>9, <1>10 DEF IInv, TypeOK

\* PersistReference keeps the invariant.
LEMMA PersistReferenceInv ==
  ASSUME IInv, NEW e \in Epochs, PersistReference(e)
  PROVE  IInv'
<1>1. (LeaseTypes /\ RowTypes /\ CountTypes)'
  BY DEF IInv, TypeOK, LeaseTypes, RowTypes, CountTypes, PersistReference
<1>2. ProgressTypes'
  BY DEF IInv, TypeOK, ProgressTypes, ProcessTypes, Employed,
     PersistReference, Advance, Goto
<1>3. StoreTypes'
  BY DEF IInv, TypeOK, StoreTypes, ProcessTypes, Employed, PersistReference,
     Advance, Goto
<1>4. ProcessTypes'
  BY DEF IInv, TypeOK, ProcessTypes, Employed,
     LeaseTypes, PersistReference, Advance, Goto
<1>5. Employed'
  BY DEF IInv, TypeOK, Employed, ProcessTypes,
     LeaseTypes, PersistReference, Advance, Goto
<1>6. Backed'
  BY DEF IInv, TypeOK, Backed, RowTypes, StoreTypes, ProcessTypes, Employed,
     CompletedIsStored, PersistReference, Advance, Goto
<1>7. Ended'
  BY DEF IInv, TypeOK, Ended, ProcessTypes, LeaseTypes, Employed, CountTypes,
     PersistReference, Advance, Goto
<1>8. Held'
  BY DEF IInv, TypeOK, Held, ProcessTypes, StoreTypes, Employed, PersistReference,
     Advance, Goto
<1>9. WritersHandOver'
  BY DEF IInv, TypeOK, WritersHandOver, Held, Ended, Employed, ProcessTypes,
     StoreTypes, RowTypes, LeaseTypes, CountTypes, PersistReference, Advance, Goto
<1>10. Staged'
  BY DEF IInv, TypeOK, Staged, ProcessTypes, RowTypes, ProgressTypes, Employed,
     Claims, PersistReference, Advance, Goto
<1>11. Counted'
  <2> SUFFICES ASSUME NEW q \in Requests
               PROVE  (ran[q] <= Earlier(phase[q]) + execs[q])'
    BY DEF Counted
  <2>1. /\ job[e] \in Requests /\ ran[q] \in Nat /\ execs[q] \in 0..MaxExecutions
        /\ ran[q] <= Earlier(phase[q]) + execs[q]
    BY DEF IInv, TypeOK, Counted, ProgressTypes, CountTypes, ProcessTypes, Employed,
       PersistReference
  <2>2. CASE q = job[e]
    <3>1. phase[job[e]] = "WRITE"
      BY DEF IInv, Staged, Claims, PersistReference
    <3> QED
      BY <2>1, <2>2, <3>1 DEF IInv, TypeOK, ProgressTypes, Earlier,
         PersistReference, Advance, Goto
  <2>3. CASE q # job[e]
    BY <2>1, <2>3 DEF IInv, TypeOK, ProgressTypes, CountTypes, PersistReference,
       Advance, Goto
  <2> QED
    BY <2>2, <2>3
<1> QED
  BY <1>1, <1>2, <1>3, <1>4, <1>5, <1>6, <1>7, <1>8, <1>9, <1>10, <1>11 DEF IInv, TypeOK

\* ReadBack keeps the invariant.
LEMMA ReadBackInv ==
  ASSUME IInv, NEW e \in Epochs, ReadBack(e)
  PROVE  IInv'
<1>1. (LeaseTypes /\ RowTypes /\ ProgressTypes /\ StoreTypes /\
        CountTypes /\ Counted)'
  BY DEF IInv, TypeOK, LeaseTypes, RowTypes, ProgressTypes, StoreTypes, CountTypes,
         Counted, Earlier, ReadBack
<1>2. ProcessTypes'
  BY DEF IInv, TypeOK, ProcessTypes, Employed,
     LeaseTypes, ReadBack, Goto
<1>3. Employed'
  BY DEF IInv, TypeOK, Employed, ProcessTypes,
     LeaseTypes, ReadBack, Goto
<1>4. Backed'
  BY DEF IInv, TypeOK, Backed, RowTypes, StoreTypes, ProcessTypes, Employed,
     CompletedIsStored, ReadBack, Goto, Visible
<1>5. Ended'
  BY DEF IInv, TypeOK, Ended, ProcessTypes, LeaseTypes, Employed, CountTypes,
     ReadBack, Goto
<1>6. Held'
  BY DEF IInv, TypeOK, Held, ProcessTypes, StoreTypes, Employed, ReadBack, Goto
<1>7. WritersHandOver'
  BY DEF IInv, TypeOK, WritersHandOver, Held, Ended, Employed, ProcessTypes,
     StoreTypes, RowTypes, LeaseTypes, CountTypes, ReadBack, Goto
<1>8. Staged'
  BY DEF IInv, TypeOK, Staged, ProcessTypes, RowTypes, ProgressTypes, Employed,
     Claims, ReadBack, Goto
<1> QED
  BY <1>1, <1>2, <1>3, <1>4, <1>5, <1>6, <1>7, <1>8 DEF IInv, TypeOK

\* Finish keeps the invariant.
LEMMA FinishInv ==
  ASSUME IInv, NEW e \in Epochs, Finish(e)
  PROVE  IInv'
<1>1. (LeaseTypes /\ StoreTypes /\ CountTypes)'
  BY DEF IInv, TypeOK, LeaseTypes, StoreTypes, CountTypes, Finish
<1>2. RowTypes'
  BY DEF IInv, TypeOK, RowTypes, LeaseTypes, ProcessTypes, Employed, Finish, Leave,
     Done, End
<1>3. ProgressTypes'
  BY DEF IInv, TypeOK, ProgressTypes, ProcessTypes, Employed,
     Finish, Leave, Done, End
<1>4. ProcessTypes'
  BY DEF IInv, TypeOK, ProcessTypes, Employed,
     LeaseTypes, Finish, Leave, Done, End
<1>5. Employed'
  BY DEF IInv, TypeOK, Employed, ProcessTypes,
     LeaseTypes, Finish, Leave, Done, End
<1>6. Backed'
  BY DEF IInv, TypeOK, Backed, RowTypes, StoreTypes, ProcessTypes, Employed,
     CompletedIsStored, Finish, Leave, Done, End
<1>7. Ended'
  BY DEF IInv, TypeOK, Ended, ProcessTypes, LeaseTypes, Employed, CountTypes,
     Finish, Leave, Done, End
<1>8. Held'
  BY DEF IInv, TypeOK, Held, ProcessTypes, StoreTypes, Employed, Finish, Leave,
     Done, End
<1>9. WritersHandOver'
  BY DEF IInv, TypeOK, WritersHandOver, Held, Ended, Employed, ProcessTypes,
     StoreTypes, RowTypes, LeaseTypes, CountTypes, Finish, Leave, Done, End
<1>10. Staged'
  BY DEF IInv, TypeOK, Staged, ProcessTypes, RowTypes, ProgressTypes, Employed,
     Claims, Finish, Leave, Done, End
<1>11. Counted'
  <2> SUFFICES ASSUME NEW q \in Requests
               PROVE  (ran[q] <= Earlier(phase[q]) + execs[q])'
    BY DEF Counted
  <2>1. /\ job[e] \in Requests /\ ran[q] \in Nat /\ execs[q] \in 0..MaxExecutions
        /\ ran[q] <= Earlier(phase[q]) + execs[q]
    BY DEF IInv, TypeOK, Counted, ProgressTypes, CountTypes, ProcessTypes, Employed,
       Finish
  <2>2. CASE q = job[e]
    BY <2>1, <2>2 DEF IInv, TypeOK, ProgressTypes, Staged,
       Earlier, Claims, Finish, Leave, Done, End
  <2>3. CASE q # job[e]
    BY <2>1, <2>3 DEF IInv, TypeOK, ProgressTypes, CountTypes, Finish, Leave, Done,
       End
  <2> QED
    BY <2>2, <2>3
<1> QED
  BY <1>1, <1>2, <1>3, <1>4, <1>5, <1>6, <1>7, <1>8, <1>9, <1>10, <1>11 DEF IInv, TypeOK

\* Reject keeps the invariant.
LEMMA RejectInv ==
  ASSUME IInv, NEW e \in Epochs, Reject(e)
  PROVE  IInv'
<1>1. (LeaseTypes /\ ProgressTypes /\ StoreTypes /\ CountTypes /\ Counted)'
  BY DEF IInv, TypeOK, LeaseTypes, ProgressTypes, StoreTypes, CountTypes, Counted,
         Earlier, Reject
<1>2. RowTypes'
  BY DEF IInv, TypeOK, RowTypes, LeaseTypes, ProcessTypes, Employed, Reject, Leave,
     Done, End
<1>3. ProcessTypes'
  BY DEF IInv, TypeOK, ProcessTypes, Employed,
     LeaseTypes, Reject, Leave, Done, End
<1>4. Employed'
  BY DEF IInv, TypeOK, Employed, ProcessTypes,
     LeaseTypes, Reject, Leave, Done, End
<1>5. Backed'
  BY DEF IInv, TypeOK, Backed, RowTypes, StoreTypes, ProcessTypes, Employed,
     CompletedIsStored, Reject, Leave, Done, End
<1>6. Ended'
  BY DEF IInv, TypeOK, Ended, ProcessTypes, LeaseTypes, Employed, CountTypes,
     Reject, Leave, Done, End
<1>7. Held'
  BY DEF IInv, TypeOK, Held, ProcessTypes, StoreTypes, Employed, Reject, Leave,
     Done, End
<1>8. WritersHandOver'
  BY DEF IInv, TypeOK, WritersHandOver, Held, Ended, Employed, ProcessTypes,
     StoreTypes, RowTypes, LeaseTypes, CountTypes, Reject, Leave, Done, End
<1>9. Staged'
  BY DEF IInv, TypeOK, Staged, ProcessTypes, RowTypes, ProgressTypes, Employed,
     Claims, Reject, Leave, Done, End
<1> QED
  BY <1>1, <1>2, <1>3, <1>4, <1>5, <1>6, <1>7, <1>8, <1>9 DEF IInv, TypeOK

\* Defer keeps the invariant.
LEMMA DeferInv ==
  ASSUME IInv, NEW e \in Epochs, NEW permanent \in BOOLEAN, Defer(e, permanent)
  PROVE  IInv'
<1>1. (LeaseTypes /\ StoreTypes /\ CountTypes)'
  BY DEF IInv, TypeOK, LeaseTypes, StoreTypes, CountTypes, Defer
<1>2. RowTypes'
  BY DEF IInv, TypeOK, RowTypes, LeaseTypes, ProcessTypes, Employed, Defer, Leave,
     Done, End
<1>3. ProgressTypes'
  BY DEF IInv, TypeOK, ProgressTypes, ProcessTypes, Employed,
     Defer, Leave, Done, End, Exhausted, DelayAfter
<1>4. ProcessTypes'
  BY DEF IInv, TypeOK, ProcessTypes, Employed,
     LeaseTypes, Defer, Leave, Done, End
<1>5. Employed'
  BY DEF IInv, TypeOK, Employed, ProcessTypes,
     LeaseTypes, Defer, Leave, Done, End
<1>6. Backed'
  BY DEF IInv, TypeOK, Backed, RowTypes, StoreTypes, ProcessTypes, Employed,
     CompletedIsStored, Defer, Leave, Done, End
<1>7. Ended'
  BY DEF IInv, TypeOK, Ended, ProcessTypes, LeaseTypes, Employed, CountTypes, Defer,
     Leave, Done, End
<1>8. Held'
  BY DEF IInv, TypeOK, Held, ProcessTypes, StoreTypes, Employed, Defer, Leave, Done,
     End
<1>9. WritersHandOver'
  BY DEF IInv, TypeOK, WritersHandOver, Held, Ended, Employed, ProcessTypes,
     StoreTypes, RowTypes, LeaseTypes, CountTypes, Defer, Leave, Done, End
<1>10. Staged'
  BY DEF IInv, TypeOK, Staged, ProcessTypes, RowTypes, ProgressTypes, Employed,
     Claims, Defer, Leave, Done, End
<1>11. Counted'
  BY DEF IInv, TypeOK, Counted, ProgressTypes, CountTypes,
     ProcessTypes, Employed, Staged, Earlier, Claims, Defer, Leave, Done, End
<1> QED
  BY <1>1, <1>2, <1>3, <1>4, <1>5, <1>6, <1>7, <1>8, <1>9, <1>10, <1>11 DEF IInv, TypeOK

\* LoseClaim keeps the invariant.
LEMMA LoseClaimInv ==
  ASSUME IInv, NEW e \in Epochs, LoseClaim(e)
  PROVE  IInv'
<1>1. (LeaseTypes /\ RowTypes /\ ProgressTypes /\ StoreTypes /\
        CountTypes /\ Counted)'
  BY DEF IInv, TypeOK, LeaseTypes, RowTypes, ProgressTypes, StoreTypes, CountTypes,
         Counted, Earlier, LoseClaim
<1>2. ProcessTypes'
  BY DEF IInv, TypeOK, ProcessTypes, Employed,
     LeaseTypes, LoseClaim, Done, End
<1>3. Employed'
  BY DEF IInv, TypeOK, Employed, ProcessTypes,
     LeaseTypes, LoseClaim, Done, End
<1>4. Backed'
  BY DEF IInv, TypeOK, Backed, RowTypes, StoreTypes, ProcessTypes, Employed,
     CompletedIsStored, LoseClaim, Done, End
<1>5. Ended'
  BY DEF IInv, TypeOK, Ended, ProcessTypes, LeaseTypes, Employed, CountTypes,
     LoseClaim, Done, End
<1>6. Held'
  BY DEF IInv, TypeOK, Held, ProcessTypes, StoreTypes, Employed, LoseClaim, Done,
     End
<1>7. WritersHandOver'
  BY DEF IInv, TypeOK, WritersHandOver, Held, Ended, Employed, ProcessTypes,
     StoreTypes, RowTypes, LeaseTypes, CountTypes, LoseClaim, Done, End
<1>8. Staged'
  BY DEF IInv, TypeOK, Staged, ProcessTypes, RowTypes, ProgressTypes, Employed,
     Claims, LoseClaim, Done, End
<1> QED
  BY <1>1, <1>2, <1>3, <1>4, <1>5, <1>6, <1>7, <1>8 DEF IInv, TypeOK

\* StopReleases keeps the invariant.
LEMMA StopReleasesInv ==
  ASSUME IInv, NEW e \in Epochs, StopReleases(e)
  PROVE  IInv'
<1>1. (LeaseTypes /\ ProgressTypes /\ StoreTypes /\ CountTypes /\ Counted)'
  BY DEF IInv, TypeOK, LeaseTypes, ProgressTypes, StoreTypes, CountTypes, Counted,
         Earlier, StopReleases
<1>2. RowTypes'
  BY DEF IInv, TypeOK, RowTypes, LeaseTypes, ProcessTypes, Employed, StopReleases,
     Leave, End
<1>3. ProcessTypes'
  BY DEF IInv, TypeOK, ProcessTypes, Employed,
     LeaseTypes, StopReleases, Leave, End
<1>4. Employed'
  BY DEF IInv, TypeOK, Employed, ProcessTypes,
     LeaseTypes, StopReleases, Leave, End
<1>5. Backed'
  BY DEF IInv, TypeOK, Backed, RowTypes, StoreTypes, ProcessTypes, Employed,
     CompletedIsStored, StopReleases, Leave, End
<1>6. Ended'
  BY DEF IInv, TypeOK, Ended, ProcessTypes, LeaseTypes, Employed, CountTypes,
     StopReleases, Leave, End
<1>7. Held'
  BY DEF IInv, TypeOK, Held, ProcessTypes, StoreTypes, Employed, StopReleases,
     Leave, End
<1>8. WritersHandOver'
  BY DEF IInv, TypeOK, WritersHandOver, Held, Ended, Employed, ProcessTypes,
     StoreTypes, RowTypes, LeaseTypes, CountTypes, StopReleases, Leave, End
<1>9. Staged'
  BY DEF IInv, TypeOK, Staged, ProcessTypes, RowTypes, ProgressTypes, Employed,
     Claims, StopReleases, Leave, End
<1> QED
  BY <1>1, <1>2, <1>3, <1>4, <1>5, <1>6, <1>7, <1>8, <1>9 DEF IInv, TypeOK

\* StopKeeps keeps the invariant.
LEMMA StopKeepsInv ==
  ASSUME IInv, NEW e \in Epochs, StopKeeps(e)
  PROVE  IInv'
<1>1. (LeaseTypes /\ RowTypes /\ ProgressTypes /\ StoreTypes /\
        CountTypes /\ Counted)'
  BY DEF IInv, TypeOK, LeaseTypes, RowTypes, ProgressTypes, StoreTypes, CountTypes,
         Counted, Earlier, StopKeeps
<1>2. ProcessTypes'
  BY DEF IInv, TypeOK, ProcessTypes, Employed,
     LeaseTypes, StopKeeps, End
<1>3. Employed'
  BY DEF IInv, TypeOK, Employed, ProcessTypes,
     LeaseTypes, StopKeeps, End
<1>4. Backed'
  BY DEF IInv, TypeOK, Backed, RowTypes, StoreTypes, ProcessTypes, Employed,
     CompletedIsStored, StopKeeps, End
<1>5. Ended'
  BY DEF IInv, TypeOK, Ended, ProcessTypes, LeaseTypes, Employed, CountTypes,
     StopKeeps, End
<1>6. Held'
  BY DEF IInv, TypeOK, Held, ProcessTypes, StoreTypes, Employed, StopKeeps, End
<1>7. WritersHandOver'
  BY DEF IInv, TypeOK, WritersHandOver, Held, Ended, Employed, ProcessTypes,
     StoreTypes, RowTypes, LeaseTypes, CountTypes, StopKeeps, End
<1>8. Staged'
  BY DEF IInv, TypeOK, Staged, ProcessTypes, RowTypes, ProgressTypes, Employed,
     Claims, StopKeeps, End
<1> QED
  BY <1>1, <1>2, <1>3, <1>4, <1>5, <1>6, <1>7, <1>8 DEF IInv, TypeOK

\* Stop keeps the invariant.
LEMMA StopInv ==
  ASSUME IInv, NEW e \in Epochs, Stop(e)
  PROVE  IInv'
<1>1. CASE Current(e, job[e])
  <2>1. StopReleases(e)
    BY <1>1 DEF Stop, MayStop, StopReleases
  <2> QED
    BY <2>1, StopReleasesInv
<1>2. CASE ~Current(e, job[e])
  <2>1. StopKeeps(e)
    BY <1>2 DEF Stop, MayStop, StopKeeps, Keep
  <2> QED
    BY <2>1, StopKeepsInv
<1> QED
  BY <1>1, <1>2

\* Retire keeps the invariant.
LEMMA RetireInv ==
  ASSUME IInv, NEW e \in Epochs, Retire(e)
  PROVE  IInv'
<1>1. (LeaseTypes /\ RowTypes /\ ProgressTypes /\ StoreTypes /\
        CountTypes /\ Counted)'
  BY DEF IInv, TypeOK, LeaseTypes, RowTypes, ProgressTypes, StoreTypes, CountTypes,
         Counted, Earlier, Retire
<1>2. ProcessTypes'
  BY DEF IInv, TypeOK, ProcessTypes, Employed,
     LeaseTypes, Retire, Goto
<1>3. Employed'
  BY DEF IInv, TypeOK, Employed, ProcessTypes,
     LeaseTypes, Retire, Goto
<1>4. Backed'
  BY DEF IInv, TypeOK, Backed, RowTypes, StoreTypes, ProcessTypes, Employed,
     CompletedIsStored, Retire, Goto
<1>5. Ended'
  BY DEF IInv, TypeOK, Ended, ProcessTypes, LeaseTypes, Employed, CountTypes,
     Retire, Goto
<1>6. Held'
  BY DEF IInv, TypeOK, Held, ProcessTypes, StoreTypes, Employed, Retire, Goto
<1>7. WritersHandOver'
  BY DEF IInv, TypeOK, WritersHandOver, Held, Ended, Employed, ProcessTypes,
     StoreTypes, RowTypes, LeaseTypes, CountTypes, Retire, Goto
<1>8. Staged'
  BY DEF IInv, TypeOK, Staged, ProcessTypes, RowTypes, ProgressTypes, Employed,
     Claims, Retire, Goto
<1> QED
  BY <1>1, <1>2, <1>3, <1>4, <1>5, <1>6, <1>7, <1>8 DEF IInv, TypeOK

\* Crash keeps the invariant.
LEMMA CrashInv ==
  ASSUME IInv, NEW e \in Epochs, Crash(e)
  PROVE  IInv'
<1>1. (LeaseTypes /\ RowTypes /\ ProgressTypes /\ CountTypes /\ Counted)'
  BY DEF IInv, TypeOK, LeaseTypes, RowTypes, ProgressTypes, CountTypes, Counted,
         Earlier, Crash
<1>2. StoreTypes'
  BY DEF IInv, TypeOK, StoreTypes, ProcessTypes, Employed, Crash, End
<1>3. ProcessTypes'
  BY DEF IInv, TypeOK, ProcessTypes, Employed,
     LeaseTypes, Crash, End
<1>4. Employed'
  BY DEF IInv, TypeOK, Employed, ProcessTypes,
     LeaseTypes, Crash, End
<1>5. Backed'
  BY DEF IInv, TypeOK, Backed, RowTypes, StoreTypes, ProcessTypes, Employed,
     CompletedIsStored, Crash, End
<1>6. Ended'
  BY DEF IInv, TypeOK, Ended, ProcessTypes, LeaseTypes, Employed, CountTypes, Crash,
     End
<1>7. Held'
  BY DEF IInv, TypeOK, Held, ProcessTypes, StoreTypes, Employed, Crash, End
<1>8. WritersHandOver'
  BY DEF IInv, TypeOK, WritersHandOver, Held, Ended, Employed, ProcessTypes,
     StoreTypes, RowTypes, LeaseTypes, CountTypes, Crash, End
<1>9. Staged'
  BY DEF IInv, TypeOK, Staged, ProcessTypes, RowTypes, ProgressTypes, Employed,
     Claims, Crash, End
<1> QED
  BY <1>1, <1>2, <1>3, <1>4, <1>5, <1>6, <1>7, <1>8, <1>9 DEF IInv, TypeOK

\* Claim keeps the invariant.
LEMMA ClaimInv ==
  ASSUME IInv, NEW e \in Epochs, NEW r \in Requests, Claim(e, r)
  PROVE  IInv'
<1>1. (LeaseTypes /\ ProgressTypes /\ StoreTypes /\ CountTypes /\ Counted)'
  BY DEF IInv, TypeOK, LeaseTypes, ProgressTypes, StoreTypes, CountTypes, Counted,
         Earlier, Claim
<1>2. RowTypes'
  BY DEF IInv, TypeOK, RowTypes, LeaseTypes, ProcessTypes, Employed, Claim
<1>3. ProcessTypes'
  BY DEF IInv, TypeOK, ProcessTypes, Employed,
     LeaseTypes, Claim
<1>4. Employed'
  BY DEF IInv, TypeOK, Employed, ProcessTypes,
     LeaseTypes, Claim
<1>5. Backed'
  BY DEF IInv, TypeOK, Backed, RowTypes, StoreTypes, ProcessTypes, Employed,
     CompletedIsStored, Claim
<1>6. Ended'
  BY DEF IInv, TypeOK, Ended, ProcessTypes, LeaseTypes, Employed, CountTypes, Claim
<1>7. Held'
  BY DEF IInv, TypeOK, Held, ProcessTypes, StoreTypes, Employed, Claim
<1>8. WritersHandOver'
  BY DEF IInv, TypeOK, WritersHandOver, Held, Ended, Employed, ProcessTypes,
     StoreTypes, RowTypes, LeaseTypes, CountTypes, Claim
<1>9. Staged'
  <2>1. ASSUME NEW f \in Epochs
        PROVE  (/\ pc[f] = "validate" /\ Claims(f) => phase[job[f]] # "NONE"
                /\ pc[f] \in {"write", "sent", "landed"} /\ Claims(f) =>
                     phase[job[f]] = "WRITE")'
    <3>1. CASE f = e
      BY <3>1 DEF IInv, TypeOK, ProcessTypes, Claim
    <3>2. CASE f # e /\ job[f] = r
      BY <3>2 DEF IInv, TypeOK, ProcessTypes, RowTypes, Claims, Claim
    <3>3. CASE f # e /\ job[f] # r
      BY <3>3 DEF IInv, TypeOK, ProcessTypes, RowTypes, Staged, Employed, Claims, Claim
    <3> QED
      BY <3>1, <3>2, <3>3
  <2>2. ASSUME NEW q \in Requests
        PROVE  (phase[q] = "VERIFIED" => status[q] = "COMPLETED")'
    BY <2>2 DEF IInv, TypeOK, RowTypes, Staged, Claimable, Claim
  <2> QED
    BY <2>1, <2>2 DEF Staged
<1> QED
  BY <1>1, <1>2, <1>3, <1>4, <1>5, <1>6, <1>7, <1>8, <1>9 DEF IInv, TypeOK

\* Returns keeps the invariant.
LEMMA ReturnsInv ==
  ASSUME IInv, NEW e \in Epochs, NEW r \in Requests, NEW b \in BlockSet,
         NEW visible \in BOOLEAN,
         NEW acknowledged \in BOOLEAN, Returns(e, r, b, visible, acknowledged)
  PROVE  IInv'
<1>1. /\ pc[e] = "sent" /\ job[e] = r /\ at[e] = b
      /\ flight' = flight \ {<<e, r, b>>}
      /\ UNCHANGED <<job, at, leaseVars, rowVars, phase, expired>>
      /\ \E s \in {"landed", "failed"} : pc' = [pc EXCEPT ![e] = s]
      /\ \A q \in Requests : stored[q] = BlockSet => stored'[q] = BlockSet
  <2> DEFINE w == <<e, r, b>>
  <2>1. w \in flight
    BY DEF Returns
  <2>2. pc[w[1]] = "sent" /\ job[w[1]] = w[2] /\ at[w[1]] = w[3]
    BY <2>1 DEF IInv, Held
  <2>3. \A q \in Requests : stored[q] = BlockSet => stored'[q] = BlockSet
    <3>1. CASE visible
      <4>1. stored' = [stored EXCEPT ![r] = @ \cup {b}]
        BY <3>1 DEF Returns
      <4> QED
        BY <4>1 DEF IInv, TypeOK, StoreTypes
    <3>2. CASE ~visible
      BY <3>2 DEF Returns
    <3> QED
      BY <3>1, <3>2
  <2>4. pc' = [pc EXCEPT ![e] = "landed"] \/ pc' = [pc EXCEPT ![e] = "failed"]
    BY DEF Returns, Goto
  <2> QED
    BY <2>2, <2>3, <2>4 DEF Returns, Goto, progressVars
<1>2. (LeaseTypes /\ RowTypes /\ ProgressTypes /\ CountTypes /\ Counted)'
  BY DEF IInv, TypeOK, LeaseTypes, RowTypes, ProgressTypes, CountTypes, Counted,
         Earlier, Returns
<1>3. StoreTypes'
  <2>1. CASE visible
    BY <2>1 DEF IInv, TypeOK, StoreTypes, Returns
  <2>2. CASE ~visible
    BY <2>2 DEF IInv, TypeOK, StoreTypes, Returns
  <2> QED
    BY <2>1, <2>2
<1>4. ProcessTypes'
  BY <1>1 DEF IInv, TypeOK, ProcessTypes,
     Employed, LeaseTypes, Returns, Goto
<1>5. Employed'
  BY <1>1 DEF IInv, TypeOK, Employed,
     ProcessTypes, LeaseTypes
<1>6. Backed'
  BY <1>1 DEF IInv, TypeOK, Backed, CompletedIsStored, RowTypes, ProcessTypes,
     Employed
<1>7. Ended'
  BY <1>1 DEF IInv, TypeOK, Ended, ProcessTypes, LeaseTypes
<1>8. Held'
  <2> SUFFICES ASSUME NEW w \in flight, w # <<e, r, b>>
               PROVE  (pc[w[1]] = "sent" /\ job[w[1]] = w[2] /\ at[w[1]] = w[3])'
    BY <1>1 DEF Held
  <2>1. /\ w = <<w[1], w[2], w[3]>> /\ w[1] \in Epochs
        /\ pc[w[1]] = "sent" /\ job[w[1]] = w[2] /\ at[w[1]] = w[3]
    BY DEF IInv, TypeOK, StoreTypes, Held
  <2>2. w[1] # e
    BY <1>1, <2>1
  <2> QED
    BY <1>1, <2>1, <2>2 DEF IInv, TypeOK, ProcessTypes
<1>9. WritersHandOver'
  BY <1>1, <1>8 DEF IInv, TypeOK, Held, WritersHandOver, StoreTypes, RowTypes,
     CountTypes
<1>10. Staged'
  BY <1>1 DEF IInv, TypeOK, Staged, Claims, ProcessTypes, RowTypes, ProgressTypes,
     Employed
<1> QED
  BY <1>2, <1>3, <1>4, <1>5, <1>6, <1>7, <1>8, <1>9, <1>10 DEF IInv, TypeOK

\* WorkerAcquires keeps the invariant.
LEMMA WorkerAcquiresInv ==
  ASSUME IInv, WorkerAcquires
  PROVE  IInv'
<1>1. (RowTypes /\ ProgressTypes /\ StoreTypes /\ CountTypes /\ Counted)'
  BY DEF IInv, TypeOK, RowTypes, ProgressTypes, StoreTypes, CountTypes, Counted,
         Earlier, WorkerAcquires
<1>2. LeaseTypes'
  BY DEF IInv, TypeOK, LeaseTypes, WorkerAcquires, Acquire
<1>3. ProcessTypes'
  BY DEF IInv, TypeOK, ProcessTypes, Employed,
     LeaseTypes, WorkerAcquires, Acquire
<1>4. Employed'
  BY DEF IInv, TypeOK, Employed, ProcessTypes,
     LeaseTypes, WorkerAcquires, Acquire
<1>5. Backed'
  BY DEF IInv, TypeOK, Backed, RowTypes, StoreTypes, ProcessTypes, Employed,
     CompletedIsStored, WorkerAcquires, Acquire
<1>6. Ended'
  BY DEF IInv, TypeOK, Ended, ProcessTypes, LeaseTypes, Employed, CountTypes,
     WorkerAcquires, Acquire
<1>7. Held'
  <2> SUFFICES ASSUME NEW w \in flight
               PROVE  (pc[w[1]] = "sent" /\ job[w[1]] = w[2] /\ at[w[1]] = w[3])'
    BY DEF Held, WorkerAcquires
  <2>1. w[1] \in Epochs /\ pc[w[1]] = "sent" /\ job[w[1]] = w[2] /\ at[w[1]] = w[3]
    BY DEF IInv, TypeOK, StoreTypes, Held
  <2>2. w[1] <= epoch
    BY <2>1 DEF IInv, Employed
  <2> QED
    BY <2>1, <2>2 DEF IInv, TypeOK, LeaseTypes, ProcessTypes, WorkerAcquires, Acquire
<1>8. WritersHandOver'
  BY DEF IInv, TypeOK, WritersHandOver, Held, Ended, Employed, ProcessTypes,
     StoreTypes, RowTypes, LeaseTypes, CountTypes, WorkerAcquires, Acquire
<1>9. Staged'
  BY DEF IInv, TypeOK, Staged, ProcessTypes, RowTypes, ProgressTypes, Employed,
     Claims, WorkerAcquires, Acquire
<1> QED
  BY <1>1, <1>2, <1>3, <1>4, <1>5, <1>6, <1>7, <1>8, <1>9 DEF IInv, TypeOK

\* WorkerReleases keeps the invariant.
LEMMA WorkerReleasesInv ==
  ASSUME IInv, WorkerReleases
  PROVE  IInv'
<1>1. (RowTypes /\ ProgressTypes /\ StoreTypes /\ CountTypes /\ Counted)'
  BY DEF IInv, TypeOK, RowTypes, ProgressTypes, StoreTypes, CountTypes, Counted,
         Earlier, WorkerReleases
<1>2. LeaseTypes'
  BY DEF IInv, TypeOK, LeaseTypes, WorkerReleases, Release, Expire
<1>3. ProcessTypes'
  BY DEF IInv, TypeOK, ProcessTypes, Employed,
     LeaseTypes, WorkerReleases, Release, Expire
<1>4. Employed'
  BY DEF IInv, TypeOK, Employed, ProcessTypes,
     LeaseTypes, WorkerReleases, Release, Expire
<1>5. Backed'
  BY DEF IInv, TypeOK, Backed, RowTypes, StoreTypes, ProcessTypes, Employed,
     CompletedIsStored, WorkerReleases, Release, Expire
<1>6. Ended'
  BY DEF IInv, TypeOK, Ended, ProcessTypes, LeaseTypes, Employed, CountTypes,
     WorkerReleases, Release, Expire
<1>7. Held'
  BY DEF IInv, TypeOK, Held, ProcessTypes, StoreTypes, Employed, WorkerReleases,
     Release, Expire
<1>8. WritersHandOver'
  BY DEF IInv, TypeOK, WritersHandOver, Held, Ended, Employed, ProcessTypes,
     StoreTypes, RowTypes, LeaseTypes, CountTypes, WorkerReleases, Release, Expire
<1>9. Staged'
  BY DEF IInv, TypeOK, Staged, ProcessTypes, RowTypes, ProgressTypes, Employed,
     Claims, WorkerReleases, Release, Expire
<1> QED
  BY <1>1, <1>2, <1>3, <1>4, <1>5, <1>6, <1>7, <1>8, <1>9 DEF IInv, TypeOK

\* LeaseExpires keeps the invariant.
LEMMA LeaseExpiresInv ==
  ASSUME IInv, LeaseExpires
  PROVE  IInv'
<1>1. (RowTypes /\ ProgressTypes /\ StoreTypes /\ ProcessTypes /\
        Employed /\ Backed /\ Held /\ Staged /\ Counted)'
  BY DEF IInv, TypeOK, RowTypes, ProgressTypes, StoreTypes, ProcessTypes, Employed,
         Backed, Held, Staged, Counted, CompletedIsStored, Claims, Earlier,
         LeaseExpires, Expire
<1>2. LeaseTypes'
  BY DEF IInv, TypeOK, LeaseTypes, LeaseExpires, Expire
<1>3. CountTypes'
  BY DEF IInv, TypeOK, CountTypes, ProcessTypes, Employed,
     LeaseExpires, Expire, Ended
<1>4. Ended'
  BY DEF IInv, TypeOK, Ended, ProcessTypes, LeaseTypes, Employed, CountTypes,
     LeaseExpires, Expire
<1>5. WritersHandOver'
  BY DEF IInv, TypeOK, WritersHandOver, Held, Ended, Employed, ProcessTypes,
     StoreTypes, RowTypes, LeaseTypes, CountTypes, LeaseExpires, Expire
<1> QED
  BY <1>1, <1>2, <1>3, <1>4, <1>5 DEF IInv, TypeOK

\* ClaimLapses keeps the invariant.
LEMMA ClaimLapsesInv ==
  ASSUME IInv, NEW r \in Requests, ClaimLapses(r)
  PROVE  IInv'
<1>1. (LeaseTypes /\ StoreTypes /\ ProcessTypes /\ Employed /\
        Backed /\ Ended /\ Held /\ WritersHandOver /\
        Staged /\ Counted)'
  BY DEF IInv, TypeOK, LeaseTypes, StoreTypes, ProcessTypes, Employed, Backed,
         Ended, Held, WritersHandOver, Staged, Counted, CompletedIsStored, Claims,
         Earlier, ClaimLapses
<1>2. RowTypes'
  BY DEF IInv, TypeOK, RowTypes, LeaseTypes, ProcessTypes, Employed, ClaimLapses
<1>3. ProgressTypes'
  BY DEF IInv, TypeOK, ProgressTypes, ProcessTypes, Employed,
     ClaimLapses
<1>4. CountTypes'
  BY DEF IInv, TypeOK, CountTypes, ProcessTypes, Employed,
     ClaimLapses
<1> QED
  BY <1>1, <1>2, <1>3, <1>4 DEF IInv, TypeOK

\* WindowCloses keeps the invariant.
LEMMA WindowClosesInv ==
  ASSUME IInv, NEW r \in Requests, WindowCloses(r)
  PROVE  IInv'
<1>1. (LeaseTypes /\ RowTypes /\ StoreTypes /\ ProcessTypes /\
        CountTypes /\ Employed /\ Backed /\ Ended /\ Held /\ WritersHandOver /\
        Staged /\ Counted)'
  BY DEF IInv, TypeOK, LeaseTypes, RowTypes, StoreTypes, ProcessTypes, CountTypes,
         Employed, Backed, Ended, Held, WritersHandOver, Staged, Counted,
         CompletedIsStored, Claims, Earlier, WindowCloses
<1>2. ProgressTypes'
  BY DEF IInv, TypeOK, ProgressTypes, ProcessTypes, Employed,
     WindowCloses
<1> QED
  BY <1>1, <1>2 DEF IInv, TypeOK

\* RetryDue keeps the invariant.
LEMMA RetryDueInv ==
  ASSUME IInv, NEW r \in Requests, RetryDue(r)
  PROVE  IInv'
<1>1. (LeaseTypes /\ RowTypes /\ StoreTypes /\ ProcessTypes /\
        CountTypes /\ Employed /\ Backed /\ Ended /\ Held /\ WritersHandOver /\
        Staged /\ Counted)'
  BY DEF IInv, TypeOK, LeaseTypes, RowTypes, StoreTypes, ProcessTypes, CountTypes,
         Employed, Backed, Ended, Held, WritersHandOver, Staged, Counted,
         CompletedIsStored, Claims, Earlier, RetryDue
<1>2. ProgressTypes'
  BY DEF IInv, TypeOK, ProgressTypes, ProcessTypes, Employed,
     RetryDue
<1> QED
  BY <1>1, <1>2 DEF IInv, TypeOK

\* Resume keeps the invariant.
LEMMA ResumeInv ==
  ASSUME IInv, NEW r \in Requests, Resume(r)
  PROVE  IInv'
<1>1. (LeaseTypes /\ StoreTypes /\ ProcessTypes /\ Employed /\ Ended /\ Held)'
  BY DEF IInv, TypeOK, LeaseTypes, StoreTypes, ProcessTypes, Employed, Ended, Held,
         Resume
<1>2. RowTypes'
  BY DEF IInv, TypeOK, RowTypes, LeaseTypes, ProcessTypes, Employed, Resume, Leave
<1>3. ProgressTypes'
  BY DEF IInv, TypeOK, ProgressTypes, ProcessTypes, Employed,
     Resume, Leave
<1>4. CountTypes'
  BY DEF IInv, TypeOK, CountTypes, ProcessTypes, Employed,
     Resume, Leave
<1>5. Backed'
  BY DEF IInv, TypeOK, Backed, RowTypes, StoreTypes, ProcessTypes, Employed,
     CompletedIsStored, Resume, Leave
<1>6. WritersHandOver'
  BY DEF IInv, TypeOK, WritersHandOver, Held, Ended, Employed, ProcessTypes,
     StoreTypes, RowTypes, LeaseTypes, CountTypes, Resume, Leave
<1>7. Staged'
  BY DEF IInv, TypeOK, Staged, ProcessTypes, RowTypes, ProgressTypes, Employed,
     Claims, Resume, Leave
<1>8. Counted'
  BY DEF IInv, TypeOK, Counted, ProgressTypes, CountTypes,
     ProcessTypes, Employed, Staged, Earlier, Claims, Resume, Leave
<1> QED
  BY <1>1, <1>2, <1>3, <1>4, <1>5, <1>6, <1>7, <1>8 DEF IInv, TypeOK

\* Reopen keeps the invariant.
LEMMA ReopenInv ==
  ASSUME IInv, NEW r \in Requests, Reopen(r)
  PROVE  IInv'
<1>1. (LeaseTypes /\ ProgressTypes /\ StoreTypes /\ ProcessTypes /\
        Employed /\ Ended /\ Held /\ Counted)'
  BY DEF IInv, TypeOK, LeaseTypes, ProgressTypes, StoreTypes, ProcessTypes,
         Employed, Ended, Held, Counted, Earlier, Reopen
<1>2. RowTypes'
  BY DEF IInv, TypeOK, RowTypes, LeaseTypes, ProcessTypes, Employed, Reopen, Leave
<1>3. CountTypes'
  BY DEF IInv, TypeOK, CountTypes, ProcessTypes, Employed,
     Reopen, Leave
<1>4. Backed'
  BY DEF IInv, TypeOK, Backed, RowTypes, StoreTypes, ProcessTypes, Employed,
     CompletedIsStored, Reopen, Leave
<1>5. WritersHandOver'
  BY DEF IInv, TypeOK, WritersHandOver, Held, Ended, Employed, ProcessTypes,
     StoreTypes, RowTypes, LeaseTypes, CountTypes, Reopen, Leave
<1>6. Staged'
  BY DEF IInv, TypeOK, Staged, ProcessTypes, RowTypes, ProgressTypes, Employed,
     Claims, Reopen, Leave
<1> QED
  BY <1>1, <1>2, <1>3, <1>4, <1>5, <1>6 DEF IInv, TypeOK

\* Arrives keeps the invariant.
LEMMA ArrivesInv ==
  ASSUME IInv, NEW r \in Requests, NEW b \in BlockSet, Arrives(r, b)
  PROVE  IInv'
<1>1. (LeaseTypes /\ RowTypes /\ ProgressTypes /\ ProcessTypes /\
        CountTypes /\ Employed /\ Ended /\ Held /\ WritersHandOver /\
        Staged /\ Counted)'
  BY DEF IInv, TypeOK, LeaseTypes, RowTypes, ProgressTypes, ProcessTypes,
         CountTypes, Employed, Ended, Held, WritersHandOver, Staged, Counted,
         Claims, Earlier, Arrives
<1>2. StoreTypes'
  BY DEF IInv, TypeOK, StoreTypes, ProcessTypes, Employed, Arrives
<1>3. Backed'
  <2>1. \A q \in Requests : stored[q] = BlockSet => stored'[q] = BlockSet
    BY DEF IInv, TypeOK, StoreTypes, Arrives
  <2> QED
    BY <2>1 DEF IInv, TypeOK, Backed, CompletedIsStored, Employed, ProcessTypes,
       RowTypes, Arrives
<1> QED
  BY <1>1, <1>2, <1>3 DEF IInv, TypeOK

\* Vanishes keeps the invariant.
LEMMA VanishesInv ==
  ASSUME IInv, NEW r \in Requests, NEW b \in BlockSet, Vanishes(r, b)
  PROVE  IInv'
<1>1. (LeaseTypes /\ RowTypes /\ ProgressTypes /\ ProcessTypes /\
        CountTypes /\ Employed /\ Backed /\ Ended /\ Held /\ WritersHandOver /\
        Staged /\ Counted)'
  BY DEF IInv, TypeOK, LeaseTypes, RowTypes, ProgressTypes, ProcessTypes,
         CountTypes, Employed, Backed, Ended, Held, WritersHandOver, Staged,
         Counted, CompletedIsStored, Claims, Earlier, Vanishes
<1>2. StoreTypes'
  BY DEF IInv, TypeOK, StoreTypes, ProcessTypes, Employed, Vanishes
<1> QED
  BY <1>1, <1>2 DEF IInv, TypeOK

\* Steps that change nothing keep the invariant.
LEMMA StutterInv ==
  ASSUME IInv, UNCHANGED vars
  PROVE  IInv'
<1>1. TypeOK'
  BY DEF IInv, vars, TypeOK, LeaseTypes, RowTypes, ProgressTypes, StoreTypes,
     ProcessTypes, CountTypes
<1>2. (Employed /\ Backed /\ Ended /\ Held /\ WritersHandOver)'
  BY DEF IInv, vars, Employed, Backed, CompletedIsStored, Ended, Held, WritersHandOver
<1>3. (Staged /\ Counted)'
  BY DEF IInv, vars, Staged, Claims, Counted, Earlier
<1> QED
  BY <1>1, <1>2, <1>3 DEF IInv

\* Every step keeps the invariant.
LEMMA NextInv ==
  ASSUME IInv, [Next]_vars
  PROVE  IInv'
<1>1. ASSUME NEW e \in Epochs, Work(e)
      PROVE  IInv'
  BY <1>1, BeginInv, ValidatedInv, CheckBlockInv, ConfirmBlockInv, WriteDoneInv,
     PersistReferenceInv, ReadBackInv, FinishInv, RejectInv, DeferInv, LoseClaimInv
     DEF Work
<1>2. ASSUME NEW e \in Epochs, Stop(e) \/ Retire(e) \/ Crash(e)
      PROVE  IInv'
  BY <1>2, StopInv, RetireInv, CrashInv
<1>3. ASSUME NEW e \in Epochs, NEW r \in Requests, Claim(e, r)
      PROVE  IInv'
  BY <1>3, ClaimInv
<1>4. ASSUME NEW e \in Epochs, NEW r \in Requests, NEW b \in BlockSet, Return(e, r, b)
      PROVE  IInv'
  BY <1>4, ReturnsInv DEF Return
<1>5. CASE WorkerAcquires \/ WorkerReleases \/ LeaseExpires
  BY <1>5, WorkerAcquiresInv, WorkerReleasesInv, LeaseExpiresInv
<1>6. ASSUME NEW r \in Requests,
             \/ ClaimLapses(r) \/ WindowCloses(r) \/ RetryDue(r) \/ Resume(r)
             \/ Reopen(r)
      PROVE  IInv'
  BY <1>6, ClaimLapsesInv, WindowClosesInv, RetryDueInv, ResumeInv, ReopenInv
<1>7. ASSUME NEW r \in Requests, NEW b \in BlockSet, Arrives(r, b) \/ Vanishes(r, b)
      PROVE  IInv'
  BY <1>7, ArrivesInv, VanishesInv
<1>8. CASE UNCHANGED vars
  BY <1>8, StutterInv
<1> QED
  BY <1>1, <1>2, <1>3, <1>4, <1>5, <1>6, <1>7, <1>8 DEF Next

\* The inductive invariant.
THEOREM IngestionInvariant == Spec => []IInv
<1>1. Init => IInv
  BY InitInv
<1>2. IInv /\ [Next]_vars => IInv'
  BY NextInv
<1> QED
  BY <1>1, <1>2, PTL DEF Spec

\* Every variable keeps its type.
THEOREM IngestionTypes == Spec => []TypeOK
<1>1. IInv => TypeOK
  BY DEF IInv
<1> QED
  BY <1>1, IngestionInvariant, PTL

\* A request is recorded as COMPLETED only when the store has every block.
THEOREM CompletedStored == Spec => []CompletedIsStored
<1>1. IInv => CompletedIsStored
  BY DEF IInv, Backed
<1> QED
  BY <1>1, IngestionInvariant, PTL

\* A write under way is covered by its process's claim unless the lease ran out.
THEOREM HandOver == Spec => []WritersHandOver
<1>1. IInv => WritersHandOver
  BY DEF IInv
<1> QED
  BY <1>1, IngestionInvariant, PTL

\* Three budgets bound the automatic executions.
THEOREM Budget == Spec => []BudgetBounded
<1>1. IInv => BudgetBounded
  <2> SUFFICES ASSUME IInv, NEW r \in Requests
               PROVE  ran[r] <= 3 * MaxExecutions - 2
    BY DEF BudgetBounded
  <2>1. ran[r] \in Nat /\ execs[r] \in 0..MaxExecutions
    BY DEF IInv, TypeOK, CountTypes, ProgressTypes
  <2>2. ran[r] <= Earlier(phase[r]) + execs[r]
    BY DEF IInv, Counted
  <2>3. Earlier(phase[r]) \in 0..2 * MaxExecutions - 2
    BY DEF Earlier
  <2> QED
    BY <2>1, <2>2, <2>3, IngestionAssumption
<1> QED
  BY <1>1, IngestionInvariant, PTL
-----------------------------------------------------------------------------
(* The contract, its liveness aside.                                         *)

\* One row leaves its status in a way the contract allows, or invisibly.
LEMMA RowMoves ==
  ASSUME TypeOK, NEW r \in Requests,
         NEW s \in {"UPLOADED", "PROCESSING", "BLOCKED", "COMPLETED", "FAILED"},
         status' = [status EXCEPT ![r] = s],
         \/ status[r] \in {"UPLOADED", "PROCESSING"}
         \/ status[r] \in {"BLOCKED", "FAILED"} /\ s = "UPLOADED"
  PROVE  Contract!Next \/ UNCHANGED View
<1> DEFINE seen == IF s = "PROCESSING" THEN "UPLOADED" ELSE s
<1>1. View' = [View EXCEPT ![r] = seen]
  BY DEF TypeOK, RowTypes, View
<1>2. CASE status[r] \in {"UPLOADED", "PROCESSING"} /\ seen = "UPLOADED"
  BY <1>1, <1>2 DEF TypeOK, RowTypes, View
<1>3. CASE status[r] \in {"UPLOADED", "PROCESSING"} /\ seen # "UPLOADED"
  <2>1. View[r] = "UPLOADED" /\ seen \in Contract!Moves["UPLOADED"]
    BY <1>3 DEF TypeOK, RowTypes, View, Contract!Moves
  <2> QED
    BY <1>1, <2>1 DEF Contract!Next, Contract!Settle, Contract!Move
<1>4. CASE status[r] = "BLOCKED" /\ s = "UPLOADED"
  <2>1. View[r] = "BLOCKED" /\ seen \in Contract!Moves["BLOCKED"]
    BY <1>4 DEF TypeOK, RowTypes, View, Contract!Moves
  <2> QED
    BY <1>1, <2>1 DEF Contract!Next, Contract!Reopen, Contract!Move
<1>5. CASE status[r] = "FAILED" /\ s = "UPLOADED"
  <2>1. View[r] = "FAILED" /\ seen \in Contract!Moves["FAILED"]
    BY <1>5 DEF TypeOK, RowTypes, View, Contract!Moves
  <2> QED
    BY <1>1, <2>1 DEF Contract!Next, Contract!Reopen, Contract!Move
<1> QED
  BY <1>2, <1>3, <1>4, <1>5

\* A transaction of a claim finds the row in PROCESSING.
LEMMA WorkMoves ==
  ASSUME IInv, NEW e \in Epochs, Work(e) \/ Stop(e)
  PROVE  Contract!Next \/ UNCHANGED View
<1>1. CASE UNCHANGED status
  BY <1>1 DEF View
<1>2. CASE status' # status
  <2>1. pc[e] \in Running
    BY <1>2 DEF Work, Begin, Validated, CheckBlock, ConfirmBlock, WriteDone,
       PersistReference, ReadBack, Finish, Reject, Defer, LoseClaim, Stop, MayStop
  <2> DEFINE left == \E s \in {"UPLOADED", "BLOCKED", "COMPLETED", "FAILED"} :
                        status' = [status EXCEPT ![job[e]] = s]
  <2>2. status[job[e]] = "PROCESSING" /\ left
    <3>1. CASE Begin(e)
      BY <1>2, <3>1 DEF Begin, Leave, Keep
    <3>2. CASE Finish(e) \/ Reject(e)
      BY <3>2 DEF Finish, Reject, Leave
    <3>3. ASSUME NEW permanent \in BOOLEAN, Defer(e, permanent)
          PROVE  status[job[e]] = "PROCESSING" /\ left
      BY <3>3 DEF Defer, Leave
    <3>4. CASE Stop(e)
      BY <1>2, <3>4 DEF Stop, Leave, Keep
    <3> QED
      BY <1>2, <3>1, <3>2, <3>3, <3>4 DEF Work, Validated, CheckBlock, ConfirmBlock,
         WriteDone, PersistReference, ReadBack, LoseClaim, Keep
  <2>3. job[e] \in Requests
    BY <2>1 DEF IInv, Employed
  <2> QED
    BY <2>2, <2>3, RowMoves DEF IInv
<1> QED
  BY <1>1, <1>2

\* Every step is one the contract allows, or invisible.
LEMMA StepMoves ==
  ASSUME IInv, [Next]_vars
  PROVE  Contract!Next \/ UNCHANGED View
<1>1. ASSUME NEW e \in Epochs, Work(e) \/ Stop(e)
      PROVE  Contract!Next \/ UNCHANGED View
  BY <1>1, WorkMoves
<1>2. ASSUME NEW e \in Epochs, NEW r \in Requests, Claim(e, r)
      PROVE  Contract!Next \/ UNCHANGED View
  <2>1. /\ status[r] \in {"UPLOADED", "PROCESSING"}
        /\ status' = [status EXCEPT ![r] = "PROCESSING"]
    BY <1>2 DEF Claim, Claimable
  <2> QED
    BY <2>1, RowMoves DEF IInv
<1>3. ASSUME NEW r \in Requests, Resume(r) \/ Reopen(r)
      PROVE  Contract!Next \/ UNCHANGED View
  <2>1. /\ status[r] \in {"BLOCKED", "FAILED"}
        /\ status' = [status EXCEPT ![r] = "UPLOADED"]
    BY <1>3 DEF Resume, Reopen, Leave
  <2> QED
    BY <2>1, RowMoves DEF IInv
<1>4. ASSUME UNCHANGED status
      PROVE  UNCHANGED View
  BY <1>4 DEF View
<1>5. ASSUME NEW e \in Epochs,
             \/ Retire(e) \/ Crash(e)
             \/ \E r \in Requests, b \in BlockSet : Return(e, r, b)
      PROVE  UNCHANGED status
  BY <1>5 DEF Retire, Crash, Return, Returns
<1>6. ASSUME WorkerAcquires \/ WorkerReleases \/ LeaseExpires
      PROVE  UNCHANGED status
  BY <1>6 DEF WorkerAcquires, WorkerReleases, LeaseExpires
<1>7. ASSUME NEW r \in Requests,
             \/ ClaimLapses(r) \/ WindowCloses(r) \/ RetryDue(r)
             \/ \E b \in BlockSet : Arrives(r, b) \/ Vanishes(r, b)
      PROVE  UNCHANGED status
  BY <1>7 DEF ClaimLapses, WindowCloses, RetryDue, Arrives, Vanishes
<1>8. CASE UNCHANGED vars
  BY <1>4, <1>8 DEF vars
<1> QED
  BY <1>1, <1>2, <1>3, <1>4, <1>5, <1>6, <1>7, <1>8 DEF Next

\* Ingestion implements the steps of its contract: COMPLETED is final, and BLOCKED
\* and FAILED are only left for a new attempt.
THEOREM ContractSteps == Spec => Contract!Init /\ [][Contract!Next]_View
<1>1. Init => Contract!Init
  BY DEF Init, Contract!Init, View
<1>2. IInv /\ [Next]_vars => [Contract!Next]_View
  BY StepMoves
<1> QED
  BY <1>1, <1>2, IngestionInvariant, PTL DEF Spec
=============================================================================
