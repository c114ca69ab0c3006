------------------------ MODULE CommandOutboxProofs ------------------------
(***************************************************************************)
(* Proofs about CommandOutbox, for every set of commands and every number of *)
(* deliveries.                                                               *)
(***************************************************************************)
EXTENDS CommandOutbox, TLAPS

Attempts == 1..MaxAttempts

\* Frames are numbered by the claim that made them and are in one place only;
\* a command nobody claimed, or whose only frame is still buffered, is unknown
\* to the Agent.
FramesInv(p) ==
  /\ \A n \in Attempts : <<p, n>> \in buffer \/ <<p, n>> \in wire => n <= attempts[p]
  /\ \A n \in Attempts : <<p, n>> \in buffer => <<p, n>> \notin wire
  /\ row[p] = "QUEUED" => attempts[p] = 0
  /\ attempts[p] = 0 => agent[p] = "unseen"
  /\ attempts[p] = 1 /\ <<p, 1>> \in buffer => agent[p] = "unseen"

\* Acks repeat the Agent's one final answer, and a broker's order id or report
\* is evidence of a submission.
AnswerInv(p) ==
  /\ agent[p] = "unseen" => submits[p] = 0
  /\ answer[p] # "NONE" => agent[p] = "done"
  /\ answer[p] \in Refusals => submits[p] = 0
  /\ answer[p] = "ACCEPTED" => submits[p] = 1
  /\ known[p] \/ heard[p] => submits[p] # 0
  /\ \A n \in 0..MaxAttempts, x \in Answers \cup {"PROCESSING"} :
       <<p, n, x>> \in ackq => agent[p] # "unseen" /\ (x # "PROCESSING" => answer[p] = x)

Closed(p) ==
  row[p] \in Proofs \/ (p \notin TOrder /\ pending[p] \in Proofs /\ ~heard[p])

\* A closed order is untouched, and its command is sent again only if the Agent
\* has answered it.
ClosedInv(p) ==
  Closed(p) => Untouched(p) /\ (row[p] \in {"QUEUED", "DELIVERED"} => agent[p] = "done")

\* If the Agent has answered a closed command, it gave the matching refusal.
ProofInv(p) ==
  row[p] \in Proofs /\ agent[p] = "done" =>
    \/ row[p] = "EXPIRED" /\ answer[p] = "command_expired"
    \/ row[p] = "REJECTED" /\ answer[p] = "pre_execution"

\* A halted command that the Agent does not know cannot be sent.
HaltInv(p) ==
  halted[p] # "no" /\ agent[p] = "unseen" =>
    /\ row[p] # "QUEUED"
    /\ row[p] = "DELIVERED" => pending[p] = "CANCEL_REQUESTED" /\ p \notin TOrder

OrderInv(p) ==
  FramesInv(p) /\ AnswerInv(p) /\ ClosedInv(p) /\ ProofInv(p) /\ HaltInv(p)

\* What a stop has read still covers what it must not miss.
StopInv ==
  /\ stop.kind = "t_stop" => stop.orders \subseteq TOrder
  /\ stop.read => stop.kind # "none"
  /\ stop.kind = "kill" /\ stop.read =>
       \A p \in Place : row[p] \in {"QUEUED", "DELIVERED"} => p \in stop.rows

Inv == TypeOK /\ StopInv /\ \A p \in Place : OrderInv(p)

\* What OrderInv says of p depends on; frames and acks may be lost.
SameRow(p) ==
  /\ row'[p] = row[p] /\ pending'[p] = pending[p] /\ known'[p] = known[p]
  /\ heard'[p] = heard[p] /\ halted'[p] = halted[p]

SameLink(p) ==
  /\ \A n \in Attempts : <<p, n>> \in buffer' => <<p, n>> \in buffer
  /\ \A n \in Attempts : <<p, n>> \in wire' => <<p, n>> \in wire

SameAcks(p) ==
  \A n \in 0..MaxAttempts, x \in Answers \cup {"PROCESSING"} :
    <<p, n, x>> \in ackq' => <<p, n, x>> \in ackq

SameAgent(p) ==
  agent'[p] = agent[p] /\ answer'[p] = answer[p] /\ submits'[p] = submits[p]

Same(p) ==
  /\ SameRow(p) /\ SameLink(p) /\ SameAcks(p) /\ SameAgent(p)
  /\ attempts'[p] = attempts[p]

\* What a step may do to a closed command, and to one that was halted in time.
StaysClosed == \A p \in Place : row[p] \in Proofs => row'[p] \in {row[p], "CANCELLED_KILL"}

StaysHalted ==
  \A p \in Place :
    halted[p] # "no" /\ agent[p] = "unseen" /\ (\A n \in 1..MaxAttempts : <<p, n>> \notin wire)
      => \A n \in 1..MaxAttempts : <<p, n>> \notin wire'

Good == Inv' /\ StaysClosed /\ StaysHalted

-----------------------------------------------------------------------------
USE OutboxAssumption DEF rowVars, linkVars, agentVars, Attempts, PreReasons, Proofs

\* The initial state has its types.
LEMMA TypeInit == Init => TypeOK
<1> SUFFICES ASSUME Init PROVE TypeOK
  OBVIOUS
<1>1. RowTypes
  BY DEF Init, RowTypes, RowStates, PendingStates
<1>2. ReaderTypes
  BY DEF Init, ReaderTypes, PendingStates, NoStop
<1>3. LinkTypes
  BY DEF Init, LinkTypes, Frames, Acks
<1>4. AgentTypes
  BY DEF Init, AgentTypes
<1> QED
  BY <1>1, <1>2, <1>3, <1>4 DEF TypeOK

-----------------------------------------------------------------------------
\* A step that does not touch p keeps what is known of p.
LEMMA SameKeeps ==
  ASSUME NEW p \in Place, OrderInv(p), Same(p)
  PROVE  OrderInv(p)'
<1> USE DEF Same, SameRow, SameLink, SameAgent, OrderInv
<1>1. FramesInv(p)'
  BY DEF FramesInv
<1>2. AnswerInv(p)'
  BY DEF AnswerInv, SameAcks
<1>3. ClosedInv(p)'
  BY DEF ClosedInv, Closed, Untouched
<1>4. ProofInv(p)'
  BY DEF ProofInv
<1>5. HaltInv(p)'
  BY DEF HaltInv
<1> QED
  BY <1>1, <1>2, <1>3, <1>4, <1>5

\* An outcome closes both rows, on a proof, or leaves them to be reconciled.
LEMMA TransitionCases ==
  ASSUME NEW p \in Place, NEW status, NEW reason, NEW proven,
         RowTypes, Transition(p, status, reason, proven)
  PROVE  /\ row'[p] = pending'[p]
         /\ row'[p] \in {status, "RECONCILE_REQUIRED"}
         /\ row'[p] \in Proofs => Safe(p, status, reason, proven)
         /\ \A q \in Place \ {p} : row'[q] = row[q] /\ pending'[q] = pending[q]
<1>1. PICK s \in {status, "RECONCILE_REQUIRED"} :
        /\ s \in Proofs => Safe(p, status, reason, proven)
        /\ row' = [row EXCEPT ![p] = s]
        /\ pending' = [pending EXCEPT ![p] = s]
  BY DEF Transition
<1>2. row'[p] = s /\ pending'[p] = s
  BY <1>1 DEF RowTypes
<1>3. \A q \in Place \ {p} : row'[q] = row[q] /\ pending'[q] = pending[q]
  BY <1>1 DEF RowTypes
<1> QED
  BY <1>1, <1>2, <1>3

\* A report on one order leaves every other order alone.
LEMMA UpdateKeeps ==
  ASSUME NEW p \in Place, NEW status, NEW reason, RowTypes, UpdatePending(p, status, reason)
  PROVE  \A q \in Place \ {p} : pending'[q] = pending[q]
<1>1. pending' = pending \/ pending' = [pending EXCEPT ![p] = status]
  BY DEF UpdatePending
<1> QED
  BY <1>1 DEF RowTypes

\* Claim keeps what is known of every order.
LEMMA OrderClaim ==
  ASSUME Inv, NEW q \in Place, Claim(q), NEW p \in Place
  PROVE  OrderInv(p)'
<1> USE DEF Inv, TypeOK, RowTypes, ReaderTypes, LinkTypes, AgentTypes, OrderInv
<1>1. FramesInv(p)'
  BY DEF FramesInv, Claim, AccountFree
<1>2. AnswerInv(p)'
  BY DEF AnswerInv, FramesInv, Refusals, Answers, Claim, AccountFree
<1>3. ClosedInv(p)'
  BY DEF ClosedInv, Closed, Untouched, FramesInv, AnswerInv, Claim, AccountFree
<1>4. ProofInv(p)'
  BY DEF ProofInv, ClosedInv, Closed, Untouched, FramesInv, AnswerInv, Claim, AccountFree
<1>5. HaltInv(p)'
  BY DEF HaltInv, AnswerInv, FramesInv, Claim, AccountFree
<1> QED
  BY <1>1, <1>2, <1>3, <1>4, <1>5

\* ClaimInvalid keeps what is known of every order.
LEMMA OrderClaimInvalid ==
  ASSUME Inv, NEW q \in Place, ClaimInvalid(q), NEW p \in Place
  PROVE  OrderInv(p)'
<1> USE DEF Inv, TypeOK, RowTypes, ReaderTypes, LinkTypes, AgentTypes, OrderInv
<1>1. FramesInv(p)'
  BY DEF FramesInv, ClaimInvalid, AccountFree
<1>2. AnswerInv(p)'
  BY DEF AnswerInv, FramesInv, Refusals, Answers, ClaimInvalid, AccountFree
<1>3. ClosedInv(p)'
  BY DEF ClosedInv, Closed, Untouched, FramesInv, AnswerInv, ClaimInvalid, AccountFree
<1>4. ProofInv(p)'
  BY DEF ProofInv, ClosedInv, Closed, Untouched, FramesInv, AnswerInv, ClaimInvalid,
     AccountFree
<1>5. HaltInv(p)'
  BY DEF HaltInv, AnswerInv, FramesInv, ClaimInvalid, AccountFree
<1> QED
  BY <1>1, <1>2, <1>3, <1>4, <1>5

\* LeaseEnds keeps what is known of every order.
LEMMA OrderLeaseEnds ==
  ASSUME Inv, NEW q \in Place, LeaseEnds(q), NEW p \in Place
  PROVE  OrderInv(p)'
<1>1. Same(p)
  BY DEF LeaseEnds, Same, SameRow, SameLink, SameAcks, SameAgent
<1> QED
  BY <1>1, SameKeeps DEF Inv

\* DropBuffered keeps what is known of every order.
LEMMA OrderDropBuffered ==
  ASSUME Inv, NEW q \in Place, NEW m \in 1..MaxAttempts, DropBuffered(<<q, m>>), NEW p
         \in Place
  PROVE  OrderInv(p)'
<1>1. Same(p)
  BY DEF DropBuffered, Same, SameRow, SameLink, SameAcks, SameAgent
<1> QED
  BY <1>1, SameKeeps DEF Inv

\* SendCancelled keeps what is known of every order.
LEMMA OrderSendCancelled ==
  ASSUME Inv, NEW q \in Place, NEW m \in 1..MaxAttempts, SendCancelled(<<q, m>>), NEW p
         \in Place
  PROVE  OrderInv(p)'
<1>1. TypeOK /\ OrderInv(p)
  BY DEF Inv
<1>2. CASE p # q
  <2>1. row'[p] = row[p] /\ pending'[p] = pending[p]
    BY <1>1, <1>2, TransitionCases DEF TypeOK, SendCancelled
  <2>2. Same(p)
    BY <1>1, <1>2, <2>1 DEF TypeOK, RowTypes, ReaderTypes, LinkTypes, AgentTypes,
       SendCancelled, MaySend, NeverSent, Same, SameRow, SameLink, SameAcks, SameAgent
  <2> QED
    BY <1>1, <2>2, SameKeeps
<1>3. CASE p = q
  <2>1. /\ <<p, m>> \in buffer
        /\ row[p] = "DELIVERED"
        /\ attempts[p] = 1
    BY <1>1, <1>3 DEF TypeOK, RowTypes, ReaderTypes, LinkTypes, AgentTypes,
       SendCancelled, MaySend, NeverSent
  <2>2. /\ row'[p] = pending'[p]
        /\ row'[p] \in {"EXPIRED", "RECONCILE_REQUIRED"}
        /\ known'[p] = known[p]
        /\ halted'[p] = halted[p]
        /\ attempts'[p] = attempts[p]
        /\ heard'[p] = heard[p]
        /\ \A n \in Attempts : <<p, n>> \in buffer' <=> <<p, n>> \in buffer /\ n # m
        /\ \A n \in Attempts : <<p, n>> \in wire' <=> <<p, n>> \in wire
        /\ SameAcks(p)
        /\ SameAgent(p)
    BY <1>1, <1>3, TransitionCases DEF TypeOK, RowTypes, ReaderTypes, LinkTypes,
       AgentTypes, SendCancelled, MaySend, NeverSent, Same, SameRow, SameLink, SameAcks,
       SameAgent
  <2>3. m = 1 /\ <<p, 1>> \in buffer
    BY <1>1, <2>1 DEF OrderInv, FramesInv
  <2>4. agent[p] = "unseen" /\ submits[p] = 0
    BY <1>1, <2>1, <2>3 DEF OrderInv, FramesInv, AnswerInv
  <2>5. \A n \in Attempts : <<p, n>> \notin wire'
    BY <1>1, <2>1, <2>2, <2>3 DEF OrderInv, FramesInv
  <2>6. Untouched(p)'
    BY <2>2, <2>4, <2>5 DEF Untouched, SameAgent
  <2> USE DEF OrderInv, SameRow, SameLink, SameAgent
  <2>7. FramesInv(p)'
    BY <1>1, <2>1, <2>2 DEF FramesInv
  <2>8. AnswerInv(p)'
    BY <1>1, <2>1, <2>2 DEF AnswerInv, FramesInv, Refusals, Answers, SameAcks
  <2>9. ClosedInv(p)'
    BY <2>2, <2>6 DEF ClosedInv, Closed
  <2>10. ProofInv(p)'
    BY <2>2, <2>4 DEF ProofInv
  <2>11. HaltInv(p)'
    BY <1>1, <2>1, <2>2 DEF HaltInv, AnswerInv, FramesInv
  <2> QED
    BY <2>7, <2>8, <2>9, <2>10, <2>11
<1> QED
  BY <1>2, <1>3

\* SendSealed keeps what is known of every order.
LEMMA OrderSendSealed ==
  ASSUME Inv, NEW q \in Place, NEW m \in 1..MaxAttempts, NEW s \in {"RECONCILE_REQUIRED",
         "CANCEL_REQUESTED"}, SendSealed(<<q, m>>, s), NEW p \in Place
  PROVE  OrderInv(p)'
<1>1. TypeOK /\ OrderInv(p)
  BY DEF Inv
<1>2. CASE p # q
  <2>1. Same(p)
    BY <1>1, <1>2 DEF TypeOK, RowTypes, ReaderTypes, LinkTypes, AgentTypes, SendSealed,
       MaySend, Same, SameRow, SameLink, SameAcks, SameAgent
  <2> QED
    BY <1>1, <2>1, SameKeeps
<1>3. CASE p = q
  <2>1. /\ <<p, m>> \in buffer
    BY <1>1, <1>3 DEF TypeOK, RowTypes, ReaderTypes, LinkTypes, AgentTypes, SendSealed,
       MaySend
  <2>2. /\ row'[p] = "RECONCILE_REQUIRED"
        /\ pending'[p] \in {"RECONCILE_REQUIRED", "CANCEL_REQUESTED"}
        /\ known'[p] = known[p]
        /\ halted'[p] = halted[p]
        /\ attempts'[p] = attempts[p]
        /\ heard'[p] = heard[p]
        /\ \A n \in Attempts : <<p, n>> \in buffer' <=> <<p, n>> \in buffer /\ n # m
        /\ \A n \in Attempts : <<p, n>> \in wire' <=> <<p, n>> \in wire
        /\ SameAcks(p)
        /\ SameAgent(p)
    BY <1>1, <1>3 DEF TypeOK, RowTypes, ReaderTypes, LinkTypes, AgentTypes, SendSealed,
       MaySend, Same, SameRow, SameLink, SameAcks, SameAgent
  <2> USE DEF OrderInv, SameRow, SameLink, SameAgent
  <2>3. FramesInv(p)'
    BY <1>1, <2>1, <2>2 DEF FramesInv
  <2>4. AnswerInv(p)'
    BY <1>1, <2>1, <2>2 DEF AnswerInv, FramesInv, Refusals, Answers, SameAcks
  <2>5. ClosedInv(p)'
    BY <1>1, <2>1, <2>2 DEF ClosedInv, Closed, Untouched, FramesInv, AnswerInv
  <2>6. ProofInv(p)'
    BY <1>1, <2>1, <2>2 DEF ProofInv, ClosedInv, Closed, Untouched, FramesInv, AnswerInv
  <2>7. HaltInv(p)'
    BY <1>1, <2>1, <2>2 DEF HaltInv, AnswerInv, FramesInv
  <2> QED
    BY <2>3, <2>4, <2>5, <2>6, <2>7
<1> QED
  BY <1>2, <1>3

\* Send keeps what is known of every order.
LEMMA OrderSend ==
  ASSUME Inv, NEW q \in Place, NEW m \in 1..MaxAttempts, Send(<<q, m>>), NEW p \in Place
  PROVE  OrderInv(p)'
<1>1. TypeOK /\ OrderInv(p)
  BY DEF Inv
<1>2. CASE p # q
  <2>1. Same(p)
    BY <1>1, <1>2 DEF TypeOK, RowTypes, ReaderTypes, LinkTypes, AgentTypes, Send,
       MaySend, Same, SameRow, SameLink, SameAcks, SameAgent
  <2> QED
    BY <1>1, <2>1, SameKeeps
<1>3. CASE p = q
  <2>1. /\ <<p, m>> \in buffer
        /\ row[p] = "DELIVERED"
        /\ pending[p] # "CANCEL_REQUESTED"
    BY <1>1, <1>3 DEF TypeOK, RowTypes, ReaderTypes, LinkTypes, AgentTypes, Send, MaySend
  <2>2. /\ SameRow(p)
        /\ attempts'[p] = attempts[p]
        /\ heard'[p] = heard[p]
        /\ \A n \in Attempts : <<p, n>> \in buffer' <=> <<p, n>> \in buffer /\ n # m
        /\ \A n \in Attempts : <<p, n>> \in wire' <=> <<p, n>> \in wire \/ n = m
        /\ SameAcks(p)
        /\ SameAgent(p)
    BY <1>1, <1>3 DEF TypeOK, RowTypes, ReaderTypes, LinkTypes, AgentTypes, Send,
       MaySend, Same, SameRow, SameLink, SameAcks, SameAgent
  <2> USE DEF OrderInv, SameRow, SameLink, SameAgent
  <2>3. FramesInv(p)'
    BY <1>1, <2>1, <2>2 DEF FramesInv
  <2>4. AnswerInv(p)'
    BY <1>1, <2>1, <2>2 DEF AnswerInv, FramesInv, Refusals, Answers, SameAcks
  <2>5. ClosedInv(p)'
    BY <1>1, <2>1, <2>2 DEF ClosedInv, Closed, Untouched, FramesInv, AnswerInv
  <2>6. ProofInv(p)'
    BY <1>1, <2>1, <2>2 DEF ProofInv, ClosedInv, Closed, Untouched, FramesInv, AnswerInv
  <2>7. HaltInv(p)'
    BY <1>1, <2>1, <2>2 DEF HaltInv, AnswerInv, FramesInv
  <2> QED
    BY <2>3, <2>4, <2>5, <2>6, <2>7
<1> QED
  BY <1>2, <1>3

\* MarkReconciled keeps what is known of every order.
LEMMA OrderMarkReconciled ==
  ASSUME Inv, MarkReconciled, NEW p \in Place
  PROVE  OrderInv(p)'
<1>1. Same(p)
  BY DEF MarkReconciled, Same, SameRow, SameLink, SameAcks, SameAgent
<1> QED
  BY <1>1, SameKeeps DEF Inv

\* RecordProcessing keeps what is known of every order.
LEMMA OrderRecordProcessing ==
  ASSUME Inv, NEW q \in Place, NEW m \in 0..MaxAttempts, NEW r \in Answers \cup
         {"PROCESSING"}, RecordProcessing(<<q, m, r>>), NEW p \in Place
  PROVE  OrderInv(p)'
<1>1. TypeOK /\ OrderInv(p)
  BY DEF Inv
<1>2. CASE p # q
  <2>1. Same(p)
    BY <1>1, <1>2 DEF TypeOK, RowTypes, ReaderTypes, LinkTypes, AgentTypes,
       RecordProcessing, Same, SameRow, SameLink, SameAcks, SameAgent
  <2> QED
    BY <1>1, <2>1, SameKeeps
<1>3. CASE p = q
  <2>1. /\ <<p, m, "PROCESSING">> \in ackq
    BY <1>1, <1>3 DEF TypeOK, RowTypes, ReaderTypes, LinkTypes, AgentTypes, RecordProcessing
  <2>2. /\ row'[p] = row[p] \/ (row[p] \in {"QUEUED", "DELIVERED"} /\ row'[p] = "DELIVERED")
        /\ pending'[p] = pending[p]
        /\ known'[p] = known[p]
        /\ halted'[p] = halted[p]
        /\ attempts'[p] = attempts[p]
        /\ heard'[p] = heard[p]
        /\ SameLink(p)
        /\ SameAcks(p)
        /\ SameAgent(p)
    BY <1>1, <1>3 DEF TypeOK, RowTypes, ReaderTypes, LinkTypes, AgentTypes,
       RecordProcessing, Same, SameRow, SameLink, SameAcks, SameAgent
  <2> USE DEF OrderInv, SameRow, SameLink, SameAgent
  <2>3. FramesInv(p)'
    BY <1>1, <2>1, <2>2 DEF FramesInv
  <2>4. AnswerInv(p)'
    BY <1>1, <2>1, <2>2 DEF AnswerInv, FramesInv, Refusals, Answers, SameAcks
  <2>5. ClosedInv(p)'
    BY <1>1, <2>1, <2>2 DEF ClosedInv, Closed, Untouched, FramesInv, AnswerInv
  <2>6. ProofInv(p)'
    BY <1>1, <2>1, <2>2 DEF ProofInv, ClosedInv, Closed, Untouched, FramesInv, AnswerInv
  <2>7. HaltInv(p)'
    BY <1>1, <2>1, <2>2 DEF HaltInv, AnswerInv, FramesInv
  <2> QED
    BY <2>3, <2>4, <2>5, <2>6, <2>7
<1> QED
  BY <1>2, <1>3

\* RecordAccepted keeps what is known of every order.
LEMMA OrderRecordAccepted ==
  ASSUME Inv, NEW q \in Place, NEW m \in 0..MaxAttempts, NEW r \in Answers \cup
         {"PROCESSING"}, RecordAccepted(<<q, m, r>>), NEW p \in Place
  PROVE  OrderInv(p)'
<1>1. TypeOK /\ OrderInv(p)
  BY DEF Inv
<1>2. RowTypes
  BY <1>1 DEF TypeOK
<1>3. /\ <<q, m, "ACCEPTED">> \in ackq
      /\ \/ row[q] \in {"QUEUED", "DELIVERED"} /\ row' = [row EXCEPT ![q] = "ACKNOWLEDGED"] /\ pending' = pending
         \/ row' = row /\ pending' = pending
         \/ Transition(q, "RECONCILE_REQUIRED", "NONE", FALSE)
  BY DEF RecordAccepted
<1>4. known' = known /\ halted' = halted /\ attempts' = attempts /\ heard' = heard
  BY DEF RecordAccepted
<1>5. SameLink(p) /\ SameAcks(p) /\ SameAgent(p)
  BY DEF RecordAccepted, SameLink, SameAcks, SameAgent
<1>6. CASE row' = row /\ pending' = pending
  BY <1>1, <1>4, <1>5, <1>6, SameKeeps DEF Same, SameRow
<1>7. CASE p # q /\ ~(row' = row /\ pending' = pending)
  <2>1. row'[p] = row[p] /\ pending'[p] = pending[p]
    <3>1. CASE row' = [row EXCEPT ![q] = "ACKNOWLEDGED"] /\ pending' = pending
      BY <1>2, <1>7, <3>1 DEF RowTypes
    <3>2. CASE Transition(q, "RECONCILE_REQUIRED", "NONE", FALSE)
      BY <1>2, <1>7, <3>2, TransitionCases
    <3> QED
      BY <1>3, <1>7, <3>1, <3>2
  <2> QED
    BY <1>1, <1>4, <1>5, <2>1, SameKeeps DEF Same, SameRow
<1>8. CASE p = q /\ ~(row' = row /\ pending' = pending)
  <2>1. \/ row'[p] = "ACKNOWLEDGED" /\ pending'[p] = pending[p] /\ row[p] \in {"QUEUED", "DELIVERED"}
        \/ row'[p] = "RECONCILE_REQUIRED" /\ pending'[p] = "RECONCILE_REQUIRED"
    <3>1. CASE row[q] \in {"QUEUED", "DELIVERED"} /\ row' = [row EXCEPT ![q] = "ACKNOWLEDGED"] /\ pending' = pending
      BY <1>2, <1>8, <3>1 DEF RowTypes
    <3>2. CASE Transition(q, "RECONCILE_REQUIRED", "NONE", FALSE)
      BY <1>2, <1>8, <3>2, TransitionCases
    <3> QED
      BY <1>3, <1>8, <3>1, <3>2
  <2> USE DEF OrderInv, SameLink, SameAgent
  <2>2. FramesInv(p)'
    BY <1>1, <1>4, <1>5, <2>1 DEF FramesInv
  <2>3. AnswerInv(p)'
    BY <1>1, <1>4, <1>5 DEF AnswerInv, SameAcks
  <2>4. ClosedInv(p)'
    BY <1>1, <1>4, <1>5, <2>1 DEF ClosedInv, Closed, Untouched
  <2>5. ProofInv(p)'
    BY <2>1 DEF ProofInv
  <2>6. HaltInv(p)'
    BY <2>1 DEF HaltInv
  <2> QED
    BY <2>2, <2>3, <2>4, <2>5, <2>6
<1> QED
  BY <1>6, <1>7, <1>8

\* RecordRejected keeps what is known of every order.
LEMMA OrderRecordRejected ==
  ASSUME Inv, NEW q \in Place, NEW m \in 0..MaxAttempts, NEW r \in Answers \cup
         {"PROCESSING"}, RecordRejected(<<q, m, r>>), NEW p \in Place
  PROVE  OrderInv(p)'
<1>1. TypeOK /\ OrderInv(p)
  BY DEF Inv
<1>2. CASE p # q
  <2>1. row'[p] = row[p] /\ pending'[p] = pending[p]
    BY <1>1, <1>2, TransitionCases DEF TypeOK, RecordRejected
  <2>2. Same(p)
    BY <1>1, <1>2, <2>1 DEF TypeOK, RowTypes, ReaderTypes, LinkTypes, AgentTypes,
       RecordRejected, Replayed, Same, SameRow, SameLink, SameAcks, SameAgent
  <2> QED
    BY <1>1, <2>2, SameKeeps
<1>3. CASE p = q
  <2>1. /\ <<p, m, r>> \in ackq
        /\ r \in Refusals \cup {"FAIL"}
    BY <1>1, <1>3 DEF TypeOK, RowTypes, ReaderTypes, LinkTypes, AgentTypes,
       RecordRejected, Replayed
  <2>2. /\ \/ row'[p] = row[p] /\ pending'[p] = pending[p]
           \/ row'[p] = "RECONCILE_REQUIRED" /\ pending'[p] = row'[p]
           \/ r = "command_expired" /\ row'[p] = "EXPIRED" /\ pending'[p] = row'[p]
           \/ r = "pre_execution" /\ row'[p] = "REJECTED" /\ pending'[p] = row'[p]
        /\ known'[p] = known[p]
        /\ halted'[p] = halted[p]
        /\ attempts'[p] = attempts[p]
        /\ heard'[p] = heard[p]
        /\ SameLink(p)
        /\ SameAcks(p)
        /\ SameAgent(p)
    BY <1>1, <1>3, TransitionCases DEF TypeOK, RowTypes, ReaderTypes, LinkTypes,
       AgentTypes, RecordRejected, Replayed, Same, SameRow, SameLink, SameAcks, SameAgent
  <2>3. row'[p] = "QUEUED" => row[p] = "QUEUED"
    BY <2>2
  <2>4. attempts'[p] = attempts[p] /\ SameLink(p) /\ SameAgent(p)
    BY <2>2
  <2> USE DEF OrderInv, SameRow, SameLink, SameAgent
  <2>5. FramesInv(p)'
    BY <1>1, <2>3, <2>4 DEF FramesInv
  <2>6. AnswerInv(p)'
    BY <1>1, <2>1, <2>2 DEF AnswerInv, FramesInv, Refusals, Answers, SameAcks
  <2>7. ClosedInv(p)'
    BY <1>1, <2>1, <2>2 DEF ClosedInv, Closed, Untouched, FramesInv, AnswerInv
  <2>8. ProofInv(p)'
    BY <1>1, <2>1, <2>2 DEF ProofInv, ClosedInv, Closed, Untouched, FramesInv, AnswerInv
  <2>9. HaltInv(p)'
    BY <1>1, <2>1, <2>2 DEF HaltInv, AnswerInv, FramesInv
  <2> QED
    BY <2>5, <2>6, <2>7, <2>8, <2>9
<1> QED
  BY <1>2, <1>3

\* Sweep keeps what is known of every order.
LEMMA OrderSweep ==
  ASSUME Inv, NEW q \in Place, Sweep(q), NEW p \in Place
  PROVE  OrderInv(p)'
<1>1. TypeOK /\ OrderInv(p)
  BY DEF Inv
<1>2. CASE p # q
  <2>1. Same(p)
    BY <1>1, <1>2, TransitionCases DEF TypeOK, RowTypes, ReaderTypes, LinkTypes,
       AgentTypes, Sweep, Same, SameRow, SameLink, SameAcks, SameAgent
  <2> QED
    BY <1>1, <2>1, SameKeeps
<1>3. CASE p = q
  <2>1. /\ row[p] \in {"QUEUED", "DELIVERED"}
    BY <1>1, <1>3 DEF TypeOK, RowTypes, ReaderTypes, LinkTypes, AgentTypes, Sweep
  <2>2. /\ row'[p] = pending'[p]
        /\ row'[p] = "RECONCILE_REQUIRED" \/ (row[p] = "QUEUED" /\ row'[p] = "EXPIRED")
        /\ known'[p] = known[p]
        /\ halted'[p] = halted[p]
        /\ attempts'[p] = attempts[p]
        /\ heard'[p] = heard[p]
        /\ SameLink(p)
        /\ SameAcks(p)
        /\ SameAgent(p)
    BY <1>1, <1>3, TransitionCases DEF TypeOK, RowTypes, ReaderTypes, LinkTypes,
       AgentTypes, Sweep, Same, SameRow, SameLink, SameAcks, SameAgent
  <2> USE DEF OrderInv, SameRow, SameLink, SameAgent
  <2>3. FramesInv(p)'
    BY <1>1, <2>1, <2>2 DEF FramesInv
  <2>4. AnswerInv(p)'
    BY <1>1, <2>1, <2>2 DEF AnswerInv, FramesInv, Refusals, Answers, SameAcks
  <2>5. ClosedInv(p)'
    BY <1>1, <2>1, <2>2 DEF ClosedInv, Closed, Untouched, FramesInv, AnswerInv
  <2>6. ProofInv(p)'
    BY <1>1, <2>1, <2>2 DEF ProofInv, ClosedInv, Closed, Untouched, FramesInv, AnswerInv
  <2>7. HaltInv(p)'
    BY <1>1, <2>1, <2>2 DEF HaltInv, AnswerInv, FramesInv
  <2> QED
    BY <2>3, <2>4, <2>5, <2>6, <2>7
<1> QED
  BY <1>2, <1>3

\* CancelOrder keeps what is known of every order.
LEMMA OrderCancelOrder ==
  ASSUME Inv, NEW q \in Place, CancelOrder(q), NEW p \in Place
  PROVE  OrderInv(p)'
<1>1. TypeOK /\ OrderInv(p)
  BY DEF Inv
<1>2. CASE p # q
  <2>1. Same(p)
    BY <1>1, <1>2 DEF TypeOK, RowTypes, ReaderTypes, LinkTypes, AgentTypes, CancelOrder,
       Same, SameRow, SameLink, SameAcks, SameAgent
  <2> QED
    BY <1>1, <2>1, SameKeeps
<1>3. CASE p = q
  <2>1. /\ p \notin TOrder
        /\ pending[p] \notin Proofs
    BY <1>1, <1>3 DEF TypeOK, RowTypes, ReaderTypes, LinkTypes, AgentTypes, CancelOrder
  <2>2. /\ \/ row[p] = "QUEUED" /\ row'[p] = "CANCELLED" /\ pending'[p] = "CANCELLED"
           \/ /\ row[p] = "QUEUED" /\ row'[p] = row[p]
              /\ pending'[p] = "RECONCILE_REQUIRED" /\ halted'[p] = halted[p]
           \/ /\ known[p] \/ row[p] # "QUEUED"
              /\ row'[p] = row[p] /\ pending'[p] = "CANCEL_REQUESTED"
        /\ known'[p] = known[p]
        /\ attempts'[p] = attempts[p]
        /\ heard'[p] = heard[p]
        /\ SameLink(p)
        /\ SameAcks(p)
        /\ SameAgent(p)
    BY <1>1, <1>3 DEF TypeOK, RowTypes, ReaderTypes, LinkTypes, AgentTypes, CancelOrder,
       Same, SameRow, SameLink, SameAcks, SameAgent
  <2>3. agent[p] = "unseen" => ~known[p]
    BY <1>1 DEF OrderInv, AnswerInv
  <2>4. row[p] = "QUEUED" => agent[p] = "unseen" /\ submits[p] = 0
    BY <1>1 DEF OrderInv, FramesInv, AnswerInv
  <2>5. row[p] = "QUEUED" => \A n \in Attempts : <<p, n>> \notin wire
    BY <1>1 DEF OrderInv, FramesInv
  <2>6. row[p] = "QUEUED" => Untouched(p)'
    BY <2>2, <2>4, <2>5 DEF Untouched, SameAgent, SameLink
  <2>7. row[p] \in Proofs => Untouched(p)'
    BY <1>1, <2>2 DEF OrderInv, ClosedInv, Closed, Untouched, SameAgent, SameLink
  <2> USE DEF OrderInv, SameRow, SameLink, SameAgent
  <2>8. FramesInv(p)'
    BY <1>1, <2>1, <2>2 DEF FramesInv
  <2>9. AnswerInv(p)'
    BY <1>1, <2>1, <2>2 DEF AnswerInv, FramesInv, Refusals, Answers, SameAcks
  <2>10. ClosedInv(p)'
    BY <2>1, <2>2, <2>6, <2>7 DEF ClosedInv, Closed
  <2>11. ProofInv(p)'
    BY <1>1, <2>1, <2>2 DEF ProofInv, ClosedInv, Closed, Untouched, FramesInv, AnswerInv
  <2>12. HaltInv(p)'
    BY <1>1, <2>1, <2>2, <2>3 DEF HaltInv
  <2> QED
    BY <2>8, <2>9, <2>10, <2>11, <2>12
<1> QED
  BY <1>2, <1>3

\* CancelPending keeps what is known of every order.
LEMMA OrderCancelPending ==
  ASSUME Inv, NEW q \in Place, CancelPending(q), NEW p \in Place
  PROVE  OrderInv(p)'
<1>1. TypeOK /\ OrderInv(p)
  BY DEF Inv
<1>2. CASE p # q
  <2>1. Same(p)
    BY <1>1, <1>2 DEF TypeOK, RowTypes, ReaderTypes, LinkTypes, AgentTypes,
       CancelPending, Same, SameRow, SameLink, SameAcks, SameAgent
  <2> QED
    BY <1>1, <2>1, SameKeeps
<1>3. CASE p = q
  <2>1. /\ row[p] = "QUEUED"
    BY <1>1, <1>3 DEF TypeOK, RowTypes, ReaderTypes, LinkTypes, AgentTypes, CancelPending
  <2>2. /\ row'[p] = "CANCELLED"
        /\ pending'[p] = "CANCELLED"
        /\ known'[p] = known[p]
        /\ attempts'[p] = attempts[p]
        /\ heard'[p] = heard[p]
        /\ SameLink(p)
        /\ SameAcks(p)
        /\ SameAgent(p)
    BY <1>1, <1>3 DEF TypeOK, RowTypes, ReaderTypes, LinkTypes, AgentTypes,
       CancelPending, Same, SameRow, SameLink, SameAcks, SameAgent
  <2> USE DEF OrderInv, SameRow, SameLink, SameAgent
  <2>3. FramesInv(p)'
    BY <1>1, <2>1, <2>2 DEF FramesInv
  <2>4. AnswerInv(p)'
    BY <1>1, <2>1, <2>2 DEF AnswerInv, FramesInv, Refusals, Answers, SameAcks
  <2>5. ClosedInv(p)'
    BY <1>1, <2>1, <2>2 DEF ClosedInv, Closed, Untouched, FramesInv, AnswerInv
  <2>6. ProofInv(p)'
    BY <1>1, <2>1, <2>2 DEF ProofInv, ClosedInv, Closed, Untouched, FramesInv, AnswerInv
  <2>7. HaltInv(p)'
    BY <1>1, <2>1, <2>2 DEF HaltInv, AnswerInv, FramesInv
  <2> QED
    BY <2>3, <2>4, <2>5, <2>6, <2>7
<1> QED
  BY <1>2, <1>3

\* StopOrders keeps what is known of every order.
LEMMA OrderStopOrders ==
  ASSUME Inv, NEW k \in {"kill", "t_stop"}, StopOrders(k), NEW p \in Place
  PROVE  OrderInv(p)'
<1>1. Same(p)
  BY DEF StopOrders, Same, SameRow, SameLink, SameAcks, SameAgent
<1> QED
  BY <1>1, SameKeeps DEF Inv

\* StopRows keeps what is known of every order.
LEMMA OrderStopRows ==
  ASSUME Inv, StopRows, NEW p \in Place
  PROVE  OrderInv(p)'
<1>1. Same(p)
  BY DEF StopRows, Same, SameRow, SameLink, SameAcks, SameAgent
<1> QED
  BY <1>1, SameKeeps DEF Inv

\* StopWrite keeps what is known of every order.
LEMMA OrderStopWrite ==
  ASSUME Inv, StopWrite, NEW p \in Place
  PROVE  OrderInv(p)'
<1> USE DEF Inv, TypeOK, RowTypes, ReaderTypes, LinkTypes, AgentTypes, OrderInv
<1>1. FramesInv(p)'
  BY DEF FramesInv, StopInv, StopWrite, NoStop
<1>2. AnswerInv(p)'
  BY DEF AnswerInv, FramesInv, Refusals, Answers, StopInv, StopWrite, NoStop
<1>3. ClosedInv(p)'
  BY DEF ClosedInv, Closed, Untouched, FramesInv, AnswerInv, StopInv, StopWrite, NoStop
<1>4. ProofInv(p)'
  BY DEF ProofInv, ClosedInv, Closed, Untouched, FramesInv, AnswerInv, StopInv,
     StopWrite, NoStop
<1>5. HaltInv(p)'
  BY DEF HaltInv, AnswerInv, FramesInv, StopInv, StopWrite, NoStop
<1> QED
  BY <1>1, <1>2, <1>3, <1>4, <1>5

\* ReportOrder keeps what is known of every order.
LEMMA OrderReportOrder ==
  ASSUME Inv, NEW q \in Place, NEW s \in {"SUBMITTED", "FILLED", "CANCELLED",
         "REJECTED"}, ReportOrder(q, s), NEW p \in Place
  PROVE  OrderInv(p)'
<1>1. TypeOK /\ OrderInv(p)
  BY DEF Inv
<1>2. CASE p # q
  <2>1. pending'[p] = pending[p]
    BY <1>1, <1>2, UpdateKeeps DEF TypeOK, ReportOrder
  <2>2. Same(p)
    BY <1>1, <1>2, <2>1 DEF TypeOK, RowTypes, ReaderTypes, LinkTypes, AgentTypes,
       ReportOrder, Same, SameRow, SameLink, SameAcks, SameAgent
  <2> QED
    BY <1>1, <2>2, SameKeeps
<1>3. CASE p = q
  <2>1. /\ submits[p] # 0
    BY <1>1, <1>3 DEF TypeOK, RowTypes, ReaderTypes, LinkTypes, AgentTypes, ReportOrder
  <2>2. /\ row'[p] = row[p]
        /\ attempts'[p] = attempts[p]
        /\ known'[p] /\ heard'[p]
        /\ SameLink(p)
        /\ SameAcks(p)
        /\ SameAgent(p)
    BY <1>1, <1>3 DEF TypeOK, RowTypes, ReaderTypes, LinkTypes, AgentTypes, ReportOrder,
       Same, SameRow, SameLink, SameAcks, SameAgent
  <2> USE DEF OrderInv, SameRow, SameLink, SameAgent
  <2>3. FramesInv(p)'
    BY <1>1, <2>1, <2>2 DEF FramesInv
  <2>4. AnswerInv(p)'
    BY <1>1, <2>1, <2>2 DEF AnswerInv, FramesInv, Refusals, Answers, SameAcks
  <2>5. ClosedInv(p)'
    BY <1>1, <2>1, <2>2 DEF ClosedInv, Closed, Untouched, FramesInv, AnswerInv
  <2>6. ProofInv(p)'
    BY <1>1, <2>1, <2>2 DEF ProofInv, ClosedInv, Closed, Untouched, FramesInv, AnswerInv
  <2>7. HaltInv(p)'
    BY <1>1, <2>1, <2>2 DEF HaltInv, AnswerInv, FramesInv
  <2> QED
    BY <2>3, <2>4, <2>5, <2>6, <2>7
<1> QED
  BY <1>2, <1>3

\* ReportError keeps what is known of every order.
LEMMA OrderReportError ==
  ASSUME Inv, NEW q \in Place, ReportError(q), NEW p \in Place
  PROVE  OrderInv(p)'
<1>1. TypeOK /\ OrderInv(p)
  BY DEF Inv
<1>2. CASE p # q
  <2>1. pending'[p] = pending[p]
    BY <1>1, <1>2, UpdateKeeps DEF TypeOK, ReportError
  <2>2. Same(p)
    BY <1>1, <1>2, <2>1 DEF TypeOK, RowTypes, ReaderTypes, LinkTypes, AgentTypes,
       ReportError, Same, SameRow, SameLink, SameAcks, SameAgent
  <2> QED
    BY <1>1, <2>2, SameKeeps
<1>3. CASE p = q
  <2>1. /\ submits[p] # 0
    BY <1>1, <1>3 DEF TypeOK, RowTypes, ReaderTypes, LinkTypes, AgentTypes, ReportError
  <2>2. /\ row'[p] = row[p]
        /\ attempts'[p] = attempts[p]
        /\ known'[p] = known[p]
        /\ halted'[p] = halted[p]
        /\ heard'[p]
        /\ SameLink(p)
        /\ SameAcks(p)
        /\ SameAgent(p)
    BY <1>1, <1>3 DEF TypeOK, RowTypes, ReaderTypes, LinkTypes, AgentTypes, ReportError,
       Same, SameRow, SameLink, SameAcks, SameAgent
  <2> USE DEF OrderInv, SameRow, SameLink, SameAgent
  <2>3. FramesInv(p)'
    BY <1>1, <2>1, <2>2 DEF FramesInv
  <2>4. AnswerInv(p)'
    BY <1>1, <2>1, <2>2 DEF AnswerInv, FramesInv, Refusals, Answers, SameAcks
  <2>5. ClosedInv(p)'
    BY <1>1, <2>1, <2>2 DEF ClosedInv, Closed, Untouched, FramesInv, AnswerInv
  <2>6. ProofInv(p)'
    BY <1>1, <2>1, <2>2 DEF ProofInv, ClosedInv, Closed, Untouched, FramesInv, AnswerInv
  <2>7. HaltInv(p)'
    BY <1>1, <2>1, <2>2 DEF HaltInv, AnswerInv, FramesInv
  <2> QED
    BY <2>3, <2>4, <2>5, <2>6, <2>7
<1> QED
  BY <1>2, <1>3

\* ReportRefusal keeps what is known of every order.
LEMMA OrderReportRefusal ==
  ASSUME Inv, NEW q \in Place, ReportRefusal(q), NEW p \in Place
  PROVE  OrderInv(p)'
<1>1. TypeOK /\ OrderInv(p)
  BY DEF Inv
<1>2. CASE p # q
  <2>1. pending'[p] = pending[p]
    BY <1>1, <1>2, UpdateKeeps DEF TypeOK, ReportRefusal
  <2>2. Same(p)
    BY <1>1, <1>2, <2>1 DEF TypeOK, RowTypes, ReaderTypes, LinkTypes, AgentTypes,
       ReportRefusal, Same, SameRow, SameLink, SameAcks, SameAgent
  <2> QED
    BY <1>1, <2>2, SameKeeps
<1>3. CASE p = q
  <2>1. /\ answer[p] \in Refusals
    BY <1>1, <1>3 DEF TypeOK, RowTypes, ReaderTypes, LinkTypes, AgentTypes, ReportRefusal
  <2>2. /\ row'[p] = row[p]
        /\ attempts'[p] = attempts[p]
        /\ known'[p] = known[p]
        /\ halted'[p] = halted[p]
        /\ heard'[p] = heard[p]
        /\ SameLink(p)
        /\ SameAcks(p)
        /\ SameAgent(p)
    BY <1>1, <1>3 DEF TypeOK, RowTypes, ReaderTypes, LinkTypes, AgentTypes,
       ReportRefusal, Same, SameRow, SameLink, SameAcks, SameAgent
  <2> USE DEF OrderInv, SameRow, SameLink, SameAgent
  <2>3. FramesInv(p)'
    BY <1>1, <2>1, <2>2 DEF FramesInv
  <2>4. AnswerInv(p)'
    BY <1>1, <2>1, <2>2 DEF AnswerInv, FramesInv, Refusals, Answers, SameAcks
  <2>5. ClosedInv(p)'
    BY <1>1, <2>1, <2>2 DEF ClosedInv, Closed, Untouched, AnswerInv, Refusals
  <2>6. ProofInv(p)'
    BY <1>1, <2>1, <2>2 DEF ProofInv, ClosedInv, Closed, Untouched, FramesInv, AnswerInv
  <2>7. HaltInv(p)'
    BY <1>1, <2>1, <2>2 DEF HaltInv, AnswerInv, Refusals
  <2> QED
    BY <2>3, <2>4, <2>5, <2>6, <2>7
<1> QED
  BY <1>2, <1>3

\* Expire keeps what is known of every order.
LEMMA OrderExpire ==
  ASSUME Inv, NEW q \in Place, Expire(q), NEW p \in Place
  PROVE  OrderInv(p)'
<1>1. Same(p)
  BY DEF Expire, Same, SameRow, SameLink, SameAcks, SameAgent
<1> QED
  BY <1>1, SameKeeps DEF Inv

\* AgentTake keeps what is known of every order.
LEMMA OrderAgentTake ==
  ASSUME Inv, NEW q \in Place, NEW m \in 1..MaxAttempts, AgentTake(<<q, m>>), NEW p \in
         Place
  PROVE  OrderInv(p)'
<1>1. TypeOK /\ OrderInv(p)
  BY DEF Inv
<1>2. CASE p # q
  <2>1. Same(p)
    BY <1>1, <1>2 DEF TypeOK, RowTypes, ReaderTypes, LinkTypes, AgentTypes, AgentTake,
       Same, SameRow, SameLink, SameAcks, SameAgent
  <2> QED
    BY <1>1, <2>1, SameKeeps
<1>3. CASE p = q
  <2>1. /\ agent[p] = "unseen"
        /\ <<p, m>> \in wire
    BY <1>1, <1>3 DEF TypeOK, RowTypes, ReaderTypes, LinkTypes, AgentTypes, AgentTake
  <2>2. /\ SameRow(p)
        /\ attempts'[p] = attempts[p]
        /\ heard'[p] = heard[p]
        /\ agent'[p] = "working"
        /\ answer'[p] = answer[p]
        /\ submits'[p] = submits[p]
        /\ \A n \in Attempts : <<p, n>> \in buffer' <=> <<p, n>> \in buffer
        /\ \A n \in Attempts : <<p, n>> \in wire' => <<p, n>> \in wire
        /\ SameAcks(p)
    BY <1>1, <1>3 DEF TypeOK, RowTypes, ReaderTypes, LinkTypes, AgentTypes, AgentTake,
       Same, SameRow, SameLink, SameAcks, SameAgent
  <2>3. m <= attempts[p] /\ <<p, m>> \notin buffer
    BY <1>1, <2>1 DEF OrderInv, FramesInv
  <2>4. attempts[p] # 0 /\ ~(attempts[p] = 1 /\ <<p, 1>> \in buffer)
    BY <1>1, <2>3 DEF TypeOK, RowTypes
  <2> USE DEF OrderInv, SameRow, SameLink, SameAgent
  <2>5. FramesInv(p)'
    BY <1>1, <2>2, <2>4 DEF FramesInv
  <2>6. AnswerInv(p)'
    BY <1>1, <2>1, <2>2 DEF AnswerInv, FramesInv, Refusals, Answers, SameAcks
  <2>7. ClosedInv(p)'
    BY <1>1, <2>1, <2>2 DEF ClosedInv, Closed, Untouched, FramesInv, AnswerInv
  <2>8. ProofInv(p)'
    BY <1>1, <2>1, <2>2 DEF ProofInv, ClosedInv, Closed, Untouched, FramesInv, AnswerInv
  <2>9. HaltInv(p)'
    BY <1>1, <2>1, <2>2 DEF HaltInv, AnswerInv, FramesInv
  <2> QED
    BY <2>5, <2>6, <2>7, <2>8, <2>9
<1> QED
  BY <1>2, <1>3

\* AgentSubmit keeps what is known of every order.
LEMMA OrderAgentSubmit ==
  ASSUME Inv, NEW q \in Place, AgentSubmit(q), NEW p \in Place
  PROVE  OrderInv(p)'
<1> USE DEF Inv, TypeOK, RowTypes, ReaderTypes, LinkTypes, AgentTypes, OrderInv
<1>1. FramesInv(p)'
  BY DEF FramesInv, AgentSubmit
<1>2. AnswerInv(p)'
  BY DEF AnswerInv, FramesInv, Refusals, Answers, AgentSubmit, AgentMaySubmit
<1>3. ClosedInv(p)'
  BY DEF ClosedInv, Closed, Untouched, FramesInv, AnswerInv, AgentSubmit,
     AgentMaySubmit
<1>4. ProofInv(p)'
  BY DEF ProofInv, ClosedInv, Closed, Untouched, FramesInv, AnswerInv, AgentSubmit
<1>5. HaltInv(p)'
  BY DEF HaltInv, AnswerInv, FramesInv, AgentSubmit
<1> QED
  BY <1>1, <1>2, <1>3, <1>4, <1>5

\* AgentFinish keeps what is known of every order.
LEMMA OrderAgentFinish ==
  ASSUME Inv, NEW q \in Place, NEW r \in Answers, AgentFinish(q, r), NEW p \in Place
  PROVE  OrderInv(p)'
<1>1. TypeOK /\ OrderInv(p)
  BY DEF Inv
<1>2. CASE p # q
  <2>1. Same(p)
    BY <1>1, <1>2 DEF TypeOK, RowTypes, ReaderTypes, LinkTypes, AgentTypes, AgentFinish,
       Same, SameRow, SameLink, SameAcks, SameAgent
  <2> QED
    BY <1>1, <2>1, SameKeeps
<1>3. CASE p = q
  <2>1. /\ agent[p] = "working"
        /\ r \in Refusals => submits[p] = 0
        /\ r = "ACCEPTED" => submits[p] = 1
    BY <1>1, <1>3 DEF TypeOK, RowTypes, ReaderTypes, LinkTypes, AgentTypes, AgentFinish,
       AgentMayFinish
  <2>2. /\ SameRow(p)
        /\ attempts'[p] = attempts[p]
        /\ heard'[p] = heard[p]
        /\ agent'[p] = "done"
        /\ answer'[p] = r
        /\ submits'[p] = submits[p]
        /\ SameLink(p)
        /\ \A n \in 0..MaxAttempts, x \in Answers \cup {"PROCESSING"} :
             <<p, n, x>> \in ackq' => <<p, n, x>> \in ackq \/ x = r
    BY <1>1, <1>3 DEF TypeOK, RowTypes, ReaderTypes, LinkTypes, AgentTypes, AgentFinish,
       Same, SameRow, SameLink, SameAcks, SameAgent
  <2> USE DEF OrderInv, SameRow, SameLink, SameAgent
  <2>3. FramesInv(p)'
    BY <1>1, <2>1, <2>2 DEF FramesInv
  <2>4. AnswerInv(p)'
    BY <1>1, <2>1, <2>2 DEF AnswerInv, FramesInv, Refusals, Answers, SameAcks
  <2>5. ClosedInv(p)'
    BY <1>1, <2>1, <2>2 DEF ClosedInv, Closed, Untouched, FramesInv, AnswerInv
  <2>6. ProofInv(p)'
    BY <1>1, <2>1, <2>2 DEF ProofInv, ClosedInv, Closed, Untouched, FramesInv, AnswerInv
  <2>7. HaltInv(p)'
    BY <1>1, <2>1, <2>2 DEF HaltInv, AnswerInv, FramesInv
  <2> QED
    BY <2>3, <2>4, <2>5, <2>6, <2>7
<1> QED
  BY <1>2, <1>3

\* AgentRepeat keeps what is known of every order.
LEMMA OrderAgentRepeat ==
  ASSUME Inv, NEW q \in Place, NEW m \in 1..MaxAttempts, AgentRepeat(<<q, m>>), NEW p \in
         Place
  PROVE  OrderInv(p)'
<1> USE DEF Inv, TypeOK, RowTypes, ReaderTypes, LinkTypes, AgentTypes, OrderInv
<1>1. FramesInv(p)'
  BY DEF FramesInv, AgentRepeat
<1>2. AnswerInv(p)'
  BY DEF AnswerInv, FramesInv, Refusals, Answers, AgentRepeat
<1>3. ClosedInv(p)'
  BY DEF ClosedInv, Closed, Untouched, FramesInv, AnswerInv, AgentRepeat
<1>4. ProofInv(p)'
  BY DEF ProofInv, ClosedInv, Closed, Untouched, FramesInv, AnswerInv, AgentRepeat
<1>5. HaltInv(p)'
  BY DEF HaltInv, AnswerInv, FramesInv, AgentRepeat
<1> QED
  BY <1>1, <1>2, <1>3, <1>4, <1>5

\* LoseFrame keeps what is known of every order.
LEMMA OrderLoseFrame ==
  ASSUME Inv, NEW q \in Place, NEW m \in 1..MaxAttempts, LoseFrame(<<q, m>>), NEW p \in
         Place
  PROVE  OrderInv(p)'
<1>1. Same(p)
  BY DEF LoseFrame, Same, SameRow, SameLink, SameAcks, SameAgent
<1> QED
  BY <1>1, SameKeeps DEF Inv

\* LoseAck keeps what is known of every order.
LEMMA OrderLoseAck ==
  ASSUME Inv, NEW q \in Place, NEW m \in 0..MaxAttempts, NEW r \in Answers \cup
         {"PROCESSING"}, LoseAck(<<q, m, r>>), NEW p \in Place
  PROVE  OrderInv(p)'
<1>1. Same(p)
  BY DEF LoseAck, Same, SameRow, SameLink, SameAcks, SameAgent
<1> QED
  BY <1>1, SameKeeps DEF Inv

-----------------------------------------------------------------------------
\* Claim is a good step.
LEMMA StepClaim ==
  ASSUME Inv, NEW q \in Place, Claim(q)
  PROVE  Good
<1>1. TypeOK'
  BY DEF Inv, TypeOK, RowTypes, ReaderTypes, LinkTypes, AgentTypes, RowStates,
     PendingStates, Frames, Acks, Claim, AccountFree
<1>2. \A p \in Place : OrderInv(p)'
  BY OrderClaim
<1>3. StopInv'
  BY DEF Inv, TypeOK, RowTypes, ReaderTypes, StopInv, AccountFree, Claim
<1>4. StaysClosed
  BY DEF StaysClosed, Inv, TypeOK, RowTypes, Claim, AccountFree
<1>5. StaysHalted
  BY DEF StaysHalted, Claim
<1> QED
  BY <1>1, <1>2, <1>3, <1>4, <1>5 DEF Inv, Good

\* ClaimInvalid is a good step.
LEMMA StepClaimInvalid ==
  ASSUME Inv, NEW q \in Place, ClaimInvalid(q)
  PROVE  Good
<1>1. TypeOK'
  BY DEF Inv, TypeOK, RowTypes, ReaderTypes, LinkTypes, AgentTypes, RowStates,
     PendingStates, Frames, Acks, ClaimInvalid, AccountFree
<1>2. \A p \in Place : OrderInv(p)'
  BY OrderClaimInvalid
<1>3. StopInv'
  BY DEF Inv, TypeOK, RowTypes, ReaderTypes, StopInv, AccountFree, ClaimInvalid
<1>4. StaysClosed
  BY DEF StaysClosed, Inv, TypeOK, RowTypes, ClaimInvalid, AccountFree
<1>5. StaysHalted
  BY DEF StaysHalted, ClaimInvalid
<1> QED
  BY <1>1, <1>2, <1>3, <1>4, <1>5 DEF Inv, Good

\* LeaseEnds is a good step.
LEMMA StepLeaseEnds ==
  ASSUME Inv, NEW q \in Place, LeaseEnds(q)
  PROVE  Good
<1>1. TypeOK'
  BY DEF Inv, TypeOK, RowTypes, ReaderTypes, LinkTypes, AgentTypes, RowStates,
     PendingStates, Frames, Acks, LeaseEnds
<1>2. \A p \in Place : OrderInv(p)'
  BY OrderLeaseEnds
<1>3. StopInv'
  BY DEF Inv, TypeOK, RowTypes, ReaderTypes, StopInv, AccountFree, LeaseEnds
<1>4. StaysClosed
  BY DEF StaysClosed, Inv, TypeOK, RowTypes, LeaseEnds
<1>5. StaysHalted
  BY DEF StaysHalted, LeaseEnds
<1> QED
  BY <1>1, <1>2, <1>3, <1>4, <1>5 DEF Inv, Good

\* DropBuffered is a good step.
LEMMA StepDropBuffered ==
  ASSUME Inv, NEW q \in Place, NEW m \in 1..MaxAttempts, DropBuffered(<<q, m>>)
  PROVE  Good
<1>1. TypeOK'
  BY DEF Inv, TypeOK, RowTypes, ReaderTypes, LinkTypes, AgentTypes, RowStates,
     PendingStates, Frames, Acks, DropBuffered
<1>2. \A p \in Place : OrderInv(p)'
  BY OrderDropBuffered
<1>3. StopInv'
  BY DEF Inv, TypeOK, RowTypes, ReaderTypes, StopInv, AccountFree, DropBuffered
<1>4. StaysClosed
  BY DEF StaysClosed, Inv, TypeOK, RowTypes, DropBuffered
<1>5. StaysHalted
  BY DEF StaysHalted, DropBuffered
<1> QED
  BY <1>1, <1>2, <1>3, <1>4, <1>5 DEF Inv, Good

\* SendCancelled is a good step.
LEMMA StepSendCancelled ==
  ASSUME Inv, NEW q \in Place, NEW m \in 1..MaxAttempts, SendCancelled(<<q, m>>)
  PROVE  Good
<1>1. TypeOK'
  BY DEF Inv, TypeOK, RowTypes, ReaderTypes, LinkTypes, AgentTypes, RowStates,
     PendingStates, Frames, Acks, SendCancelled, MaySend, NeverSent, Transition, Safe
<1>2. \A p \in Place : OrderInv(p)'
  BY OrderSendCancelled
<1>6. RowTypes
  BY DEF Inv, TypeOK
<1>3. StopInv'
  BY DEF Inv, StopInv, SendCancelled, AccountFree, MaySend
<1>4. StaysClosed
  BY <1>6, TransitionCases DEF StaysClosed, SendCancelled, MaySend, NeverSent
<1>5. StaysHalted
  BY DEF StaysHalted, SendCancelled
<1> QED
  BY <1>1, <1>2, <1>3, <1>4, <1>5 DEF Inv, Good

\* SendSealed is a good step.
LEMMA StepSendSealed ==
  ASSUME Inv, NEW q \in Place, NEW m \in 1..MaxAttempts, NEW s \in {"RECONCILE_REQUIRED",
         "CANCEL_REQUESTED"}, SendSealed(<<q, m>>, s)
  PROVE  Good
<1>1. TypeOK'
  BY DEF Inv, TypeOK, RowTypes, ReaderTypes, LinkTypes, AgentTypes, RowStates,
     PendingStates, Frames, Acks, SendSealed, MaySend
<1>2. \A p \in Place : OrderInv(p)'
  BY OrderSendSealed
<1>3. StopInv'
  BY DEF Inv, TypeOK, RowTypes, ReaderTypes, StopInv, AccountFree, SendSealed, MaySend
<1>4. StaysClosed
  BY DEF StaysClosed, Inv, TypeOK, RowTypes, SendSealed, MaySend
<1>5. StaysHalted
  BY DEF StaysHalted, SendSealed
<1> QED
  BY <1>1, <1>2, <1>3, <1>4, <1>5 DEF Inv, Good

\* Send is a good step.
LEMMA StepSend ==
  ASSUME Inv, NEW q \in Place, NEW m \in 1..MaxAttempts, Send(<<q, m>>)
  PROVE  Good
<1>1. TypeOK'
  BY DEF Inv, TypeOK, RowTypes, ReaderTypes, LinkTypes, AgentTypes, RowStates,
     PendingStates, Frames, Acks, Send, MaySend
<1>2. \A p \in Place : OrderInv(p)'
  BY OrderSend
<1>3. StopInv'
  BY DEF Inv, TypeOK, RowTypes, ReaderTypes, StopInv, AccountFree, Send, MaySend
<1>4. StaysClosed
  BY DEF StaysClosed, Inv, TypeOK, RowTypes, Send, MaySend
<1>5. StaysHalted
  BY DEF StaysHalted, Inv, OrderInv, HaltInv, Send, MaySend
<1> QED
  BY <1>1, <1>2, <1>3, <1>4, <1>5 DEF Inv, Good

\* MarkReconciled is a good step.
LEMMA StepMarkReconciled ==
  ASSUME Inv, MarkReconciled
  PROVE  Good
<1>1. TypeOK'
  BY DEF Inv, TypeOK, RowTypes, ReaderTypes, LinkTypes, AgentTypes, RowStates,
     PendingStates, Frames, Acks, MarkReconciled
<1>2. \A p \in Place : OrderInv(p)'
  BY OrderMarkReconciled
<1>3. StopInv'
  BY DEF Inv, TypeOK, RowTypes, ReaderTypes, StopInv, AccountFree, MarkReconciled
<1>4. StaysClosed
  BY DEF StaysClosed, Inv, TypeOK, RowTypes, MarkReconciled
<1>5. StaysHalted
  BY DEF StaysHalted, MarkReconciled
<1> QED
  BY <1>1, <1>2, <1>3, <1>4, <1>5 DEF Inv, Good

\* RecordProcessing is a good step.
LEMMA StepRecordProcessing ==
  ASSUME Inv, NEW q \in Place, NEW m \in 0..MaxAttempts, NEW r \in Answers \cup
         {"PROCESSING"}, RecordProcessing(<<q, m, r>>)
  PROVE  Good
<1>1. TypeOK'
  <2>1. RowTypes'
    BY DEF Inv, TypeOK, RowTypes, RowStates, RecordProcessing
  <2>2. ReaderTypes' /\ LinkTypes' /\ AgentTypes'
    BY DEF Inv, TypeOK, ReaderTypes, LinkTypes, AgentTypes, RecordProcessing
  <2> QED
    BY <2>1, <2>2 DEF TypeOK
<1>2. \A p \in Place : OrderInv(p)'
  BY OrderRecordProcessing
<1>3. StopInv'
  BY DEF Inv, TypeOK, RowTypes, ReaderTypes, StopInv, AccountFree, RecordProcessing
<1>4. StaysClosed
  BY DEF StaysClosed, Inv, TypeOK, RowTypes, RecordProcessing
<1>5. StaysHalted
  BY DEF StaysHalted, RecordProcessing
<1> QED
  BY <1>1, <1>2, <1>3, <1>4, <1>5 DEF Inv, Good

\* RecordAccepted is a good step.
LEMMA StepRecordAccepted ==
  ASSUME Inv, NEW q \in Place, NEW m \in 0..MaxAttempts, NEW r \in Answers \cup
         {"PROCESSING"}, RecordAccepted(<<q, m, r>>)
  PROVE  Good
<1>1. TypeOK'
  BY DEF Inv, TypeOK, RowTypes, ReaderTypes, LinkTypes, AgentTypes, RowStates,
     PendingStates, Frames, Acks, RecordAccepted, Transition
<1>2. \A p \in Place : OrderInv(p)'
  BY OrderRecordAccepted
<1>6. RowTypes
  BY DEF Inv, TypeOK
<1>3. StopInv'
  BY DEF Inv, StopInv, RecordAccepted, AccountFree
<1>4. StaysClosed
  <2> SUFFICES ASSUME NEW p \in Place, row[p] \in Proofs PROVE row'[p] = row[p]
    BY DEF StaysClosed
  <2>1. p # q
    <3>1. <<q, m, r>> \in ackq /\ r = "ACCEPTED"
      BY DEF RecordAccepted
    <3>2. answer[q] = "ACCEPTED"
      BY <3>1 DEF Inv, OrderInv, AnswerInv
    <3>3. submits[q] = 1
      BY <3>2 DEF Inv, OrderInv, AnswerInv
    <3> QED
      BY <3>3 DEF Inv, OrderInv, ClosedInv, Closed, Untouched
  <2>2. CASE row' = row
    BY <2>2
  <2>3. CASE row' = [row EXCEPT ![q] = "ACKNOWLEDGED"]
    BY <1>6, <2>1, <2>3 DEF RowTypes
  <2>4. CASE Transition(q, "RECONCILE_REQUIRED", "NONE", FALSE)
    BY <1>6, <2>1, <2>4, TransitionCases
  <2> QED
    BY <2>2, <2>3, <2>4 DEF RecordAccepted
<1>5. StaysHalted
  BY DEF StaysHalted, RecordAccepted
<1> QED
  BY <1>1, <1>2, <1>3, <1>4, <1>5 DEF Inv, Good

\* RecordRejected is a good step.
LEMMA StepRecordRejected ==
  ASSUME Inv, NEW q \in Place, NEW m \in 0..MaxAttempts, NEW r \in Answers \cup
         {"PROCESSING"}, RecordRejected(<<q, m, r>>)
  PROVE  Good
<1>1. TypeOK'
  BY DEF Inv, TypeOK, RowTypes, ReaderTypes, LinkTypes, AgentTypes, RowStates,
     PendingStates, Frames, Acks, RecordRejected, Replayed, Transition, Safe
<1>2. \A p \in Place : OrderInv(p)'
  BY OrderRecordRejected
<1>6. RowTypes
  BY DEF Inv, TypeOK
<1>3. StopInv'
  BY DEF Inv, StopInv, RecordRejected, AccountFree
<1>4. StaysClosed
  <2> SUFFICES ASSUME NEW p \in Place, row[p] \in Proofs PROVE row'[p] = row[p]
    BY DEF StaysClosed
  <2>1. CASE p = q
    <3>1. agent[q] = "done" /\ answer[q] = r
      <4>1. <<q, m, r>> \in ackq /\ r \in Refusals \cup {"FAIL"}
        BY DEF RecordRejected
      <4> QED
        BY <4>1 DEF Inv, OrderInv, AnswerInv, Refusals, Answers
    <3>2. Replayed(q, r)
      BY <2>1, <3>1 DEF Inv, OrderInv, ProofInv, Replayed
    <3>3. row[q] # "ACKNOWLEDGED" /\ r \in PreReasons
      BY <3>2 DEF Replayed
    <3> QED
      BY <2>1, <3>2, <3>3 DEF RecordRejected
  <2>2. CASE p # q
    BY <1>6, <2>2, TransitionCases DEF RecordRejected
  <2> QED
    BY <2>1, <2>2
<1>5. StaysHalted
  BY DEF StaysHalted, RecordRejected
<1> QED
  BY <1>1, <1>2, <1>3, <1>4, <1>5 DEF Inv, Good

\* Sweep is a good step.
LEMMA StepSweep ==
  ASSUME Inv, NEW q \in Place, Sweep(q)
  PROVE  Good
<1>1. TypeOK'
  BY DEF Inv, TypeOK, RowTypes, ReaderTypes, LinkTypes, AgentTypes, RowStates,
     PendingStates, Frames, Acks, Sweep, Transition, Safe
<1>2. \A p \in Place : OrderInv(p)'
  BY OrderSweep
<1>6. RowTypes
  BY DEF Inv, TypeOK
<1>3. StopInv'
  BY DEF Inv, StopInv, Sweep, AccountFree
<1>4. StaysClosed
  BY <1>6, TransitionCases DEF StaysClosed, Sweep
<1>5. StaysHalted
  BY DEF StaysHalted, Sweep
<1> QED
  BY <1>1, <1>2, <1>3, <1>4, <1>5 DEF Inv, Good

\* CancelOrder is a good step.
LEMMA StepCancelOrder ==
  ASSUME Inv, NEW q \in Place, CancelOrder(q)
  PROVE  Good
<1>1. TypeOK'
  BY DEF Inv, TypeOK, RowTypes, ReaderTypes, LinkTypes, AgentTypes, RowStates,
     PendingStates, Frames, Acks, CancelOrder
<1>2. \A p \in Place : OrderInv(p)'
  BY OrderCancelOrder
<1>3. StopInv'
  BY DEF Inv, TypeOK, RowTypes, ReaderTypes, StopInv, AccountFree, CancelOrder
<1>4. StaysClosed
  BY DEF StaysClosed, Inv, TypeOK, RowTypes, CancelOrder
<1>5. StaysHalted
  BY DEF StaysHalted, CancelOrder
<1> QED
  BY <1>1, <1>2, <1>3, <1>4, <1>5 DEF Inv, Good

\* CancelPending is a good step.
LEMMA StepCancelPending ==
  ASSUME Inv, NEW q \in Place, CancelPending(q)
  PROVE  Good
<1>1. TypeOK'
  BY DEF Inv, TypeOK, RowTypes, ReaderTypes, LinkTypes, AgentTypes, RowStates,
     PendingStates, Frames, Acks, CancelPending
<1>2. \A p \in Place : OrderInv(p)'
  BY OrderCancelPending
<1>3. StopInv'
  BY DEF Inv, TypeOK, RowTypes, ReaderTypes, StopInv, AccountFree, CancelPending
<1>4. StaysClosed
  BY DEF StaysClosed, Inv, TypeOK, RowTypes, CancelPending
<1>5. StaysHalted
  BY DEF StaysHalted, CancelPending
<1> QED
  BY <1>1, <1>2, <1>3, <1>4, <1>5 DEF Inv, Good

\* StopOrders is a good step.
LEMMA StepStopOrders ==
  ASSUME Inv, NEW k \in {"kill", "t_stop"}, StopOrders(k)
  PROVE  Good
<1>1. TypeOK'
  BY DEF Inv, TypeOK, RowTypes, ReaderTypes, LinkTypes, AgentTypes, RowStates,
     PendingStates, Frames, Acks, StopOrders, StopReach
<1>2. \A p \in Place : OrderInv(p)'
  BY OrderStopOrders
<1>3. StopInv'
  BY DEF Inv, TypeOK, RowTypes, ReaderTypes, StopInv, AccountFree, StopOrders, StopReach
<1>4. StaysClosed
  BY DEF StaysClosed, Inv, TypeOK, RowTypes, StopOrders, StopReach
<1>5. StaysHalted
  BY DEF StaysHalted, StopOrders
<1> QED
  BY <1>1, <1>2, <1>3, <1>4, <1>5 DEF Inv, Good

\* StopRows is a good step.
LEMMA StepStopRows ==
  ASSUME Inv, StopRows
  PROVE  Good
<1>1. TypeOK'
  BY DEF Inv, TypeOK, RowTypes, ReaderTypes, LinkTypes, AgentTypes, RowStates,
     PendingStates, Frames, Acks, StopRows, StopReach
<1>2. \A p \in Place : OrderInv(p)'
  BY OrderStopRows
<1>3. StopInv'
  BY DEF Inv, TypeOK, RowTypes, ReaderTypes, StopInv, AccountFree, StopRows, StopReach
<1>4. StaysClosed
  BY DEF StaysClosed, Inv, TypeOK, RowTypes, StopRows, StopReach
<1>5. StaysHalted
  BY DEF StaysHalted, StopRows
<1> QED
  BY <1>1, <1>2, <1>3, <1>4, <1>5 DEF Inv, Good

\* StopWrite is a good step.
LEMMA StepStopWrite ==
  ASSUME Inv, StopWrite
  PROVE  Good
<1>1. TypeOK'
  BY DEF Inv, TypeOK, RowTypes, ReaderTypes, LinkTypes, AgentTypes, RowStates,
     PendingStates, Frames, Acks, StopWrite, NoStop
<1>2. \A p \in Place : OrderInv(p)'
  BY OrderStopWrite
<1>3. StopInv'
  BY DEF Inv, TypeOK, RowTypes, ReaderTypes, StopInv, AccountFree, StopWrite, NoStop
<1>4. StaysClosed
  BY DEF StaysClosed, Inv, TypeOK, RowTypes, StopWrite, NoStop
<1>5. StaysHalted
  BY DEF StaysHalted, StopWrite
<1> QED
  BY <1>1, <1>2, <1>3, <1>4, <1>5 DEF Inv, Good

\* ReportOrder is a good step.
LEMMA StepReportOrder ==
  ASSUME Inv, NEW q \in Place, NEW s \in {"SUBMITTED", "FILLED", "CANCELLED",
         "REJECTED"}, ReportOrder(q, s)
  PROVE  Good
<1>1. TypeOK'
  BY DEF Inv, TypeOK, RowTypes, ReaderTypes, LinkTypes, AgentTypes, RowStates,
     PendingStates, Frames, Acks, ReportOrder, UpdatePending
<1>2. \A p \in Place : OrderInv(p)'
  BY OrderReportOrder
<1>3. StopInv'
  BY DEF Inv, TypeOK, RowTypes, ReaderTypes, StopInv, AccountFree, ReportOrder
<1>4. StaysClosed
  BY DEF StaysClosed, Inv, TypeOK, RowTypes, ReportOrder
<1>5. StaysHalted
  BY DEF StaysHalted, ReportOrder
<1> QED
  BY <1>1, <1>2, <1>3, <1>4, <1>5 DEF Inv, Good

\* ReportError is a good step.
LEMMA StepReportError ==
  ASSUME Inv, NEW q \in Place, ReportError(q)
  PROVE  Good
<1>1. TypeOK'
  BY DEF Inv, TypeOK, RowTypes, ReaderTypes, LinkTypes, AgentTypes, RowStates,
     PendingStates, Frames, Acks, ReportError, UpdatePending
<1>2. \A p \in Place : OrderInv(p)'
  BY OrderReportError
<1>3. StopInv'
  BY DEF Inv, TypeOK, RowTypes, ReaderTypes, StopInv, AccountFree, ReportError
<1>4. StaysClosed
  BY DEF StaysClosed, Inv, TypeOK, RowTypes, ReportError
<1>5. StaysHalted
  BY DEF StaysHalted, ReportError
<1> QED
  BY <1>1, <1>2, <1>3, <1>4, <1>5 DEF Inv, Good

\* ReportRefusal is a good step.
LEMMA StepReportRefusal ==
  ASSUME Inv, NEW q \in Place, ReportRefusal(q)
  PROVE  Good
<1>1. TypeOK'
  <2>1. RowTypes'
    BY DEF Inv, TypeOK, RowTypes, PendingStates, Refusals, UpdatePending, ReportRefusal
  <2>2. ReaderTypes' /\ LinkTypes' /\ AgentTypes'
    BY DEF Inv, TypeOK, ReaderTypes, LinkTypes, AgentTypes, ReportRefusal
  <2> QED
    BY <2>1, <2>2 DEF TypeOK
<1>2. \A p \in Place : OrderInv(p)'
  BY OrderReportRefusal
<1>3. StopInv'
  BY DEF Inv, TypeOK, RowTypes, ReaderTypes, StopInv, AccountFree, ReportRefusal
<1>4. StaysClosed
  BY DEF StaysClosed, Inv, TypeOK, RowTypes, ReportRefusal
<1>5. StaysHalted
  BY DEF StaysHalted, ReportRefusal
<1> QED
  BY <1>1, <1>2, <1>3, <1>4, <1>5 DEF Inv, Good

\* Expire is a good step.
LEMMA StepExpire ==
  ASSUME Inv, NEW q \in Place, Expire(q)
  PROVE  Good
<1>1. TypeOK'
  BY DEF Inv, TypeOK, RowTypes, ReaderTypes, LinkTypes, AgentTypes, RowStates,
     PendingStates, Frames, Acks, Expire
<1>2. \A p \in Place : OrderInv(p)'
  BY OrderExpire
<1>3. StopInv'
  BY DEF Inv, TypeOK, RowTypes, ReaderTypes, StopInv, AccountFree, Expire
<1>4. StaysClosed
  BY DEF StaysClosed, Inv, TypeOK, RowTypes, Expire
<1>5. StaysHalted
  BY DEF StaysHalted, Expire
<1> QED
  BY <1>1, <1>2, <1>3, <1>4, <1>5 DEF Inv, Good

\* AgentTake is a good step.
LEMMA StepAgentTake ==
  ASSUME Inv, NEW q \in Place, NEW m \in 1..MaxAttempts, AgentTake(<<q, m>>)
  PROVE  Good
<1>1. TypeOK'
  BY DEF Inv, TypeOK, RowTypes, ReaderTypes, LinkTypes, AgentTypes, RowStates,
     PendingStates, Frames, Acks, AgentTake
<1>2. \A p \in Place : OrderInv(p)'
  BY OrderAgentTake
<1>3. StopInv'
  BY DEF Inv, TypeOK, RowTypes, ReaderTypes, StopInv, AccountFree, AgentTake
<1>4. StaysClosed
  BY DEF StaysClosed, Inv, TypeOK, RowTypes, AgentTake
<1>5. StaysHalted
  BY DEF StaysHalted, AgentTake
<1> QED
  BY <1>1, <1>2, <1>3, <1>4, <1>5 DEF Inv, Good

\* AgentSubmit is a good step.
LEMMA StepAgentSubmit ==
  ASSUME Inv, NEW q \in Place, AgentSubmit(q)
  PROVE  Good
<1>1. TypeOK'
  BY DEF Inv, TypeOK, RowTypes, ReaderTypes, LinkTypes, AgentTypes, RowStates,
     PendingStates, Frames, Acks, AgentSubmit
<1>2. \A p \in Place : OrderInv(p)'
  BY OrderAgentSubmit
<1>3. StopInv'
  BY DEF Inv, TypeOK, RowTypes, ReaderTypes, StopInv, AccountFree, AgentSubmit
<1>4. StaysClosed
  BY DEF StaysClosed, Inv, TypeOK, RowTypes, AgentSubmit
<1>5. StaysHalted
  BY DEF StaysHalted, AgentSubmit
<1> QED
  BY <1>1, <1>2, <1>3, <1>4, <1>5 DEF Inv, Good

\* AgentFinish is a good step.
LEMMA StepAgentFinish ==
  ASSUME Inv, NEW q \in Place, NEW r \in Answers, AgentFinish(q, r)
  PROVE  Good
<1>1. TypeOK'
  BY DEF Inv, TypeOK, RowTypes, ReaderTypes, LinkTypes, AgentTypes, RowStates,
     PendingStates, Frames, Acks, AgentFinish, Refusals, Answers
<1>2. \A p \in Place : OrderInv(p)'
  BY OrderAgentFinish
<1>3. StopInv'
  BY DEF Inv, TypeOK, RowTypes, ReaderTypes, StopInv, AccountFree, AgentFinish
<1>4. StaysClosed
  BY DEF StaysClosed, Inv, TypeOK, RowTypes, AgentFinish
<1>5. StaysHalted
  BY DEF StaysHalted, AgentFinish
<1> QED
  BY <1>1, <1>2, <1>3, <1>4, <1>5 DEF Inv, Good

\* AgentRepeat is a good step.
LEMMA StepAgentRepeat ==
  ASSUME Inv, NEW q \in Place, NEW m \in 1..MaxAttempts, AgentRepeat(<<q, m>>)
  PROVE  Good
<1>1. TypeOK'
  BY DEF Inv, TypeOK, RowTypes, ReaderTypes, LinkTypes, AgentTypes, RowStates,
     PendingStates, Frames, Acks, AgentRepeat, Refusals, Answers
<1>2. \A p \in Place : OrderInv(p)'
  BY OrderAgentRepeat
<1>3. StopInv'
  BY DEF Inv, TypeOK, RowTypes, ReaderTypes, StopInv, AccountFree, AgentRepeat
<1>4. StaysClosed
  BY DEF StaysClosed, Inv, TypeOK, RowTypes, AgentRepeat
<1>5. StaysHalted
  BY DEF StaysHalted, AgentRepeat
<1> QED
  BY <1>1, <1>2, <1>3, <1>4, <1>5 DEF Inv, Good

\* LoseFrame is a good step.
LEMMA StepLoseFrame ==
  ASSUME Inv, NEW q \in Place, NEW m \in 1..MaxAttempts, LoseFrame(<<q, m>>)
  PROVE  Good
<1>1. TypeOK'
  BY DEF Inv, TypeOK, RowTypes, ReaderTypes, LinkTypes, AgentTypes, RowStates,
     PendingStates, Frames, Acks, LoseFrame
<1>2. \A p \in Place : OrderInv(p)'
  BY OrderLoseFrame
<1>3. StopInv'
  BY DEF Inv, TypeOK, RowTypes, ReaderTypes, StopInv, AccountFree, LoseFrame
<1>4. StaysClosed
  BY DEF StaysClosed, Inv, TypeOK, RowTypes, LoseFrame
<1>5. StaysHalted
  BY DEF StaysHalted, LoseFrame
<1> QED
  BY <1>1, <1>2, <1>3, <1>4, <1>5 DEF Inv, Good

\* LoseAck is a good step.
LEMMA StepLoseAck ==
  ASSUME Inv, NEW q \in Place, NEW m \in 0..MaxAttempts, NEW r \in Answers \cup
         {"PROCESSING"}, LoseAck(<<q, m, r>>)
  PROVE  Good
<1>1. TypeOK'
  BY DEF Inv, TypeOK, RowTypes, ReaderTypes, LinkTypes, AgentTypes, RowStates,
     PendingStates, Frames, Acks, LoseAck
<1>2. \A p \in Place : OrderInv(p)'
  BY OrderLoseAck
<1>3. StopInv'
  BY DEF Inv, TypeOK, RowTypes, ReaderTypes, StopInv, AccountFree, LoseAck
<1>4. StaysClosed
  BY DEF StaysClosed, Inv, TypeOK, RowTypes, LoseAck
<1>5. StaysHalted
  BY DEF StaysHalted, LoseAck
<1> QED
  BY <1>1, <1>2, <1>3, <1>4, <1>5 DEF Inv, Good

\* Every step of the system is a good one.
LEMMA NextStep ==
  ASSUME Inv, [Next]_vars
  PROVE  Good
<1>1. LinkTypes
  BY DEF Inv, TypeOK
<1>2. ASSUME NEW q \in Place, Service(q)
      PROVE  Good
  BY <1>2, StepClaim, StepClaimInvalid, StepLeaseEnds, StepSweep, StepExpire,
     StepCancelOrder,
     StepCancelPending, StepReportOrder, StepReportError, StepReportRefusal DEF Service
<1>3. ASSUME NEW q \in Place, AgentSubmit(q) \/ \E r \in Answers : AgentFinish(q, r)
      PROVE  Good
  BY <1>3, StepAgentSubmit, StepAgentFinish
<1>4. ASSUME NEW f \in buffer, Physical(f)
      PROVE  Good
  <2>1. PICK q \in Place, m \in 1..MaxAttempts : f = <<q, m>>
    BY <1>1 DEF LinkTypes, Frames
  <2> QED
    BY <1>4, <2>1, StepDropBuffered, StepSendCancelled, StepSend, StepSendSealed DEF
       Physical
<1>5. ASSUME NEW f \in wire, AgentTake(f) \/ AgentRepeat(f) \/ LoseFrame(f)
      PROVE  Good
  <2>1. PICK q \in Place, m \in 1..MaxAttempts : f = <<q, m>>
    BY <1>1 DEF LinkTypes, Frames
  <2> QED
    BY <1>5, <2>1, StepAgentTake, StepAgentRepeat, StepLoseFrame
<1>6. ASSUME NEW a \in ackq, Record(a) \/ LoseAck(a)
      PROVE  Good
  <2>1. PICK q \in Place, m \in 0..MaxAttempts, r \in Answers \cup {"PROCESSING"} : a = <<q, m, r>>
    BY <1>1 DEF LinkTypes, Acks
  <2> QED
    BY <1>6, <2>1, StepRecordProcessing, StepRecordAccepted, StepRecordRejected,
       StepLoseAck DEF Record
<1>7. ASSUME Stop
      PROVE  Good
  BY <1>7, StepStopOrders, StepStopRows, StepStopWrite DEF Stop
<1>8. ASSUME UNCHANGED vars
      PROVE  Good
  <2>1. TypeOK'
    BY <1>8 DEF vars, Inv, TypeOK, RowTypes, ReaderTypes, LinkTypes, AgentTypes
  <2>2. \A p \in Place : OrderInv(p)'
    BY <1>8, SameKeeps DEF vars, Inv, Same, SameRow, SameLink, SameAcks, SameAgent
  <2>3. StopInv'
    BY <1>8 DEF vars, Inv, StopInv
  <2>4. StaysClosed /\ StaysHalted
    BY <1>8 DEF vars, StaysClosed, StaysHalted
  <2> QED
    BY <2>1, <2>2, <2>3, <2>4 DEF Inv, Good
<1> QED
  BY <1>2, <1>3, <1>4, <1>5, <1>6, <1>7, <1>8, StepMarkReconciled DEF Next

\* The invariant holds initially.
LEMMA InitInv == Init => Inv
<1> SUFFICES ASSUME Init PROVE Inv
  OBVIOUS
<1>1. StopInv
  BY DEF Init, NoStop, StopInv
<1>2. ASSUME NEW p \in Place
      PROVE  OrderInv(p)
  BY DEF Init, OrderInv, FramesInv, AnswerInv, ClosedInv, Closed, ProofInv, HaltInv
<1> QED
  BY TypeInit, <1>1, <1>2 DEF Inv

\* The inductive invariant holds in every reachable state.
THEOREM OutboxInvariant == Spec => []Inv
<1>1. Inv /\ [Next]_vars => Inv'
  BY NextStep DEF Good
<1> QED
  BY InitInv, <1>1, PTL DEF Spec

\* Every variable keeps its type.
THEOREM OutboxTypes == Spec => []TypeOK
<1>1. Inv => TypeOK
  BY DEF Inv
<1> QED
  BY OutboxInvariant, <1>1, PTL

\* A closed outbox row is a true proof that the broker was not and will not be
\* reached, for any number of commands and deliveries.
THEOREM ZeroFillProofsAreSound == Spec => []ZeroFillProofSound
<1>1. Inv => ZeroFillProofSound
  BY DEF Inv, OrderInv, ClosedInv, Closed, ZeroFillProofSound
<1> QED
  BY OutboxInvariant, <1>1, PTL

\* A pending order that no T-trade stop can reach is closed without the broker's
\* word only if it never reaches the broker.
THEOREM PlainOrdersAreTruthful == Spec => []PlainOrderTruthful
<1>1. Inv => PlainOrderTruthful
  BY DEF Inv, OrderInv, ClosedInv, Closed, PlainOrderTruthful
<1> QED
  BY OutboxInvariant, <1>1, PTL

\* No ack, sweep or cancellation takes back a proof the server has recorded.
THEOREM ProofsAreNeverTakenBack == Spec => ProofsAreFinal
<1>1. Inv /\ [Next]_vars =>
        [\A p \in Place : row[p] \in Proofs => row'[p] \in {row[p], "CANCELLED_KILL"}]_vars
  BY NextStep DEF Good, StaysClosed
<1> QED
  BY OutboxInvariant, <1>1, PTL DEF Spec, ProofsAreFinal

\* No frame of a command goes out after a cancellation or a stop took hold of it
\* in time.
THEOREM HaltsAlwaysHold == Spec => HaltHolds
<1>1. Inv /\ [Next]_vars =>
        [\A p \in Place :
           halted[p] # "no" /\ agent[p] = "unseen" /\ (\A n \in 1..MaxAttempts : <<p, n>> \notin wire)
             => \A n \in 1..MaxAttempts : <<p, n>> \notin wire']_vars
  BY NextStep DEF Good, StaysHalted
<1> QED
  BY OutboxInvariant, <1>1, PTL DEF Spec, HaltHolds
-----------------------------------------------------------------------------
(* The Agent at the other end.                                               *)

\* The Agent's answers, in the words of OrderContract.
Word(r) == IF r \in PreReasons THEN "PRE" ELSE r
Said == {<<p, Word(answer[p])>> : p \in {q \in Place : answer[q] # "NONE"}}
Contract == INSTANCE OrderContract WITH told <- Said

\* Whatever OrderContract lets an Agent do next with a command it has taken, the
\* Agent of this module can do next: submit it, give any answer the contract
\* allows, or repeat the one it gave.
AdmitsContract ==
  \A p \in Place : agent[p] # "unseen" =>
    /\ Contract!MaySubmit(p) => AgentMaySubmit(p)
    /\ \A r \in Answers : Contract!MayTell(p, Word(r)) =>
         AgentMayFinish(p, r) \/ (answer[p] # "NONE" /\ Word(answer[p]) = Word(r))

\* An Agent that is done with a command has answered it.
Answered == \A p \in Place : agent[p] = "done" => answer[p] \in Answers

\* Every step keeps that.
LEMMA AnsweredStep ==
  ASSUME TypeOK, Answered, [Next]_vars
  PROVE  Answered'
<1>0. ASSUME UNCHANGED <<agent, answer>> PROVE Answered'
  BY <1>0 DEF Answered
<1>1. ASSUME NEW p \in Place, Service(p) PROVE UNCHANGED <<agent, answer>>
  BY <1>1 DEF Service, Claim, ClaimInvalid, LeaseEnds, Sweep, Expire, CancelOrder,
     CancelPending, ReportOrder, ReportError, ReportRefusal
<1>2. ASSUME NEW p \in Place, AgentSubmit(p) PROVE UNCHANGED <<agent, answer>>
  BY <1>2 DEF AgentSubmit
<1>3. ASSUME NEW p \in Place, NEW r \in Answers, AgentFinish(p, r) PROVE Answered'
  BY <1>3 DEF AgentFinish, Answered, TypeOK, AgentTypes
<1>4. ASSUME NEW f \in buffer, Physical(f) PROVE UNCHANGED <<agent, answer>>
  BY <1>4 DEF Physical, DropBuffered, SendCancelled, Send, SendSealed
<1>5. ASSUME NEW f \in wire, AgentTake(f) PROVE Answered'
  BY <1>5 DEF AgentTake, Answered, TypeOK, AgentTypes, LinkTypes, Frames
<1>6. ASSUME NEW f \in wire, AgentRepeat(f) \/ LoseFrame(f)
      PROVE  UNCHANGED <<agent, answer>>
  BY <1>6 DEF AgentRepeat, LoseFrame
<1>7. ASSUME NEW a \in ackq, Record(a) \/ LoseAck(a) PROVE UNCHANGED <<agent, answer>>
  BY <1>7 DEF Record, RecordProcessing, RecordAccepted, RecordRejected, LoseAck
<1>8. ASSUME Stop \/ MarkReconciled PROVE UNCHANGED <<agent, answer>>
  BY <1>8 DEF Stop, StopOrders, StopRows, StopWrite, MarkReconciled
<1>9. ASSUME UNCHANGED vars PROVE UNCHANGED <<agent, answer>>
  BY <1>9 DEF vars
<1> QED
  BY <1>0, <1>1, <1>2, <1>3, <1>4, <1>5, <1>6, <1>7, <1>8, <1>9 DEF Next

\* What the contract lets a taken command do is open to it.
LEMMA Admission ==
  ASSUME Inv, Answered
  PROVE  AdmitsContract
<1> SUFFICES ASSUME NEW p \in Place, agent[p] # "unseen"
             PROVE  /\ Contract!MaySubmit(p) => AgentMaySubmit(p)
                    /\ \A r \in Answers : Contract!MayTell(p, Word(r)) =>
                         \/ AgentMayFinish(p, r)
                         \/ answer[p] # "NONE" /\ Word(answer[p]) = Word(r)
  BY DEF AdmitsContract
<1>1. agent[p] \in {"working", "done"}
  BY DEF Inv, TypeOK, AgentTypes
<1>2. \A r \in Answers : Word(r) \in Contract!Final /\ r # "NONE"
        /\ (r \in Refusals => Word(r) \in Contract!Refusal)
        /\ (r = "ACCEPTED" => Word(r) = "ACCEPTED")
  BY DEF Word, Answers, Refusals, PreReasons, Contract!Final, Contract!Refusal
<1>3. CASE agent[p] = "working"
  BY <1>2, <1>3 DEF AgentMaySubmit, AgentMayFinish, Contract!MaySubmit,
     Contract!MayTell
<1>4. CASE agent[p] = "done"
  <2>1. answer[p] \in Answers /\ answer[p] # "NONE"
    BY <1>2, <1>4 DEF Answered
  <2>2. <<p, Word(answer[p])>> \in Said /\ Word(answer[p]) \in Contract!Final
    BY <1>2, <2>1 DEF Said
  <2>3. ~Contract!MaySubmit(p)
    BY <2>2 DEF Contract!MaySubmit
  <2>4. ASSUME NEW r \in Answers, Contract!MayTell(p, Word(r))
        PROVE  Word(answer[p]) = Word(r)
    BY <2>2, <2>4 DEF Contract!MayTell
  <2> QED
    BY <2>1, <2>3, <2>4
<1> QED
  BY <1>1, <1>3, <1>4

\* The Agent the outbox is checked with has, at every moment of every behaviour,
\* every freedom that OrderContract leaves to an Agent which has taken a command;
\* AgentCommand keeps that contract.  So no submission and no final answer of
\* AgentCommand is missing from what is proved of the outbox.
THEOREM OutboxAdmitsAgent == Spec => []AdmitsContract
<1>1. Init => Answered
  BY DEF Init, Answered
<1>2. Inv /\ Answered /\ [Next]_vars => Answered'
  BY AnsweredStep DEF Inv
<1>3. Inv /\ Answered => AdmitsContract
  BY Admission
<1> QED
  BY <1>1, <1>2, <1>3, OutboxInvariant, PTL DEF Spec
=============================================================================
