------------------------ MODULE AgentCommandProofs ------------------------
(***************************************************************************)
(* Proofs about AgentCommand, for every set of commands and snapshots and    *)
(* every bound.                                                              *)
(***************************************************************************)
EXTENDS AgentCommand, TLAPS

\* No frame of p is in flight and none will be sent again.
Unreachable(p) == expired[p] /\ \A d \in Digests : <<p, d>> \notin wire

\* A handler that still has to decide the outcome of its row.
Working == {"begun", "native", "stopping", "outcome", "reject"}

Refusals == {"PRE", "GATE"}

\* The handler, the row and the native call of a PLACE command move together.
Together(p) ==
  /\ task[p] = "begun" => nat[p] = "none"
  /\ task[p] = "native" => nat[p] # "none"
  /\ task[p] \in {"outcome", "reject", "report", "ack"} => nat[p] = "none"
  /\ nat[p] # "none" \/ task[p] \in Working => status[p] = "PROCESSING"
  /\ task[p] \in {"report", "ack"} =>
       status[p] = "COMPLETED" /\ result[p] = outcome[p]
  /\ task[p] \in {"reject", "report"} => outcome[p] \in Refusals
  /\ p \in mapped => status[p] = "COMPLETED"

\* A PLACE command that may still reach order_stock has not submitted.
Submitted(p) ==
  /\ submits[p] <= 1
  /\ nat[p] # "none" \/ task[p] = "begun" => submits[p] = 0
  /\ status[p] = "ABSENT" => submits[p] = 0 \/ Unreachable(p)

Refused(p) ==
  \/ p \in reports
  \/ \E r \in Refusals : <<p, r>> \in acks \/ outcome[p] = r \/ result[p] = r

\* A refused PLACE command has submitted nothing and never will.
RefusedForGood(p) ==
  Refused(p) =>
    /\ submits[p] = 0 /\ nat[p] = "none" /\ task[p] \notin {"begun", "native"}
    /\ status[p] = "ABSENT" => Unreachable(p)

\* A final ack is the row's result, and the row never changes under it.
Acked(p) ==
  \A r \in Results : <<p, r>> \in acks =>
    /\ status[p] # "PROCESSING"
    /\ status[p] = "COMPLETED" => result[p] = r
    /\ status[p] = "ABSENT" => Unreachable(p)

AcksAgree(p) ==
  \A r, s \in Results : <<p, r>> \in acks /\ <<p, s>> \in acks => r = s

PlaceInv(p) ==
  Together(p) /\ Submitted(p) /\ RefusedForGood(p) /\ Acked(p) /\ AcksAgree(p)

\* A handler has a row, and a detached one is not done.
RowInv ==
  \A c \in Cmds :
    /\ task[c] # "idle" => status[c] # "ABSENT"
    /\ c \in detached => task[c] # "idle"

\* With the runtime's gate open, a PROCESSING row has a handler deciding it that
\* belongs to the session.
GateInv ==
  conn = "online" /\ ~required =>
    \A c \in Cmds :
      status[c] = "PROCESSING" => task[c] \in Working /\ c \notin detached

\* A stop is never accepted before the stop file is active.
StopInv ==
  \A e \in Stop :
    /\ nat[e] = "none" /\ task[e] # "native"
    /\ outcome[e] = "ACCEPTED" \/ result[e] = "ACCEPTED"
         \/ <<e, "ACCEPTED">> \in acks => stop \/ cleared

\* After one refresh no older read of the file is left; after two the cached
\* status shows the stop.
CacheInv ==
  stop => /\ rounds # 0 => seen \subseteq {TRUE}
          /\ rounds = 2 => cache

-----------------------------------------------------------------------------
USE DEF Results, journalVars, stopVars, taskVars, gateVars, nativeVars, linkVars, worldVars,
        countVars, CloseGate, RefreshGate

\* Type correctness: the initial state, then one lemma per action.
LEMMA TypeInit == Init => TypeOK
<1> SUFFICES ASSUME Init PROVE TypeOK OBVIOUS
<1>1. JournalTypes
  BY DEF Init, JournalTypes
<1>6. StopTypes
  <2>1. rounds \in 0..2
    BY DEF Init
  <2> QED
    BY <2>1 DEF Init, StopTypes
<1>2. TaskTypes
  BY DEF Init, TaskTypes
<1>3. LinkTypes
  BY DEF Init, LinkTypes
<1>4. GateTypes
  BY DEF Init, GateTypes
<1>5. WorldTypes
  BY DEF Init, WorldTypes
<1> QED
  BY <1>1, <1>2, <1>3, <1>4, <1>5, <1>6 DEF TypeOK

\* Closing the gate keeps every variable's type.
LEMMA TypeCloseGate ==
  ASSUME GateTypes, CloseGate, UNCHANGED nativeVars
  PROVE  GateTypes'
BY DEF GateTypes

\* Refreshing the gate keeps every variable's type.
LEMMA TypeRefreshGate ==
  ASSUME GateTypes, RefreshGate, UNCHANGED nativeVars
  PROVE  GateTypes'
<1>1. CASE indeterminate /\ Processing = {}
  <2>1. required' = required /\ indeterminate' = FALSE
    BY <1>1
  <2>2. (required \in BOOLEAN /\ indeterminate \in BOOLEAN)'
    BY <2>1 DEF GateTypes
  <2> QED
    BY <1>1, <2>2 DEF GateTypes
<1>2. CASE ~(indeterminate /\ Processing = {})
  BY <1>2 DEF GateTypes
<1> QED
  BY <1>1, <1>2

\* Deliver keeps every variable's type.
LEMMA TypeDeliver ==
  ASSUME TypeOK, NEW c \in Cmds, NEW d \in Digests, Deliver(c, d)
  PROVE  TypeOK'
<1>1. JournalTypes'
  BY DEF TypeOK, JournalTypes, Deliver
<1>6. StopTypes'
  BY DEF TypeOK, StopTypes, Deliver
<1>2. TaskTypes'
  BY DEF TypeOK, TaskTypes, Deliver
<1>3. LinkTypes'
  BY SnapAssumption DEF TypeOK, LinkTypes, Deliver
<1>4. GateTypes'
  BY SnapAssumption DEF TypeOK, GateTypes, Deliver
<1>5. WorldTypes'
  BY DEF TypeOK, WorldTypes, Deliver
<1> QED
  BY <1>1, <1>2, <1>3, <1>4, <1>5, <1>6 DEF TypeOK

\* Begin keeps every variable's type.
LEMMA TypeBegin ==
  ASSUME TypeOK, NEW c \in Cmds, NEW d \in Digests, Begin(c, d)
  PROVE  TypeOK'
<1>1. JournalTypes'
  BY DEF TypeOK, JournalTypes, Begin
<1>6. StopTypes'
  BY DEF TypeOK, StopTypes, Begin
<1>2. TaskTypes'
  BY DEF TypeOK, TaskTypes, Begin
<1>3. LinkTypes'
  BY SnapAssumption DEF TypeOK, LinkTypes, Begin, Answer, JournalTypes
<1>4. GateTypes'
  BY SnapAssumption DEF TypeOK, GateTypes, Begin
<1>5. WorldTypes'
  BY DEF TypeOK, WorldTypes, Begin
<1> QED
  BY <1>1, <1>2, <1>3, <1>4, <1>5, <1>6 DEF TypeOK

\* Validate keeps every variable's type.
LEMMA TypeValidate ==
  ASSUME TypeOK, NEW c \in Cmds, NEW ready \in BOOLEAN, Validate(c, ready)
  PROVE  TypeOK'
<1>1. JournalTypes'
  BY DEF TypeOK, JournalTypes, Validate, Rejection
<1>6. StopTypes'
  BY DEF TypeOK, StopTypes, Validate, Rejection
<1>2. TaskTypes'
  BY DEF TypeOK, TaskTypes, Validate, Rejection
<1>3. LinkTypes'
  BY SnapAssumption DEF TypeOK, LinkTypes, Validate, Rejection
<1>4. GateTypes'
  BY SnapAssumption DEF TypeOK, GateTypes, Validate, Rejection
<1>5. WorldTypes'
  BY DEF TypeOK, WorldTypes, Validate, Rejection
<1> QED
  BY <1>1, <1>2, <1>3, <1>4, <1>5, <1>6 DEF TypeOK

\* Activate keeps every variable's type.
LEMMA TypeActivate ==
  ASSUME TypeOK, NEW c \in Cmds, Activate(c)
  PROVE  TypeOK'
<1>1. JournalTypes'
  BY DEF TypeOK, JournalTypes, Activate, WriteStop
<1>6. StopTypes'
  <2>1. rounds' \in 0..2
    BY DEF TypeOK, StopTypes, Activate, WriteStop
  <2>2. (stop \in BOOLEAN /\ cache \in BOOLEAN /\ cleared \in BOOLEAN)'
    BY DEF TypeOK, StopTypes, Activate, WriteStop
  <2>3. (seen \subseteq BOOLEAN)'
    BY DEF TypeOK, StopTypes, Activate, WriteStop
  <2> QED
    BY <2>1, <2>2, <2>3 DEF StopTypes
<1>2. TaskTypes'
  BY DEF TypeOK, TaskTypes, Activate, WriteStop
<1>3. LinkTypes'
  BY DEF TypeOK, LinkTypes, Activate, WriteStop
<1>4. GateTypes'
  BY DEF TypeOK, GateTypes, Activate, WriteStop
<1>5. WorldTypes'
  BY DEF TypeOK, WorldTypes, Activate, WriteStop
<1> QED
  BY <1>1, <1>2, <1>3, <1>4, <1>5, <1>6 DEF TypeOK

\* Refresh keeps every variable's type.
LEMMA TypeRefresh ==
  ASSUME TypeOK, NEW v \in BOOLEAN, Refresh(v)
  PROVE  TypeOK'
<1>1. JournalTypes'
  BY DEF TypeOK, JournalTypes, Refresh
<1>6. StopTypes'
  BY DEF TypeOK, StopTypes, Refresh
<1>2. TaskTypes'
  BY DEF TypeOK, TaskTypes, Refresh
<1>3. LinkTypes'
  BY DEF TypeOK, LinkTypes, Refresh
<1>4. GateTypes'
  BY DEF TypeOK, GateTypes, Refresh
<1>5. WorldTypes'
  BY DEF TypeOK, WorldTypes, Refresh
<1> QED
  BY <1>1, <1>2, <1>3, <1>4, <1>5, <1>6 DEF TypeOK

\* OperatorWrites keeps every variable's type.
LEMMA TypeOperatorWrites ==
  ASSUME TypeOK, NEW v \in BOOLEAN, OperatorWrites(v)
  PROVE  TypeOK'
<1>1. JournalTypes'
  BY DEF TypeOK, JournalTypes, OperatorWrites, WriteStop
<1>6. StopTypes'
  BY DEF TypeOK, StopTypes, OperatorWrites, WriteStop
<1>2. TaskTypes'
  BY DEF TypeOK, TaskTypes, OperatorWrites, WriteStop
<1>3. LinkTypes'
  BY DEF TypeOK, LinkTypes, OperatorWrites, WriteStop
<1>4. GateTypes'
  BY DEF TypeOK, GateTypes, OperatorWrites, WriteStop
<1>5. WorldTypes'
  BY DEF TypeOK, WorldTypes, OperatorWrites, WriteStop
<1> QED
  BY <1>1, <1>2, <1>3, <1>4, <1>5, <1>6 DEF TypeOK

\* Complete keeps every variable's type.
LEMMA TypeComplete ==
  ASSUME TypeOK, NEW c \in Cmds, Complete(c)
  PROVE  TypeOK'
<1>1. JournalTypes'
  BY DEF TypeOK, JournalTypes, Complete, TaskTypes
<1>6. StopTypes'
  BY DEF TypeOK, StopTypes, Complete, TaskTypes
<1>2. TaskTypes'
  BY DEF TypeOK, TaskTypes, Complete
<1>3. LinkTypes'
  BY SnapAssumption DEF TypeOK, LinkTypes, Complete
<1>4. GateTypes'
  BY SnapAssumption DEF TypeOK, GateTypes, Complete
<1>5. WorldTypes'
  BY DEF TypeOK, WorldTypes, Complete
<1> QED
  BY <1>1, <1>2, <1>3, <1>4, <1>5, <1>6 DEF TypeOK

\* AddReport keeps every variable's type.
LEMMA TypeAddReport ==
  ASSUME TypeOK, NEW c \in Cmds, AddReport(c)
  PROVE  TypeOK'
<1>1. JournalTypes'
  BY DEF TypeOK, JournalTypes, AddReport
<1>6. StopTypes'
  BY DEF TypeOK, StopTypes, AddReport
<1>2. TaskTypes'
  BY DEF TypeOK, TaskTypes, AddReport
<1>3. LinkTypes'
  BY SnapAssumption DEF TypeOK, LinkTypes, AddReport
<1>4. GateTypes'
  BY SnapAssumption DEF TypeOK, GateTypes, AddReport
<1>5. WorldTypes'
  BY DEF TypeOK, WorldTypes, AddReport
<1> QED
  BY <1>1, <1>2, <1>3, <1>4, <1>5, <1>6 DEF TypeOK

\* Ack keeps every variable's type.
LEMMA TypeAck ==
  ASSUME TypeOK, NEW c \in Cmds, Ack(c)
  PROVE  TypeOK'
<1>1. JournalTypes'
  BY DEF TypeOK, JournalTypes, Ack
<1>6. StopTypes'
  BY DEF TypeOK, StopTypes, Ack
<1>2. TaskTypes'
  BY DEF TypeOK, TaskTypes, Ack
<1>3. LinkTypes'
  BY SnapAssumption DEF TypeOK, LinkTypes, Ack, TaskTypes
<1>4. GateTypes'
  <2>1. CASE c \in detached
    BY <2>1 DEF TypeOK, GateTypes, Ack
  <2>2. CASE c \notin detached
    BY <2>2, TypeRefreshGate DEF TypeOK, Ack
  <2> QED
    BY <2>1, <2>2
<1>5. WorldTypes'
  BY DEF TypeOK, WorldTypes, Ack
<1> QED
  BY <1>1, <1>2, <1>3, <1>4, <1>5, <1>6 DEF TypeOK

\* NativeRefuse keeps every variable's type.
LEMMA TypeNativeRefuse ==
  ASSUME TypeOK, NEW c \in Cmds, NEW r \in {"PRE", "GATE"}, NativeRefuse(c, r)
  PROVE  TypeOK'
<1>1. JournalTypes'
  BY DEF TypeOK, JournalTypes, NativeRefuse, Return
<1>6. StopTypes'
  BY DEF TypeOK, StopTypes, NativeRefuse, Return
<1>2. TaskTypes'
  BY DEF TypeOK, TaskTypes, NativeRefuse, Return
<1>3. LinkTypes'
  BY SnapAssumption DEF TypeOK, LinkTypes, NativeRefuse, Return
<1>4. GateTypes'
  <2>1. CASE task[c] = "native" /\ r = "GATE"
    BY <2>1, TypeCloseGate DEF TypeOK, NativeRefuse, Return
  <2>2. CASE ~(task[c] = "native" /\ r = "GATE")
    BY <2>2 DEF TypeOK, GateTypes, NativeRefuse, Return
  <2> QED
    BY <2>1, <2>2
<1>5. WorldTypes'
  BY DEF TypeOK, WorldTypes, NativeRefuse, Return
<1> QED
  BY <1>1, <1>2, <1>3, <1>4, <1>5, <1>6 DEF TypeOK

\* NativeCheck keeps every variable's type.
LEMMA TypeNativeCheck ==
  ASSUME TypeOK, NEW c \in Cmds, NativeCheck(c)
  PROVE  TypeOK'
<1>1. JournalTypes'
  BY DEF TypeOK, JournalTypes, NativeCheck
<1>6. StopTypes'
  BY DEF TypeOK, StopTypes, NativeCheck
<1>2. TaskTypes'
  BY DEF TypeOK, TaskTypes, NativeCheck
<1>3. LinkTypes'
  BY SnapAssumption DEF TypeOK, LinkTypes, NativeCheck
<1>4. GateTypes'
  BY SnapAssumption DEF TypeOK, GateTypes, NativeCheck
<1>5. WorldTypes'
  BY DEF TypeOK, WorldTypes, NativeCheck
<1> QED
  BY <1>1, <1>2, <1>3, <1>4, <1>5, <1>6 DEF TypeOK

\* NativeCall keeps every variable's type.
LEMMA TypeNativeCall ==
  ASSUME TypeOK, NEW c \in Cmds, NEW effect \in BOOLEAN, NEW success \in BOOLEAN,
         NativeCall(c, effect, success)
  PROVE  TypeOK'
<1>1. JournalTypes'
  BY DEF TypeOK, JournalTypes, NativeCall, Return, CallOutcome
<1>6. StopTypes'
  BY DEF TypeOK, StopTypes, NativeCall, Return, CallOutcome
<1>2. TaskTypes'
  BY DEF TypeOK, TaskTypes, NativeCall, Return, CallOutcome
<1>3. LinkTypes'
  BY SnapAssumption DEF TypeOK, LinkTypes, NativeCall, Return, CallOutcome
<1>4. GateTypes'
  BY SnapAssumption DEF TypeOK, GateTypes, NativeCall, Return, CallOutcome
<1>5. WorldTypes'
  BY DEF TypeOK, WorldTypes, NativeCall, Return, CallOutcome
<1> QED
  BY <1>1, <1>2, <1>3, <1>4, <1>5, <1>6 DEF TypeOK

\* Snapshot keeps every variable's type.
LEMMA TypeSnapshot ==
  ASSUME TypeOK, NEW recon \in BOOLEAN, Snapshot(recon)
  PROVE  TypeOK'
<1>1. JournalTypes'
  BY DEF TypeOK, JournalTypes, Snapshot, ReconciledResult
<1>6. StopTypes'
  BY DEF TypeOK, StopTypes, Snapshot, ReconciledResult
<1>2. TaskTypes'
  BY DEF TypeOK, TaskTypes, Snapshot
<1>3. LinkTypes'
  BY SnapAssumption DEF TypeOK, LinkTypes, Snapshot
<1>4. GateTypes'
  BY SnapAssumption DEF TypeOK, GateTypes, Snapshot
<1>5. WorldTypes'
  BY DEF TypeOK, WorldTypes, Snapshot
<1> QED
  BY <1>1, <1>2, <1>3, <1>4, <1>5, <1>6 DEF TypeOK

\* SnapshotFails keeps every variable's type.
LEMMA TypeSnapshotFails ==
  ASSUME TypeOK, SnapshotFails
  PROVE  TypeOK'
<1>1. JournalTypes'
  BY DEF TypeOK, JournalTypes, SnapshotFails
<1>6. StopTypes'
  BY DEF TypeOK, StopTypes, SnapshotFails
<1>2. TaskTypes'
  BY DEF TypeOK, TaskTypes, SnapshotFails
<1>3. LinkTypes'
  BY SnapAssumption DEF TypeOK, LinkTypes, SnapshotFails
<1>4. GateTypes'
  BY SnapAssumption DEF TypeOK, GateTypes, SnapshotFails
<1>5. WorldTypes'
  BY DEF TypeOK, WorldTypes, SnapshotFails
<1> QED
  BY <1>1, <1>2, <1>3, <1>4, <1>5, <1>6 DEF TypeOK

\* AckSnapshot keeps every variable's type.
LEMMA TypeAckSnapshot ==
  ASSUME TypeOK, NEW i \in SnapIds, AckSnapshot(i)
  PROVE  TypeOK'
<1>1. JournalTypes'
  BY DEF TypeOK, JournalTypes, AckSnapshot
<1>6. StopTypes'
  BY DEF TypeOK, StopTypes, AckSnapshot
<1>2. TaskTypes'
  BY DEF TypeOK, TaskTypes, AckSnapshot
<1>3. LinkTypes'
  BY SnapAssumption DEF TypeOK, LinkTypes, AckSnapshot
<1>4. GateTypes'
  <2>1. CASE ~required \/ bound # i
    BY <2>1 DEF TypeOK, GateTypes, AckSnapshot
  <2>2. CASE required /\ bound = i /\ Processing # {}
    BY <2>2 DEF TypeOK, GateTypes, AckSnapshot
  <2>3. CASE required /\ bound = i /\ Processing = {} /\ SnapshotCurrent
    <3>1. required' = FALSE /\ indeterminate' = FALSE /\ healthy' = TRUE
      BY <2>3 DEF AckSnapshot
    <3>2. (required \in BOOLEAN /\ indeterminate \in BOOLEAN /\ healthy \in BOOLEAN)'
      BY <3>1
    <3> QED
      BY <2>3, <3>2 DEF TypeOK, GateTypes, AckSnapshot
  <2>4. CASE required /\ bound = i /\ Processing = {} /\ ~SnapshotCurrent
    BY <2>4, TypeCloseGate DEF TypeOK, AckSnapshot
  <2> QED
    BY <2>1, <2>2, <2>3, <2>4 DEF TypeOK, GateTypes
<1>5. WorldTypes'
  BY DEF TypeOK, WorldTypes, AckSnapshot
<1> QED
  BY <1>1, <1>2, <1>3, <1>4, <1>5, <1>6 DEF TypeOK

\* NoticeUnready keeps every variable's type.
LEMMA TypeNoticeUnready ==
  ASSUME TypeOK, NoticeUnready
  PROVE  TypeOK'
<1>1. JournalTypes'
  BY DEF TypeOK, JournalTypes, NoticeUnready
<1>6. StopTypes'
  BY DEF TypeOK, StopTypes, NoticeUnready
<1>2. TaskTypes'
  BY DEF TypeOK, TaskTypes, NoticeUnready
<1>3. LinkTypes'
  BY SnapAssumption DEF TypeOK, LinkTypes, NoticeUnready
<1>4. GateTypes'
  BY SnapAssumption DEF TypeOK, GateTypes, NoticeUnready
<1>5. WorldTypes'
  BY DEF TypeOK, WorldTypes, NoticeUnready
<1> QED
  BY <1>1, <1>2, <1>3, <1>4, <1>5, <1>6 DEF TypeOK

\* NoticeResolved keeps every variable's type.
LEMMA TypeNoticeResolved ==
  ASSUME TypeOK, NoticeResolved
  PROVE  TypeOK'
<1>1. JournalTypes'
  BY DEF TypeOK, JournalTypes, NoticeResolved
<1>6. StopTypes'
  BY DEF TypeOK, StopTypes, NoticeResolved
<1>2. TaskTypes'
  BY DEF TypeOK, TaskTypes, NoticeResolved
<1>3. LinkTypes'
  BY SnapAssumption DEF TypeOK, LinkTypes, NoticeResolved
<1>4. GateTypes'
  BY TypeRefreshGate DEF TypeOK, NoticeResolved
<1>5. WorldTypes'
  BY DEF TypeOK, WorldTypes, NoticeResolved
<1> QED
  BY <1>1, <1>2, <1>3, <1>4, <1>5, <1>6 DEF TypeOK

\* Connect keeps every variable's type.
LEMMA TypeConnect ==
  ASSUME TypeOK, Connect
  PROVE  TypeOK'
<1>1. JournalTypes'
  BY DEF TypeOK, JournalTypes, Connect
<1>6. StopTypes'
  BY DEF TypeOK, StopTypes, Connect
<1>2. TaskTypes'
  BY DEF TypeOK, TaskTypes, Connect
<1>3. LinkTypes'
  BY SnapAssumption DEF TypeOK, LinkTypes, Connect
<1>4. GateTypes'
  BY SnapAssumption DEF TypeOK, GateTypes, Connect
<1>5. WorldTypes'
  BY DEF TypeOK, WorldTypes, Connect
<1> QED
  BY <1>1, <1>2, <1>3, <1>4, <1>5, <1>6 DEF TypeOK

\* SessionLost keeps every variable's type.
LEMMA TypeSessionLost ==
  ASSUME TypeOK, NEW dropped \in SUBSET Cmds, SessionLost(dropped)
  PROVE  TypeOK'
<1>1. JournalTypes'
  BY DEF TypeOK, JournalTypes, SessionLost
<1>6. StopTypes'
  BY DEF TypeOK, StopTypes, SessionLost
<1>2. TaskTypes'
  BY DEF TypeOK, TaskTypes, SessionLost
<1>3. LinkTypes'
  BY SnapAssumption DEF TypeOK, LinkTypes, SessionLost
<1>4. GateTypes'
  BY SnapAssumption DEF TypeOK, GateTypes, SessionLost
<1>5. WorldTypes'
  BY DEF TypeOK, WorldTypes, SessionLost
<1> QED
  BY <1>1, <1>2, <1>3, <1>4, <1>5, <1>6 DEF TypeOK

\* Crash keeps every variable's type.
LEMMA TypeCrash ==
  ASSUME TypeOK, Crash
  PROVE  TypeOK'
<1>1. JournalTypes'
  BY DEF TypeOK, JournalTypes, Crash, Survives
<1>6. StopTypes'
  BY DEF TypeOK, StopTypes, Crash, Survives
<1>2. TaskTypes'
  BY DEF TypeOK, TaskTypes, Crash, Survives
<1>3. LinkTypes'
  BY SnapAssumption DEF TypeOK, LinkTypes, Crash, Survives
<1>4. GateTypes'
  BY SnapAssumption DEF TypeOK, GateTypes, Crash, Survives
<1>5. WorldTypes'
  BY DEF TypeOK, WorldTypes, Crash, Survives
<1> QED
  BY <1>1, <1>2, <1>3, <1>4, <1>5, <1>6 DEF TypeOK

\* Prune keeps every variable's type.
LEMMA TypePrune ==
  ASSUME TypeOK, NEW c \in Cmds, Prune(c)
  PROVE  TypeOK'
<1>1. JournalTypes'
  BY DEF TypeOK, JournalTypes, Prune
<1>6. StopTypes'
  BY DEF TypeOK, StopTypes, Prune
<1>2. TaskTypes'
  BY DEF TypeOK, TaskTypes, Prune
<1>3. LinkTypes'
  BY SnapAssumption DEF TypeOK, LinkTypes, Prune
<1>4. GateTypes'
  BY SnapAssumption DEF TypeOK, GateTypes, Prune
<1>5. WorldTypes'
  BY DEF TypeOK, WorldTypes, Prune
<1> QED
  BY <1>1, <1>2, <1>3, <1>4, <1>5, <1>6 DEF TypeOK

\* Expire keeps every variable's type.
LEMMA TypeExpire ==
  ASSUME TypeOK, NEW c \in Cmds, Expire(c)
  PROVE  TypeOK'
<1>1. JournalTypes'
  BY DEF TypeOK, JournalTypes, Expire
<1>6. StopTypes'
  BY DEF TypeOK, StopTypes, Expire
<1>2. TaskTypes'
  BY DEF TypeOK, TaskTypes, Expire
<1>3. LinkTypes'
  BY SnapAssumption DEF TypeOK, LinkTypes, Expire
<1>4. GateTypes'
  BY SnapAssumption DEF TypeOK, GateTypes, Expire
<1>5. WorldTypes'
  BY DEF TypeOK, WorldTypes, Expire
<1> QED
  BY <1>1, <1>2, <1>3, <1>4, <1>5, <1>6 DEF TypeOK

\* OrderEvent keeps every variable's type.
LEMMA TypeOrderEvent ==
  ASSUME TypeOK, NEW p \in Place, NEW s \in Terminal, NEW fails \in BOOLEAN,
         OrderEvent(p, s, fails)
  PROVE  TypeOK'
<1>1. JournalTypes'
  BY DEF TypeOK, JournalTypes, OrderEvent, Terminal
<1>6. StopTypes'
  BY DEF TypeOK, StopTypes, OrderEvent, Terminal
<1>2. TaskTypes'
  BY DEF TypeOK, TaskTypes, OrderEvent, Terminal
<1>3. LinkTypes'
  BY SnapAssumption DEF TypeOK, LinkTypes, OrderEvent, Terminal
<1>4. GateTypes'
  BY SnapAssumption DEF TypeOK, GateTypes, OrderEvent, Terminal
<1>5. WorldTypes'
  BY DEF TypeOK, WorldTypes, OrderEvent, Terminal
<1> QED
  BY <1>1, <1>2, <1>3, <1>4, <1>5, <1>6 DEF TypeOK

\* Disconnect keeps every variable's type.
LEMMA TypeDisconnect ==
  ASSUME TypeOK, Disconnect
  PROVE  TypeOK'
<1>1. JournalTypes'
  BY DEF TypeOK, JournalTypes, Disconnect
<1>6. StopTypes'
  BY DEF TypeOK, StopTypes, Disconnect
<1>2. TaskTypes'
  BY DEF TypeOK, TaskTypes, Disconnect
<1>3. LinkTypes'
  BY SnapAssumption DEF TypeOK, LinkTypes, Disconnect
<1>4. GateTypes'
  BY SnapAssumption DEF TypeOK, GateTypes, Disconnect
<1>5. WorldTypes'
  BY DEF TypeOK, WorldTypes, Disconnect
<1> QED
  BY <1>1, <1>2, <1>3, <1>4, <1>5, <1>6 DEF TypeOK

\* Reconnect keeps every variable's type.
LEMMA TypeReconnect ==
  ASSUME TypeOK, Reconnect
  PROVE  TypeOK'
<1>1. JournalTypes'
  BY DEF TypeOK, JournalTypes, Reconnect
<1>6. StopTypes'
  BY DEF TypeOK, StopTypes, Reconnect
<1>2. TaskTypes'
  BY DEF TypeOK, TaskTypes, Reconnect
<1>3. LinkTypes'
  BY SnapAssumption DEF TypeOK, LinkTypes, Reconnect
<1>4. GateTypes'
  BY SnapAssumption DEF TypeOK, GateTypes, Reconnect
<1>5. WorldTypes'
  BY DEF TypeOK, WorldTypes, Reconnect
<1> QED
  BY <1>1, <1>2, <1>3, <1>4, <1>5, <1>6 DEF TypeOK

\* Every variable keeps its type in every reachable state.
THEOREM TypeCorrect == Spec => []TypeOK
<1>1. Init => TypeOK
  BY TypeInit
<1>2. TypeOK /\ [Next]_vars => TypeOK'
  <2> SUFFICES ASSUME TypeOK, [Next]_vars PROVE TypeOK'
    OBVIOUS
  <2>1. CASE UNCHANGED vars
    BY <2>1 DEF vars, TypeOK, JournalTypes, StopTypes, TaskTypes, LinkTypes,
         GateTypes, WorldTypes
  <2>2. ASSUME NEW c \in Cmds, Handler(c) PROVE TypeOK'
    BY <2>2, TypeValidate, TypeActivate, TypeComplete, TypeAddReport, TypeAck DEF Handler
  <2>3. ASSUME NEW c \in Cmds, NativeLane(c) PROVE TypeOK'
    BY <2>3, TypeNativeRefuse, TypeNativeCheck, TypeNativeCall DEF NativeLane
  <2>4. CASE Next
    BY <2>2, <2>3, <2>4, TypeDeliver, TypeBegin, TypePrune, TypeExpire,
       TypeSnapshot, TypeSnapshotFails, TypeNoticeUnready, TypeNoticeResolved,
       TypeAckSnapshot, TypeSessionLost, TypeConnect, TypeCrash, TypeDisconnect,
       TypeReconnect, TypeOrderEvent, TypeRefresh, TypeOperatorWrites DEF Next
  <2> QED
    BY <2>1, <2>4
<1> QED
  BY <1>1, <1>2, PTL DEF Spec

-----------------------------------------------------------------------------
(* PLACE commands: at most one submission, truthful refusals, equal acks.    *)

\* A PLACE command is a command.
LEMMA PlaceIsCmd == Place \subseteq Cmds
BY DEF Cmds

\* No PLACE command has a row, a call or an ack at first.
LEMMA PlaceInit == ASSUME Init, NEW p \in Place PROVE PlaceInv(p)
BY PlaceIsCmd DEF Init, PlaceInv, Together, Submitted, Refused, RefusedForGood,
   Acked, AcksAgree, Working, Refusals, Unreachable

\* A step that leaves p alone and sends no frame of an expired command.
LEMMA PlaceUntouched ==
  ASSUME NEW p \in Place, PlaceInv(p),
         task'[p] = task[p], nat'[p] = nat[p], status'[p] = status[p],
         result'[p] = result[p], outcome'[p] = outcome[p],
         submits'[p] = submits[p], expired[p] => expired'[p],
         p \in mapped' => p \in mapped, p \in reports' => p \in reports,
         \A r \in Results : <<p, r>> \in acks' => <<p, r>> \in acks,
         expired[p] => \A d \in Digests : <<p, d>> \in wire' => <<p, d>> \in wire
  PROVE  PlaceInv(p)'
<1>1. Unreachable(p) => Unreachable(p)'
  BY DEF Unreachable
<1>2. Together(p)'
  BY DEF PlaceInv, Together, Working, Refusals
<1>3. Submitted(p)'
  BY <1>1 DEF PlaceInv, Submitted
<1>4. Refused(p)' => Refused(p)
  BY DEF Refused, Refusals
<1>5. RefusedForGood(p)'
  BY <1>1, <1>4 DEF PlaceInv, RefusedForGood
<1>6. Acked(p)' /\ AcksAgree(p)'
  BY <1>1 DEF PlaceInv, Acked, AcksAgree
<1> QED
  BY <1>2, <1>3, <1>5, <1>6 DEF PlaceInv

\* The actions that never touch a PLACE command.
LEMMA PlaceQuiet ==
  ASSUME TypeOK, NEW p \in Place, PlaceInv(p),
         \/ SnapshotFails \/ NoticeUnready \/ NoticeResolved \/ Connect
         \/ Disconnect \/ Reconnect
         \/ \E i \in SnapIds : AckSnapshot(i)
         \/ \E q \in Place, t \in Terminal, fails \in BOOLEAN : OrderEvent(q, t, fails)
         \/ \E v \in BOOLEAN : Refresh(v) \/ OperatorWrites(v)
  PROVE  PlaceInv(p)'
<1>1. UNCHANGED <<task, nat, status, result, outcome, submits, expired, mapped,
                  reports, acks, wire>>
  BY DEF SnapshotFails, NoticeUnready, NoticeResolved, Connect, Disconnect,
     Reconnect, AckSnapshot, OrderEvent, Refresh, OperatorWrites
<1> QED
  BY <1>1, PlaceUntouched

\* Expire keeps the invariant of a PLACE command.
LEMMA PlaceExpire ==
  ASSUME TypeOK, NEW p \in Place, PlaceInv(p), NEW c \in Cmds, Expire(c)
  PROVE  PlaceInv(p)'
<1>1. expired[p] => expired'[p]
  BY PlaceIsCmd DEF Expire, TypeOK, WorldTypes
<1> QED
  BY <1>1, PlaceUntouched DEF Expire

\* Deliver keeps the invariant of a PLACE command.
LEMMA PlaceDeliver ==
  ASSUME TypeOK, NEW p \in Place, PlaceInv(p), NEW c \in Cmds, NEW d \in Digests,
         Deliver(c, d)
  PROVE  PlaceInv(p)'
BY PlaceUntouched DEF Deliver

\* A snapshot never completes a PLACE row: it would need the broker order id
\* that only a completed row has.
LEMMA PlaceSnapshot ==
  ASSUME TypeOK, NEW p \in Place, PlaceInv(p), NEW recon \in BOOLEAN, Snapshot(recon)
  PROVE  PlaceInv(p)'
<1>1. ~Reconciled(p)
  BY KindsAssumption DEF PlaceInv, Together, Reconciled
<1>2. status'[p] = status[p] /\ result'[p] = result[p]
  BY <1>1, PlaceIsCmd DEF Snapshot
<1> QED
  BY <1>2, PlaceUntouched DEF Snapshot

\* Crash keeps the invariant of a PLACE command.
LEMMA PlaceCrash ==
  ASSUME TypeOK, NEW p \in Place, PlaceInv(p), Crash
  PROVE  PlaceInv(p)'
<1>1. /\ task'[p] = "idle" /\ nat'[p] = "none" /\ outcome'[p] = "NONE"
      /\ UNCHANGED <<status, result, submits, expired, mapped, reports, acks>>
      /\ wire' = {}
  BY PlaceIsCmd DEF Crash, Survives
<1> QED
  BY <1>1 DEF PlaceInv, Together, Submitted, Refused, RefusedForGood, Acked,
     AcksAgree, Working, Refusals, Unreachable

\* SessionLost keeps the invariant of a PLACE command.
LEMMA PlaceSessionLost ==
  ASSUME TypeOK, NEW p \in Place, PlaceInv(p), NEW dropped \in SUBSET Cmds,
         SessionLost(dropped)
  PROVE  PlaceInv(p)'
<1>1. /\ \/ task'[p] = task[p] /\ outcome'[p] = outcome[p]
            /\ task[p] \notin {"begun", "native", "ack"}
         \/ task'[p] = "idle" /\ outcome'[p] = "NONE"
      /\ UNCHANGED <<nat, status, result, submits, expired, mapped, reports, acks>>
      /\ wire' = {}
  BY PlaceIsCmd DEF SessionLost
<1> QED
  BY <1>1 DEF PlaceInv, Together, Submitted, Refused, RefusedForGood, Acked,
     AcksAgree, Working, Refusals, Unreachable

\* Begin keeps the invariant of a PLACE command.
LEMMA PlaceBegin ==
  ASSUME TypeOK, NEW p \in Place, PlaceInv(p), NEW c \in Cmds, NEW d \in Digests,
         Begin(c, d)
  PROVE  PlaceInv(p)'
<1>1. CASE c # p
  BY <1>1, PlaceUntouched, PlaceIsCmd
     DEF Begin, Answer, TypeOK, JournalTypes, TaskTypes, WorldTypes
<1>2. CASE c = p
  <2>1. \/ /\ status[p] = "ABSENT" /\ <<p, d>> \in wire
           /\ status'[p] = "PROCESSING" /\ task'[p] = "begun" /\ acks' = acks
        \/ /\ status'[p] = status[p] /\ task'[p] = task[p]
           /\ status[p] = "COMPLETED" /\ acks' = acks \cup {<<p, result[p]>>}
        \/ status'[p] = status[p] /\ task'[p] = task[p] /\ acks' = acks
    BY <1>2, PlaceIsCmd DEF Begin, Answer, TypeOK, JournalTypes, TaskTypes, LinkTypes,
       WorldTypes
  <2>2. UNCHANGED <<nat, result, outcome, submits, expired, mapped, reports>> /\ wire' \subseteq wire
    BY DEF Begin, Answer
  <2> QED
    BY <2>1, <2>2 DEF PlaceInv, Together, Submitted, Refused, RefusedForGood, Acked,
       AcksAgree, Working, Refusals, Unreachable
<1> QED
  BY <1>1, <1>2

\* Validate keeps the invariant of a PLACE command.
LEMMA PlaceValidate ==
  ASSUME TypeOK, NEW p \in Place, PlaceInv(p), NEW c \in Cmds, NEW ready \in BOOLEAN,
         Validate(c, ready)
  PROVE  PlaceInv(p)'
<1>1. CASE c # p
  BY <1>1, PlaceUntouched, PlaceIsCmd
     DEF Validate, Rejection, TypeOK, JournalTypes, TaskTypes, WorldTypes
<1>2. CASE c = p
  <2>1. /\ task[p] = "begun"
        /\ \/ /\ task'[p] = "reject" /\ outcome'[p] \in Refusals
              /\ nat'[p] = nat[p]
           \/ /\ task'[p] = "native" /\ outcome'[p] = outcome[p]
              /\ nat'[p] = "queued"
    BY <1>2, PlaceIsCmd, KindsAssumption DEF Validate, Rejection, Refusals, TypeOK,
       TaskTypes
  <2>2. UNCHANGED <<status, result, submits, expired, mapped, reports, acks, wire>>
    BY DEF Validate, Rejection
  <2> QED
    BY <2>1, <2>2 DEF PlaceInv, Together, Submitted, Refused, RefusedForGood, Acked,
       AcksAgree, Working, Refusals, Unreachable
<1> QED
  BY <1>1, <1>2

\* Activate is about a stop and leaves PLACE commands alone.
LEMMA PlaceActivate ==
  ASSUME TypeOK, NEW p \in Place, PlaceInv(p), NEW c \in Cmds, Activate(c)
  PROVE  PlaceInv(p)'
<1>1. c # p
  BY KindsAssumption DEF Activate
<1> QED
  BY <1>1, PlaceUntouched, PlaceIsCmd DEF Activate, TypeOK, TaskTypes

\* NativeRefuse keeps the invariant of a PLACE command.
LEMMA PlaceNativeRefuse ==
  ASSUME TypeOK, NEW p \in Place, PlaceInv(p), NEW c \in Cmds, NEW r \in Refusals,
         NativeRefuse(c, r)
  PROVE  PlaceInv(p)'
<1>1. CASE c # p
  BY <1>1, PlaceUntouched, PlaceIsCmd
     DEF NativeRefuse, Return, MayStart, TypeOK, JournalTypes, TaskTypes, WorldTypes
<1>2. CASE c = p
  <2>1. /\ nat[p] # "none" /\ nat'[p] = "none"
        /\ \/ /\ task[p] = "native" /\ task'[p] \in {"reject", "outcome"}
              /\ outcome'[p] \in Refusals
           \/ task[p] # "native" /\ task'[p] = task[p] /\ outcome'[p] = outcome[p]
    BY <1>2, PlaceIsCmd DEF NativeRefuse, Return, MayStart, TypeOK, TaskTypes
  <2>2. UNCHANGED <<status, result, submits, expired, mapped, reports, acks, wire>>
    BY DEF NativeRefuse, Return, MayStart
  <2> QED
    BY <2>1, <2>2 DEF PlaceInv, Together, Submitted, Refused, RefusedForGood, Acked,
       AcksAgree, Working, Refusals, Unreachable
<1> QED
  BY <1>1, <1>2

\* NativeCheck keeps the invariant of a PLACE command.
LEMMA PlaceNativeCheck ==
  ASSUME TypeOK, NEW p \in Place, PlaceInv(p), NEW c \in Cmds, 
         NativeCheck(c)
  PROVE  PlaceInv(p)'
<1>1. CASE c # p
  BY <1>1, PlaceUntouched, PlaceIsCmd
     DEF NativeCheck, MayStart, TypeOK, JournalTypes, TaskTypes, WorldTypes
<1>2. CASE c = p
  <2>1. nat[p] # "none" /\ nat'[p] # "none"
    BY <1>2, PlaceIsCmd DEF NativeCheck, MayStart, TypeOK, TaskTypes
  <2>2. UNCHANGED <<task, outcome, status, result, submits, expired, mapped, reports, acks, wire>>
    BY DEF NativeCheck, MayStart
  <2> QED
    BY <2>1, <2>2 DEF PlaceInv, Together, Submitted, Refused, RefusedForGood, Acked,
       AcksAgree, Working, Refusals, Unreachable
<1> QED
  BY <1>1, <1>2

\* NativeCall keeps the invariant of a PLACE command.
LEMMA PlaceNativeCall ==
  ASSUME TypeOK, NEW p \in Place, PlaceInv(p), NEW c \in Cmds, NEW effect \in BOOLEAN,
         NEW success \in BOOLEAN,
         NativeCall(c, effect, success)
  PROVE  PlaceInv(p)'
<1>1. CASE c # p
  BY <1>1, PlaceUntouched, PlaceIsCmd
     DEF NativeCall, Return, CallOutcome, TypeOK, JournalTypes, TaskTypes, WorldTypes
<1>2. CASE c = p
  <2>1. /\ nat[p] # "none" /\ nat'[p] = "none"
        /\ submits'[p] \in {submits[p], submits[p] + 1}
        /\ \/ /\ task[p] = "native" /\ task'[p] = "outcome"
              /\ outcome'[p] \in {"ACCEPTED", "FAIL"}
           \/ task[p] # "native" /\ task'[p] = task[p] /\ outcome'[p] = outcome[p]
    BY <1>2, PlaceIsCmd DEF NativeCall, Return, CallOutcome, TypeOK, TaskTypes, WorldTypes
  <2>2. UNCHANGED <<status, result, expired, mapped, reports, acks, wire>>
    BY DEF NativeCall, Return, CallOutcome
  <2> QED
    BY <2>1, <2>2 DEF PlaceInv, Together, Submitted, Refused, RefusedForGood, Acked,
       AcksAgree, Working, Refusals, Unreachable
<1> QED
  BY <1>1, <1>2

\* Complete keeps the invariant of a PLACE command.
LEMMA PlaceComplete ==
  ASSUME TypeOK, NEW p \in Place, PlaceInv(p), NEW c \in Cmds, 
         Complete(c)
  PROVE  PlaceInv(p)'
<1>1. CASE c # p
  BY <1>1, PlaceUntouched, PlaceIsCmd
     DEF Complete, TypeOK, JournalTypes, TaskTypes, WorldTypes
<1>2. CASE c = p
  <2>1. /\ \/ task[p] = "outcome" /\ task'[p] = "ack"
           \/ task[p] = "reject" /\ task'[p] = "report"
        /\ status[p] = "PROCESSING" =>
             status'[p] = "COMPLETED" /\ result'[p] = outcome[p]
    BY <1>2, PlaceIsCmd DEF Complete, TypeOK, JournalTypes, TaskTypes
  <2>2. UNCHANGED <<nat, outcome, submits, expired, reports, acks, wire>>
    BY DEF Complete
  <2> QED
    BY <2>1, <2>2 DEF PlaceInv, Together, Submitted, Refused, RefusedForGood, Acked,
       AcksAgree, Working, Refusals, Unreachable
<1> QED
  BY <1>1, <1>2

\* AddReport keeps the invariant of a PLACE command.
LEMMA PlaceAddReport ==
  ASSUME TypeOK, NEW p \in Place, PlaceInv(p), NEW c \in Cmds, 
         AddReport(c)
  PROVE  PlaceInv(p)'
<1>1. CASE c # p
  BY <1>1, PlaceUntouched, PlaceIsCmd
     DEF AddReport, TypeOK, JournalTypes, TaskTypes, WorldTypes
<1>2. CASE c = p
  <2>1. task[p] = "report" /\ task'[p] = "ack"
    BY <1>2, PlaceIsCmd DEF AddReport, TypeOK, TaskTypes
  <2>2. UNCHANGED <<nat, outcome, status, result, submits, expired, mapped, acks, wire>>
    BY DEF AddReport
  <2> QED
    BY <2>1, <2>2 DEF PlaceInv, Together, Submitted, Refused, RefusedForGood, Acked,
       AcksAgree, Working, Refusals, Unreachable
<1> QED
  BY <1>1, <1>2

\* Ack keeps the invariant of a PLACE command.
LEMMA PlaceAck ==
  ASSUME TypeOK, NEW p \in Place, PlaceInv(p), NEW c \in Cmds, 
         Ack(c)
  PROVE  PlaceInv(p)'
<1>1. CASE c # p
  BY <1>1, PlaceUntouched, PlaceIsCmd
     DEF Ack, TypeOK, JournalTypes, TaskTypes, WorldTypes
<1>2. CASE c = p
  <2>1. /\ task[p] = "ack" /\ task'[p] = "idle" /\ outcome'[p] = "NONE"
        /\ acks' \in {acks, acks \cup {<<p, outcome[p]>>}}
    BY <1>2, PlaceIsCmd DEF Ack, TypeOK, TaskTypes
  <2>2. UNCHANGED <<nat, status, result, submits, expired, mapped, reports, wire>>
    BY DEF Ack
  <2> QED
    BY <2>1, <2>2 DEF PlaceInv, Together, Submitted, Refused, RefusedForGood, Acked,
       AcksAgree, Working, Refusals, Unreachable
<1> QED
  BY <1>1, <1>2

\* Prune keeps the invariant of a PLACE command.
LEMMA PlacePrune ==
  ASSUME TypeOK, NEW p \in Place, PlaceInv(p), NEW c \in Cmds, 
         Prune(c)
  PROVE  PlaceInv(p)'
<1>1. CASE c # p
  BY <1>1, PlaceUntouched, PlaceIsCmd
     DEF Prune, TypeOK, JournalTypes, TaskTypes, WorldTypes
<1>2. CASE c = p
  <2>1. /\ task[p] = "idle" /\ nat[p] = "none" /\ Unreachable(p)
        /\ status'[p] = "ABSENT" /\ result'[p] = "NONE"
        /\ status[p] = "COMPLETED" /\ mapped' = mapped \ {p}
    BY <1>2, PlaceIsCmd DEF Prune, Unreachable, TypeOK, JournalTypes
  <2>2. UNCHANGED <<task, nat, outcome, submits, expired, reports, acks, wire>>
    BY DEF Prune
  <2> QED
    BY <2>1, <2>2 DEF PlaceInv, Together, Submitted, Refused, RefusedForGood, Acked,
       AcksAgree, Working, Refusals, Unreachable
<1> QED
  BY <1>1, <1>2

\* Every step keeps the invariant of a PLACE command.
LEMMA PlaceStep ==
  ASSUME TypeOK, NEW p \in Place, PlaceInv(p), [Next]_vars
  PROVE  PlaceInv(p)'
<1>1. CASE UNCHANGED vars
  BY <1>1, PlaceUntouched DEF vars
<1>2. ASSUME NEW c \in Cmds, Handler(c) PROVE PlaceInv(p)'
  BY <1>2, PlaceValidate, PlaceActivate, PlaceComplete, PlaceAddReport, PlaceAck DEF Handler
<1>3. ASSUME NEW c \in Cmds, NativeLane(c) PROVE PlaceInv(p)'
  BY <1>3, PlaceNativeRefuse, PlaceNativeCheck, PlaceNativeCall
     DEF NativeLane, Refusals
<1>4. CASE Next
  BY <1>2, <1>3, <1>4, PlaceDeliver, PlaceBegin, PlacePrune, PlaceExpire,
     PlaceSnapshot, PlaceQuiet, PlaceSessionLost, PlaceCrash DEF Next
<1> QED
  BY <1>1, <1>4

\* The invariant of every PLACE command, for any number of them.
LEMMA PlaceInvariant == Spec => [](\A p \in Place : PlaceInv(p))
<1>1. Init => \A p \in Place : PlaceInv(p)
  BY PlaceInit
<1>2. TypeOK /\ (\A p \in Place : PlaceInv(p)) /\ [Next]_vars
        => (\A p \in Place : PlaceInv(p))'
  BY PlaceStep
<1> QED
  BY <1>1, <1>2, TypeCorrect, PTL DEF Spec

\* One PLACE command submits at most one order, for any number of commands,
\* frames, crashes, session losses and prunes.
THEOREM OrderAtMostOnce == Spec => []AtMostOnce
<1>1. (\A p \in Place : PlaceInv(p)) => AtMostOnce
  BY DEF PlaceInv, Submitted, AtMostOnce
<1> QED
  BY <1>1, PlaceInvariant, PTL

\* A command the Agent refused before execution never reached the broker.
THEOREM RefusalsAreTruthful == Spec => []PreRejectionTruthful
<1>1. (\A p \in Place : PlaceInv(p)) => PreRejectionTruthful
  BY DEF PlaceInv, RefusedForGood, Refused, Refusals, PreRejectionTruthful
<1> QED
  BY <1>1, PlaceInvariant, PTL

\* All final answers to a PLACE command are equal.
THEOREM FinalAcksAgree == Spec => []PlaceAcksAgree
<1>1. (\A p \in Place : PlaceInv(p)) => PlaceAcksAgree
  BY DEF PlaceInv, AcksAgree, PlaceAcksAgree
<1> QED
  BY <1>1, PlaceInvariant, PTL

-----------------------------------------------------------------------------
(* The order gate.                                                           *)

\* Every step keeps RowInv: a row goes only when its handler is done.
LEMMA RowStep ==
  ASSUME TypeOK, RowInv, [Next]_vars
  PROVE  RowInv'
<1> SUFFICES ASSUME NEW k \in Cmds
             PROVE  /\ task'[k] # "idle" => status'[k] # "ABSENT"
                    /\ k \in detached' => task'[k] # "idle"
  BY DEF RowInv
<1> DEFINE Kept == /\ task'[k] # "idle" => status'[k] # "ABSENT"
                   /\ k \in detached' => task'[k] # "idle"
<1> USE DEF TypeOK, JournalTypes, TaskTypes, RowInv
<1>1. CASE UNCHANGED <<task, status, detached>>
  BY <1>1
<1>2. ASSUME NEW c \in Cmds, Handler(c) PROVE Kept
  <2>1. ASSUME NEW ready \in BOOLEAN, Validate(c, ready) PROVE Kept
    BY <2>1 DEF Validate
  <2>2. CASE Activate(c)
    BY <2>2 DEF Activate
  <2>3. CASE Complete(c)
    BY <2>3 DEF Complete
  <2>4. CASE AddReport(c)
    BY <2>4 DEF AddReport
  <2>5. CASE Ack(c)
    BY <2>5 DEF Ack
  <2> QED
    BY <1>2, <2>1, <2>2, <2>3, <2>4, <2>5 DEF Handler
<1>3. ASSUME NEW c \in Cmds, NativeLane(c) PROVE Kept
  <2>1. ASSUME NEW r \in {"PRE", "GATE"}, NativeRefuse(c, r) PROVE Kept
    BY <2>1 DEF NativeRefuse, Return
  <2>2. CASE NativeCheck(c)
    BY <2>2, <1>1 DEF NativeCheck
  <2>3. ASSUME NEW effect \in BOOLEAN, NEW success \in BOOLEAN,
               NativeCall(c, effect, success)
        PROVE  Kept
    BY <2>3 DEF NativeCall, Return
  <2> QED
    BY <1>3, <2>1, <2>2, <2>3 DEF NativeLane
<1>4. ASSUME NEW c \in Cmds, NEW d \in Digests, Begin(c, d) PROVE Kept
  BY <1>4 DEF Begin
<1>5. ASSUME NEW c \in Cmds, Prune(c) PROVE Kept
  BY <1>5 DEF Prune
<1>6. ASSUME NEW recon \in BOOLEAN, Snapshot(recon) PROVE Kept
  BY <1>6 DEF Snapshot
<1>7. ASSUME NEW dropped \in SUBSET Cmds, SessionLost(dropped) PROVE Kept
  BY <1>7 DEF SessionLost
<1>8. CASE Crash
  BY <1>8 DEF Crash
<1>9. ASSUME \/ UNCHANGED vars
             \/ \E c \in Cmds, d \in Digests : Deliver(c, d)
             \/ \E c \in Cmds : Expire(c)
             \/ SnapshotFails \/ NoticeUnready \/ NoticeResolved \/ Connect
             \/ Disconnect \/ Reconnect
             \/ \E i \in SnapIds : AckSnapshot(i)
             \/ \E p \in Place, t \in Terminal, fails \in BOOLEAN :
                  OrderEvent(p, t, fails)
             \/ \E v \in BOOLEAN : Refresh(v) \/ OperatorWrites(v)
      PROVE  Kept
  BY <1>1, <1>9 DEF vars, Deliver, Expire, SnapshotFails, NoticeUnready,
     NoticeResolved, Connect, Disconnect, Reconnect, AckSnapshot, OrderEvent,
     Refresh, OperatorWrites
<1> QED
  BY <1>2, <1>3, <1>4, <1>5, <1>6, <1>7, <1>8, <1>9 DEF Next

\* Every step keeps GateInv: one case per action that can end a handler or
\* open the gate.
LEMMA GateStep ==
  ASSUME TypeOK, RowInv, GateInv, [Next]_vars
  PROVE  GateInv'
<1> SUFFICES ASSUME (conn = "online" /\ ~required)', NEW k \in Cmds,
                    status'[k] = "PROCESSING"
             PROVE  task'[k] \in Working /\ k \notin detached'
  BY DEF GateInv
<1> DEFINE Known == task'[k] \in Working /\ k \notin detached'
<1> USE DEF TypeOK, JournalTypes, TaskTypes, Working
<1>1. CASE UNCHANGED vars
  BY <1>1 DEF vars, GateInv
<1>2. ASSUME NEW c \in Cmds, Handler(c) PROVE Known
  <2>1. ASSUME NEW ready \in BOOLEAN, Validate(c, ready) PROVE Known
    BY <2>1 DEF Validate, GateInv
  <2>2. CASE Complete(c)
    BY <2>2 DEF Complete, GateInv
  <2>3. CASE AddReport(c)
    BY <2>3 DEF AddReport, GateInv
  <2>4. CASE Ack(c)
    BY <2>4 DEF Ack, GateInv
  <2>5. CASE Activate(c)
    BY <2>5 DEF Activate, GateInv
  <2> QED
    BY <1>2, <2>1, <2>2, <2>3, <2>4, <2>5 DEF Handler
<1>3. ASSUME NEW c \in Cmds, NativeLane(c) PROVE Known
  <2>1. ASSUME NEW r \in {"PRE", "GATE"}, NativeRefuse(c, r)
        PROVE  Known
    BY <2>1 DEF NativeRefuse, Return, GateInv
  <2>2. CASE NativeCheck(c)
    BY <2>2 DEF NativeCheck, GateInv
  <2>3. ASSUME NEW effect \in BOOLEAN, NEW success \in BOOLEAN,
               NativeCall(c, effect, success)
        PROVE  Known
    BY <2>3 DEF NativeCall, Return, CallOutcome, GateInv
  <2> QED
    BY <1>3, <2>1, <2>2, <2>3 DEF NativeLane
<1>4. ASSUME NEW c \in Cmds, NEW d \in Digests, Deliver(c, d) \/ Begin(c, d)
      PROVE  Known
  BY <1>4 DEF Deliver, Begin, GateInv, RowInv
<1>5. ASSUME NEW c \in Cmds, Prune(c) \/ Expire(c)
      PROVE  Known
  BY <1>5 DEF Prune, Expire, GateInv
<1>6. ASSUME NEW recon \in BOOLEAN, Snapshot(recon) PROVE Known
  BY <1>6 DEF Snapshot, GateInv
\* The step that opens the gate finds no PROCESSING row at all.
<1>7. ASSUME NEW i \in SnapIds, AckSnapshot(i) PROVE Known
  <2>1. UNCHANGED <<status, task, detached, conn>>
    BY <1>7 DEF AckSnapshot
  <2>2. k \in Processing
    BY <2>1 DEF Processing
  <2>3. ~required
    BY <1>7, <2>2 DEF AckSnapshot
  <2> QED
    BY <2>1, <2>3 DEF GateInv
<1>8. CASE \/ SnapshotFails \/ NoticeUnready \/ NoticeResolved \/ Connect
           \/ Disconnect \/ Reconnect
           \/ \E v \in BOOLEAN : Refresh(v) \/ OperatorWrites(v)
  <2>1. UNCHANGED <<status, task, detached>>
    BY <1>8 DEF SnapshotFails, NoticeUnready, NoticeResolved, Connect,
       Disconnect, Reconnect, Refresh, OperatorWrites
  <2>2. conn = "online" /\ ~required
    BY <1>8 DEF SnapshotFails, NoticeUnready, NoticeResolved, Connect,
       Disconnect, Reconnect, Refresh, OperatorWrites
  <2> QED
    BY <2>1, <2>2 DEF GateInv
<1>9. CASE Crash \/ \E dropped \in SUBSET Cmds : SessionLost(dropped)
  BY <1>9 DEF Crash, SessionLost
<1>10. ASSUME NEW p \in Place, NEW t \in Terminal, NEW fails \in BOOLEAN,
              OrderEvent(p, t, fails)
       PROVE  Known
  BY <1>10 DEF OrderEvent, GateInv
<1> QED
  BY <1>1, <1>2, <1>3, <1>4, <1>5, <1>6, <1>7, <1>8, <1>9, <1>10 DEF Next

\* While the gate is open on a session, no row has an unknown outcome.
THEOREM GateKnowsOutcomes == Spec => []OpenGateKnown
<1>1. Init => RowInv /\ GateInv
  BY DEF Init, RowInv, GateInv
<1>2. TypeOK /\ RowInv /\ GateInv /\ [Next]_vars => RowInv' /\ GateInv'
  BY RowStep, GateStep
<1>3. GateInv => OpenGateKnown
  BY DEF GateInv, OpenGateKnown, Orphan, Working
<1> QED
  BY <1>1, <1>2, <1>3, TypeCorrect, PTL DEF Spec

-----------------------------------------------------------------------------
(* The emergency stop.                                                       *)

\* Every step keeps StopInv.
LEMMA StopStep ==
  ASSUME TypeOK, StopInv, [Next]_vars
  PROVE  StopInv'
<1> SUFFICES ASSUME NEW e \in Stop
             PROVE  /\ nat'[e] = "none" /\ task'[e] # "native"
                    /\ outcome'[e] = "ACCEPTED" \/ result'[e] = "ACCEPTED"
                         \/ <<e, "ACCEPTED">> \in acks' => stop' \/ cleared'
  BY DEF StopInv
<1> DEFINE Kept == /\ nat'[e] = "none" /\ task'[e] # "native"
                   /\ outcome'[e] = "ACCEPTED" \/ result'[e] = "ACCEPTED"
                        \/ <<e, "ACCEPTED">> \in acks' => stop' \/ cleared'
<1>a. e \in Cmds /\ e \notin Place /\ e \notin Cancel
  BY KindsAssumption DEF Cmds
<1>b. /\ nat[e] = "none" /\ task[e] # "native"
      /\ outcome[e] = "ACCEPTED" \/ result[e] = "ACCEPTED"
           \/ <<e, "ACCEPTED">> \in acks => stop \/ cleared
  BY DEF StopInv
<1> USE <1>a, <1>b DEF TypeOK, JournalTypes, TaskTypes
<1>1. CASE UNCHANGED <<nat, task, outcome, result, acks, stop, cleared>>
  BY <1>1
<1>2. ASSUME NEW c \in Cmds, Handler(c) PROVE Kept
  <2>1. ASSUME NEW ready \in BOOLEAN, Validate(c, ready) PROVE Kept
    BY <2>1 DEF Validate, Rejection
  <2>2. CASE Complete(c)
    BY <2>2 DEF Complete
  <2>3. CASE AddReport(c)
    BY <2>3 DEF AddReport
  <2>4. CASE Ack(c)
    BY <2>4 DEF Ack
  <2>5. CASE Activate(c)
    BY <2>5 DEF Activate, WriteStop
  <2> QED
    BY <1>2, <2>1, <2>2, <2>3, <2>4, <2>5 DEF Handler
<1>3. ASSUME NEW c \in Cmds, NativeLane(c) PROVE Kept
  <2>1. nat[c] # "none" /\ c # e
    BY <1>3 DEF NativeLane, NativeRefuse, NativeCheck, NativeCall, MayStart
  <2>2. ASSUME NEW r \in {"PRE", "GATE"}, NativeRefuse(c, r) PROVE Kept
    BY <2>1, <2>2 DEF NativeRefuse, Return
  <2>3. CASE NativeCheck(c)
    BY <2>1, <2>3 DEF NativeCheck
  <2>4. ASSUME NEW effect \in BOOLEAN, NEW success \in BOOLEAN,
               NativeCall(c, effect, success)
        PROVE  Kept
    BY <2>1, <2>4 DEF NativeCall, Return
  <2> QED
    BY <1>3, <2>2, <2>3, <2>4 DEF NativeLane
<1>4. ASSUME NEW c \in Cmds, NEW d \in Digests, Begin(c, d) PROVE Kept
  BY <1>4 DEF Begin, Answer
<1>5. ASSUME NEW c \in Cmds, Prune(c) PROVE Kept
  BY <1>5 DEF Prune
<1>6. ASSUME NEW recon \in BOOLEAN, Snapshot(recon) PROVE Kept
  BY <1>6 DEF Snapshot, Reconciled
<1>7. ASSUME NEW dropped \in SUBSET Cmds, SessionLost(dropped) PROVE Kept
  BY <1>7 DEF SessionLost
<1>8. CASE Crash
  BY <1>8 DEF Crash, Survives
<1>9. ASSUME \/ UNCHANGED vars
             \/ \E c \in Cmds, d \in Digests : Deliver(c, d)
             \/ \E c \in Cmds : Expire(c)
             \/ SnapshotFails \/ NoticeUnready \/ NoticeResolved \/ Connect
             \/ Disconnect \/ Reconnect
             \/ \E i \in SnapIds : AckSnapshot(i)
             \/ \E p \in Place, t \in Terminal, fails \in BOOLEAN :
                  OrderEvent(p, t, fails)
             \/ \E v \in BOOLEAN : Refresh(v)
      PROVE  Kept
  BY <1>1, <1>9 DEF vars, Deliver, Expire, SnapshotFails, NoticeUnready,
     NoticeResolved, Connect, Disconnect, Reconnect, AckSnapshot, OrderEvent,
     Refresh
<1>10. ASSUME NEW v \in BOOLEAN, OperatorWrites(v) PROVE Kept
  BY <1>10 DEF OperatorWrites, WriteStop
<1> QED
  BY <1>2, <1>3, <1>4, <1>5, <1>6, <1>7, <1>8, <1>9, <1>10 DEF Next

\* Writing the file keeps CacheInv: a stop that is new starts counting.
LEMMA CacheWrite ==
  ASSUME StopTypes, CacheInv, NEW v \in BOOLEAN, WriteStop(v), cache => cache'
  PROVE  CacheInv'
<1>1. CASE v = stop
  <2>1. stop' = stop /\ rounds' = rounds /\ seen' = seen \cup {v}
    BY <1>1 DEF WriteStop
  <2> QED
    BY <1>1, <2>1 DEF CacheInv, StopTypes
<1>2. CASE v # stop
  <2>1. rounds' = 0
    BY <1>2 DEF WriteStop
  <2> QED
    BY <2>1 DEF CacheInv
<1> QED
  BY <1>1, <1>2

\* Every step keeps CacheInv.
LEMMA CacheStep ==
  ASSUME TypeOK, CacheInv, [Next]_vars
  PROVE  CacheInv'
<1>1. CASE UNCHANGED stopVars
  BY <1>1 DEF CacheInv
<1>2. ASSUME NEW v \in BOOLEAN, Refresh(v) PROVE CacheInv'
  <2>1. /\ cache' = v /\ v \in seen /\ seen' = {stop} /\ stop' = stop
        /\ rounds' = IF rounds = 2 THEN 2 ELSE rounds + 1
    BY <1>2 DEF Refresh
  <2>2. rounds' = 2 => rounds # 0
    BY <2>1 DEF TypeOK, StopTypes
  <2> SUFFICES ASSUME stop' PROVE seen' \subseteq {TRUE} /\ (rounds' = 2 => cache')
    BY DEF CacheInv
  <2>3. rounds # 0 => v = TRUE
    BY <2>1 DEF CacheInv
  <2>4. stop = TRUE
    BY <2>1 DEF TypeOK, StopTypes
  <2> QED
    BY <2>1, <2>2, <2>3, <2>4
<1>3. ASSUME NEW c \in Cmds, Activate(c) PROVE CacheInv'
  BY <1>3, CacheWrite DEF Activate, TypeOK
<1>4. ASSUME NEW v \in BOOLEAN, OperatorWrites(v) PROVE CacheInv'
  BY <1>4, CacheWrite DEF OperatorWrites, TypeOK
<1>5. CASE Connect \/ \E dropped \in SUBSET Cmds : SessionLost(dropped)
  <2>1. UNCHANGED <<stop, cache, rounds>> /\ seen' \subseteq {stop}
    BY <1>5 DEF Connect, SessionLost
  <2>2. stop => stop = TRUE
    BY DEF TypeOK, StopTypes
  <2> QED
    BY <2>1, <2>2 DEF CacheInv
<1>6. CASE Crash
  BY <1>6 DEF Crash, Survives, CacheInv
<1>7. ASSUME NEW c \in Cmds, NativeLane(c) PROVE CacheInv'
  BY <1>1, <1>7 DEF NativeLane, NativeRefuse, NativeCheck, NativeCall
<1>8. ASSUME \/ UNCHANGED vars
             \/ \E c \in Cmds, d \in Digests : Deliver(c, d) \/ Begin(c, d)
             \/ \E c \in Cmds : Complete(c) \/ AddReport(c) \/ Ack(c) \/ Prune(c)
                               \/ Expire(c)
             \/ \E c \in Cmds, ready \in BOOLEAN : Validate(c, ready)
             \/ SnapshotFails \/ NoticeUnready \/ NoticeResolved
             \/ Disconnect \/ Reconnect
             \/ \E recon \in BOOLEAN : Snapshot(recon)
             \/ \E i \in SnapIds : AckSnapshot(i)
             \/ \E p \in Place, t \in Terminal, fails \in BOOLEAN :
                  OrderEvent(p, t, fails)
      PROVE  CacheInv'
  BY <1>1, <1>8 DEF vars, Deliver, Begin, Complete, AddReport, Ack, Prune, Expire,
     Validate, SnapshotFails, NoticeUnready, NoticeResolved, Disconnect, Reconnect,
     Snapshot, AckSnapshot, OrderEvent
<1> QED
  BY <1>2, <1>3, <1>4, <1>5, <1>6, <1>7, <1>8 DEF Next, Handler

\* An order still to be validated does not pass a stop that was refreshed twice:
\* the step from "begun" to "native" is Validate's, which finds it in the cache.
LEMMA StopBlocks ==
  ASSUME TypeOK, StopInv, CacheInv, [Next]_vars, NEW e \in Stop, NEW p \in Place,
         <<e, "ACCEPTED">> \in acks, ~cleared, rounds = 2, task[p] = "begun"
  PROVE  task'[p] # "native"
<1>1. cache /\ p \in Cmds /\ p \notin Cancel
  BY KindsAssumption DEF StopInv, CacheInv, Cmds
<1>2. ASSUME NEW c \in Cmds, NEW ready \in BOOLEAN, Validate(c, ready)
      PROVE  task'[p] # "native"
  BY <1>1, <1>2 DEF Validate, Rejection, TypeOK, TaskTypes
<1>3. ASSUME NEW c \in Cmds, NativeLane(c) PROVE task'[p] # "native"
  BY <1>1, <1>3 DEF NativeLane, NativeRefuse, NativeCheck, NativeCall, Return,
     TypeOK, TaskTypes
<1>4. ASSUME NEW c \in Cmds, \/ Activate(c) \/ Complete(c) \/ AddReport(c)
                             \/ Ack(c) \/ Prune(c) \/ Expire(c)
      PROVE  task'[p] # "native"
  BY <1>1, <1>4 DEF Activate, Complete, AddReport, Ack, Prune, Expire, TypeOK,
     TaskTypes
<1>5. ASSUME NEW c \in Cmds, NEW d \in Digests, Deliver(c, d) \/ Begin(c, d)
      PROVE  task'[p] # "native"
  BY <1>1, <1>5 DEF Deliver, Begin, TypeOK, TaskTypes
<1>6. ASSUME NEW dropped \in SUBSET Cmds, SessionLost(dropped)
      PROVE  task'[p] # "native"
  BY <1>1, <1>6 DEF SessionLost
<1>7. CASE Crash
  BY <1>1, <1>7 DEF Crash
<1>8. ASSUME \/ UNCHANGED vars
             \/ SnapshotFails \/ NoticeUnready \/ NoticeResolved \/ Connect
             \/ Disconnect \/ Reconnect
             \/ \E recon \in BOOLEAN : Snapshot(recon)
             \/ \E i \in SnapIds : AckSnapshot(i)
             \/ \E q \in Place, t \in Terminal, fails \in BOOLEAN :
                  OrderEvent(q, t, fails)
             \/ \E v \in BOOLEAN : Refresh(v) \/ OperatorWrites(v)
      PROVE  task'[p] # "native"
  BY <1>8 DEF vars, SnapshotFails, NoticeUnready, NoticeResolved, Connect,
     Disconnect, Reconnect, Snapshot, AckSnapshot, OrderEvent, Refresh,
     OperatorWrites
<1> QED
  BY <1>2, <1>3, <1>4, <1>5, <1>6, <1>7, <1>8 DEF Next, Handler

\* Once the server knows of an emergency stop that no operator has cleared, and
\* the Agent has refreshed its view twice or was restarted, no order gets past
\* validation, for any number of stops, crashes and sessions.
THEOREM AcknowledgedStopHolds == Spec => StopHolds
<1>1. Init => StopInv /\ CacheInv
  BY KindsAssumption DEF Init, StopInv, CacheInv, Cmds
<1>2. TypeOK /\ StopInv /\ CacheInv /\ [Next]_vars => StopInv' /\ CacheInv'
  BY StopStep, CacheStep
<1>3. TypeOK /\ StopInv /\ CacheInv /\ [Next]_vars =>
        [\A e \in Stop, p \in Place :
           /\ <<e, "ACCEPTED">> \in acks /\ ~cleared /\ rounds = 2
           /\ task[p] = "begun"
           => task'[p] # "native"]_vars
  BY StopBlocks
<1> QED
  BY <1>1, <1>2, <1>3, TypeCorrect, PTL DEF Spec, StopHolds

-----------------------------------------------------------------------------
(* The contract: OrderContract's two operations, and nothing else.           *)

\* A decided handler and a completed row hold a final answer, and ACCEPTED is
\* held only for an order that was submitted.
AnswerInv(p) ==
  /\ task[p] \in {"outcome", "reject", "report", "ack"} => outcome[p] \in Results
  /\ status[p] = "COMPLETED" => result[p] \in Results
  /\ outcome[p] = "ACCEPTED" \/ result[p] = "ACCEPTED" => submits[p] = 1

\* No answer is held at first.
LEMMA AnswerInit == ASSUME Init, NEW p \in Place PROVE AnswerInv(p)
BY PlaceIsCmd DEF Init, AnswerInv

\* Every step keeps the answers of a PLACE command truthful: a result is copied
\* from the handler to the row, and an acceptance is made by the call alone.
LEMMA AnswerStep ==
  ASSUME TypeOK, NEW p \in Place, PlaceInv(p), AnswerInv(p), [Next]_vars
  PROVE  AnswerInv(p)'
<1>a. p \in Cmds
  BY PlaceIsCmd
<1> USE <1>a DEF TypeOK, JournalTypes, TaskTypes, WorldTypes
<1>1. CASE UNCHANGED <<task, outcome, status, result, submits>>
  BY <1>1 DEF AnswerInv
<1>2. ASSUME NEW c \in Cmds, Handler(c) PROVE AnswerInv(p)'
  <2>1. ASSUME NEW ready \in BOOLEAN, Validate(c, ready) PROVE AnswerInv(p)'
    BY <2>1, KindsAssumption DEF Validate, Rejection, AnswerInv
  <2>2. CASE Complete(c)
    BY <2>2 DEF Complete, AnswerInv, PlaceInv, Together, Working
  <2>3. CASE AddReport(c)
    BY <2>3 DEF AddReport, AnswerInv
  <2>4. CASE Ack(c)
    BY <2>4 DEF Ack, AnswerInv
  <2>5. CASE Activate(c)
    BY <2>5, KindsAssumption DEF Activate, AnswerInv
  <2> QED
    BY <1>2, <2>1, <2>2, <2>3, <2>4, <2>5 DEF Handler
<1>3. ASSUME NEW c \in Cmds, NativeLane(c) PROVE AnswerInv(p)'
  <2>1. ASSUME NEW r \in {"PRE", "GATE"}, NativeRefuse(c, r) PROVE AnswerInv(p)'
    BY <2>1 DEF NativeRefuse, Return, AnswerInv
  <2>2. CASE NativeCheck(c)
    BY <2>2, <1>1 DEF NativeCheck
  <2>3. ASSUME NEW effect \in BOOLEAN, NEW success \in BOOLEAN,
               NativeCall(c, effect, success)
        PROVE  AnswerInv(p)'
    BY <2>3 DEF NativeCall, Return, CallOutcome, AnswerInv, PlaceInv, Submitted
  <2> QED
    BY <1>3, <2>1, <2>2, <2>3 DEF NativeLane
<1>4. ASSUME NEW c \in Cmds, NEW d \in Digests, Begin(c, d) PROVE AnswerInv(p)'
  BY <1>4 DEF Begin, AnswerInv
<1>5. ASSUME NEW c \in Cmds, Prune(c) PROVE AnswerInv(p)'
  BY <1>5 DEF Prune, AnswerInv
<1>6. ASSUME NEW recon \in BOOLEAN, Snapshot(recon) PROVE AnswerInv(p)'
  <2>1. ~Reconciled(p)
    BY KindsAssumption DEF PlaceInv, Together, Reconciled
  <2> QED
    BY <1>6, <2>1 DEF Snapshot, AnswerInv
<1>7. ASSUME NEW dropped \in SUBSET Cmds, SessionLost(dropped) PROVE AnswerInv(p)'
  BY <1>7 DEF SessionLost, AnswerInv
<1>8. CASE Crash
  BY <1>8 DEF Crash, Survives, AnswerInv
<1>9. ASSUME \/ UNCHANGED vars
             \/ \E c \in Cmds, d \in Digests : Deliver(c, d)
             \/ \E c \in Cmds : Expire(c)
             \/ SnapshotFails \/ NoticeUnready \/ NoticeResolved \/ Connect
             \/ Disconnect \/ Reconnect
             \/ \E i \in SnapIds : AckSnapshot(i)
             \/ \E q \in Place, t \in Terminal, fails \in BOOLEAN :
                  OrderEvent(q, t, fails)
             \/ \E v \in BOOLEAN : Refresh(v) \/ OperatorWrites(v)
      PROVE  AnswerInv(p)'
  BY <1>1, <1>9 DEF vars, Deliver, Expire, SnapshotFails, NoticeUnready,
     NoticeResolved, Connect, Disconnect, Reconnect, AckSnapshot, OrderEvent,
     Refresh, OperatorWrites
<1> QED
  BY <1>2, <1>3, <1>4, <1>5, <1>6, <1>7, <1>8, <1>9 DEF Next

\* The final acks of PLACE commands: what the contract calls told.
Told == {a \in acks : a[1] \in Place}

\* One more final ack of a PLACE command is a step of the contract if the
\* command's invariant holds after it.
LEMMA TellStep ==
  ASSUME NEW p \in Place, NEW r \in Results, PlaceInv(p)', TypeOK,
         acks' = acks \cup {<<p, r>>}, UNCHANGED submits,
         r = "ACCEPTED" => submits[p] = 1
  PROVE  Contract!Tell(p, r)
<1>1. r \in Refusals => submits[p] = 0
  BY DEF PlaceInv, RefusedForGood, Refused, Refusals
<1>2. \A s \in Results \ {r} : <<p, s>> \notin acks
  BY DEF PlaceInv, AcksAgree
<1>3. Told' = Told \cup {<<p, r>>}
  BY DEF Told
<1> QED
  BY <1>1, <1>2, <1>3 DEF Contract!Tell, Contract!MayTell, Contract!Refusal, Contract!Final, Told, Refusals

\* An ack of another command leaves the contract's view alone.
LEMMA ToldOthers ==
  ASSUME NEW c \in Cmds \ Place, NEW r, acks' = acks \cup {<<c, r>>}
  PROVE  Told' = Told
BY DEF Told

\* A native call submits once, before anything final was said.
LEMMA ContractCall ==
  ASSUME TypeOK, \A p \in Place : PlaceInv(p), NEW c \in Cmds,
         NEW effect \in BOOLEAN, NEW success \in BOOLEAN,
         NativeCall(c, effect, success)
  PROVE  [Contract!Next]_<<submits, Told>>
<1>1. UNCHANGED Told
  BY DEF NativeCall, Told
<1>2. CASE ~(c \in Place /\ effect)
  BY <1>1, <1>2 DEF NativeCall
<1>3. CASE c \in Place /\ effect
  <2>1. submits[c] = 0 /\ status[c] = "PROCESSING"
    BY <1>3 DEF NativeCall, PlaceInv, Submitted, Together
  <2>2. \A r \in Results : <<c, r>> \notin acks
    BY <1>3, <2>1 DEF PlaceInv, Acked
  <2>3. submits' = [submits EXCEPT ![c] = 1]
    BY <1>3, <2>1 DEF NativeCall, TypeOK, WorldTypes
  <2>4. Contract!Submit(c)
    BY <1>1, <2>1, <2>2, <2>3
       DEF Contract!Submit, Contract!MaySubmit, Contract!Final, Contract!Refusal, Told
  <2> QED
    BY <1>3, <2>4 DEF Contract!Next
<1> QED
  BY <1>2, <1>3

\* Every step is a step of the contract or leaves its view alone.
LEMMA ContractStep ==
  ASSUME TypeOK, \A p \in Place : PlaceInv(p), \A p \in Place : AnswerInv(p),
         (\A p \in Place : PlaceInv(p))', [Next]_vars
  PROVE  [Contract!Next]_<<submits, Told>>
<1>1. CASE UNCHANGED <<submits, acks>>
  BY <1>1 DEF Told
<1>2. ASSUME NEW c \in Cmds, Ack(c) PROVE [Contract!Next]_<<submits, Told>>
  <2>1. UNCHANGED submits
    BY <1>2 DEF Ack
  <2>2. CASE c \in detached
    BY <1>1, <1>2, <2>1, <2>2 DEF Ack
  <2>3. CASE c \notin detached /\ c \notin Place
    BY <1>2, <2>1, <2>3, ToldOthers DEF Ack
  <2>4. CASE c \notin detached /\ c \in Place
    <3>1. outcome[c] \in Results /\ (outcome[c] = "ACCEPTED" => submits[c] = 1)
      BY <1>2, <2>4 DEF Ack, AnswerInv
    <3>2. PICK r \in Results : r = outcome[c]
      BY <3>1
    <3>3. Contract!Tell(c, r)
      BY <1>2, <2>1, <2>4, <3>1, <3>2, TellStep DEF Ack
    <3> QED
      BY <2>4, <3>3 DEF Contract!Next, Contract!Final, Contract!Refusal
  <2> QED
    BY <2>2, <2>3, <2>4
<1>3. ASSUME NEW c \in Cmds, NEW d \in Digests, Begin(c, d)
      PROVE  [Contract!Next]_<<submits, Told>>
  <2>1. UNCHANGED submits
    BY <1>3 DEF Begin
  <2>2. CASE acks' = acks
    BY <1>1, <2>1, <2>2
  <2>3. CASE acks' # acks
    <3>1. status[c] = "COMPLETED" /\ acks' = acks \cup {<<c, result[c]>>}
      BY <1>3, <2>3 DEF Begin, Answer
    <3>2. CASE c \notin Place
      BY <2>1, <3>1, <3>2, ToldOthers
    <3>3. CASE c \in Place
      <4>1. result[c] \in Results /\ (result[c] = "ACCEPTED" => submits[c] = 1)
        BY <3>1, <3>3 DEF AnswerInv
      <4>2. PICK r \in Results : r = result[c]
        BY <4>1
      <4>3. Contract!Tell(c, r)
        BY <2>1, <3>1, <3>3, <4>1, <4>2, TellStep
      <4> QED
        BY <3>3, <4>3 DEF Contract!Next, Contract!Final, Contract!Refusal
    <3> QED
      BY <3>2, <3>3
  <2> QED
    BY <2>2, <2>3
<1>4. ASSUME NEW c \in Cmds, NativeLane(c) PROVE [Contract!Next]_<<submits, Told>>
  BY <1>1, <1>4, ContractCall DEF NativeLane, NativeRefuse, NativeCheck
<1>5. ASSUME \/ UNCHANGED vars
             \/ \E c \in Cmds, d \in Digests : Deliver(c, d)
             \/ \E c \in Cmds : Activate(c) \/ Complete(c) \/ AddReport(c)
                               \/ Prune(c) \/ Expire(c)
             \/ \E c \in Cmds, ready \in BOOLEAN : Validate(c, ready)
             \/ SnapshotFails \/ NoticeUnready \/ NoticeResolved \/ Connect
             \/ Disconnect \/ Reconnect \/ Crash
             \/ \E recon \in BOOLEAN : Snapshot(recon)
             \/ \E i \in SnapIds : AckSnapshot(i)
             \/ \E dropped \in SUBSET Cmds : SessionLost(dropped)
             \/ \E q \in Place, t \in Terminal, fails \in BOOLEAN :
                  OrderEvent(q, t, fails)
             \/ \E v \in BOOLEAN : Refresh(v) \/ OperatorWrites(v)
      PROVE  [Contract!Next]_<<submits, Told>>
  <2>1. UNCHANGED <<submits, acks>>
    BY <1>5 DEF vars, Deliver, Complete, AddReport, Prune, Expire, Validate,
       SnapshotFails, NoticeUnready, NoticeResolved, Connect, Disconnect, Reconnect,
       Crash, Snapshot, AckSnapshot, SessionLost, OrderEvent, Activate, Refresh,
       OperatorWrites
  <2> QED
    BY <1>1, <2>1
<1> QED
  BY <1>2, <1>3, <1>4, <1>5 DEF Next, Handler

\* The Agent implements OrderContract: for any number of commands, frames, crashes
\* and lost sessions, what it submits and what it finally says about PLACE
\* commands is a behaviour of the contract the server relies on.
THEOREM AgentKeepsContract == Spec => ImplementsContract
<1>1. Init => Contract!Init
  BY DEF Init, Contract!Init
<1>2. Init => \A p \in Place : AnswerInv(p)
  BY AnswerInit
<1>3. TypeOK /\ (\A p \in Place : PlaceInv(p)) /\ (\A p \in Place : AnswerInv(p))
        /\ [Next]_vars => (\A p \in Place : AnswerInv(p))'
  BY AnswerStep
<1>4. TypeOK /\ (\A p \in Place : PlaceInv(p)) /\ (\A p \in Place : AnswerInv(p))
        /\ (\A p \in Place : PlaceInv(p))' /\ [Next]_vars
        => [Contract!Next]_<<submits, {a \in acks : a[1] \in Place}>>
  BY ContractStep DEF Told
<1> QED
  BY <1>1, <1>2, <1>3, <1>4, TypeCorrect, PlaceInvariant, PTL
     DEF Spec, ImplementsContract, Contract!Spec

-----------------------------------------------------------------------------
(* Missed events.                                                            *)

\* Generations only grow, and the gate never holds one of the future.
Generations ==
  reconciled <= connGen /\ boundConn <= connGen /\ boundGap <= gapGen

\* A missed event is the end of an order that was submitted.
Missed ==
  /\ \A p \in lost : orders[p] \in Terminal
  /\ \A p \in Place : submits[p] = 0 => orders[p] = "NONE"

\* The connection of the last reconciliation lost nothing since.
ReconciledKnows ==
  connected /\ healthy /\ reconciled = connGen => lost = {}

\* The snapshot the gate is bound to shows what was missed before it, and on the
\* same connection without a further gap there is nothing else.
BoundCovers ==
  connected /\ bound # NoSnap /\ SnapshotCurrent => lost \subseteq covers[bound]

MissInv == Generations /\ Missed /\ ReconciledKnows /\ BoundCovers

\* A step that leaves the gate, the generations, the orders and the snapshots alone.
LEMMA MissUntouched ==
  ASSUME MissInv, UNCHANGED <<gateVars, nativeVars, orders, submits, lost, covers>>
  PROVE  MissInv'
BY DEF MissInv, Generations, Missed, ReconciledKnows, BoundCovers, SnapshotCurrent

\* A step that at most closes the gate.
LEMMA MissClosed ==
  ASSUME TypeOK, MissInv, CloseGate, connected' => connected,
         UNCHANGED <<connGen, gapGen, healthy, orders, submits, lost, covers>>
  PROVE  MissInv'
BY DEF MissInv, Generations, Missed, ReconciledKnows, BoundCovers, SnapshotCurrent,
   TypeOK, GateTypes

\* Refreshing the gate forgets the bound snapshot at most.
LEMMA MissRefreshed ==
  ASSUME TypeOK, MissInv, RefreshGate,
         UNCHANGED <<nativeVars, orders, submits, lost, covers>>
  PROVE  MissInv'
BY DEF MissInv, Generations, Missed, ReconciledKnows, BoundCovers, SnapshotCurrent,
   TypeOK, GateTypes

\* The native lane may close the gate, and a call may create the order: it was not
\* there before, so it is not one whose end was missed.
LEMMA MissNative ==
  ASSUME TypeOK, MissInv, \A p \in Place : PlaceInv(p), NEW c \in Cmds, NativeLane(c)
  PROVE  MissInv'
<1>1. ASSUME NEW r \in {"PRE", "GATE"}, NativeRefuse(c, r) PROVE MissInv'
  <2>1. \/ CloseGate
        \/ UNCHANGED gateVars
    BY <1>1 DEF NativeRefuse, Return
  <2> QED
    BY <1>1, <2>1, MissUntouched, MissClosed DEF NativeRefuse
<1>2. CASE NativeCheck(c)
  BY <1>2, MissUntouched DEF NativeCheck
<1>3. ASSUME NEW effect \in BOOLEAN, NEW success \in BOOLEAN,
             NativeCall(c, effect, success)
      PROVE  MissInv'
  <2>1. UNCHANGED <<gateVars, nativeVars, lost, covers>>
    BY <1>3 DEF NativeCall, Return, CallOutcome
  <2>2. CASE UNCHANGED <<orders, submits>>
    BY <2>1, <2>2, MissUntouched
  <2>3. CASE ~UNCHANGED <<orders, submits>>
    <3>1. /\ c \in Place /\ submits[c] = 0
          /\ submits' = [submits EXCEPT ![c] = @ + 1]
          /\ orders' = [orders EXCEPT ![c] = "LIVE"]
      BY <1>3, <2>3 DEF NativeCall, PlaceInv, Submitted
    <3>2. c \notin lost
      BY <3>1 DEF MissInv, Missed, Terminal
    <3>3. Missed'
      BY <2>1, <3>1, <3>2 DEF MissInv, Missed, TypeOK, WorldTypes
    <3> QED
      BY <2>1, <3>3 DEF MissInv, Generations, ReconciledKnows, BoundCovers,
         SnapshotCurrent
  <2> QED
    BY <2>2, <2>3
<1> QED
  BY <1>1, <1>2, <1>3 DEF NativeLane

\* A snapshot shows every order that has ended, so it covers what was missed.
LEMMA MissSnapshot ==
  ASSUME TypeOK, MissInv, NEW recon \in BOOLEAN, Snapshot(recon)
  PROVE  MissInv'
<1>1. UNCHANGED <<nativeVars, orders, submits, lost, reconciled>>
  BY DEF Snapshot
<1>2. PICK i \in SnapIds \ (sent \cup {pend, bound}) :
        /\ covers' = [covers EXCEPT ![i] = {p \in Place : orders[p] \in Terminal}]
        /\ IF required
           THEN bound' = i /\ boundConn' = connGen /\ boundGap' = gapGen
           ELSE UNCHANGED <<bound, boundConn, boundGap>>
  BY DEF Snapshot
<1>3. lost \subseteq covers'[i]
  BY <1>2 DEF MissInv, Missed, TypeOK, WorldTypes
<1>4. bound # NoSnap => covers'[bound] = covers[bound]
  BY <1>2 DEF TypeOK, WorldTypes, GateTypes
<1>5. BoundCovers'
  BY <1>1, <1>2, <1>3, <1>4 DEF MissInv, BoundCovers, SnapshotCurrent
<1>6. Generations'
  BY <1>1, <1>2 DEF MissInv, Generations, TypeOK, GateTypes
<1> QED
  BY <1>1, <1>5, <1>6 DEF MissInv, Missed, ReconciledKnows

\* The acknowledged snapshot makes up for what it shows; the gate opens only for
\* the one it is bound to, and only if that one is current.
LEMMA MissAckSnapshot ==
  ASSUME TypeOK, MissInv, NEW i \in SnapIds, AckSnapshot(i)
  PROVE  MissInv'
<1>1. /\ UNCHANGED <<connGen, gapGen, connected, orders, submits, covers>>
      /\ lost' = lost \ covers[i]
  BY DEF AckSnapshot
<1>2. Missed'
  BY <1>1 DEF MissInv, Missed
<1>3. CASE UNCHANGED <<gateVars, healthy>>
  BY <1>1, <1>2, <1>3
     DEF MissInv, Generations, ReconciledKnows, BoundCovers, SnapshotCurrent
<1>4. CASE /\ indeterminate' = TRUE
           /\ UNCHANGED <<required, bound, boundConn, boundGap, reconciled, healthy>>
  BY <1>1, <1>2, <1>4
     DEF MissInv, Generations, ReconciledKnows, BoundCovers, SnapshotCurrent
<1>5. CASE CloseGate /\ UNCHANGED healthy
  BY <1>1, <1>2, <1>5
     DEF MissInv, Generations, ReconciledKnows, BoundCovers, TypeOK, GateTypes
<1>6. CASE /\ bound = i /\ SnapshotCurrent
           /\ bound' = NoSnap /\ boundConn' = 0 /\ boundGap' = 0
           /\ reconciled' = connGen
  <2>1. connected => lost' = {}
    BY <1>1, <1>6, SnapAssumption DEF MissInv, BoundCovers
  <2> QED
    BY <1>1, <1>2, <1>6, <2>1
       DEF MissInv, Generations, ReconciledKnows, BoundCovers, TypeOK, GateTypes
<1> QED
  BY <1>3, <1>4, <1>5, <1>6 DEF AckSnapshot

\* An order ends: observed, or noted as missed on a connection that is down or has
\* a new gap.
LEMMA MissOrderEvent ==
  ASSUME TypeOK, MissInv, NEW p \in Place, NEW t \in Terminal, NEW fails \in BOOLEAN,
         OrderEvent(p, t, fails)
  PROVE  MissInv'
<1>1. /\ UNCHANGED <<gateVars, connGen, connected, submits, covers>>
      /\ orders' = [orders EXCEPT ![p] = t] /\ orders[p] = "LIVE"
      /\ \/ connected /\ UNCHANGED <<lost, gapGen, healthy>>
         \/ ~connected /\ lost' = lost \cup {p} /\ gapGen' = gapGen
         \/ lost' = lost \cup {p} /\ gapGen' = gapGen + 1 /\ ~healthy'
  BY DEF OrderEvent, TypeOK, GateTypes
<1>2. Missed'
  BY <1>1 DEF MissInv, Missed, TypeOK, WorldTypes, Terminal
<1>3. Generations'
  BY <1>1 DEF MissInv, Generations, TypeOK, GateTypes
<1>4. ReconciledKnows' /\ BoundCovers'
  BY <1>1 DEF MissInv, Generations, ReconciledKnows, BoundCovers, SnapshotCurrent,
     TypeOK, GateTypes
<1> QED
  BY <1>2, <1>3, <1>4 DEF MissInv

\* A new connection is one that no snapshot and no reconciliation belongs to.
LEMMA MissReconnect ==
  ASSUME TypeOK, MissInv, Reconnect
  PROVE  MissInv'
BY DEF Reconnect, MissInv, Generations, Missed, ReconciledKnows, BoundCovers,
   SnapshotCurrent, TypeOK, GateTypes

\* A new process starts without a connection and without a snapshot.
LEMMA MissCrash ==
  ASSUME TypeOK, MissInv, Crash
  PROVE  MissInv'
BY DEF Crash, MissInv, Generations, Missed, ReconciledKnows, BoundCovers

\* Every step keeps MissInv.
LEMMA MissStep ==
  ASSUME TypeOK, MissInv, \A p \in Place : PlaceInv(p), [Next]_vars
  PROVE  MissInv'
<1>1. ASSUME NEW c \in Cmds, Handler(c) PROVE MissInv'
  <2>1. CASE Ack(c)
    BY <2>1, MissUntouched, MissRefreshed DEF Ack
  <2>2. CASE \E ready \in BOOLEAN : Validate(c, ready)
    BY <2>2, MissUntouched DEF Validate
  <2>3. CASE Activate(c) \/ Complete(c) \/ AddReport(c)
    BY <2>3, MissUntouched DEF Activate, Complete, AddReport
  <2> QED
    BY <1>1, <2>1, <2>2, <2>3 DEF Handler
<1>2. ASSUME NEW c \in Cmds, NEW d \in Digests, Deliver(c, d) \/ Begin(c, d)
      PROVE  MissInv'
  BY <1>2, MissUntouched DEF Deliver, Begin
<1>3. ASSUME NEW c \in Cmds, Prune(c) \/ Expire(c) PROVE MissInv'
  BY <1>3, MissUntouched DEF Prune, Expire
<1>4. CASE SnapshotFails \/ NoticeUnready \/ Connect
  <2>1. /\ CloseGate
        /\ UNCHANGED <<connGen, gapGen, healthy, orders, submits, lost, covers>>
    BY <1>4 DEF SnapshotFails, NoticeUnready, Connect
  <2>2. connected' => connected
    BY <1>4 DEF SnapshotFails, NoticeUnready, Connect
  <2> QED
    BY <2>1, <2>2, MissClosed
<1>5. CASE NoticeResolved
  BY <1>5, MissRefreshed DEF NoticeResolved
<1>6. ASSUME NEW dropped \in SUBSET Cmds, SessionLost(dropped) PROVE MissInv'
  BY <1>6, MissUntouched DEF SessionLost
<1>7. CASE Disconnect
  BY <1>7 DEF Disconnect, MissInv, Generations, Missed, ReconciledKnows, BoundCovers
<1>8. CASE UNCHANGED vars
  BY <1>8, MissUntouched DEF vars
<1>9. ASSUME NEW v \in BOOLEAN, Refresh(v) \/ OperatorWrites(v) PROVE MissInv'
  BY <1>9, MissUntouched DEF Refresh, OperatorWrites
<1> QED
  BY <1>1, <1>2, <1>3, <1>4, <1>5, <1>6, <1>7, <1>8, <1>9, MissNative, MissSnapshot,
     MissAckSnapshot, MissOrderEvent, MissReconnect, MissCrash DEF Next

\* Only the check of execute moves a queued call on, and it finds both halves of
\* the broker's gate open.
LEMMA MissBlocks ==
  ASSUME TypeOK, MissInv, [Next]_vars, NEW p \in Place,
         nat[p] = "queued", nat'[p] = "checked"
  PROVE  lost = {}
<1>a. p \in Cmds
  BY PlaceIsCmd
<1>1. ASSUME NEW c \in Cmds, NativeCheck(c) PROVE lost = {}
  <2>1. c = p
    BY <1>a, <1>1 DEF NativeCheck, TypeOK, TaskTypes
  <2> QED
    BY <1>1, <2>1 DEF NativeCheck, BrokerRequires, MissInv, ReconciledKnows
<1>2. ASSUME NEW c \in Cmds, \/ \E r \in {"PRE", "GATE"} : NativeRefuse(c, r)
                             \/ \E effect, success \in BOOLEAN :
                                  NativeCall(c, effect, success)
      PROVE  FALSE
  BY <1>a, <1>2 DEF NativeRefuse, NativeCall, Return, TypeOK, TaskTypes
<1>3. ASSUME NEW c \in Cmds, NEW ready \in BOOLEAN, Validate(c, ready) PROVE FALSE
  BY <1>a, <1>3 DEF Validate, TypeOK, TaskTypes
<1>4. ASSUME Crash PROVE FALSE
  BY <1>a, <1>4 DEF Crash
<1>5. ASSUME \/ UNCHANGED vars
             \/ \E c \in Cmds, d \in Digests : Deliver(c, d) \/ Begin(c, d)
             \/ \E c \in Cmds : Activate(c) \/ Complete(c) \/ AddReport(c) \/ Ack(c)
                               \/ Prune(c) \/ Expire(c)
             \/ \E v \in BOOLEAN : Refresh(v) \/ OperatorWrites(v)
             \/ SnapshotFails \/ NoticeUnready \/ NoticeResolved \/ Connect
             \/ Disconnect \/ Reconnect
             \/ \E recon \in BOOLEAN : Snapshot(recon)
             \/ \E i \in SnapIds : AckSnapshot(i)
             \/ \E dropped \in SUBSET Cmds : SessionLost(dropped)
             \/ \E q \in Place, t \in Terminal, fails \in BOOLEAN :
                  OrderEvent(q, t, fails)
      PROVE  FALSE
  <2>1. UNCHANGED nat
    BY <1>5 DEF vars, Deliver, Begin, Complete, AddReport, Ack, Prune, Expire,
       SnapshotFails, NoticeUnready, NoticeResolved, Connect, Disconnect, Reconnect,
       Snapshot, AckSnapshot, SessionLost, OrderEvent, Activate, Refresh,
       OperatorWrites
  <2> QED
    BY <2>1
<1> QED
  BY <1>1, <1>2, <1>3, <1>4, <1>5 DEF Next, Handler, NativeLane

\* No order starts while the end of an earlier one was missed and no acknowledged
\* snapshot has made up for it, for any number of connections, gaps and snapshots.
THEOREM MissedEventsBlockOrders == Spec => NoOrderOnMissedEvent
<1>1. Init => MissInv
  BY DEF Init, MissInv, Generations, Missed, ReconciledKnows, BoundCovers
<1>2. TypeOK /\ MissInv /\ (\A p \in Place : PlaceInv(p)) /\ [Next]_vars => MissInv'
  BY MissStep
<1>3. TypeOK /\ MissInv /\ [Next]_vars =>
        [\A p \in Place : nat[p] = "queued" /\ nat'[p] = "checked" => lost = {}]_vars
  BY MissBlocks
<1> QED
  BY <1>1, <1>2, <1>3, TypeCorrect, PlaceInvariant, PTL DEF Spec, NoOrderOnMissedEvent
=============================================================================
