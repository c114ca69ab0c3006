------------------------ MODULE TOrderLifecycleProofs ------------------------
(***************************************************************************)
(* Proofs about TOrderLifecycle, for every volume of the intent and any       *)
(* number of callbacks.                                                       *)
(***************************************************************************)
EXTENDS TOrderLifecycle, FiniteSetTheorems, TLAPS

\* The order has been at the broker.
Seen(i) == at[i] \in Open \cup Terminal

\* The order at the broker, its pending row and its command agree on whether it
\* was made, sent or closed, and it trades no more than its volume.
Placed ==
  \A i \in Attempts :
    /\ at[i] = "NONE" <=> status[i] = "NONE"
    /\ status[i] = "LOCAL" => at[i] = "CLOSED"
    /\ i \in known => Seen(i)
    /\ ~Seen(i) => filled[i] = 0
    /\ filled[i] <= volume[i]
    /\ at[i] \in {"QUEUED"} \cup Open => filled[i] < volume[i]

\* A report is a fact of the broker, however late it is read: a trade happened,
\* and an end is the order's end, with its cumulative fill or none yet.
Truth(r) ==
  /\ Seen(r.of) /\ r.fill <= filled[r.of]
  /\ r.kind = "TRADE" => r.fill > 0
  /\ r.kind = "ORDER" /\ r.st \in Terminal =>
       at[r.of] = r.st /\ r.fill \in {0, filled[r.of]}

\* What a full snapshot adds: an ended order carries its cumulative fill.
Whole(r) == r.kind = "ORDER" /\ r.st \in Terminal => r.fill = filled[r.of]

Reported ==
  /\ \A r \in inbox \cup snap \cup cur : Truth(r)
  /\ \A r \in snap : Whole(r)
  /\ full => \A r \in cur : Whole(r)

\* The same of what was made durable.
Persisted ==
  \A i \in Attempts :
    /\ row[i].st \in Terminal => at[i] = row[i].st /\ row[i].fill \in {0, filled[i]}
    /\ trades[i] \subseteq 1..filled[i] /\ counted[i] \subseteq 1..filled[i]

IInv ==
  /\ TypeOK /\ Placed /\ Reported /\ Persisted
  /\ RemainderOnly /\ ClosedIsTrue /\ ZeroFillIsProven
-----------------------------------------------------------------------------
USE LifecycleAssumption
USE DEF brokerVars, pendingVars, factVars, eventVars, intentVars, mailVars,
        consumerVars

\* The states an order can be in at the broker.
Places == {"NONE", "QUEUED", "CLOSED"} \cup Open \cup Terminal

\* An intent with one queued attempt.
LEMMA InitInv == Init => IInv
<1> SUFFICES ASSUME Init PROVE IInv
  OBVIOUS
<1> USE DEF Init, First, Each
<1>1. TypeOK
  <2>1. at \in [Attempts -> {"NONE", "QUEUED", "CLOSED"} \cup Open \cup Terminal]
        /\ status \in [Attempts -> Statuses]
    BY DEF Statuses, Working
  <2>2. filled \in [Attempts -> 0..Target] /\ volume \in [Attempts -> 0..Target]
        /\ last \in [Attempts -> 0..Target + 2]
    OBVIOUS
  <2>3. row \in [Attempts -> [st : Open \cup Terminal, fill : 0..Target] \cup {NoRow}]
        /\ trades \in [Attempts -> SUBSET Executions]
        /\ counted \in [Attempts -> SUBSET Executions]
    OBVIOUS
  <2>4. events \in [Attempts -> SUBSET ((Open \cup Terminal) \X (0..Target) \cup {ZeroFill})]
    OBVIOUS
  <2>5. /\ owner \in Owners /\ known \subseteq Attempts /\ unapplied \subseteq Attempts
        /\ finished \in BOOLEAN /\ cancels \subseteq Attempts
        /\ inbox \subseteq Reports /\ snap \subseteq Reports
        /\ cur \subseteq Reports /\ full \in BOOLEAN /\ todo \subseteq cur
        /\ upd \subseteq cur
    BY Zenon
  <2>6. staged \in 0..Target /\ calls \in 0..MaxCalls
    OBVIOUS
  <2> HIDE DEF Init, First, Each
  <2> QED
    BY <2>1, <2>2, <2>3, <2>4, <2>5, <2>6 DEF TypeOK
<1>2. Placed
  BY DEF Placed, Attempts, Seen, Open, Terminal
<1>3. Reported
  BY DEF Reported
<1>4. Persisted
  BY DEF Persisted, NoRow, Terminal
<1>5. RemainderOnly /\ ClosedIsTrue /\ ZeroFillIsProven
  BY DEF RemainderOnly, ClosedIsTrue, ZeroFillIsProven, Made, Attempts
<1> QED
  BY <1>1, <1>2, <1>3, <1>4, <1>5 DEF IInv

\* A persisted order that has ended, with as many trades as it carries, has ended
\* at the broker and its trades are all the broker's.
LEMMA SettledTrue ==
  ASSUME IInv, NEW i \in Attempts, Settled(i)
  PROVE  /\ at[i] \in Terminal /\ i \in known
         /\ trades[i] = 1..filled[i] /\ Cardinality(trades[i]) = filled[i]
<1>1. /\ filled[i] \in Nat /\ trades[i] \subseteq 1..filled[i]
      /\ at[i] \in Terminal /\ row[i].fill \in {0, filled[i]} /\ i \in known
  BY DEF IInv, TypeOK, Persisted, Settled
<1>2. IsFiniteSet(1..filled[i]) /\ Cardinality(1..filled[i]) = filled[i]
  BY <1>1, FS_Interval
<1>3. IsFiniteSet(trades[i])
  BY <1>1, <1>2, FS_Subset
<1>4. CASE trades[i] # {}
  <2>1. Cardinality(trades[i]) # 0
    BY <1>3, <1>4, FS_EmptySet
  <2>2. Cardinality(trades[i]) = filled[i]
    BY <1>1, <2>1 DEF Settled
  <2>3. trades[i] = 1..filled[i]
    BY <1>1, <1>2, <2>2, FS_Subset
  <2> QED
    BY <1>1, <2>2, <2>3
<1>5. CASE trades[i] = {}
  <2>1. filled[i] = 0
    BY <1>5 DEF Settled, IInv, ZeroFillIsProven
  <2>2. trades[i] = 1..filled[i]
    BY <2>1, <1>5
  <2> QED
    BY <1>1, <1>2, <2>2
<1> QED
  BY <1>4, <1>5
-----------------------------------------------------------------------------
(* What a step does to the orders.                                           *)

\* The order of attempt i moves at the broker, and callbacks of it are heard.
Moves(i, s, k) ==
  /\ at[i] \in {"QUEUED"} \cup Open /\ s \in Open \cup Terminal
  /\ k \in Nat /\ filled[i] <= k /\ k <= volume[i] /\ (s \in Open => k < volume[i])
  /\ at' = [at EXCEPT ![i] = s] /\ filled' = [filled EXCEPT ![i] = k]
  /\ calls' \in 0..MaxCalls /\ inbox' \subseteq Reports
  /\ \A r \in inbox' \ inbox : Truth(r)'
  /\ UNCHANGED <<pendingVars, factVars, eventVars, intentVars, cancels, snap,
                 consumerVars>>

\* Only an order that is alive moves, so what was said of an ended one stays true.
LEMMA MovesInv ==
  ASSUME IInv, NEW i \in Attempts, NEW s, NEW k, Moves(i, s, k)
  PROVE  IInv'
<1> USE DEF Moves
<1>0. /\ at \in [Attempts -> Places] /\ filled \in [Attempts -> 0..Target]
      /\ volume \in [Attempts -> 0..Target] /\ k \in 0..Target
      /\ Open \cap Terminal = {} /\ "CLOSED" \notin Open \cup Terminal
      /\ "QUEUED" \notin Open \cup Terminal /\ "NONE" \notin Open \cup Terminal
  BY DEF IInv, TypeOK, Places, Open, Terminal
<1>1. TypeOK'
  <2>1. at' \in [Attempts -> Places] /\ filled' \in [Attempts -> 0..Target]
    BY <1>0 DEF Places
  <2> QED
    BY <2>1 DEF IInv, TypeOK, Places
<1>2. \A j \in Attempts : ~Dead(i) /\ (j # i => at'[j] = at[j] /\ filled'[j] = filled[j])
                          /\ at'[i] = s /\ filled'[i] = k
  BY <1>0 DEF Dead
<1>3. Placed'
  BY <1>0, <1>2 DEF IInv, Placed, Seen
<1>4. Reported'
  <2>1. ASSUME NEW r \in Reports, Truth(r), r.of # i
        PROVE  Truth(r)' /\ (Whole(r) => Whole(r)')
    BY <1>2, <2>1 DEF Truth, Whole, Seen, Reports
  <2>2. ASSUME NEW r \in Reports, Truth(r), r.of = i
        PROVE  Truth(r)' /\ Whole(r)'
    <3>1. ~(r.kind = "ORDER" /\ r.st \in Terminal)
      BY <1>0, <2>2 DEF Truth
    <3>2. r.fill \in Nat
      BY DEF Reports
    <3> QED
      BY <1>0, <1>2, <2>2, <3>1, <3>2 DEF Truth, Whole, Seen
  <2>3. \A r \in inbox' : Truth(r)'
    BY <2>1, <2>2 DEF IInv, Reported, TypeOK
  <2>4. \A r \in snap \cup cur : Truth(r)' /\ (Whole(r) => Whole(r)')
    BY <2>1, <2>2 DEF IInv, Reported, TypeOK
  <2> QED
    BY <2>3, <2>4 DEF IInv, Reported
<1>5. Persisted'
  <2> SUFFICES ASSUME NEW j \in Attempts
               PROVE  /\ row[j].st \in Terminal =>
                           at'[j] = row[j].st /\ row[j].fill \in {0, filled'[j]}
                      /\ trades[j] \subseteq 1..filled'[j]
                      /\ counted[j] \subseteq 1..filled'[j]
    BY DEF Persisted
  <2>1. row[i].st \notin Terminal
    BY <1>0 DEF IInv, Persisted
  <2>2. 1..filled[j] \subseteq 1..filled'[j]
    BY <1>0, <1>2
  <2> QED
    BY <1>2, <2>1, <2>2 DEF IInv, Persisted
<1>6. RemainderOnly' /\ ClosedIsTrue' /\ ZeroFillIsProven'
  <2>1. \A j \in Attempts : Dead(j) => Dead(j)' /\ filled'[j] = filled[j]
    BY <1>2 DEF Dead
  <2>2. RemainderOnly'
    BY <2>1 DEF IInv, RemainderOnly, Made
  <2>3. ClosedIsTrue'
    BY <2>1 DEF IInv, ClosedIsTrue, Made
  <2>4. ZeroFillIsProven'
    BY <2>1 DEF IInv, ZeroFillIsProven
  <2> QED
    BY <2>2, <2>3, <2>4
<1> QED
  BY <1>1, <1>3, <1>4, <1>5, <1>6 DEF IInv

\* The orders stay as they are: the consumer, the outbox or the lifecycle loop
\* reads and writes about them.
Stays ==
  /\ UNCHANGED <<at, filled, volume, finished>>
  /\ \A i \in Attempts :
       /\ status'[i] = "NONE" <=> status[i] = "NONE"
       /\ status'[i] = "LOCAL" => status[i] = "LOCAL"
       /\ status'[i] = "RECONCILED_ZERO_FILL" => Dead(i) /\ filled[i] = 0
       /\ i \in known' => Seen(i)
       /\ row'[i].st \in Terminal =>
            at[i] = row'[i].st /\ row'[i].fill \in {0, filled[i]}
       /\ trades'[i] \subseteq 1..filled[i]
       /\ counted'[i] \subseteq 1..filled[i] /\ counted[i] \subseteq counted'[i]
  /\ \A r \in inbox' \cup snap' \cup cur' : Truth(r)
  /\ \A r \in snap' : Whole(r)
  /\ full' => \A r \in cur' : Whole(r)

\* Whatever is read and written about orders that stay, true facts are kept.
LEMMA StaysInv ==
  ASSUME IInv, TypeOK', Stays
  PROVE  IInv'
<1> USE DEF Stays
<1>1. Made' = Made
  BY DEF Made
<1>2. Placed'
  BY DEF IInv, Placed, Seen
<1>3. Reported'
  <2>1. \A r : (Truth(r)' <=> Truth(r)) /\ (Whole(r)' <=> Whole(r))
    BY DEF Truth, Whole, Seen
  <2> QED
    BY <2>1 DEF Reported
<1>4. Persisted'
  BY DEF Persisted
<1>5. \A i : Dead(i)' = Dead(i)
  BY DEF Dead
<1>6. RemainderOnly'
  BY <1>1, <1>5 DEF IInv, RemainderOnly
<1>7. ClosedIsTrue'
  BY <1>1, <1>5 DEF IInv, ClosedIsTrue, Made
<1>8. ZeroFillIsProven'
  BY <1>5 DEF ZeroFillIsProven
<1> QED
  BY <1>2, <1>3, <1>4, <1>6, <1>7, <1>8 DEF IInv

\* The next attempt is made, for what its predecessor left.
Succeeds(i, v) ==
  /\ i + 1 \in Attempts /\ i + 1 \notin Made /\ ~finished
  /\ Dead(i) /\ v \in Nat \ {0} /\ v + filled[i] <= volume[i]
  /\ NewAttempt(i, v)
  /\ staged' \in 0..Target
  /\ UNCHANGED <<filled, known, last, factVars, eventVars, owner, finished, cancels,
                 mailVars, consumerVars>>

\* The next attempt starts from nothing, and its predecessor is dead.
LEMMA SucceedsInv ==
  ASSUME IInv, NEW i \in Attempts, NEW v, Succeeds(i, v)
  PROVE  IInv'
<1> DEFINE n == i + 1
<1> USE DEF Succeeds
<1>0. /\ at \in [Attempts -> Places] /\ filled \in [Attempts -> 0..Target]
      /\ volume \in [Attempts -> 0..Target] /\ status \in [Attempts -> Statuses]
      /\ v \in 0..Target /\ n \in Attempts /\ n # i
  <2>1. /\ at \in [Attempts -> Places] /\ filled \in [Attempts -> 0..Target]
        /\ volume \in [Attempts -> 0..Target] /\ status \in [Attempts -> Statuses]
    BY DEF IInv, TypeOK, Places
  <2>2. n \in Attempts /\ n # i
    BY DEF Attempts
  <2>3. v \in 0..Target
    <3>1. volume[i] \in 0..Target /\ filled[i] \in 0..Target
      BY <2>1
    <3> QED
      BY <3>1
  <2> QED
    BY <2>1, <2>2, <2>3
<1>1. /\ at' = [at EXCEPT ![n] = "QUEUED"] /\ status' = [status EXCEPT ![n] = "QUEUED"]
      /\ volume' = [volume EXCEPT ![n] = v]
  BY DEF NewAttempt
<1>2. at[n] = "NONE" /\ status[n] = "NONE" /\ filled[n] = 0 /\ ~Seen(n) /\ ~Dead(n)
  <2>1. status[n] = "NONE"
    BY <1>0 DEF Made
  <2>2. at[n] = "NONE"
    BY <1>0, <2>1 DEF IInv, Placed
  <2> QED
    BY <1>0, <2>1, <2>2 DEF IInv, Placed, Seen, Dead, Open, Terminal
<1>3. TypeOK'
  <2>1. at' \in [Attempts -> Places] /\ status' \in [Attempts -> Statuses]
        /\ volume' \in [Attempts -> 0..Target]
    BY <1>0, <1>1 DEF Places, Statuses, Working
  <2> QED
    BY <2>1 DEF IInv, TypeOK, Places
<1>4. \A j \in Attempts : /\ j # n => at'[j] = at[j] /\ status'[j] = status[j]
                                      /\ volume'[j] = volume[j]
                          /\ at'[n] = "QUEUED" /\ status'[n] = "QUEUED" /\ volume'[n] = v
  BY <1>0, <1>1
<1>5. \A j \in Attempts : (Seen(j)' <=> Seen(j)) /\ (Dead(j)' <=> Dead(j))
  BY <1>0, <1>2, <1>4 DEF Seen, Dead, Open, Terminal
<1>6. Placed'
  <2> SUFFICES ASSUME NEW j \in Attempts
               PROVE  /\ at'[j] = "NONE" <=> status'[j] = "NONE"
                      /\ status'[j] = "LOCAL" => at'[j] = "CLOSED"
                      /\ j \in known => Seen(j)'
                      /\ ~Seen(j)' => filled[j] = 0
                      /\ filled[j] <= volume'[j]
                      /\ at'[j] \in {"QUEUED"} \cup Open => filled[j] < volume'[j]
    BY DEF Placed, Seen
  <2>1. CASE j = n
    BY <1>0, <1>2, <1>4, <1>5, <2>1 DEF IInv, Placed
  <2>2. CASE j # n
    BY <1>4, <1>5, <2>2 DEF IInv, Placed
  <2> QED
    BY <2>1, <2>2
<1>7. Reported'
  <2>1. ASSUME NEW r \in Reports, Truth(r)
        PROVE  Truth(r)' /\ (Whole(r) => Whole(r)')
    <3>1. r.of \in Attempts /\ r.of # n
      BY <2>1, <1>2 DEF Reports, Truth
    <3> QED
      BY <2>1, <3>1, <1>4, <1>5 DEF Truth, Whole
  <2> QED
    BY <2>1 DEF IInv, TypeOK, Reported
<1>8. Persisted'
  <2>1. row[n].st \notin Terminal
    BY <1>0, <1>2 DEF IInv, Persisted, Terminal
  <2> QED
    BY <2>1, <1>0, <1>4 DEF IInv, Persisted
<1>9. RemainderOnly'
  <2> SUFFICES ASSUME NEW j \in Attempts, j + 1 \in Made'
               PROVE  Dead(j)' /\ volume'[j + 1] + filled[j] <= volume'[j]
    BY DEF RemainderOnly
  <2>1. j + 1 \in Attempts
    BY DEF Made
  <2>2. CASE j = i
    BY <2>2, <1>0, <1>4, <1>5
  <2>3. CASE j = n
    <3>1. status[j + 1] # "NONE"
      BY <2>1, <2>3, <1>4 DEF Made, Attempts
    <3>2. Dead(n)
      BY <2>1, <2>3, <3>1 DEF IInv, RemainderOnly, Made
    <3> QED
      BY <3>2, <1>2
  <2>4. CASE j # i /\ j # n
    <3>1. j + 1 # n
      BY <2>4 DEF Attempts
    <3>2. j + 1 \in Made
      BY <2>1, <3>1, <1>4 DEF Made
    <3> QED
      BY <2>1, <2>4, <3>1, <3>2, <1>4, <1>5 DEF IInv, RemainderOnly
  <2> QED
    BY <2>2, <2>3, <2>4
<1>10. ClosedIsTrue' /\ ZeroFillIsProven'
  BY <1>0, <1>4, <1>5 DEF IInv, ClosedIsTrue, ZeroFillIsProven
<1> QED
  BY <1>3, <1>6, <1>7, <1>8, <1>9, <1>10 DEF IInv

\* A command closed before it was sent has no reports, and never will.
LEMMA CloseLocallyInv ==
  ASSUME IInv, NEW i \in Attempts, CloseLocally(i)
  PROVE  IInv'
<1> USE DEF CloseLocally
<1>0. at \in [Attempts -> Places] /\ status \in [Attempts -> Statuses]
  BY DEF IInv, TypeOK, Places
<1>1. TypeOK'
  <2>1. at' \in [Attempts -> Places] /\ status' \in [Attempts -> Statuses]
    BY <1>0 DEF Places, Statuses
  <2> QED
    BY <2>1 DEF IInv, TypeOK, Places
<1>2. \A j \in Attempts : /\ j # i => at'[j] = at[j] /\ status'[j] = status[j]
                          /\ at'[i] = "CLOSED" /\ status'[i] = "LOCAL"
                          /\ at[i] = "QUEUED"
  BY <1>0
<1>3. \A j \in Attempts : (Seen(j)' <=> Seen(j)) /\ (Dead(j) => Dead(j)')
  BY <1>2 DEF Seen, Dead, Open, Terminal
<1>4. Placed'
  BY <1>2, <1>3 DEF IInv, Placed, Open, Seen
<1>5. Reported'
  <2>1. ASSUME NEW r \in Reports, Truth(r)
        PROVE  Truth(r)' /\ (Whole(r) => Whole(r)')
    <3>1. r.of \in Attempts /\ r.of # i
      BY <2>1, <1>2 DEF Reports, Truth, Seen, Open, Terminal
    <3> QED
      BY <2>1, <3>1, <1>2, <1>3 DEF Truth, Whole
  <2> QED
    BY <2>1 DEF IInv, TypeOK, Reported
<1>6. Persisted'
  <2>1. row[i].st \notin Terminal
    BY <1>2 DEF IInv, Persisted, Terminal
  <2> QED
    BY <2>1, <1>2 DEF IInv, Persisted
<1>7. Made' = Made
  BY <1>2 DEF Made
<1>8. RemainderOnly' /\ ClosedIsTrue' /\ ZeroFillIsProven'
  <2>1. RemainderOnly'
    BY <1>3, <1>7 DEF IInv, RemainderOnly
  <2>2. ClosedIsTrue'
    BY <1>3, <1>7 DEF IInv, ClosedIsTrue, Made
  <2>3. ZeroFillIsProven'
    BY <1>2, <1>3 DEF IInv, ZeroFillIsProven
  <2> QED
    BY <2>1, <2>2, <2>3
<1> QED
  BY <1>1, <1>4, <1>5, <1>6, <1>8 DEF IInv

\* What finalize_t_order_lifecycle compares is enough: every attempt has ended and
\* every fill is in the executed volume.
LEMMA ConvergedTrue ==
  ASSUME IInv, Converged
  PROVE  \A i \in Made : Dead(i) /\ counted[i] = 1..filled[i]
<1> DEFINE F == Fills(counted)
           G == {x \in Fills(trades) : x[1] \in Made \cap known}
<1>1. ASSUME NEW i \in Made
      PROVE  /\ i \in Attempts /\ Dead(i) /\ filled[i] \in 0..Target
             /\ filled[i] > 0 => i \in known /\ trades[i] = 1..filled[i]
  <2>1. i \in Attempts /\ Ended(i) /\ filled[i] \in 0..Target
    BY DEF Made, Converged, IInv, TypeOK
  <2>2. CASE Settled(i)
    BY <2>1, <2>2, SettledTrue DEF Dead
  <2>3. CASE status[i] = "LOCAL"
    BY <2>1, <2>3 DEF IInv, Placed, Seen, Dead, Open, Terminal
  <2> QED
    BY <2>1, <2>2, <2>3 DEF Ended
<1>2. ASSUME NEW i \in Attempts, NEW k \in counted[i]
      PROVE  i \in Made \cap known /\ k \in trades[i]
  <2>1. k \in 1..filled[i] /\ filled[i] \in 0..Target
    BY DEF IInv, Persisted, TypeOK
  <2>2. filled[i] > 0
    BY <2>1
  <2>3. i \in Made
    BY <2>2 DEF IInv, Placed, Seen, Made, Open, Terminal
  <2> QED
    BY <1>1, <2>1, <2>2, <2>3
<1>3. F \subseteq G
  BY <1>2 DEF Fills
<1>4. IsFiniteSet(G)
  <2>1. IsFiniteSet(Attempts) /\ IsFiniteSet(Executions)
    <3>1. IsFiniteSet(0..2) /\ IsFiniteSet(1..Target)
      BY FS_Interval, 0 \in Int, 1 \in Int, 2 \in Int, Target \in Int
    <3> QED
      BY <3>1 DEF Attempts, Executions
  <2>2. IsFiniteSet(Attempts \X Executions)
    BY <2>1, FS_Product
  <2>3. G \subseteq Attempts \X Executions
    BY DEF Fills
  <2> QED
    BY <2>2, <2>3, FS_Subset
<1>5. F = G
  <2>1. Cardinality(F) = Cardinality(G)
    BY DEF Converged, Executed
  <2> QED
    BY <1>3, <1>4, <2>1, FS_Subset
<1>6. ASSUME NEW i \in Made
      PROVE  counted[i] = 1..filled[i]
  <2>1. counted[i] \subseteq 1..filled[i]
    BY <1>1, <1>6 DEF IInv, Persisted
  <2>2. ASSUME NEW k \in 1..filled[i]
        PROVE  k \in counted[i]
    <3>1. i \in known /\ k \in trades[i] /\ k \in Executions
      BY <1>1, <1>6 DEF Executions
    <3>2. <<i, k>> \in G
      BY <3>1, <1>1, <1>6 DEF Fills
    <3>3. <<i, k>> \in F
      BY <3>2, <1>5
    <3> QED
      BY <3>3 DEF Fills
  <2> QED
    BY <2>1, <2>2
<1> QED
  BY <1>1, <1>6

\* The lifecycle is closed only on proof.
LEMMA CloseLifecycleInv ==
  ASSUME IInv, NEW i \in Attempts, CloseLifecycle(i)
  PROVE  IInv'
<1> USE DEF CloseLifecycle
<1>1. TypeOK'
  <2>1. unapplied' \subseteq Attempts /\ staged' \in 0..Target /\ finished' \in BOOLEAN
    BY DEF IInv, TypeOK, Converged
  <2> QED
    BY <2>1 DEF IInv, TypeOK
<1>2. Placed' /\ Persisted' /\ RemainderOnly' /\ ZeroFillIsProven'
  BY DEF IInv, Placed, Persisted, RemainderOnly, ZeroFillIsProven, Seen, Dead, Made
<1>3. Reported'
  BY DEF IInv, Reported, Truth, Whole, Seen
<1>4. ClosedIsTrue'
  BY ConvergedTrue DEF ClosedIsTrue, Made, Dead
<1> QED
  BY <1>1, <1>2, <1>3, <1>4 DEF IInv
-----------------------------------------------------------------------------
(* The broker.                                                               *)

\* Heard callbacks are some of those the broker's step gives rise to.
LEMMA CallHeard ==
  ASSUME IInv, NEW S \in SUBSET Reports, IsFiniteSet(S), Call(S)
  PROVE  calls' \in 0..MaxCalls /\ inbox' \subseteq Reports /\ inbox' \ inbox \subseteq S
<1>1. PICK heard \in SUBSET S : /\ calls + Cardinality(heard) <= MaxCalls
                                /\ inbox' = inbox \cup heard
                                /\ calls' = calls + Cardinality(heard)
  BY DEF Call
<1>2. Cardinality(heard) \in Nat
  <2>1. IsFiniteSet(heard)
    BY FS_Subset
  <2> QED
    BY <2>1, FS_CardinalityType
<1>3. calls \in 0..MaxCalls /\ inbox \subseteq Reports
  BY DEF IInv, TypeOK
<1> QED
  BY <1>1, <1>2, <1>3

\* An order report has the type of a report.
LEMMA OrderReport ==
  ASSUME NEW i \in Attempts, NEW st \in Open \cup Terminal, NEW fill \in 0..Target
  PROVE  Order(i, st, fill) \in Reports /\ IsFiniteSet({Order(i, st, fill)})
<1>1. IsFiniteSet({Order(i, st, fill)})
  BY FS_Singleton
<1> QED
  BY <1>1 DEF Order, Reports

\* The order arrives at the broker.
LEMMA SubmitInv ==
  ASSUME IInv, NEW i \in Attempts, Submit(i)
  PROVE  IInv'
<1> USE DEF Submit
<1>1. at[i] = "QUEUED" /\ filled[i] = 0 /\ 0 < volume[i] /\ volume[i] \in 0..Target
      /\ filled \in [Attempts -> 0..Target] /\ at \in [Attempts -> Places]
  BY DEF IInv, TypeOK, Placed, Seen, Open, Terminal, Places
<1>2. Order(i, "SUBMITTED", 0) \in Reports /\ IsFiniteSet({Order(i, "SUBMITTED", 0)})
  BY OrderReport DEF Open
<1>3. /\ calls' \in 0..MaxCalls /\ inbox' \subseteq Reports
      /\ inbox' \ inbox \subseteq {Order(i, "SUBMITTED", 0)}
  BY <1>2, CallHeard
<1>4. Truth(Order(i, "SUBMITTED", 0))'
  BY <1>1 DEF Truth, Order, Seen, Open, Terminal
<1>5. Moves(i, "SUBMITTED", 0)
  <2>1. filled' = [filled EXCEPT ![i] = 0] /\ at' = [at EXCEPT ![i] = "SUBMITTED"]
        /\ UNCHANGED <<pendingVars, factVars, eventVars, intentVars, cancels, snap,
                       consumerVars>>
    BY <1>1
  <2>2. \A r \in inbox' \ inbox : Truth(r)'
    BY <1>3, <1>4
  <2>3. "SUBMITTED" \in Open /\ 0 \in Nat /\ filled[i] <= 0 /\ 0 <= volume[i]
    BY <1>1 DEF Open
  <2> QED
    BY <1>1, <1>3, <2>1, <2>2, <2>3 DEF Moves
<1> QED
  BY <1>5, MovesInv

\* One more unit is traded: the new callbacks are true, the old ones still are.
LEMMA FillInv ==
  ASSUME IInv, NEW i \in Attempts, Fill(i)
  PROVE  IInv'
<1>1. at[i] \in Open /\ filled[i] < volume[i] /\ volume[i] \in 0..Target
      /\ filled \in [Attempts -> 0..Target] /\ at \in [Attempts -> Places]
  BY DEF IInv, TypeOK, Placed, Places, Fill
<1>2. filled[i] \in Nat /\ filled[i] + 1 \in 0..Target
  BY <1>1
<1>3. PICK k \in 0..Target : k = filled[i] + 1
  BY <1>2
<1>4. PICK st \in Open \cup Terminal :
        st = IF k = volume[i] THEN "FILLED" ELSE "PARTIAL_FILLED"
  BY DEF Open, Terminal
<1>5. /\ at' = [at EXCEPT ![i] = st] /\ filled' = [filled EXCEPT ![i] = k]
      /\ Call({Order(i, st, k), Trade(i, k)})
      /\ UNCHANGED <<pendingVars, factVars, eventVars, intentVars, cancels,
                     snap, consumerVars>>
  BY <1>3, <1>4 DEF Fill
<1>6. {Order(i, st, k), Trade(i, k)} \in SUBSET Reports
      /\ IsFiniteSet({Order(i, st, k), Trade(i, k)})
  <2>1. Order(i, st, k) \in Reports /\ IsFiniteSet({Order(i, st, k)})
    BY OrderReport
  <2>2. Trade(i, k) \in Reports
    BY DEF Trade, Reports, Open
  <2>3. {Order(i, st, k), Trade(i, k)} = {Order(i, st, k)} \cup {Trade(i, k)}
    OBVIOUS
  <2>4. IsFiniteSet({Order(i, st, k)} \cup {Trade(i, k)})
    BY <2>1, FS_AddElement
  <2> QED
    BY <2>1, <2>2, <2>3, <2>4
<1>7. /\ calls' \in 0..MaxCalls /\ inbox' \subseteq Reports
      /\ inbox' \ inbox \subseteq {Order(i, st, k), Trade(i, k)}
  BY <1>5, <1>6, CallHeard
<1>8. at'[i] = st /\ filled'[i] = k /\ k > 0
  BY <1>1, <1>3, <1>5
<1>9. Truth(Order(i, st, k))' /\ Truth(Trade(i, k))'
  BY <1>8 DEF Truth, Order, Trade, Seen
<1>10. Moves(i, st, k)
  <2>1. st \in Open => k < volume[i]
    BY <1>1, <1>2, <1>3, <1>4 DEF Open
  <2>2. k \in Nat /\ filled[i] <= k /\ k <= volume[i]
    BY <1>1, <1>2, <1>3
  <2> QED
    BY <1>1, <1>5, <1>7, <1>9, <2>1, <2>2 DEF Moves
<1> QED
  BY <1>10, MovesInv

\* The order ends; its callback carries the cumulative fill or none.
LEMMA EndOrderInv ==
  ASSUME IInv, NEW i \in Attempts, NEW st \in Terminal, at[i] \in Open, EndOrder(i, st)
  PROVE  IInv'
<1>1. filled \in [Attempts -> 0..Target] /\ at \in [Attempts -> Places]
      /\ filled[i] <= volume[i]
  BY DEF IInv, TypeOK, Placed, Places
<1>2. PICK k \in 0..Target : k = filled[i]
  BY <1>1
<1>3. PICK fill \in {0, k} : Call({Order(i, st, fill)})
  BY <1>2 DEF EndOrder
<1>4. fill \in 0..Target
  BY <1>2, <1>3
<1>5. Order(i, st, fill) \in Reports /\ IsFiniteSet({Order(i, st, fill)})
  BY <1>4, OrderReport
<1>6. /\ calls' \in 0..MaxCalls /\ inbox' \subseteq Reports
      /\ inbox' \ inbox \subseteq {Order(i, st, fill)}
  BY <1>3, <1>5, CallHeard
<1>7. /\ at' = [at EXCEPT ![i] = st] /\ filled' = [filled EXCEPT ![i] = k]
      /\ UNCHANGED <<pendingVars, factVars, eventVars, intentVars, cancels,
                     snap, consumerVars>>
  BY <1>1, <1>2 DEF EndOrder
<1>8. Truth(Order(i, st, fill))'
  BY <1>1, <1>2, <1>3, <1>4, <1>7 DEF Truth, Order, Seen
<1>9. Moves(i, st, k)
  <2>1. st \notin Open
    BY DEF Open, Terminal
  <2> QED
    BY <1>1, <1>2, <1>6, <1>7, <1>8, <2>1 DEF Moves
<1> QED
  BY <1>9, MovesInv

\* Every step of the broker keeps the invariant.
LEMMA BrokerInv ==
  ASSUME IInv, NEW i \in Attempts, Broker(i)
  PROVE  IInv'
<1>1. CASE Submit(i)
  BY <1>1, SubmitInv
<1>2. CASE Fill(i)
  BY <1>2, FillInv
<1>3. CASE CancelAtBroker(i) \/ EndAtBroker(i)
  <2>1. at[i] \in Open /\ (EndOrder(i, "CANCELLED") \/ EndOrder(i, "REJECTED"))
    BY <1>3 DEF CancelAtBroker, EndAtBroker, Open
  <2> QED
    BY <2>1, EndOrderInv DEF Terminal
<1> QED
  BY <1>1, <1>2, <1>3 DEF Broker
-----------------------------------------------------------------------------
(* The command's outcome and the report consumer.                            *)

\* What holds of the orders as they are, in the form of Stays.
LEMMA Staying ==
  ASSUME IInv
  PROVE  /\ \A i \in Attempts :
              /\ status[i] = "RECONCILED_ZERO_FILL" => Dead(i) /\ filled[i] = 0
              /\ i \in known => Seen(i)
              /\ row[i].st \in Terminal =>
                   at[i] = row[i].st /\ row[i].fill \in {0, filled[i]}
              /\ trades[i] \subseteq 1..filled[i]
              /\ counted[i] \subseteq 1..filled[i]
         /\ \A r \in inbox \cup snap \cup cur : r \in Reports /\ Truth(r)
         /\ \A r \in snap : Whole(r)
         /\ full => \A r \in cur : Whole(r)
BY DEF IInv, TypeOK, Placed, Reported, Persisted, ZeroFillIsProven

\* The command's outcome changes what is known of an order, not the order.
LEMMA CommandInv ==
  ASSUME IInv, NEW i \in Attempts, Command(i)
  PROVE  IInv'
<1>0. status \in [Attempts -> Statuses] /\ known \subseteq Attempts
  BY DEF IInv, TypeOK
<1>1. CASE AckAccepted(i)
  <2> USE <1>1 DEF AckAccepted
  <2>1. status' \in [Attempts -> Statuses] /\ known' \subseteq Attempts
    BY <1>0 DEF Statuses, Working, Open
  <2>2. TypeOK'
    BY <2>1 DEF IInv, TypeOK
  <2>3. \A j \in Attempts : j \in known' => Seen(j)
    BY Staying DEF Seen
  <2>4. \A j \in Attempts : \/ status'[j] = status[j]
                            \/ /\ status[j] \in {"QUEUED", "RECONCILE_REQUIRED"}
                               /\ status'[j] = "SUBMITTED"
    BY <1>0
  <2>5. Stays
    BY <2>3, <2>4, Staying DEF Stays
  <2> QED
    BY <2>2, <2>5, StaysInv
<1>2. CASE OutcomeUnknown(i)
  <2> USE <1>2 DEF OutcomeUnknown
  <2>1. status' \in [Attempts -> Statuses]
    BY <1>0 DEF Statuses, Working
  <2>2. TypeOK'
    BY <2>1 DEF IInv, TypeOK
  <2>3. \A j \in Attempts : \/ status'[j] = status[j]
                            \/ status[j] = "QUEUED" /\ status'[j] = "RECONCILE_REQUIRED"
    BY <1>0
  <2>4. Stays
    BY <2>3, Staying DEF Stays
  <2> QED
    BY <2>2, <2>4, StaysInv
<1> QED
  BY <1>1, <1>2, CloseLocallyInv DEF Command

\* A message is taken as it was sent.
LEMMA ClaimInv ==
  ASSUME IInv, Claim
  PROVE  IInv'
<1> USE DEF Claim
<1>1. TypeOK'
  BY DEF IInv, TypeOK
<1>2. Stays
  BY Staying DEF Stays
<1> QED
  BY <1>1, <1>2, StaysInv

\* What is persisted is what the report says.
LEMMA PersistInv ==
  ASSUME IInv, NEW r \in todo, Persist(r)
  PROVE  IInv'
<1> USE DEF Persist
<1>1. r \in cur /\ r \in Reports /\ Truth(r)
  BY Staying DEF IInv, TypeOK
<1>2. /\ r.of \in Attempts /\ r.st \in Open \cup Terminal /\ r.fill \in 0..Target
      /\ r.kind = "TRADE" => r.fill \in 1..filled[r.of]
      /\ filled[r.of] \in 0..Target
  <2>1. /\ r.of \in Attempts /\ r.st \in Open \cup Terminal /\ r.fill \in 0..Target
    BY <1>1 DEF Reports
  <2>2. filled[r.of] \in 0..Target
    BY <2>1 DEF IInv, TypeOK
  <2> QED
    BY <1>1, <2>1, <2>2 DEF Truth
<1>3. /\ row \in [Attempts -> [st : Open \cup Terminal, fill : 0..Target] \cup {NoRow}]
      /\ trades \in [Attempts -> SUBSET Executions]
  BY DEF IInv, TypeOK
<1>4. /\ row' \in [Attempts -> [st : Open \cup Terminal, fill : 0..Target] \cup {NoRow}]
      /\ trades' \in [Attempts -> SUBSET Executions]
  <2>1. r.kind = "TRADE" => r.fill \in Executions
    BY <1>2 DEF Executions
  <2> QED
    BY <1>2, <1>3, <2>1
<1>5. TypeOK'
  BY <1>1, <1>4 DEF IInv, TypeOK
<1>6. \A i \in Attempts : /\ row'[i].st \in Terminal =>
                               at[i] = row'[i].st /\ row'[i].fill \in {0, filled[i]}
                          /\ trades'[i] \subseteq 1..filled[i]
  <2>1. ASSUME NEW i \in Attempts, row'[i].st \in Terminal
        PROVE  at[i] = row'[i].st /\ row'[i].fill \in {0, filled[i]}
    <3>1. CASE r.kind = "ORDER" /\ i = r.of
      <4>1. row'[i] = [st |-> r.st, fill |-> r.fill]
        BY <3>1, <1>3
      <4> QED
        BY <2>1, <3>1, <4>1, <1>1 DEF Truth
    <3>2. CASE ~(r.kind = "ORDER" /\ i = r.of)
      <4>1. row'[i] = row[i]
        BY <3>2, <1>3
      <4> QED
        BY <2>1, <4>1, Staying
    <3> QED
      BY <3>1, <3>2
  <2>2. ASSUME NEW i \in Attempts
        PROVE  trades'[i] \subseteq 1..filled[i]
    <3>1. trades'[i] = trades[i] \/ (trades'[i] = trades[i] \cup {r.fill}
                                     /\ i = r.of /\ r.kind = "TRADE")
      BY <1>3
    <3> QED
      BY <3>1, <1>2, Staying
  <2> QED
    BY <2>1, <2>2
<1>7. Stays
  BY <1>6, Staying DEF Stays
<1> QED
  BY <1>5, <1>7, StaysInv

\* A report never makes a local or a zero-fill status.
LEMMA UpdatePendingInv ==
  ASSUME IInv, NEW r \in upd, UpdatePending(r)
  PROVE  IInv'
<1> USE DEF UpdatePending
<1>1. r \in cur /\ r \in Reports /\ Truth(r)
  BY Staying DEF IInv, TypeOK
<1>2. r.of \in Attempts /\ r.st \in Open \cup Terminal /\ r.fill \in 0..Target
      /\ Seen(r.of)
  BY <1>1 DEF Reports, Truth
<1>3. status \in [Attempts -> Statuses] /\ last \in [Attempts -> 0..Target + 2]
  BY DEF IInv, TypeOK
<1>4. Rank(r) \in 0..Target + 2
  BY <1>2 DEF Rank
<1>5. status' = status \/ status' = [status EXCEPT ![r.of] = r.st]
  OBVIOUS
<1>6. last' = last \/ last' = [last EXCEPT ![r.of] = Rank(r)]
  OBVIOUS
<1>7. known' = known \cup {r.of} /\ upd' = {}
      /\ UNCHANGED <<brokerVars, volume, factVars, eventVars, intentVars, cancels,
                     mailVars, cur, full, todo>>
  OBVIOUS
<1> HIDE DEF UpdatePending
<1>8. status' \in [Attempts -> Statuses] /\ last' \in [Attempts -> 0..Target + 2]
  BY <1>2, <1>3, <1>4, <1>5, <1>6 DEF Statuses, Working
<1>9. TypeOK'
  BY <1>2, <1>7, <1>8 DEF IInv, TypeOK
<1>10. \A i \in Attempts : /\ \/ status'[i] = status[i]
                              \/ i = r.of /\ status'[i] = r.st
                           /\ i \in known' => i \in known \/ i = r.of
  BY <1>2, <1>3, <1>5, <1>7
<1>11. status[r.of] # "NONE" /\ r.st \notin {"NONE", "LOCAL", "RECONCILED_ZERO_FILL"}
  BY <1>2 DEF IInv, Placed, Seen, Open, Terminal
<1>12. Stays
  BY <1>2, <1>7, <1>10, <1>11, Staying DEF Stays
<1> QED
  BY <1>9, <1>12, StaysInv

\* A full snapshot that shows a cancelled order without a fill is the proof that
\* the order ended without one.
LEMMA ProvenTrue ==
  ASSUME IInv, NEW i \in Proven
  PROVE  i \in Attempts /\ at[i] = "CANCELLED" /\ filled[i] = 0 /\ status[i] = "CANCELLED"
<1>1. i \in Attempts /\ full /\ Order(i, "CANCELLED", 0) \in cur /\ status[i] = "CANCELLED"
  BY DEF Proven
<1>2. Truth(Order(i, "CANCELLED", 0)) /\ Whole(Order(i, "CANCELLED", 0))
  BY <1>1, Staying
<1> QED
  BY <1>1, <1>2 DEF Truth, Whole, Order, Terminal

\* Staged fills are the broker's, and a zero-fill status has its proof.
LEMMA StageEventsInv ==
  ASSUME IInv, NEW ready \in BOOLEAN, StageEvents(ready)
  PROVE  IInv'
<1> DEFINE proofs == IF ready /\ ~finished THEN Proven ELSE {}
           orders == [i \in Attempts |->
                        (NewOrders(i) \cup (IF i \in proofs THEN {ZeroFill} ELSE {}))
                        \ events[i]]
           fills == [i \in Attempts |-> NewTrades(i) \ counted[i]]
           fresh == {i \in Attempts : orders[i] # {} \/ fills[i] # {}}
           E == (Open \cup Terminal) \X (0..Target) \cup {ZeroFill}
<1>1. /\ todo = {} /\ upd = {}
      /\ events' = [i \in Attempts |-> events[i] \cup orders[i]]
      /\ counted' = [i \in Attempts |-> counted[i] \cup fills[i]]
      /\ unapplied' = unapplied \cup fresh
      /\ status' = [i \in Attempts |-> IF ByAssistant /\ i \in proofs /\ ZeroFill \in orders[i]
                                       THEN "RECONCILED_ZERO_FILL" ELSE status[i]]
      /\ cur' = {} /\ full' = FALSE
      /\ UNCHANGED <<brokerVars, volume, known, last, factVars, owner, finished, cancels,
                     mailVars, todo, upd>>
  BY DEF StageEvents
<1>2. staged' \in {0, staged}
  BY DEF StageEvents
<1>3. \A i \in Attempts : orders[i] \subseteq E
  <2>1. ASSUME NEW i \in Attempts, NEW e \in NewOrders(i)
        PROVE  e \in (Open \cup Terminal) \X (0..Target)
    <3>1. PICK x \in cur : e = <<x.st, x.fill>>
      BY DEF NewOrders
    <3>2. x \in Reports
      BY Staying
    <3> QED
      BY <3>1, <3>2 DEF Reports
  <2>2. ASSUME NEW i \in Attempts
        PROVE  orders[i] \subseteq NewOrders(i) \cup {ZeroFill}
    OBVIOUS
  <2> QED
    BY <2>1, <2>2
<1>4. \A i \in Attempts : fills[i] \subseteq 1..filled[i]
  <2> SUFFICES ASSUME NEW i \in Attempts, NEW k \in NewTrades(i)
               PROVE  k \in 1..filled[i]
    OBVIOUS
  <2>1. PICK x \in cur : x.kind = "TRADE" /\ x.of = i /\ k = x.fill
    BY DEF NewTrades
  <2>2. x \in Reports /\ Truth(x) /\ filled[i] \in 0..Target
    BY Staying DEF IInv, TypeOK
  <2>3. x.fill \in 0..Target
    BY <2>2 DEF Reports
  <2> QED
    BY <2>1, <2>2, <2>3 DEF Truth
<1>5. /\ filled \in [Attempts -> 0..Target] /\ counted \in [Attempts -> SUBSET Executions]
      /\ events \in [Attempts -> SUBSET E] /\ status \in [Attempts -> Statuses]
      /\ unapplied \subseteq Attempts /\ staged \in 0..Target
  BY DEF IInv, TypeOK
<1>6. \A i \in proofs : i \in Attempts /\ Dead(i) /\ filled[i] = 0 /\ status[i] = "CANCELLED"
  BY ProvenTrue DEF Dead, Terminal
<1> HIDE DEF proofs, orders, fills, E
<1>7. \A i \in Attempts : /\ status'[i] = status[i] \/ (/\ i \in proofs
                                                        /\ status'[i] = "RECONCILED_ZERO_FILL")
                          /\ counted'[i] = counted[i] \cup fills[i]
  BY <1>1
<1>8. TypeOK'
  <2>1. events' \in [Attempts -> SUBSET E]
    BY <1>1, <1>3, <1>5
  <2>2. counted' \in [Attempts -> SUBSET Executions]
    <3>1. \A i \in Attempts : 1..filled[i] \subseteq Executions
      BY <1>5 DEF Executions
    <3> QED
      BY <1>1, <1>4, <1>5, <3>1
  <2>3. status' \in [Attempts -> Statuses]
    BY <1>1, <1>5 DEF Statuses
  <2>4. unapplied' \subseteq Attempts /\ staged' \in 0..Target
    BY <1>1, <1>2, <1>5 DEF fresh
  <2> QED
    BY <1>1, <2>1, <2>2, <2>3, <2>4 DEF IInv, TypeOK, E
<1>9. Stays
  <2>1. \A i \in Attempts :
          /\ status'[i] = "NONE" <=> status[i] = "NONE"
          /\ status'[i] = "LOCAL" => status[i] = "LOCAL"
          /\ status'[i] = "RECONCILED_ZERO_FILL" => Dead(i) /\ filled[i] = 0
    BY <1>6, <1>7, Staying
  <2>2. \A i \in Attempts : counted'[i] \subseteq 1..filled[i] /\ counted[i] \subseteq counted'[i]
    BY <1>4, <1>7, Staying
  <2> QED
    BY <1>1, <2>1, <2>2, Staying DEF Stays
<1> QED
  BY <1>8, <1>9, StaysInv

\* A failed message is put back or dropped as it was.
LEMMA ReportFailsInv ==
  ASSUME IInv, ReportFails
  PROVE  IInv'
<1> USE DEF ReportFails
<1>1. TypeOK'
  BY DEF IInv, TypeOK
<1>2. Stays
  BY Staying DEF Stays
<1> QED
  BY <1>1, <1>2, StaysInv

\* Every step of the report consumer keeps the invariant.
LEMMA ConsumerInv ==
  ASSUME IInv, Consumer
  PROVE  IInv'
BY ClaimInv, PersistInv, UpdatePendingInv, StageEventsInv, ReportFailsInv DEF Consumer

\* A full snapshot is true and whole when it is taken.
LEMMA TakeSnapshotInv ==
  ASSUME IInv, TakeSnapshot
  PROVE  IInv'
<1>1. ASSUME NEW r \in View
      PROVE  r \in Reports /\ Truth(r) /\ Whole(r)
  <2>0. at \in [Attempts -> Places] /\ filled \in [Attempts -> 0..Target]
    BY DEF IInv, TypeOK, Places
  <2>1. CASE \E i \in Attempts : Seen(i) /\ r = Order(i, at[i], filled[i])
    BY <2>0, <2>1 DEF Order, Reports, Truth, Whole, Seen
  <2>2. CASE \E i \in Attempts : Seen(i) /\ \E k \in 1..filled[i] : r = Trade(i, k)
    BY <2>0, <2>2 DEF Trade, Reports, Truth, Whole, Seen, Open
  <2> QED
    BY <2>1, <2>2 DEF View, Seen
<1> USE DEF TakeSnapshot
<1>2. TypeOK'
  BY <1>1 DEF IInv, TypeOK
<1>3. Stays
  BY <1>1, Staying DEF Stays
<1> QED
  BY <1>2, <1>3, StaysInv
-----------------------------------------------------------------------------
(* The lifecycle loop.                                                       *)

\* An attempt that may be replaced is dead, and what remains is what it left.
LEMMA ReplaceableTrue ==
  ASSUME IInv, NEW i \in Attempts, Replaceable(i), NEW v \in 1..Remaining(i)
  PROVE  /\ i + 1 \in Attempts /\ i + 1 \notin Made /\ ~finished /\ Dead(i)
         /\ v \in Nat \ {0} /\ v + filled[i] <= volume[i] /\ v \in 0..Target
<1>1. i + 1 \in Attempts
  BY DEF Replaceable, MaxReplace, Attempts
<1>2. at[i] \in Terminal /\ Cardinality(trades[i]) = filled[i]
  BY SettledTrue DEF Replaceable
<1>3. filled[i] \in 0..Target /\ volume[i] \in 0..Target
  BY DEF IInv, TypeOK
<1>4. v \in Nat \ {0} /\ v + filled[i] <= volume[i] /\ v \in 0..Target
  BY <1>2, <1>3 DEF Remaining
<1> QED
  BY <1>1, <1>2, <1>4 DEF Replaceable, Newest, Dead

\* Every step of the lifecycle loop keeps the invariant.
LEMMA LoopInv ==
  ASSUME IInv, NEW i \in Attempts, Loop(i)
  PROVE  IInv'
<1>0. status \in [Attempts -> Statuses] /\ staged \in 0..Target /\ cancels \subseteq Attempts
  BY DEF IInv, TypeOK
<1>1. CASE ExpireOrder(i)
  <2> USE <1>1 DEF ExpireOrder
  <2>1. status' \in [Attempts -> Statuses] /\ staged' \in 0..Target
        /\ cancels' \subseteq Attempts
    BY <1>0 DEF Statuses, Working
  <2>2. TypeOK'
    BY <2>1 DEF IInv, TypeOK
  <2>3. \A j \in Attempts : \/ status'[j] = status[j]
                            \/ status[j] \in Working /\ status'[j] = "CANCEL_REQUESTED"
    BY <1>0
  <2>4. "NONE" \notin Working
    BY DEF Working, Open
  <2>5. Stays
    BY <2>3, <2>4, Staying DEF Stays
  <2> QED
    BY <2>2, <2>5, StaysInv
<1>2. CASE Replace(i)
  <2>1. PICK v \in 1..Remaining(i) : NewAttempt(i, v)
    BY <1>2 DEF Replace
  <2>2. Succeeds(i, v)
    BY <1>0, <1>2, <2>1, ReplaceableTrue DEF Replace, Succeeds
  <2> QED
    BY <2>2, SucceedsInv
<1>3. CASE StageReplacement(i)
  <2> USE <1>3 DEF StageReplacement
  <2>1. staged' \in 0..Target
    BY ReplaceableTrue
  <2>2. TypeOK'
    BY <2>1 DEF IInv, TypeOK
  <2>3. Stays
    BY Staying DEF Stays
  <2> QED
    BY <2>2, <2>3, StaysInv
<1>4. CASE Dispatch(i)
  <2>1. PICK v \in 1..Remaining(i) : v = staged
    BY <1>4 DEF Dispatch
  <2>2. Succeeds(i, v)
    BY <1>4, <2>1, ReplaceableTrue DEF Dispatch, Succeeds
  <2> QED
    BY <2>2, SucceedsInv
<1> QED
  BY <1>1, <1>2, <1>3, <1>4, CloseLifecycleInv DEF Loop

\* Applied events change no order.
LEMMA ApplyEventsInv ==
  ASSUME IInv, NEW i \in Attempts, ApplyEvents(i)
  PROVE  IInv'
<1> USE DEF ApplyEvents
<1>1. TypeOK'
  BY DEF IInv, TypeOK
<1>2. Stays
  BY Staying DEF Stays
<1> QED
  BY <1>1, <1>2, StaysInv

\* Every step keeps the invariant.
LEMMA NextInv ==
  ASSUME IInv, [Next]_vars
  PROVE  IInv'
<1>1. CASE UNCHANGED vars
  <2> USE <1>1 DEF vars
  <2>1. TypeOK'
    BY DEF IInv, TypeOK
  <2>2. Stays
    BY Staying DEF Stays
  <2> QED
    BY <2>1, <2>2, StaysInv
<1> QED
  BY <1>1, BrokerInv, CommandInv, LoopInv, ApplyEventsInv, ConsumerInv,
     TakeSnapshotInv DEF Next

\* Every reachable state satisfies the inductive invariant: what the consumer
\* reads and persists, however late or often, are facts of the broker.
THEOREM LifecycleInvariant == Spec => []IInv
BY InitInv, NextInv, PTL DEF Spec

\* The rows, the events and the messages keep their types.
THEOREM LifecycleTypes == Spec => []TypeOK
<1>1. IInv => TypeOK
  BY DEF IInv
<1> QED
  BY <1>1, LifecycleInvariant, PTL

\* An attempt is replaced only after it ended at the broker, for no more than its
\* unfilled volume (evaluate_t_order_replacement, replace_t_order, the dispatch of
\* a staged entry).
THEOREM OnlyTheRemainder == Spec => []RemainderOnly
<1>1. IInv => RemainderOnly
  BY DEF IInv
<1> QED
  BY <1>1, LifecycleInvariant, PTL

\* The attempts of an intent together never trade more than its first one was for:
\* each is within what its predecessors left (replace_t_order, decide_replace).
THEOREM NeverOvertraded == Spec => []NeverOvertrades
<1>1. IInv => NeverOvertrades
  <2> SUFFICES ASSUME IInv PROVE NeverOvertrades
    OBVIOUS
  <2>1. /\ 0 \in Attempts /\ 1 \in Attempts /\ 2 \in Attempts
        /\ 0 + 1 = 1 /\ 1 + 1 = 2
    BY DEF Attempts
  <2>2. \A i \in Attempts : /\ filled[i] \in 0..Target /\ volume[i] \in 0..Target
                            /\ filled[i] <= volume[i]
                            /\ i \notin Made => filled[i] = 0
    BY DEF IInv, TypeOK, Placed, Made, Seen, Open, Terminal
  <2>3. 1 \in Made => volume[1] + filled[0] <= volume[0]
    BY <2>1 DEF IInv, RemainderOnly
  <2>4. 2 \in Made => 1 \in Made /\ volume[2] + filled[1] <= volume[1]
    <3> SUFFICES ASSUME 2 \in Made
                 PROVE  1 \in Made /\ volume[2] + filled[1] <= volume[1]
      OBVIOUS
    <3>1. Dead(1) /\ volume[2] + filled[1] <= volume[1]
      BY <2>1 DEF IInv, RemainderOnly
    <3>2. at[1] # "NONE"
      BY <3>1 DEF Dead, Terminal
    <3> QED
      BY <2>1, <3>1, <3>2 DEF IInv, Placed, Made
  <2> QED
    BY <2>1, <2>2, <2>3, <2>4 DEF NeverOvertrades
<1> QED
  BY <1>1, LifecycleInvariant, PTL

\* A closed lifecycle told the owner the truth: no attempt can trade any more and
\* every fill is in the executed volume (finalize_t_order_lifecycle).
THEOREM ClosedTellsTruth == Spec => []ClosedIsTrue
<1>1. IInv => ClosedIsTrue
  BY DEF IInv
<1> QED
  BY <1>1, LifecycleInvariant, PTL

\* RECONCILED_ZERO_FILL is given only to an order that ended without a fill
\* (_full_snapshot_zero_fill_items).
THEOREM ZeroFillProven == Spec => []ZeroFillIsProven
<1>1. IInv => ZeroFillIsProven
  BY DEF IInv
<1> QED
  BY <1>1, LifecycleInvariant, PTL
=============================================================================
