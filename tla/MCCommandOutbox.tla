-------------------------- MODULE MCCommandOutbox --------------------------
(* Instances of CommandOutbox for TLC. *)
EXTENDS CommandOutbox

CONSTANTS p1, t1

\* Two commands, of a plain order and of an order of an open T lifecycle.  One of
\* them is settled: it expired in the queue before it was delivered.
MCOneOldInit ==
  \E old \in Place :
    /\ row = [p \in Place |-> IF p = old THEN "EXPIRED" ELSE "QUEUED"]
    /\ pending = row
    /\ why = [p \in Place |-> IF p = old THEN "before_delivery" ELSE "NONE"]
    /\ expired = [p \in Place |-> p = old]
    /\ known = [p \in Place |-> FALSE] /\ attempts = [p \in Place |-> 0]
    /\ acked = [p \in Place |-> FALSE] /\ fresh = [p \in Place |-> FALSE]
    /\ halted = [p \in Place |-> "no"] /\ ready = TRUE
    /\ stop = NoStop /\ heard = [p \in Place |-> FALSE]
    /\ buffer = {} /\ wire = {} /\ ackq = {}
    /\ agent = [p \in Place |-> "unseen"] /\ answer = [p \in Place |-> "NONE"]
    /\ submits = [p \in Place |-> 0]

MCOneOldSpec == MCOneOldInit /\ [][Next]_vars /\ Fairness
=============================================================================
