--------------------------- MODULE MCAgentCommand ---------------------------
(* Instances of AgentCommand for TLC. *)
EXTENDS AgentCommand

CONSTANTS p1, p2, k1, e1, s1, s2, d1, d2

MCTarget == [k \in Cancel |-> p1]

\* An Agent that has just been started: some commands have expired before they
\* were delivered, some orders rest at the broker since an earlier day, their
\* rows pruned.
MCInit(gone, resting) ==
  /\ status = [c \in Cmds |-> "ABSENT"]
  /\ digest = [c \in Cmds |-> "NONE"]
  /\ result = [c \in Cmds |-> "NONE"]
  /\ mapped = {} /\ reports = {} /\ pend = NoSnap
  /\ stop = FALSE /\ cache = FALSE /\ cleared = FALSE
  /\ seen = {} /\ rounds = 2
  /\ conn = "offline"
  /\ task = [c \in Cmds |-> "idle"] /\ detached = {}
  /\ outcome = [c \in Cmds |-> "NONE"]
  /\ nat = [c \in Cmds |-> "none"]
  /\ wire = {} /\ sent = {}
  /\ required = FALSE /\ indeterminate = FALSE
  /\ bound = NoSnap /\ boundConn = 0 /\ boundGap = 0 /\ reconciled = -1
  /\ connGen = 0 /\ gapGen = 0 /\ connected = FALSE /\ healthy = TRUE
  /\ orders = [p \in Place |-> IF p \in resting THEN "LIVE" ELSE "NONE"]
  /\ submits = [p \in Place |-> IF p \in resting THEN 1 ELSE 0]
  /\ expired = [c \in Cmds |-> c \in gone \cup resting]
  /\ lost = {} /\ covers = [i \in SnapIds |-> {}]
  /\ acks = {<<p, "ACCEPTED">> : p \in resting}
  /\ losses = 0

\* A later morning: only cancels of resting orders are left to handle.
MCRestingSpec ==
  /\ MCInit({}, Place) /\ crashes = 0 /\ operated = 0
  /\ [][Next]_vars /\ Fairness

\* An order beside an emergency stop, across a crash or the operator's commands;
\* or two orders across callback gaps and reconnects.
MCOrdersSpec ==
  /\ \/ MCInit({p2}, {}) /\ crashes = 0 /\ operated = MaxOperated
     \/ MCInit({p2}, {}) /\ crashes = MaxCrash /\ operated = 0
     \/ MCInit(Stop, {}) /\ crashes = MaxCrash /\ operated = MaxOperated
  /\ [][Next]_vars

\* What MCOrdersSpec is explored for.  A second payload, gaps, reconnects and
\* broker events are looked at while the stop is out of play, gaps and reconnects
\* for the sake of p2, and p2 comes after the order of p1.
MCTaken(c) == status[c] # "ABSENT" \/ \E r \in Results : <<c, r>> \in acks
MCOnePayload == \A c \in Cmds : digest[c] # d2 /\ <<c, d2>> \notin wire
MCOneSession == connGen <= 1 /\ gapGen = 0
MCFocus ==
  /\ ~expired[e1] \/ MCTaken(e1) \/ stop =>
       MCOnePayload /\ MCOneSession /\ orders[p1] \notin Terminal
  /\ ~MCOneSession => MCOnePayload /\ ~expired[p2]
  /\ MCTaken(p2) \/ <<p2, d1>> \in wire =>
       MCOnePayload /\ <<p1, "ACCEPTED">> \in acks /\ task[p1] = "idle"

\* The operator and the refresh loop act before p1 is validated, a stop that was
\* taken is not delivered again, and p2 is expired from the start or never.
MCFocusStep ==
  /\ \/ UNCHANGED <<cache, seen, rounds, operated>> \/ task[e1] = "stopping"
     \/ crashes' # crashes \/ conn' # conn
     \/ ~MCTaken(p1) \/ task[p1] = "begun"
  /\ <<e1, d1>> \in wire' \ wire => ~MCTaken(e1)
  /\ expired'[p2] = expired[p2]
=============================================================================
