------------------------- MODULE IngestionContract -------------------------
(***************************************************************************)
(* What ingestion promises the other readers of market_data_request.status:  *)
(* a frozen upload ends as COMPLETED, FAILED or BLOCKED; an operator may put *)
(* the last two back; COMPLETED is final.  A claim in progress is invisible. *)
(***************************************************************************)

CONSTANT Requests

VARIABLE state

\* Where the ingestion of a request may go next.
Moves == [UPLOADED |-> {"COMPLETED", "FAILED", "BLOCKED"},
          BLOCKED |-> {"UPLOADED"}, FAILED |-> {"UPLOADED"}, COMPLETED |-> {}]

Init == state = [r \in Requests |-> "UPLOADED"]

Move(r, from) ==
  /\ state[r] = from
  /\ \E s \in Moves[from] : state' = [state EXCEPT ![r] = s]

Settle(r) == Move(r, "UPLOADED")

Reopen(r) == Move(r, "BLOCKED") \/ Move(r, "FAILED")

Next == \E r \in Requests : Settle(r) \/ Reopen(r)

Spec == Init /\ [][Next]_state /\ \A r \in Requests : WF_state(Settle(r))
=============================================================================
