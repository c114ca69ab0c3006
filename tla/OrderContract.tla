---------------------------- MODULE OrderContract ----------------------------
(***************************************************************************)
(* What the Agent promises the server about PLACE commands, with no word     *)
(* about journals, sessions or gates: a command is submitted at most once,   *)
(* and what the Agent finally says about it is true and never changes.       *)
(***************************************************************************)
EXTENDS Naturals

CONSTANT Place

VARIABLES submits, told

Refusal == {"PRE", "GATE"}
Final == Refusal \cup {"ACCEPTED", "FAIL"}

Init ==
  /\ submits = [p \in Place |-> 0]
  /\ told = {}

\* An order reaches the broker before anything final was said about it.
MaySubmit(p) == submits[p] = 0 /\ \A r \in Final : <<p, r>> \notin told

Submit(p) ==
  /\ MaySubmit(p)
  /\ submits' = [submits EXCEPT ![p] = 1]
  /\ UNCHANGED told

\* A final answer: a refusal only if nothing was submitted, an acceptance only
\* if something was, and never two different ones.
MayTell(p, r) ==
  /\ r \in Refusal => submits[p] = 0
  /\ r = "ACCEPTED" => submits[p] = 1
  /\ \A s \in Final \ {r} : <<p, s>> \notin told

Tell(p, r) ==
  /\ MayTell(p, r)
  /\ told' = told \cup {<<p, r>>}
  /\ UNCHANGED submits

Next == \E p \in Place : Submit(p) \/ \E r \in Final : Tell(p, r)

Spec == Init /\ [][Next]_<<submits, told>>
=============================================================================
