----------------------------- MODULE WorkerLease -----------------------------
(***************************************************************************)
(* The single row of market_data_worker_lease.  A Market Data Worker process *)
(* acquires the lease once, under a fresh owner id, and never again after it *)
(* lost it, so a process is identified here by the epoch it acquired.  A      *)
(* process that lost the lease may still be running: its transactions carry  *)
(* the old epoch and Guard refuses them.                                     *)
(***************************************************************************)
EXTENDS Integers

CONSTANT MaxEpoch   \* bound on the acquisitions of the lease

ASSUME LeaseAssumption == MaxEpoch \in Nat \ {0}

VARIABLES
  epoch,   \* market_data_worker_lease.epoch, 0 before the first acquisition
  live     \* expires_at has not passed

leaseVars == <<epoch, live>>

LeaseTypes == epoch \in 0..MaxEpoch /\ live \in BOOLEAN

LeaseInit == epoch = 0 /\ live = FALSE

\* The processes that ever held the lease, the current owner included.
Holders == 1..epoch

\* _guard_ingestion_owner, called in every transaction of process e.
Guard(e) == live /\ e = epoch

Acquire ==
  /\ ~live /\ epoch < MaxEpoch
  /\ epoch' = epoch + 1
  /\ live' = TRUE

\* The owner stops renewing: a crash, a hang, a lost database.  The bound
\* leaves room for a successor.
Expire ==
  /\ live /\ epoch < MaxEpoch
  /\ live' = FALSE
  /\ UNCHANGED epoch

\* An orderly shutdown ends the lease at once.
Release == Expire
=============================================================================
