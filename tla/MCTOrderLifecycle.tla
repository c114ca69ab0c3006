------------------------- MODULE MCTOrderLifecycle -------------------------
(***************************************************************************)
(* Model values for TOrderLifecycle: the constants are in the .cfg files.    *)
(***************************************************************************)
EXTENDS TOrderLifecycle
=============================================================================
