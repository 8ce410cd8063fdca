----------------------------- MODULE MCExecutor -----------------------------
(* The instance of Executor for TLC; liveness is checked, so no symmetry. *)
EXTENDS Executor
=============================================================================
