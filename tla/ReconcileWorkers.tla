-------------------------- MODULE ReconcileWorkers --------------------------
(***************************************************************************)
(* The workers of the policy controller, each with one reconcile at a      *)
(* time (--max-concurrent-reconciles).                                     *)
(***************************************************************************)
CONSTANT Workers
=============================================================================
