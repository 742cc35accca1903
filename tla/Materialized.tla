---------------------------- MODULE Materialized ----------------------------
(***************************************************************************)
(* Which jobs of a run are about to appear                                 *)
(* (internal/predictor/workflow_needs_graph.go): wf is a parsed workflow,  *)
(* materialized the set of names in the run's jobs listing.                *)
(***************************************************************************)

allMaterialized(needs, materialized) == needs \subseteq materialized

\* Not yet in the listing, and everything it needs is.
Imminent(wf, id, materialized) ==
    id \notin materialized /\ allMaterialized(wf[id].needs, materialized)
=============================================================================
