------------------------- MODULE MCPredictorCaches -------------------------
(* Two workflow files of which one at two commits, one more than the cache
   holds. *)
EXTENDS PredictorCaches

ThreeFiles == {<<"ci", "old">>, <<"ci", "new">>, <<"lib", "new">>}
NoETagForLib == {<<"lib", "new">>}
=============================================================================
