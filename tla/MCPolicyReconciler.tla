------------------------- MODULE MCPolicyReconciler -------------------------
(* Instances of PolicyReconciler for TLC. *)
EXTENDS PolicyReconciler

\* A policy that polls, one nothing polls, one polled for its GitHubApp, and one
\* that names no backend.
Steady == [target |-> "arc", min |-> 0, max |-> 2, cooldown |-> 3, poll |-> TRUE,
           appRef |-> FALSE, dryRun |-> FALSE, predictor |-> TRUE, activity |-> FALSE]
Unpolled == [Steady EXCEPT !.poll = FALSE, !.cooldown = 1]
Webhooked == [Unpolled EXCEPT !.appRef = TRUE, !.predictor = FALSE, !.activity = TRUE]
Invalid == [Steady EXCEPT !.target = "invalid", !.cooldown = 1]

\* Unpolled: one under dry-run, one with a lower cap and the other signal.
Canary == [Unpolled EXCEPT !.dryRun = TRUE]
Tight == [Unpolled EXCEPT !.max = 1, !.target = "garm", !.predictor = FALSE, !.activity = TRUE]

SteadyOnly == {Steady}
PatientOnly == {[Webhooked EXCEPT !.cooldown = 2]}
Edited == {Canary, Tight}
Brittle == {Unpolled, Webhooked, Invalid}
NoCap == {Uncapped}
OneCap == {1}
=============================================================================
