-------------------------- MODULE MCRepositoryPoll --------------------------
(* Two runs: one with a job, a job the policy does not want, and a third that needs
   the first; one with a single job. *)
EXTENDS RepositoryPoll

RunList == <<"new", "old">>
JobLists == [r \in {"new", "old"} |-> IF r = "new" THEN <<"n1", "n2", "n3">> ELSE <<"o1">>]
Wanted == {"n1", "n3", "o1"}
After == [j \in Jobs |-> IF j = "n3" THEN {"n1"} ELSE {}]
=============================================================================
