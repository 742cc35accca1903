----------------------------- MODULE NeedsGraph -----------------------------
(***************************************************************************)
(* The walk of internal/predictor/workflow_needs_graph.go over the jobs of *)
(* one workflow run: which jobs are about to appear, counted by the labels *)
(* they run on.  Pure operators: files maps the paths that can be fetched  *)
(* at the run's commit to their content, materialized is the set of names  *)
(* in the run's jobs listing.                                              *)
(***************************************************************************)
EXTENDS Workflow, Materialized, Bags, FiniteSetsExt

CONSTANT MaxReusableDepth   \* nesting of local reusable workflows (10)

resolveLabels(job) == job.labels \cup job.group

JobCount(job) == IF job.combos = <<>> THEN 1 ELSE Len(job.combos)

\* A job that runs on labels known from the file.
Decidable(job) == job.uses \in {"absent", "other"} /\ ~job.runsOnDynamic /\ ~job.matrixDynamic

RECURSIVE walkWorkflow(_, _, _, _, _)

\* Mutant: the deepest level is left out.
recurseLocalShallow(files, path, materialized, visited, depth) ==
    IF depth + 1 >= MaxReusableDepth \/ path \in visited
       \/ path \notin DOMAIN files \/ ~Parses(files[path])
    THEN EmptyBag
    ELSE walkWorkflow(files, Parse(files[path]), materialized, visited \cup {path}, depth + 1)

\* Nothing beyond the depth, on a cycle, or from a file that cannot be fetched
\* or parsed; visited holds the local workflows on the call stack.
recurseLocal(files, path, materialized, visited, depth) ==
    IF depth + 1 > MaxReusableDepth \/ path \in visited
       \/ path \notin DOMAIN files \/ ~Parses(files[path])
    THEN EmptyBag
    ELSE walkWorkflow(files, Parse(files[path]), materialized, visited \cup {path}, depth + 1)

\* The jobs are visited in no particular order and their counts added up.
walkWorkflow(files, wf, materialized, visited, depth) ==
    LET Of(id) ==
            IF wf[id].uses = "local"
            THEN recurseLocal(files, wf[id].path, materialized, visited, depth)
            ELSE IF Decidable(wf[id])
                 THEN resolveLabels(wf[id]) :> JobCount(wf[id])
                 ELSE EmptyBag
        imminent == {id \in DOMAIN wf : Imminent(wf, id, materialized)}
    IN  FoldSet(LAMBDA id, acc : Of(id) (+) acc, EmptyBag, imminent)

\* contributeRun, once the jobs are listed: the run's own file starts the walk.
RunContribution(files, path, materialized) ==
    IF path \in DOMAIN files /\ Parses(files[path])
    THEN walkWorkflow(files, Parse(files[path]), materialized, {}, 0)
    ELSE EmptyBag
=============================================================================
