--------------------------- MODULE RepositoryPoll ---------------------------
(***************************************************************************)
(* What a reconcile asks GitHub about a repository: the demand poll, then  *)
(* the prediction (computePredicted; Predict, listActiveRuns, contributeRun*)
(* and listJobs of workflow_needs_graph.go), while runs and jobs move on   *)
(* between any two requests.  The walk into called workflows is            *)
(* NeedsGraph's; here workflows are flat, and each job needs the jobs in   *)
(* Needs.                                                                  *)
(***************************************************************************)
EXTENDS DemandPoller, Materialized

CONSTANTS
    Needs,       \* function: job -> the jobs of its run it needs
    Renamed,     \* the jobs whose name in the listing is not their ID in the file
    RunsCap,     \* distinct runs a prediction looks at (50)
    DefaultPage  \* what GitHub lists when not asked for more (30)

ASSUME PredictAssumption ==
    /\ \A r \in Runs : \A j \in Range(JobSeq[r]) : Needs[j] \subseteq Range(JobSeq[r]) \ {j}
    /\ Renamed \subseteq Jobs /\ RunsCap \in Nat \ {0} /\ DefaultPage \in Nat \ {0}

VARIABLES
    phase,      \* "rest", "list", "walk", or how Predict ended: "over", "broken"
    status,     \* the status being listed, as an index of ActiveStatuses
    found,      \* the runs listed, or still to be walked
    predicted,  \* how often each job was predicted
    still,      \* history: the jobs that have not changed since Predict began
    dropped     \* history: the runs dropped from this prediction

predictVars == <<phase, status, found, predicted, still, dropped>>

ActiveStatuses == <<"in_progress", "queued", "pending", "requested", "waiting">>
NoJob == [j \in Jobs |-> 0]

PollInit ==
    /\ Init /\ \A j \in Jobs : Needs[j] # {} => job[j] = "absent"
    /\ phase = "rest" /\ status = 1 /\ found = <<>> /\ predicted = NoJob
    /\ still = Jobs /\ dropped = {}

-----------------------------------------------------------------------------
(* One prediction.                                                         *)

\* Follows the demand poll, whether that failed or not.
Predict ==
    /\ phase = "rest" /\ at \in {"done", "failed"}
    /\ phase' = "list" /\ status' = 1 /\ found' = <<>> /\ predicted' = NoJob
    /\ still' = Jobs /\ dropped' = {}
    /\ UNCHANGED vars

\* Neither listing says per_page or asks for a second page.
FirstPage(s) == SubSeq(s, 1, Smaller(Len(s), DefaultPage))

Listed == FirstPage(Only(RunSeq, RunsIn(ActiveStatuses[status])))

\* Enough runs, or no status left to list.
Listing(all) ==
    LET runs == SubSeq(all, 1, Smaller(Len(all), RunsCap))
        last == Len(runs) = RunsCap \/ status = Len(ActiveStatuses)
    IN  /\ found' = runs
        /\ phase' = IF ~last THEN "list" ELSE IF runs = <<>> THEN "over" ELSE "walk"
        /\ status' = IF last THEN 1 ELSE status + 1
        /\ UNCHANGED <<vars, predicted, still, dropped>>

\* Mutant: a run that two listings show is kept twice.
ListActiveRunsTwice == phase = "list" /\ Listing(found \o Listed)

\* listActiveRuns: one listing after the other, each run taken once.
ListActiveRuns ==
    /\ phase = "list"
    /\ Listing(found \o Only(Listed, Runs \ Range(found)))

\* A listing that fails ends the prediction: PredictorAvailable is False.
ListingFails ==
    /\ phase = "list" /\ phase' = "broken" /\ found' = <<>> /\ status' = 1
    /\ UNCHANGED <<vars, predicted, still, dropped>>

\* listJobs: the jobs of the run that the listing shows under their ID.
ListJobs(r) == Range(FirstPage(Only(JobSeq[r], Created))) \ Renamed

Walked ==
    /\ found' = Tail(found)
    /\ phase' = IF Len(found) = 1 THEN "over" ELSE phase
    /\ UNCHANGED <<vars, status, still>>

Workflow(r) == [j \in Range(JobSeq[r]) |-> [needs |-> Needs[j]]]

\* Mutant: a job that has been created is not skipped.
ContributeRunAll ==
    /\ phase = "walk" /\ Walked /\ UNCHANGED dropped
    /\ LET r == Head(found)
       IN  predicted' = [j \in Jobs |-> predicted[j] +
               IF j \in Range(JobSeq[r]) /\ Needs[j] \subseteq ListJobs(r) THEN 1 ELSE 0]

\* contributeRun: the jobs about to appear, by the listing of this moment.
ContributeRun ==
    /\ phase = "walk" /\ Walked /\ UNCHANGED dropped
    /\ LET r == Head(found)
           imminent == {j \in Range(JobSeq[r]) : Imminent(Workflow(r), j, ListJobs(r))}
       IN  predicted' = [j \in Jobs |-> predicted[j] + IF j \in imminent THEN 1 ELSE 0]

\* Mutant: a run that cannot be read ends the loop.
DropRunAndRest ==
    /\ phase = "walk" /\ phase' = "over" /\ found' = <<>>
    /\ dropped' = dropped \cup {Head(found)}
    /\ UNCHANGED <<vars, status, predicted, still>>

\* Its jobs cannot be listed, or its workflow not fetched or parsed.
DropRun ==
    /\ phase = "walk" /\ Walked
    /\ dropped' = dropped \cup {Head(found)}
    /\ UNCHANGED predicted

-----------------------------------------------------------------------------
(* The reconciles of a policy, and GitHub.                                 *)

Demands ==
    /\ \/ Poll /\ phase \in {"rest", "over", "broken"} /\ phase' = "rest"
          /\ predicted' = NoJob /\ still' = Jobs /\ dropped' = {}
       \/ /\ GetRuns \/ GetJobs \/ \E kind \in FailureKinds : RequestFails(kind)
          /\ UNCHANGED <<phase, predicted, still, dropped>>
    /\ UNCHANGED <<status, found>>

Predicts == Predict \/ ListActiveRuns \/ ListingFails \/ ContributeRun \/ DropRun

\* A job is created when all it needs is done.
RepositoryMoves(j) ==
    /\ JobMoves(j) /\ \A n \in Needs[j] : job[n] = "completed"
    /\ still' = still \ {j}
    /\ UNCHANGED <<phase, status, found, predicted, dropped>>

PollNext == Demands \/ Predicts \/ \E j \in Jobs : RepositoryMoves(j)

PollSpec == PollInit /\ [][PollNext]_<<vars, predictVars>>

-----------------------------------------------------------------------------
(* Properties.                                                             *)

\* Every variable holds what the code's types allow.
PollTypeOK ==
    /\ TypeOK
    /\ phase \in {"rest", "list", "walk", "over", "broken"}
    /\ status \in DOMAIN ActiveStatuses /\ found \in Seq(Runs) /\ Len(found) <= RunsCap
    /\ predicted \in [Jobs -> Nat] /\ still \subseteq Jobs /\ dropped \subseteq Runs

\* A run that changes its status between two listings, and is in both, is walked
\* once: no job is predicted twice.
PredictedOnce == \A j \in Jobs : predicted[j] <= 1

\* All jobs the run has so far are on the page that listJobs reads.
AllShown(r) == Len(Only(JobSeq[r], Created)) <= DefaultPage

\* The run goes on, the job is still to come, and all it needs has been created.
AboutToAppear(r, j) ==
    /\ RunStatus(r) \in {"queued", "in_progress", "waiting"}
    /\ job[j] = "absent" /\ Needs[j] \subseteq Created

\* A job that stays as it is during the reconcile is not in the demand and the
\* prediction, whichever jobs of its run come and go meanwhile.  (For jobs listed under
\* their ID, of runs whose jobs are all on the page that is read.)
NothingInBoth ==
    phase \in {"over", "broken"} =>
        \A r \in Runs : AllShown(r) =>
            \A j \in (steady \cap Range(JobSeq[r])) \ Renamed :
                predicted[j] = 0 \/ tally.queued[j] + tally.running[j] = 0

\* Of a run that does not change while Predict runs, exactly the jobs that are about
\* to appear are predicted, whatever happens to the other runs and however many of
\* them are dropped.  (Where the runs are no more than RunsCap and one page, the run's
\* jobs are on one page, and the job and what it needs are listed under their ID.)
PredictionExact ==
    phase = "over" /\ Len(RunSeq) <= Smaller(RunsCap, DefaultPage) =>
        \A r \in Runs \ dropped : Range(JobSeq[r]) \subseteq still /\ AllShown(r) =>
            \A j \in Range(JobSeq[r]) : ({j} \cup Needs[j]) \cap Renamed = {} =>
                (predicted[j] = 1 <=> AboutToAppear(r, j))
=============================================================================
