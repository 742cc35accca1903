---------------------------- MODULE DemandPoller ----------------------------
(***************************************************************************)
(* GitHubRESTPoller (internal/demand/github_poller.go): CurrentDemand      *)
(* lists a repository's queued and then its in_progress runs, page by      *)
(* page, and walks every run's jobs, page by page.  Each page is one get,  *)
(* which doWithRetry repeats; GitHub goes on between any two requests.     *)
(* The reconciler builds a poller for each reconcile (demandSource), so    *)
(* its ETag cache is empty when a poll begins and no poll asks twice for a *)
(* page it has: the cache decides nothing and is left out.                 *)
(***************************************************************************)
EXTENDS Integers, Sequences, Functions, FiniteSets

CONSTANTS
    RunSeq,      \* the runs in the order GitHub lists them, newest first
    JobSeq,      \* function: run -> its jobs in order
    Matching,    \* the jobs whose labels include the policy's (labelsMatch)
    PerPage,     \* page size (100)
    MaxRetries,  \* retries of a request (3)
    Failures     \* what requests may run into (see FailureKinds)

\* A network error or 5xx; a 403/429 that says when to come back; one that does
\* not; any other 4xx, or a body that does not parse; a cancelled context.
FailureKinds == {"transient", "limited", "forbidden", "fatal"}

Runs == Range(RunSeq)
Jobs == UNION {Range(JobSeq[r]) : r \in Runs}
Statuses == <<"queued", "in_progress">>

ASSUME PollerAssumption ==
    /\ RunSeq \in Seq(Runs) /\ IsInjective(RunSeq)
    /\ \A r \in Runs : /\ JobSeq[r] \in Seq(Range(JobSeq[r])) \ {<<>>} /\ IsInjective(JobSeq[r])
                      /\ \A q \in Runs \ {r} : Range(JobSeq[r]) \cap Range(JobSeq[q]) = {}
    /\ Matching \subseteq Jobs /\ PerPage \in Nat \ {0} /\ MaxRetries \in Nat
    /\ Failures \subseteq FailureKinds

VARIABLES
    job,      \* GitHub: the status of every job; "absent" before it exists
    at,       \* "idle", "list", "count", or how the poll ended: "done", "failed"
    list,     \* the status being listed, as an index of Statuses
    page,     \* the page the current loop asks for, counted from 1
    ids,      \* the runs listed (while listing) or still to be counted
    tally,    \* how often each job was counted, as queued and as running
    attempt,  \* doWithRetry's loop variable
    steady    \* history: the jobs that have not changed since the poll began

loopVars == <<at, list, page, ids, tally>>
vars == <<job, loopVars, attempt, steady>>

NoTally == [queued |-> [j \in Jobs |-> 0], running |-> [j \in Jobs |-> 0]]

Init ==
    /\ job \in [Jobs -> {"absent", "queued", "in_progress"}]
    /\ at = "idle" /\ list = 1 /\ page = 1 /\ ids = <<>> /\ tally = NoTally
    /\ attempt = 0 /\ steady = Jobs

-----------------------------------------------------------------------------
(* GitHub.                                                                 *)

\* A run is queued until a job starts, waiting while all that is left of it waits
\* for an approval, and completed when all its jobs are.
RunStatus(r) ==
    LET seen == {job[j] : j \in Range(JobSeq[r])}
    IN  CASE seen = {"absent"} -> "absent"
          [] seen = {"completed"} -> "completed"
          [] "waiting" \in seen /\ seen \cap {"queued", "in_progress"} = {} -> "waiting"
          [] seen \subseteq {"absent", "waiting", "queued"} -> "queued"
          [] OTHER -> "in_progress"

JobMoves(j) ==
    /\ \E to \in CASE job[j] = "absent" -> {"waiting", "queued"}
                   [] job[j] = "waiting" -> {"queued"}
                   [] job[j] = "queued" -> {"in_progress"}
                   [] job[j] = "in_progress" -> {"completed"}
                   [] OTHER -> {} :
          job' = [job EXCEPT ![j] = to]
    /\ steady' = steady \ {j}
    /\ UNCHANGED <<loopVars, attempt>>

\* The members of S among the elements of s, in their order.
Only(s, S) ==
    LET Kept[i \in 0..Len(s)] ==
            IF i = 0 THEN <<>>
            ELSE IF s[i] \in S THEN Append(Kept[i - 1], s[i]) ELSE Kept[i - 1]
    IN  Kept[Len(s)]

Smaller(m, n) == IF m < n THEN m ELSE n

PageOf(s, p) == SubSeq(s, (p - 1) * PerPage + 1, Smaller(p * PerPage, Len(s)))

RunsIn(status) == {r \in Runs : RunStatus(r) = status}
Created == {j \in Jobs : job[j] # "absent"}

RunPage(status, p) == PageOf(Only(RunSeq, RunsIn(status)), p)
JobPage(r, p) == PageOf(Only(JobSeq[r], Created), p)

-----------------------------------------------------------------------------
(* One poll.                                                               *)

\* demandSource and the head of CurrentDemand.
Poll ==
    /\ at \in {"idle", "done", "failed"}
    /\ at' = "list" /\ list' = 1 /\ page' = 1 /\ ids' = <<>> /\ tally' = NoTally
    /\ attempt' = 0 /\ steady' = Jobs
    /\ UNCHANGED job

\* The request of a page is answered.
Got == attempt' = 0 /\ UNCHANGED <<job, steady>>

\* All runs of a status are counted: the next status, or the end.
NextStatus ==
    /\ ids' = <<>> /\ page' = 1
    /\ IF list < Len(Statuses) THEN at' = "list" /\ list' = list + 1
                               ELSE at' = "done" /\ UNCHANGED list

\* Mutant: in_progress runs are listed first.
GetRunsRunningFirst ==
    /\ at = "list" /\ Got /\ UNCHANGED tally
    /\ LET got == RunPage(Statuses[3 - list], page)
           all == ids \o got
       IN  IF Len(got) = PerPage
           THEN ids' = all /\ page' = page + 1 /\ UNCHANGED <<at, list>>
           ELSE IF all = <<>> THEN NextStatus
                ELSE ids' = all /\ page' = 1 /\ at' = "count" /\ UNCHANGED list

\* listRunIDs: a short page is the last one.
GetRuns ==
    /\ at = "list" /\ Got /\ UNCHANGED tally
    /\ LET got == RunPage(Statuses[list], page)
           all == ids \o got
       IN  IF Len(got) = PerPage
           THEN ids' = all /\ page' = page + 1 /\ UNCHANGED <<at, list>>
           ELSE IF all = <<>> THEN NextStatus
                ELSE ids' = all /\ page' = 1 /\ at' = "count" /\ UNCHANGED list

Counted(count, got, status) ==
    [j \in Jobs |-> count[j] + IF j \in Range(got) \cap Matching /\ job[j] = status THEN 1 ELSE 0]

\* Mutant: the page number is not reset between runs.
GetJobsPageKept ==
    /\ at = "count" /\ Got
    /\ LET got == JobPage(Head(ids), page)
       IN  /\ tally' = [queued |-> Counted(tally.queued, got, "queued"),
                        running |-> Counted(tally.running, got, "in_progress")]
           /\ IF Len(got) = PerPage THEN page' = page + 1 /\ UNCHANGED <<at, list, ids>>
              ELSE IF Len(ids) = 1 THEN NextStatus
              ELSE ids' = Tail(ids) /\ UNCHANGED <<at, list, page>>

\* countRunJobs
GetJobs ==
    /\ at = "count" /\ Got
    /\ LET got == JobPage(Head(ids), page)
       IN  /\ tally' = [queued |-> Counted(tally.queued, got, "queued"),
                        running |-> Counted(tally.running, got, "in_progress")]
           /\ IF Len(got) = PerPage THEN page' = page + 1 /\ UNCHANGED <<at, list, ids>>
              ELSE IF Len(ids) = 1 THEN NextStatus
              ELSE ids' = Tail(ids) /\ page' = 1 /\ UNCHANGED <<at, list>>

\* Mutant: one attempt too many.
RetriesOnce(kind) == attempt <= MaxRetries /\ kind # "fatal"

\* What doWithRetry tries again while attempts are left: the transient and the
\* rate-limited after a wait, and - its break leaves the switch only - a 403 that
\* names no time, at once.
Retries(kind) == attempt < MaxRetries /\ kind # "fatal"

RequestFails(kind) ==
    /\ at \in {"list", "count"} /\ kind \in Failures
    /\ IF Retries(kind)
       THEN attempt' = attempt + 1 /\ UNCHANGED loopVars
       ELSE /\ at' = "failed" /\ attempt' = 0 /\ tally' = NoTally
            /\ ids' = <<>> /\ page' = 1 /\ list' = 1
    /\ UNCHANGED <<job, steady>>

Next ==
    \/ Poll \/ GetRuns \/ GetJobs
    \/ \E kind \in FailureKinds : RequestFails(kind)
    \/ \E j \in Jobs : JobMoves(j)

Spec == Init /\ [][Next]_vars

-----------------------------------------------------------------------------
(* Properties.                                                             *)

\* Every variable holds what the code's types allow; no request is tried more
\* than MaxRetries times after the first.
TypeOK ==
    /\ job \in [Jobs -> {"absent", "waiting", "queued", "in_progress", "completed"}]
    /\ at \in {"idle", "list", "count", "done", "failed"} /\ list \in DOMAIN Statuses
    /\ page \in Nat \ {0} /\ ids \in Seq(Runs) /\ (at = "count" => ids # <<>>)
    /\ tally \in [queued: [Jobs -> Nat], running: [Jobs -> Nat]]
    /\ attempt \in 0..MaxRetries
    /\ steady \subseteq Jobs

\* A poll during which nothing moved counts every matching job of the listed runs
\* exactly once, under its status, however pages and retries divide the work.
ExactWhenQuiet ==
    at = "done" /\ steady = Jobs =>
        \A j \in Jobs :
            /\ tally.queued[j] = IF j \in Matching /\ job[j] = "queued" THEN 1 ELSE 0
            /\ tally.running[j] = IF j \in Matching /\ job[j] = "in_progress" THEN 1 ELSE 0

\* A job that waits while runs start and finish around it is counted: since queued
\* runs are listed before in_progress ones, a run that moves on between the two
\* lists is met again, never missed.  (Where each list fits one page.)
WaitingJobsCounted ==
    at = "done" /\ PerPage >= Len(RunSeq) =>
        \A j \in steady \cap Matching : job[j] = "queued" => tally.queued[j] > 0
=============================================================================
