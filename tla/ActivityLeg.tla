---------------------------- MODULE ActivityLeg ----------------------------
(***************************************************************************)
(* The activity leg of a reconcile (computeActivity): the webhook-fed      *)
(* EventFeed while its last event is recent, else the workflow runs the    *)
(* sampler lists (workflow_runs_sampler.go, activity.go); the window that  *)
(* goes into the status; and the count of expired windows, which is kept   *)
(* in memory.  The policies are about one repository; times are ages and   *)
(* remaining ticks.                                                        *)
(***************************************************************************)
EXTENDS Integers, Sequences, FiniteSetsExt

CONSTANTS
    Policies,
    Name,          \* function: policy -> metadata.name; namespaces may share one
    Config,        \* function: policy -> [appRef, enabled, wants, denylist]
    Keys,          \* label sets of jobs
    Kinds,         \* the workflow runs that may start
    RunsCap,       \* runs one sample looks at
    ActiveWindow,  \* spec.activeWindowSeconds
    SampleWindow,  \* spec.activity.windowSeconds
    SampleTime,    \* bound: what fetching the workflows of a sample may take
    MaxJobs        \* bound: jobs the feed counts per label set

ASSUME LegAssumption ==
    /\ ActiveWindow \in Nat \ {0} /\ SampleWindow \in Nat \ {0} /\ RunsCap \in Nat \ {0}
    /\ SampleTime \in Nat \ {0} /\ MaxJobs \in Nat
    /\ \A p \in Policies : /\ Config[p].appRef \in BOOLEAN /\ Config[p].enabled \in BOOLEAN
                           /\ Config[p].wants \subseteq Keys /\ IsFiniteSet(Config[p].wants)
    /\ \A kind \in Kinds : kind.fanout \in Nat

VARIABLES
    runs,     \* the listing (created>since), newest first, as far as RunsCap: [kind, age]
    feed,     \* the EventFeed: [last, jobs]; last is the age of the last event
    stored,   \* policy -> [until, source] of the stored status
    leg,      \* policy -> its reconcile: [at, until, source, contrib, since]; since is
              \*   the age of a listing that matched something
    prev,     \* prevActiveUntil, by name: a window is remembered
    quiet,    \* the repository and the process have settled for good
    newest    \* history: age of the newest event or run that counts, up to Longest

vars == <<runs, feed, stored, leg, prev, quiet, newest>>

Polled == 2 * SampleWindow - 1 + SampleTime
Longest == IF ActiveWindow < Polled THEN Polled ELSE ActiveWindow
Stale == ActiveWindow + 1   \* an event out of the window, and none at all
NoTime == -1   \* a nil ActiveUntil; 0 is one that is over
NoStatus == [until |-> NoTime, source |-> ""]
Resting == [at |-> "idle", until |-> NoTime, source |-> "", contrib |-> 0, since |-> NoTime]
Names == {Name[p] : p \in Policies}

Init ==
    /\ runs = <<>>
    /\ feed = [last |-> Stale, jobs |-> [k \in Keys |-> 0]]
    /\ stored = [p \in Policies |-> NoStatus]
    /\ leg = [p \in Policies |-> Resting]
    /\ prev = [n \in Names |-> FALSE]
    /\ quiet = FALSE /\ newest = Longest

-----------------------------------------------------------------------------
(* What counts.                                                            *)

AllowedEvents == {"push", "pull_request", "pull_request_target",
                  "pull_request_review_comment", "workflow_dispatch", "repository_dispatch"}

\* Mutant: only the type of the account is looked at.
IsBotActorByType(run, denylist) == run.login # "" /\ run.actorType = "Bot"

\* A run without a login is nobody's, and no bot's.
IsBotActor(run, denylist) ==
    /\ run.login # ""
    /\ run.actorType = "Bot" \/ run.triggerType = "Bot" \/ run.suffixed
       \/ run.login \in denylist

Counts(p, kind) == ~IsBotActor(kind, Config[p].denylist) /\ kind.event \in AllowedEvents

\* The runs that contribute: those that count and whose workflow could be fetched and
\* parsed.  Runs that are filtered use up the cap too.
Sample(p, lost) == {i \in DOMAIN runs : Counts(p, runs[i].kind) /\ i \notin lost}

Sum(counts, keys) == MapThenSumSet(LAMBDA k : counts[k], keys)

-----------------------------------------------------------------------------
(* One reconcile of a policy.                                              *)

Active(until) == until > 0

\* emitActiveWindowMetrics: an active window is remembered; one that was remembered
\* and is over is counted as an expiry and forgotten.
EmitActiveWindowMetrics(p, until) == prev' = [prev EXCEPT ![Name[p]] = Active(until)]

Computed(p, until, source, contrib) ==
    /\ leg' = [leg EXCEPT ![p] = [at |-> "write", until |-> until, source |-> source,
                                  contrib |-> contrib, since |-> NoTime]]
    /\ EmitActiveWindowMetrics(p, until)

\* computeActivityFromFeed: the feed has an event, and not from before the window.
FeedFresh == feed.last <= ActiveWindow

UsesFeed(p) == Config[p].appRef /\ FeedFresh

\* The feed is asked first, whether spec.activity is enabled or not.
FromFeed(p) ==
    /\ leg[p].at = "idle" /\ UsesFeed(p)
    /\ Computed(p, ActiveWindow - feed.last, "webhook", Sum(feed.jobs, Config[p].wants))
    /\ UNCHANGED <<runs, feed, stored, quiet, newest>>

\* Mutant: the early return leaves before the metrics are emitted.
DisabledUnreported(p) ==
    /\ leg[p].at = "idle" /\ ~UsesFeed(p) /\ ~Config[p].enabled
    /\ leg' = [leg EXCEPT ![p] = [at |-> "write", until |-> stored[p].until,
                                  source |-> stored[p].source, contrib |-> 0,
                                  since |-> NoTime]]
    /\ UNCHANGED <<runs, feed, stored, prev, quiet, newest>>

\* Disabled: nothing contributes, and the status keeps the window it has.
Disabled(p) ==
    /\ leg[p].at = "idle" /\ ~UsesFeed(p) /\ ~Config[p].enabled
    /\ Computed(p, stored[p].until, stored[p].source, 0)
    /\ UNCHANGED <<runs, feed, stored, quiet, newest>>

\* On to the poll: requests are made while the feed and the listing go on.
Polls(p) ==
    /\ leg[p].at = "idle" /\ ~UsesFeed(p) /\ Config[p].enabled
    /\ leg' = [leg EXCEPT ![p] = [at |-> "sample", until |-> stored[p].until,
                                  source |-> stored[p].source, contrib |-> 0,
                                  since |-> NoTime]]
    /\ UNCHANGED <<runs, feed, stored, prev, quiet, newest>>

\* The listing: what its runs contribute, once their workflows are fetched.
ListRuns(p, lost) ==
    /\ leg[p].at = "sample"
    /\ LET mine == {i \in Sample(p, lost) : runs[i].kind.key \in Config[p].wants}
           contrib == MapThenSumSet(LAMBDA i : runs[i].kind.fanout, mine)
       IN  leg' = [leg EXCEPT ![p] = [at |-> "listed", until |-> @.until, source |-> @.source,
                                      contrib |-> contrib,
                                      since |-> IF mine = {} THEN NoTime ELSE 0]]
    /\ UNCHANGED <<runs, feed, stored, prev, quiet, newest>>

\* Mutant: the window starts anew at every poll, whether it finds a run or not.
FromSampleAlways(p) ==
    /\ leg[p].at = "listed"
    /\ IF Config[p].appRef
       THEN Computed(p, SampleWindow, "poll", leg[p].contrib)
       ELSE Computed(p, leg[p].until, leg[p].source, leg[p].contrib)
    /\ UNCHANGED <<runs, feed, stored, quiet, newest>>

\* The files have come: a sample that matches something opens a window that begins
\* now, if a GitHubApp is referenced.
FromSample(p) ==
    /\ leg[p].at = "listed"
    /\ IF Config[p].appRef /\ leg[p].since # NoTime
       THEN Computed(p, SampleWindow, "poll", leg[p].contrib)
       ELSE Computed(p, leg[p].until, leg[p].source, leg[p].contrib)
    /\ UNCHANGED <<runs, feed, stored, quiet, newest>>

\* Mutant: the failure is written into lastEventSource, an enum of webhook and poll.
SampleFailsNamed(p) ==
    /\ leg[p].at = "sample"
    /\ Computed(p, leg[p].until, "error", 0)
    /\ UNCHANGED <<runs, feed, stored, quiet, newest>>

\* No token, or the listing fails: no contribution.
SampleFails(p) ==
    /\ leg[p].at = "sample"
    /\ Computed(p, leg[p].until, leg[p].source, 0)
    /\ UNCHANGED <<runs, feed, stored, quiet, newest>>

\* The status update, which may be refused.
WriteStatus(p, ok) ==
    /\ leg[p].at = "write"
    /\ leg' = [leg EXCEPT ![p] = Resting]
    /\ stored' = IF ok
                 THEN [stored EXCEPT ![p] = [until |-> leg[p].until, source |-> leg[p].source]]
                 ELSE stored
    /\ UNCHANGED <<runs, feed, prev, quiet, newest>>

-----------------------------------------------------------------------------
(* The repository, the clock and the process.                              *)

RunStarts(kind) ==
    /\ ~quiet
    /\ runs' = [i \in {1} \cup {j \in 2..RunsCap : j - 1 \in DOMAIN runs} |->
                  IF i = 1 THEN [kind |-> kind, age |-> 0] ELSE runs[i - 1]]
    /\ newest' = IF \E p \in Policies : Counts(p, kind) THEN 0 ELSE newest
    /\ UNCHANGED <<feed, stored, leg, prev, quiet>>

\* The receiver records a queued job, or a push, which moves lastEvent only.
RecordJob(k) ==
    /\ ~quiet /\ feed.jobs[k] < MaxJobs
    /\ feed' = [last |-> 0, jobs |-> [feed.jobs EXCEPT ![k] = @ + 1]]
    /\ newest' = 0
    /\ UNCHANGED <<runs, stored, leg, prev, quiet>>

RecordPush ==
    /\ ~quiet /\ feed' = [feed EXCEPT !.last = 0]
    /\ newest' = 0
    /\ UNCHANGED <<runs, stored, leg, prev, quiet>>

Older(age, cap) == IF age < cap THEN age + 1 ELSE age
Sooner(until) == IF until > 0 THEN until - 1 ELSE until

Tick ==
    /\ \A p \in Policies : leg[p].since < SampleTime
    /\ runs' = [i \in {j \in DOMAIN runs : runs[j].age + 1 < SampleWindow} |->
                  [runs[i] EXCEPT !.age = @ + 1]]
    /\ feed' = [feed EXCEPT !.last = Older(@, Stale)]
    /\ stored' = [p \in Policies |-> [stored[p] EXCEPT !.until = Sooner(@)]]
    /\ leg' = [p \in Policies |-> [leg[p] EXCEPT !.until = Sooner(@),
                     !.since = IF @ = NoTime THEN NoTime ELSE @ + 1]]
    /\ newest' = Older(newest, Longest)
    /\ UNCHANGED <<prev, quiet>>

\* Feed and remembered windows live in memory.
Restart ==
    /\ ~quiet
    /\ feed' = [last |-> Stale, jobs |-> [k \in Keys |-> 0]]
    /\ leg' = [p \in Policies |-> Resting]
    /\ prev' = [n \in Names |-> FALSE]
    /\ UNCHANGED <<runs, stored, quiet, newest>>

Settle ==
    /\ ~quiet /\ quiet' = TRUE
    /\ UNCHANGED <<runs, feed, stored, leg, prev, newest>>

Reconciles(p) ==
    \/ FromFeed(p) \/ Disabled(p) \/ Polls(p) \/ SampleFails(p) \/ FromSample(p)
    \/ \E lost \in SUBSET (1..RunsCap) : ListRuns(p, lost)
    \/ \E ok \in BOOLEAN : WriteStatus(p, ok)

Next ==
    \/ \E p \in Policies : Reconciles(p)
    \/ \E kind \in Kinds : RunStarts(kind)
    \/ \E k \in Keys : RecordJob(k)
    \/ RecordPush \/ Tick \/ Restart \/ Settle

\* Every policy is requeued (effectivePollInterval), and time passes.
Fairness ==
    WF_vars(Tick) /\ \A p \in Policies : WF_vars(Reconciles(p))

Spec == Init /\ [][Next]_vars
FairSpec == Spec /\ Fairness

-----------------------------------------------------------------------------
(* Properties.                                                             *)

Windows == NoTime..(IF ActiveWindow < SampleWindow THEN SampleWindow ELSE ActiveWindow)
Sources == {"", "webhook", "poll"}

\* Every variable holds what the code's types allow.
TypeOK ==
    /\ runs \in Seq([kind: Kinds, age: 0..(SampleWindow - 1)]) /\ Len(runs) <= RunsCap
    /\ feed \in [last: 0..Stale, jobs: [Keys -> 0..MaxJobs]]
    /\ stored \in [Policies -> [until: Windows, source: Sources]]
    /\ leg \in [Policies -> [at: {"idle", "sample", "listed", "write"}, until: Windows,
                             source: Sources, contrib: Nat, since: NoTime..SampleTime]]
    /\ prev \in [Names -> BOOLEAN]
    /\ quiet \in BOOLEAN /\ newest \in 0..Longest

\* A run a person started, inside the window and among the newest RunsCap.
PersonAtWork(p) == \E i \in DOMAIN runs : runs[i].kind.person /\ runs[i].kind.key \in Config[p].wants

\* The repository's automation can be told from people, for every policy: it has an
\* account of type Bot or a [bot] suffix, its login is in the policy's denylist, or it
\* acts by events that do not count, such as a timer.
AutomationIsKnown ==
    \A kind \in Kinds : ~kind.person =>
        \/ kind.event \notin AllowedEvents
        \/ /\ kind.login # ""
           /\ \A p \in Policies : \/ kind.actorType = "Bot" \/ kind.triggerType = "Bot"
                                  \/ kind.suffixed \/ kind.login \in Config[p].denylist

\* What a poll contributes, and what makes it claim the window, is a run of a person for
\* labels the policy wants, inside the sample window: no bot, machine user or timer
\* keeps a pool warm by its listed runs, however runs, filters, the cap and lost files
\* interleave.  (Deliveries to the feed are not filtered by who caused them.)
SampleHasCause ==
    [][\A p \in Policies :
          leg[p].at = "sample" /\ (leg'[p].contrib > 0 \/ leg'[p].since # NoTime)
              => PersonAtWork(p)]_vars

\* The window in the status outlasts the newest activity by activeWindowSeconds when
\* the feed set it, and by less than two sample windows and the time of a sample when
\* the poll did, however often status updates fail and the process restarts.
WindowBounded ==
    \A p \in Policies : \A w \in {stored[p], leg[p]} :
        Active(w.until) => w.until + newest <= IF w.source = "webhook"
                                               THEN ActiveWindow
                                               ELSE Polled

\* Once nothing happens in the repository any more, the leg contributes nothing, no
\* window is active and every window that is remembered (a restart forgets them) has
\* been counted as expired.
ActivityDrains ==
    <>[](quiet => \A p \in Policies : /\ leg[p].contrib = 0 /\ ~prev[Name[p]]
                                       /\ ~Active(stored[p].until))
=============================================================================
