------------------------------ MODULE Webhook ------------------------------
(***************************************************************************)
(* The webhook path: Receiver (receiver.go), AppLookup (app_lookup.go),    *)
(* ReplayGuard, Dispatcher (dispatcher.go) and the in-memory EventFeed     *)
(* (internal/activity/event_feed.go) that the policy reconciler reads.     *)
(* Every delivery is served by a goroutine of its own, over HTTP or from a *)
(* tunnel frame; the guard and the feed have a mutex each, so the          *)
(* goroutines interleave between the two.                                  *)
(***************************************************************************)
EXTENDS ReplayGuard, FiniteSetsExt

CONSTANTS
    Handlers,      \* the goroutines that may serve deliveries at once
    Payload,       \* function: delivery -> what its body says (see Payloads)
    Repos, NoRepo, \* repository names; a payload without one
    Labels,        \* runner labels
    MaxSends,      \* how often one delivery may be sent (GitHub redelivers)
    ActiveWindow   \* ticks a recorded event keeps the feed fresh for

Keys == SUBSET Labels  \* LabelSetKey: a label list without order and duplicates

Payloads == [event: {"push", "workflow_job", "ping"}, decodes: BOOLEAN, queued: BOOLEAN,
             repo: Repos \cup {NoRepo}, labelled: BOOLEAN, labels: Keys]

ASSUME WebhookAssumption ==
    /\ Payload \in [Ids -> Payloads]
    /\ NoRepo \notin Repos
    /\ MaxSends \in Nat /\ ActiveWindow \in 0..(AgeCap - 1)

VARIABLES
    app,        \* the GitHubApp and its webhook secret resolve
    handler,    \* each goroutine: [at, id, via]
    jobs,       \* the feed's perLabelSet: repo -> key -> count
    last,       \* age of the repo's lastEvent; Never when it has none
    sent,       \* how often each delivery was sent
    since,      \* history: age of the last time its event was recorded
    asked,      \* history: age of the first time the guard was asked about it
    accepted    \* history: the deliveries answered 200 since the start

feedVars == <<jobs, last, since>>
vars == <<guardVars, app, handler, feedVars, sent, asked, accepted>>

Never == AgeCap + 1
Paths == {"signed", "unsigned", "tunnel"}  \* HTTP with a matching HMAC or not; a frame
Idle == [at |-> "idle", id |-> CHOOSE id \in Ids : TRUE, via |-> "tunnel"]

Init ==
    /\ GuardInit
    /\ app = TRUE
    /\ handler = [h \in Handlers |-> Idle]
    /\ jobs = [r \in Repos |-> [k \in Keys |-> 0]]
    /\ last = [r \in Repos |-> Never]
    /\ sent = [id \in Ids |-> 0]
    /\ since = [id \in Ids |-> Never] /\ asked = since
    /\ accepted = {}

-----------------------------------------------------------------------------
(* Serving one delivery: ServeHTTP and handle, or HandleFrame.             *)

\* A well-formed request or frame; a malformed one is refused at once.
Arrive(h, id, via) ==
    /\ handler[h].at = "idle" /\ sent[id] < MaxSends
    /\ sent' = [sent EXCEPT ![id] = @ + 1]
    /\ handler' = [handler EXCEPT ![h] = [at |-> "lookup", id |-> id, via |-> via]]
    /\ UNCHANGED <<guardVars, app, feedVars, asked, accepted>>

Answer(h, ok) ==
    /\ handler' = [handler EXCEPT ![h] = Idle]
    /\ accepted' = IF ok THEN accepted \cup {handler[h].id} ELSE accepted

\* VerifySignature, which HandleFrame leaves out: a frame is taken as it is.
Verified(via) == via \in {"signed", "tunnel"}

\* Resolve, then the HMAC: a delivery that fails either is refused and leaves no
\* trace.
Lookup(h) ==
    /\ handler[h].at = "lookup"
    /\ IF app /\ Verified(handler[h].via)
       THEN handler' = [handler EXCEPT ![h].at = "guard"] /\ UNCHANGED accepted
       ELSE Answer(h, FALSE)
    /\ UNCHANGED <<guardVars, app, feedVars, sent, asked>>

\* The guard is asked about the handler's delivery.
Ask(h) ==
    /\ asked' = [asked EXCEPT ![handler[h].id] = IF @ = Never THEN 0 ELSE @]
    /\ UNCHANGED <<app, feedVars, sent>>

\* Mutant: the guard is consulted but the delivery is remembered by no one.
GuardOnly(h) ==
    /\ handler[h].at = "guard"
    /\ handler' = [handler EXCEPT ![h].at = "dispatch"]
    /\ UNCHANGED <<guardVars, accepted>>
    /\ Ask(h)

\* Mutant: the guard is asked before the signature is checked.
GuardFirst(h) ==
    /\ handler[h].at = "lookup" /\ app
    /\ Seen(handler[h].id)
    /\ IF answer'.seen
       THEN Answer(h, TRUE)
       ELSE IF Verified(handler[h].via)
            THEN handler' = [handler EXCEPT ![h].at = "dispatch"] /\ UNCHANGED accepted
            ELSE Answer(h, FALSE)
    /\ Ask(h)

\* A replay is answered as a success; anything else is now remembered.
Guard(h) ==
    /\ handler[h].at = "guard"
    /\ Seen(handler[h].id)
    /\ IF answer'.seen
       THEN Answer(h, TRUE)
       ELSE handler' = [handler EXCEPT ![h].at = "dispatch"] /\ UNCHANGED accepted
    /\ Ask(h)

Touches(p) == p.repo # NoRepo /\ \/ p.event = "push"
                                 \/ p.event = "workflow_job" /\ p.queued /\ p.labelled

\* RecordPush moves lastEvent only; RecordJob counts the label set too.
Record(id) ==
    LET p == Payload[id]
    IN  IF Touches(p)
        THEN /\ last' = [last EXCEPT ![p.repo] = 0]
             /\ jobs' = IF p.event = "workflow_job"
                        THEN [jobs EXCEPT ![p.repo][p.labels] = @ + 1]
                        ELSE jobs
             /\ since' = [since EXCEPT ![id] = 0]
        ELSE UNCHANGED feedVars

\* Dispatcher.Handle: a body that does not decode is answered 500.
Dispatch(h) ==
    /\ handler[h].at = "dispatch"
    /\ LET p == Payload[handler[h].id]
           ok == p.decodes \/ p.event \notin {"push", "workflow_job"}
       IN  /\ IF ok THEN Record(handler[h].id) ELSE UNCHANGED feedVars
           /\ Answer(h, ok)
    /\ UNCHANGED <<guardVars, app, sent, asked>>

-----------------------------------------------------------------------------
(* The cluster and the clock.                                              *)

\* The GitHubApp or its secret appears or disappears.
AppChanges == app' = ~app /\ UNCHANGED <<guardVars, handler, feedVars, sent, asked, accepted>>

Age(age) == IF age = Never THEN Never ELSE Older(age)

Tick ==
    /\ GuardTick
    /\ last' = [r \in Repos |-> Age(last[r])]
    /\ since' = [id \in Ids |-> Age(since[id])]
    /\ asked' = [id \in Ids |-> Age(asked[id])]
    /\ UNCHANGED <<app, handler, jobs, sent, accepted>>

\* The guard and the feed live in memory only; requests in flight are lost.
Restart ==
    /\ GuardRestart
    /\ handler' = [h \in Handlers |-> Idle]
    /\ jobs' = [r \in Repos |-> [k \in Keys |-> 0]]
    /\ last' = [r \in Repos |-> Never]
    /\ since' = [id \in Ids |-> Never] /\ asked' = since'
    /\ accepted' = {}
    /\ UNCHANGED <<app, sent>>

Next ==
    \/ \E h \in Handlers :
          \/ \E id \in Ids, via \in Paths : Arrive(h, id, via)
          \/ Lookup(h) \/ Guard(h) \/ Dispatch(h)
    \/ AppChanges \/ Tick \/ Restart

Spec == Init /\ [][Next]_vars

-----------------------------------------------------------------------------
(* What the reconciler reads (computeActivityFromFeed).                    *)

\* EventFeed.Snapshot: counts and last event, read together under the lock.
Snapshot(repo) == [counts |-> jobs[repo], last |-> last[repo]]

FeedFresh(snap) == snap.last <= ActiveWindow

\* The jobs whose labels include all that the policy wants; a feed that is not
\* fresh contributes nothing and leaves the policy to the poll.
Contribution(repo, want) ==
    LET snap == Snapshot(repo)
    IN  IF FeedFresh(snap)
        THEN MapThenSumSet(LAMBDA key : snap.counts[key], {key \in Keys : want \subseteq key})
        ELSE 0

-----------------------------------------------------------------------------
(* Properties.                                                             *)

\* Every variable holds what the code's types allow.
TypeOK ==
    /\ guard \in Seq([key: Ids, age: 0..AgeCap]) /\ Len(guard) <= GuardSize
    /\ app \in BOOLEAN
    /\ handler \in [Handlers -> [at: {"idle", "lookup", "guard", "dispatch"}, id: Ids,
                                 via: Paths]]
    /\ jobs \in [Repos -> [Keys -> Nat]] /\ last \in [Repos -> 0..Never]
    /\ sent \in [Ids -> 0..MaxSends]
    /\ since \in [Ids -> 0..Never] /\ asked \in [Ids -> 0..Never]
    /\ accepted \subseteq Ids

JobsOf(repo, key) ==
    {id \in Ids : LET p == Payload[id]
                  IN  Touches(p) /\ p.event = "workflow_job" /\ p.repo = repo /\ p.labels = key}

\* Within the guard's limits a queued job is counted once however often, by
\* whichever path and on however many goroutines at once it is delivered.
CountedOnce ==
    \A repo \in Repos, key \in Keys :
        /\ Cardinality({id \in Ids : asked[id] # Never}) <= GuardSize
        /\ \A id \in JobsOf(repo, key) : asked[id] # Never => asked[id] <= GuardTTL
        => jobs[repo][key] = Cardinality({id \in JobsOf(repo, key) : since[id] # Never})

\* A delivery GitHub was told is accepted - also as a replay - has been recorded,
\* or the goroutine that will record it is past the guard: neither a refused copy
\* nor a concurrent one makes the receiver swallow an event.
AcceptedIsRecorded ==
    \A id \in accepted :
        Touches(Payload[id]) /\ Payload[id].decodes =>
            \/ since[id] # Never
            \/ \E h \in Handlers : handler[h].at = "dispatch" /\ handler[h].id = id

\* "while the repo has [...] activity in the last 15 min, the floor matches the
\* matrix fanout of the triggered workflows" (README.md): what the feed contributes
\* are jobs recorded inside the window.
ContributionIsRecent ==
    \A repo \in Repos :
        Contribution(repo, {}) <=
            Cardinality({id \in UNION {JobsOf(repo, key) : key \in Keys} :
                            since[id] <= ActiveWindow})
=============================================================================
