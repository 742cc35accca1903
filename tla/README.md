# A TLA+ model of warmrunners

warmrunners keeps a *floor* of idle GitHub Actions runners on a runner backend: the
`minRunners` of an ARC AutoscalingRunnerSet or the `minIdleRunners` of a GARM Pool. A
Kubernetes controller computes the floor from a schedule and two forward-looking signals. A
webhook receiver feeds one of the signals. This directory models the parts of the program
with state and concurrency and its pure algorithms, checks them with TLC on small instances,
and proves with TLAPS, for every instance, all safety properties that the passing runs check
but two about functions (section 4).

## 1. The system

| Part | Source | State | Operations |
|---|---|---|---|
| Policy reconciler | `internal/controller/warmrunnerpolicy_controller.go` | policy spec and status, informer copy, work queue, the worker's locals | Reconcile, watch predicate, requeue |
| Floor decision, schedule | `internal/scheduler/heuristic.go` | none | Decide, scheduleBase |
| Backend adapters | `internal/adapter/` | the backend's floor and cap | GetFloor, GetMax, SetFloor |
| Demand poller | `internal/demand/github_poller.go` | position in the listings, ETag cache (not modelled) | CurrentDemand with paging and retries |
| Webhook receiver | `internal/webhook/{receiver,app_lookup,verify,dispatcher}.go` | one goroutine per delivery | ServeHTTP, HandleFrame, Resolve, Handle |
| Replay guard | `internal/webhook/replay.go` | list of delivery IDs with insertion times | Seen |
| Event feed | `internal/activity/event_feed.go` | job counts and last event per repository | RecordPush, RecordJob, Snapshot |
| Tunnel | `internal/webhook/tunnel.go` | one goroutine and one registry entry per app | Start, Ensure, Stop, Get |
| GitHubApp reconciler | `internal/controller/githubapp_controller.go` | app spec and status | Reconcile |
| Predictor | `internal/predictor/workflow_needs_graph.go` | ETag cache of listings | Predict, listActiveRuns, walkWorkflow, cachedGet |
| Workflow cache | `internal/predictor/cache.go` | LRU list and map of files | Fetch |
| Workflow parser | `internal/predictor/workflow/parse.go` | none | Parse, mapMatrix |
| Activity leg and sampler | `computeActivity` in the policy controller, `internal/activity/` | the window in the status, remembered windows | Sample, computeActivityFromFeed, emitActiveWindowMetrics |
| Metrics, start-up, API types | `internal/controller/metrics.go`, `cmd/main.go`, `api/v1alpha1/` | gauges | wiring |

How they interact. The work queue hands a policy's key to a reconcile worker, never to two at
once. The worker reads the policy from the informer cache. It then asks, one call after the
other, the demand source, the backend's floor, the predictor, the activity signal (the event
feed if it is fresh, else the sampler) and the backend's cap. It patches the backend and
writes the status. Deliveries arrive over HTTP or through a tunnel goroutine that the
GitHubApp reconciler starts and stops; both paths end in the feed. Nothing in the feed wakes
a reconcile: it is read at the next poll.

What makes this hard:

- every call of a reconcile may fail, or land with its answer lost, and the process may die
  between any two;
- the policy, the backend and the world change between the calls;
- the cooldown is enforced with a timestamp that lives in a status other writes can refuse,
  that is read through a lagging cache and that is stored in whole seconds;
- two goroutines may carry copies of one delivery;
- a stopped tunnel goroutine may outlive the two seconds its stopper waits;
- GitHub's lists change while they are paged through, and between the demand poll and the
  prediction;
- reconcile workers share two caches whose locks are not held across a request.

## 2. Modules

| Module | Models | Correspondence |
|---|---|---|
| `FloorDecision` | `Decide` | `Clamp` is the two comparisons, `Decide` adds the cooldown; a decrease's age stands for `now.Sub(lastDecreaseAt)` |
| `PolicyReconciler` | Reconcile, adapters, queue, cache, clock | `pc` is the next remote call; `api`, `cache`, `pol` are the three copies of the policy; `rec` the Go locals |
| `PolicyReconcilerProofs` | | theorems about `PolicyReconciler` |
| `Scheduler` | `scheduleBase`, `withinHHMM`, `parseHM` | operators over a calendar whose sizes are constants |
| `ScheduleWeek` | a schedule while the week passes | `schedule` is `spec.schedule`, `now` the minute of the week |
| `ReplayWindow` | | what a replay guard promises |
| `ReplayGuard` | `ReplayGuard.Seen` | the list, front first, with ages; `Seen` is one step, as the mutex makes it |
| `ReplayGuardProofs` | | lemmas about the guard's list |
| `Webhook` | receiver, lookup, dispatcher, feed | a handler goes lookup, guard, dispatch; `EXTENDS ReplayGuard`, whose `Seen` is the middle step |
| `WebhookProofs` | | theorems about `Webhook`, and that its guard implements `ReplayWindow` |
| `Tunnel` | tunnel client, registry, GitHubApp reconciler | `client` are the goroutines, `entry` the registry's, `rec` the reconcile in progress |
| `TunnelProofs` | | theorems about `Tunnel` |
| `DemandPoller` | `CurrentDemand` and below | one step per HTTP request |
| `DemandPollerProofs` | | theorems about `DemandPoller` |
| `RepositoryPoll` | `Predict`, `listActiveRuns`, `contributeRun`, `listJobs` after a demand poll | `EXTENDS DemandPoller`; one step per listing; which job is about to appear is `Imminent` of `Materialized` |
| `RepositoryPollProofs` | | theorems about `RepositoryPoll`, and that it implements `DemandPoller` |
| `Materialized` | `allMaterialized`, the first guards of `walkWorkflow` | operators, used by `RepositoryPoll` and `NeedsGraph` |
| `Workflow` | `parse.go` from the syntax tree on | operators named after the functions |
| `NeedsGraph` | `walkWorkflow`, `recurseLocal` | operators; the result is a bag of label sets |
| `ReconcileWorkers` | | the workers both caches serve |
| `ListCache` | `cachedGet` and its cache | one step for the lookup and the request, one for the answer, one to store or read |
| `WorkflowFetcher` | `Fetch`, `store`, `touchAndGet` | `lru` and `cache` are the list and the map; one step per answer or timer |
| `PredictorCaches` | both caches under the same workers | a worker makes one call at a time |
| `PredictorCachesProofs` | | theorems about `ListCache` and `PredictorCaches` |
| `ActivityLeg` | `computeActivity`, sampler, feed, expiries | `leg` is the reconcile, `stored` the status, `prev` is `prevActiveUntil` |
| `FloorLegsProofs` | | theorems about `ActivityLeg` and `ScheduleWeek`, the two legs that may raise a floor |
| `MC...` | | instances for TLC |

Names follow the Go code. A definition called a *mutant* in its comment is a plausible bug of
the definition after it; no specification uses it, and it serves to show that a property can
fail.

Notes on the abstraction:

- **Time** is kept as ages, the number of ticks since an instant, which stop growing at
  `AgeCap`. With `AgeCap` at least the longest cooldown or TTL in play, no comparison of the
  code can tell two capped ages apart. In `PolicyReconciler` a second has `TicksPerSecond`
  ticks, and writing a status rounds the stamp down to its second, as `metav1.Time` does. The
  stamp is an instant read just before the patch (`age["now"]`), not the one at
  which its `SetFloor` took effect (`age["landed"]`). The history variables `age["recorded"]`
  and `took` are the age of the last decrease that a stored status records and the time its
  `SetFloor` took.
- **The environment** of `PolicyReconciler` and `Tunnel` is the set `Events`: the calls that
  may fail and what users, GitHub and the cluster may do. A run picks the events it is about.
- **The cache** of `PolicyReconciler` is always some stored version of the policy. `lag` says
  what the missing versions changed, which decides whether `GenerationChangedPredicate` lets
  the watch event through. The reconciler's own status write reaches the cache at once unless
  `"staleCache"` is among the events.
- **Signals** of `PolicyReconciler` (schedule base, prediction, activity) are values that may
  change at any time. Which values arise is the business of `Scheduler`, `RepositoryPoll`,
  `ActivityLeg` and `Webhook`.
- **A workflow file** at a commit never changes, so in `WorkflowFetcher` a file stands for its
  content. **A listing** changes: in `ListCache` it is its version, which is also its ETag.
- **Runs** of `ActivityLeg` carry what the filters look at (actor, event, login) and their
  fan-out. The listing is kept only as far as `RunsCap`, because nothing looks further. An
  event out of the window and no event at all are one value (`Stale`), since the code treats
  them alike.
- **Listings of the predictor** are asked for without `per_page` and never followed, so
  `FirstPage` keeps the first `DefaultPage` of the runs and of a run's jobs; the demand poller
  pages. A job in `Renamed` is listed under another name than its key in the file, and the
  predictor does not see it.
- **`status.lastDelivery`** of `Tunnel` is recent or not; the code treats a missing one and an
  old one alike. Nothing under `src/` but the tests writes it: in the event `"delivery"`
  someone else does.
- **Workflows** of `RepositoryPoll` are flat. Nesting, matrices and labels are `NeedsGraph`'s
  and `Workflow`'s, checked as functions.
- **Deliveries** match their signature or do not, decode or do not. Malformed requests are
  refused before anything is read or written, and are left out.
- **The demand poller** counts each job in `tally` separately, so that a job counted twice
  can be told from two jobs. The code only adds them up.

## 3. Runs

### Passing

| Run | What it shows |
|---|---|
| `reconcile_cooldown` | one polled policy; the demand poll, reads, the predictor, status updates and answers of patches fail, others edit the runner set, the cache lags, the process crashes: `TypeOK`, `GapExplained`, `PatchKeepsPromise`, and `CooldownHolds`: a decrease comes a cooldown after the last *recorded* one, less the time that one's `SetFloor` took and the rounding of a stamp, or goes down to a cap |
| `reconcile_edits` | two unpolled policies, one under dry-run and one with a lower cap, are exchanged during reconciles whose calls fail, whose patches may land with their answers lost and whose backend others edit: `PatchKeepsPromise`, `GapExplained`; a stale status always has work pending (`StaleStatusIsPending`), the counter counts moves (`CountsMoves`), `appliedFloor` is what is there (`AppliedIsActual`), all three where the worker could know the floor (the history variable `unsure` says where it could not) |
| `policy_converges` | liveness: the schedule goes up and down, others edit the runner set, calls fail; once the environment settles, a polled policy's floor and status reach `TargetFloor`, also when that is a decrease that the cooldown holds back at first (`FloorConverges`) |
| `spec_observed` | liveness: once the environment settles, each spec change has been reconciled, also when unpolled or coming from an invalid target (`SpecObserved`) |
| `pure_functions` | `ScheduleBase` equals an enumeration of the minutes each window covers; `mapMatrix` equals GitHub's rules, where the code follows them (see below); `walkWorkflow` equals the sum over all chains of calls up to the depth limit |
| `webhook_delivery` | `CountedOnce` and `AcceptedIsRecorded` for redeliveries over both paths on two goroutines; through restarts and eviction the guard implements `ReplayWindow` (`ImplementsWindow`) |
| `tunnel` | edits, deletion, refused updates, restarts, broken streams: `OneTunnel`, `SupersededIsQuiet`; liveness: the right goroutine is left, the condition is the one the spec and the Secrets call for, and `webhookHealthy` is the tunnel's or, in ingress mode, says whether `status.lastDelivery` is recent, though nothing wakes a reconcile when it grows old (`TunnelConverges`) |
| `repository_poll` | `ExactWhenQuiet`: paging and retries count every job once; `WaitingJobsCounted`: a waiting job is not missed while runs move between the lists; `PredictedOnce`; `NothingInBoth`: demand and prediction share no job that holds still; `PredictionExact`: a run that holds still is predicted exactly, whatever the others do. The last two are for runs whose jobs fit on one default page, and for jobs listed under their key |
| `predictor_caches` | `FreshEnough` and `NotModifiedIsHeld` of listings; `CacheIsLRU` and `RightContent` of files; liveness: every call ends (`CallsEnd`) |
| `activity_leg` | `SampleHasCause`: what a *poll* contributes, and the window it opens, comes from a listed run of a person, never of a bot or a machine user on the denylist (the feed is not filtered, see below); `WindowBounded`; liveness: all of it drains when the repository is quiet (`ActivityDrains`) |

### Disagreements between the code and what is said of it

Each of these runs checks one sentence of the documentation or of a comment and ends in a
counterexample.

| Run | What happens |
|---|---|
| `cooldown_after_lost_stamp` | a decrease lands, its status update fails, and the next decrease follows at once |
| `webhook_window` | an event revives every job count since the process started |

Translating the code met these further behaviours, each at odds with a sentence of the
repository. They follow from a line of code each, and no run checks them; those about the
ETag cache and the redial's pause concern parts left out of the modules.

- A failed `GetFloor` reads as 0 (controller:249), so 0 may be reported where the comment at
  controller:340 says "what's actually on the backend now".
- `warmrunners_floor_change_total` also counts under dry-run (controller:374), though
  `docs/metrics.md:16` calls it "Floor change events".
- Annotating a policy as `docs/runbook.md:78` says changes no generation and starts no
  reconcile (controller:401).
- The replay guard evicts by insertion (replay.go:55), not by use ("LRU", replay.go:10).
- A push adds no job count (event_feed.go:84) and wakes no reconcile, though
  `docs/webhook.md:7` says that the floor bumps immediately.
- The tunnel of a deleted GitHubApp runs on (githubapp_controller.go:79).
- A stream the relay closes is redialled without a pause: `scanner.Err()` is nil at EOF
  (tunnel.go:219), and tunnel.go:145 says "error otherwise".
- In ingress mode `webhookHealthy` is never true in practice, since nothing writes
  `status.lastDelivery` (githubapp_controller.go:123), though `docs/webhook.md:125` says to
  "expect `HEALTHY=true` and a recent `LASTDELIVERY`".
- A 403 without rate-limit headers is retried, at once and as often as a transient error: the
  `break` at github_poller.go:190 leaves the `switch` only, where the comment above says
  "otherwise treat as terminal". `Retries` in `DemandPoller` has it so.
- A run that starts between the two lists has its queued jobs counted twice
  (github_poller.go:418).
- Each reconcile builds a poller with an empty ETag cache (controller:151), so the
  conditional requests of github_poller.go:412 are never sent for the poller's pages.
- The feed is asked before `spec.activity.enabled` is looked at (controller:540), though the
  comment above says that "a disabled config yields zero contribution". `FromFeed` has it so.
- A poll that finds nothing leaves `lastEventSource` as it was (controller:606), where the
  comment at controller:551 says that it leaves it empty.
- A poll holds its window for the sample window (15 minutes) from the poll's end on
  (controller:608), where `activeWindowSeconds` is documented as the time the floor is held
  (warmrunnerpolicy_types.go:195). `WindowBounded` states what does hold.
- Expiries are remembered by policy name without its namespace (controller:679): with a
  shared name they are not counted "exactly once per transition" (controller:669).
- Deliveries are not filtered by actor: a bot's push or job counts in the feed
  (dispatcher.go:61), unlike in the sampler. `SampleHasCause` is therefore about polls only.
- A non-retryable 403 repeats `Fetch` at once too (cache.go:235), as in the demand poller.
- The predictor reads one default page of a run's jobs (workflow_needs_graph.go:359). A job on
  the next page, which the demand poll counts, is predicted as well if what it needs is on the
  first, where line 246 says that such jobs "are already owned by the reactive layer".
- A job with a `name:`, a matrix or a reusable workflow is listed under another name than its
  key. What needs it is never imminent, so the prediction falls short, where the comment at
  workflow_needs_graph.go:355 says that it "over-warms rather than under-warms". `Renamed` in
  `RepositoryPoll` has it so.
- In-progress runs are listed before queued ones (workflow_needs_graph.go:31): a run that
  starts in between is missed until the next poll.
- A matrix of `include` entries only starts from one empty combination (parse.go:273), which
  the entries then extend one after the other, so it counts as one job; and an entry may
  extend a combination that an earlier entry appended. GitHub does neither.
- `spec.predictor.maxRunsPerPoll` is documented (`docs/rate-limits.md:76`) and never read
  (main.go:205).

### Bounds

- `PolicyReconciler`: floors up to 2, so a decrease can be partial and a cap can lie strictly
  between two floors. `reconcile_cooldown` has cooldown 3 with two ticks to the second, so a
  rounded stamp matters and the cooldown spans a second boundary. The other runs use one tick
  and cooldowns 1 and 2, enough for a decrease to be held and later let go. The predictor's
  signal stays 2 in `reconcile_cooldown` and the schedule fixed: the floor rises with the
  signal and falls because the predictor fails.
  Failures of the demand poll are left to `reconcile_cooldown`, which therefore checks the part
  of `PatchKeepsPromise` about them. In `policy_converges` the backend's cap is 1 and the
  schedule's base 0 or 2: the floor goes both ways, and when `GetMax` fails, a patch to 2 is
  refused.
- `ScheduleWeek`: three days of four minutes, all pairs of windows, two zones that are on
  another day than UTC, an unknown zone and an unknown day name. The calendar's sizes appear
  in the code only as factors.
- `Workflow` and `NeedsGraph`: all matrices with up to two axes and two values, one exclude
  and up to two include entries over them and one name that is no axis. Two workflow files of
  two jobs each, which may call each other, themselves and a third file, with a depth limit of
  two: cycles, shared callees and chains beyond the limit occur.
- `Webhook`: three IDs for two places in the guard, TTL 1, each ID sent at most twice
  (`MaxSends`): dead and live entries meet at capacity.
- `Tunnel`: two goroutines, so a superseded one can overlap a live one, and two relay URLs.
  When both are in use the registry's step waits for an exit. The proofs cover any number.
- `DemandPoller`, `RepositoryPoll`: two runs and page sizes of 2, so full last pages occur
  for runs and for jobs, one job that needs another, one that is renamed, and one retry.
- `ListCache`, `WorkflowFetcher`: two workers, one listing, and three files (one without an
  ETag) of two paths for two places: every file can be evicted while it is asked for. One
  retry.
- `ActivityLeg`: one policy with the sampler on and one with it off; runs of a person and of a
  machine user on the denylist; two places in the listing, so the one can push out the other;
  a sample window of two ticks, an active window of one, and at most one tick (`SampleTime`)
  to fetch a sample's files. Every request has a timeout and retries are bounded, so such a
  bound exists, unless GitHub asks for a longer wait.

Deadlock is checked in every run but two: `pure_functions` evaluates functions and has nothing
more to do after its input is chosen, and in `tunnel` a deleted app without a goroutine is at
rest.

### Fairness

Weak fairness, of the reconcile workers, the queue's timers, the informer, the clock, the
steps of a call to GitHub and the tunnel goroutines' own steps: controller-runtime serves its
queue, Go schedules runnable goroutines, and every wait in the code is bounded by a timer. No fairness is assumed of
users or of failures. The liveness properties speak of behaviours in which the environment
eventually leaves the system alone: `<>~unsettled` is a premise in `PolicyReconciler`, and
`settled` in `Tunnel`, whose `FairSpec` makes it happen so that the premise is met. In
`Tunnel` the relay stays up from then on. In `ActivityLeg` it is `quiet`: no event, no run and
no restart any more, while samples and status updates may still fail now and then.

## 4. Proofs

Every theorem below is for all values of the constants that meet the `ASSUME` named with it.
The runs of section 3 check the same definitions on small instances. A proof that a step keeps
an invariant goes through the actions.

`PolicyReconcilerProofs`, from `ConstantsAssumption` alone (finite bounds, `min <= max` in
every spec as admission enforces, a second of one tick or more):

- `TypeCorrect`: `Spec => []TypeOK`. Inductive as it stands.
- `GapAlwaysExplained`: `Spec => []GapExplained`. The stored status comes from the worker's
  copy, so `GapInv` adds that the copy is explained when it is about to be written and that,
  between the demand read and the report, a failed read shows in the copy's conditions.
- `CooldownRespected`: `Spec => CooldownHolds`. `CooldownInv` follows the stamp around the
  loop: the stored stamp is no older than the last recorded decrease but for the time its
  `SetFloor` took and the rounding; a stamp on its way to the status is that of the decrease
  the status will record; the cache has the stored stamp unless it lags; the worker's copy is
  the stored one while the worker is caught up; and a decision to decrease was taken with that
  copy past the cooldown, or ends at a cap. Signals only raise the decision, which is why
  folding them after `Decide` keeps the cooldown. The property claims nothing of a reconcile
  that read an older stamp than the stored one, or of a patch over a floor that someone edited
  after it was read; and a `SetFloor` that takes long shortens the cooldown after it by as
  much, because the stamp is read before the call (controller:314).
- `PromiseKept`: `Spec => PatchKeepsPromise`. `PromiseInv`: what is about to be patched is
  within the `floor.max` the reconcile read.
- `StaleStatusNeverFinal`: `Spec => []StaleStatusIsPending`, `CounterIsExact`: `Spec =>
  []CountsMoves` (outside dry-run), and `ReportsActualFloor`: `Spec => AppliedIsActual`. All
  three leave out what the worker could not know (`unsure`), and the first a status that says
  that the demand source is missing. `FloorInv`: from the
  read to the patch the worker knows the floor or could not know it, what it is about to
  report is true in that sense, and only a lag of the spec hides a spec or a deletion from
  the cache.

The environment's frame (`EnvironmentFrame`) is a lemma of its own.

`FloorLegsProofs`, about `Spec` of `ActivityLeg`, from `LegAssumption` (positive windows and
caps, finitely many wanted labels, fan-outs that are numbers):

- `WindowAlwaysBounded`: `Spec => []WindowBounded`. A window is opened from the age of the
  feed's last event or from a listed run's, so `LegInv` ties both to the newest activity
  (`NewestIsNewest`), and follows a listing that matched something until its window begins
  (`Matched`).
- `LegTypeCorrect`: `Spec => []TypeOK`. `TypeInv` adds that the listing is sorted, newest
  first (`NewestFirst`): the runs that leave the sample window are then the last ones, and the
  listing stays a sequence. The fan-outs of a finite set of runs add up to a number by
  induction on its size (`PartialIs` and the lemmas after it).
- `SamplesHaveCause`: `AutomationIsKnown => (Spec => SampleHasCause)`, with
  `SampleIsFresh`: a reconcile that goes on to the poll brings nothing with it. The premise is
  about the repository: its bots and machine users have one of the marks the filters look at.
  `MCActivityLeg` assumes it of the instance the run checks.

and about `WeekSpec` of `ScheduleWeek`, from `ScheduleAssumption` (weekday names differ, `from`
and `to` are readings of a clock as their patterns say, offsets of zones are integers):

- `ScheduleIsRight`: `WeekSpec => []BaseIsLargestActive`, for days and weeks of any length.
  `ActiveIsCovered`: a window is active on its zone's clock exactly in the minutes of the UTC
  week that the enumeration gives it; quotient and remainder are unique, so going to a zone's
  clock and back is the identity (`ThereAndBack`), across midnight and the end of the week.
  `ScanFindsLargest`: after window i, the scan holds the largest base among the active ones up
  to i.

`PredictorCachesProofs`, about `ListSpec`, for any number of workers and listings and from no
assumption:

- `ListingsFreshEnough`: `ListSpec => []FreshEnough`, and `NotModifiedFindsPayload`:
  `ListSpec => []NotModifiedIsHeld`. A 304 is answered from what others stored meanwhile, so
  `ListInv` follows the calls in flight (`CallInv`): all of them on one listing began no
  earlier than each one's horizon, so what they store is recent enough for it; and the
  payload of an ETag that was sent is still held, or was replaced by such a one. An entry's
  ETag is that of its payload (`EntryInv`).

and about `Spec` of `PredictorCaches`, from `FetcherAssumption` (a positive capacity):

- `ListsAsAlone`: `Spec => ListSpec`, the composition implements the list cache, and with it
  `SharedListings`: `Spec => []FreshEnough /\ []NotModifiedIsHeld`.
- `CachesTypeCorrect`: `Spec => []TypeOK`, `EvictsLeastRecent`: `Spec => []CacheIsLRU`, and
  `FetchesRightContent`: `Spec => []RightContent`. `FetchInv`: the history of uses has no
  duplicates, the list is its prefix, and a key's entry holds that key's content. The lemma
  behind it is that a prefix in which a key is moved to the front is the prefix of the
  history in which it is (`PrefixMoves`).

`ReplayGuardProofs` has the lemmas about the guard's list (what removal, eviction from the
back and ageing leave of it). `WebhookProofs`, from `WebhookAssumption` and `GuardAssumption`
(a guard of positive size, ages that tell the TTL apart), for any number of handlers:

- `WebhookTypeCorrect`: `Spec => []TypeOK`. The guard's entries are distinct and sorted by
  age (`GuardOK`), which is what makes dropping from the back drop the oldest.
- `GuardImplementsWindow`: `Spec => ImplementsWindow`. The abstract window is the set of IDs
  the list would recognise; asking, time passing and a restart each map to a step of
  `ReplayWindow`.
- `NothingSwallowed`: `Spec => []AcceptedIsRecorded`. `DeliveryInv`: whatever the guard holds
  has been recorded, or a handler past the guard is about to record it.
- `JobsCountedOnce`: `Spec => []CountedOnce`. `OnceInv`: while no more IDs have been asked
  about than the guard has places, all of them are held; while an ID is within the TTL, one
  handler at most gets past the guard with it; and while that is so of all deliveries of a
  key, the feed's count is the number of its recorded jobs.

`TunnelProofs`, about `Spec` of `Tunnel`, from its `ASSUME` (the values are distinct, and the
first backoff is positive and within the cap), for any number of goroutines:

- `TunnelTypeCorrect`: `Spec => []TypeOK`, `OneTunnelPerApp`: `Spec => []OneTunnel`, and
  `OnlyRegisteredHandsOn`: `Spec => SupersededIsQuiet`. `TunnelInv` adds to `OneTunnel` that
  while the reconcile waits in `stopLocked` (`Waiting`) the registered goroutine has been told
  to stop: in that time nobody is live, and the next one is registered before it runs.

`DemandPollerProofs`, from `PollerAssumption` (GitHub lists no run and no job twice at one
instant, a run has jobs, and no two runs share one; a positive page size), for any repository,
page size and number of retries:

- `DemandTypeCorrect`: `Spec => []TypeOK`.
- `WaitingNeverMissed`: `Spec => []WaitingJobsCounted`. `WaitingInv` says of a job that has
  been queued throughout the poll that it is counted or still due (`Due`): its run is in the
  list being made or counted and the pages read so far have not reached the job, or its run
  has started, so that the second list will have it. Other jobs of the run may appear
  meanwhile; they only push the job to a later page (`AheadGrows`). As the property says, this
  is for lists of runs that fit one page.
- `QuietPollExact`: `Spec => []ExactWhenQuiet`. `QuietInv`: while nothing moves, the runs
  listed so far are the beginning of the list, those to be counted are distinct, and each job
  of a run that was passed is counted once, under its status.

`RepositoryPollProofs`, from `PredictAssumption` besides:

- `PollsTheDemand`: `PollSpec => Spec`, the demand poll inside a reconcile implements
  `DemandPoller`, and with it `DemandIsRight`: both facts above hold there.
- `PollTypeCorrect`: `PollSpec => []PollTypeOK`; no more than `RunsCap` runs are walked.
- `NoJobPredictedTwice`: `PollSpec => []PredictedOnce`. `OnceInv`: the runs found are
  distinct, and no job of a run still to be walked is predicted.
- `NothingOwnedTwice`: `PollSpec => []NothingInBoth`. `BothInv`: what a job that holds still
  was counted or predicted as, it is: the page that was read held all jobs of its run. For
  jobs listed under their key, of runs whose jobs fit on a default page (`AllShown`).
- `StillRunsForetold`: `PollSpec => []PredictionExact`. `ExactInv`: a run that holds still is
  among the runs found once the listing of its status has been made, and exactly the jobs
  about to appear are predicted once it was walked. The property is for repositories of no
  more runs than `RunsCap` and a default page, for runs whose jobs fit on one, and for jobs
  listed under their key, as are those they need; that the cap then cuts off none of the distinct runs found is a
  pigeonhole argument (`Pigeonhole`, `AllUsed`, `Distinct`).

Lists that are filtered and scanned, sums and the pigeonhole argument need induction. The
library's induction theorems take an operator as a parameter and cannot be used here, so the
induction is over the *set* of numbers for which a statement holds (`UpTo`), which rests on the
least element of a set of naturals (`LeastElement`, `LeastOne`).

Only model-checked:

- the liveness properties (`FloorConverges`, `SpecObserved`, `TunnelConverges`,
  `CallsEnd`, `ActivityDrains`): fairness is out of the prover's reach;
- `MatrixIsGitHubs` and `WalkIsAllChains`: `walkWorkflow` is a recursive operator, and the
  expansion of a matrix is a nest of folds over lists and bags, whose references are folds as
  well.

## 5. Not modelled

- Gauges and counters other than floor changes and remembered windows, and the label lists in
  the status: they are written and not read by control.
- Two policies on one backend: to one policy the other is a user who edits the backend.
- The ETag cache of the demand poller: every reconcile starts with an empty one.
- The predictor's and the sampler's signals inside `PolicyReconciler`: there they are values
  that change at any time, which is weaker than what their own modules show.
- YAML and JSON decoding, HMAC, TLS, HTTP transport: libraries.
- Lengths of waits in retries and jitter: only that a wait happens, and how often.
- Start-up wiring, flags and health endpoints; generated deep copies, test utilities, version
  string.

Some behaviours are in the models and nothing in the repository says they may not happen, so
no property speaks of them: runs of bots use up the sampler's cap and hide a person's; a fresh
feed without jobs contributes 0 and keeps the poll from being made; the early returns of the
GitHubApp reconciler leave `webhookHealthy` as it was; the predictor's list cache never drops
an entry.
