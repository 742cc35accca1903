-------------------------- MODULE PolicyReconciler --------------------------
(***************************************************************************)
(* The WarmRunnerPolicy controller                                         *)
(* (internal/controller/warmrunnerpolicy_controller.go) driving one policy *)
(* and one runner backend.  Reconcile is one sequential worker (the work   *)
(* queue never runs a key twice at once); every remote call it makes is a  *)
(* step of its own, so that the user, the cluster and the clock interleave *)
(* with it.  The policy lives in the API server and is read through an     *)
(* informer cache that may lag; the backend is read and written live.      *)
(*                                                                         *)
(* Time is kept as ages, capped at AgeCap: a stored instant is how many    *)
(* ticks ago it was.  metav1.Time is stored in whole seconds, so a stamp   *)
(* written to the API server is as old as the start of its second.         *)
(***************************************************************************)
EXTENDS FloorDecision

CONSTANTS
    Specs,           \* the policy specs a user may apply
    MaxFloor,        \* bound on floors, caps and signals
    Bases,           \* what the schedule may ask for
    Signals,         \* what predictor and activity may contribute
    BackendCaps,     \* the backend's own max-runner caps; Uncapped when unset
    Uncapped,
    TicksPerSecond,  \* clock ticks in one second of wall time
    AgeCap,          \* ages are not told apart from here on
    Events           \* what the environment may do (see EventKinds)

\* Calls that may fail, and what others may do to the policy, the backend and
\* the process; "settle" lets the environment stop doing any of it.
EventKinds == {"source", "demand", "getFloor", "predictor", "activity", "getMax",
               "setFloor", "setFloorLost", "status", "crash", "staleCache",
               "specEdit", "touch", "delete", "backendEdit", "signal", "settle"}

Floors == 0..MaxFloor
Ages == 0..AgeCap
Conditions == {"DemandSourceAvailable", "AdapterAvailable"}

SpecRecords == [target: {"arc", "garm", "invalid"}, min: Floors, max: Floors,
                cooldown: Ages, poll: BOOLEAN, appRef: BOOLEAN, dryRun: BOOLEAN,
                predictor: BOOLEAN, activity: BOOLEAN]

ASSUME ConstantsAssumption ==
    /\ MaxFloor \in Nat /\ AgeCap \in Nat
    /\ TicksPerSecond \in 1..(AgeCap + 1)
    /\ Specs \subseteq SpecRecords /\ Specs # {}
    /\ \A s \in Specs : s.min <= s.max
    /\ Bases \subseteq Floors /\ Signals \subseteq Floors
    /\ BackendCaps \subseteq (Floors \cup {Uncapped}) /\ Uncapped \notin Floors
    /\ Events \subseteq EventKinds

VARIABLES
    api,        \* the policy in the API server: [live, spec, status]
    cache,      \* the informer's copy of it
    lag,        \* the most the copy has not seen: "none", "status", "meta"
                \* (metadata) or "spec" (a new generation, or the deletion)
    backend,    \* the runner set or pool: [floor, max]
    signal,     \* the world the policy is about: [base, predicted, activity]
    ready,      \* the work queue holds the policy's key
    timer,      \* a RequeueAfter or backoff timer is running for it
    pc,         \* the step the worker is about to take
    pol,        \* the worker's copy of the policy: [spec, status, latest],
                \* latest while its resourceVersion is still the stored one
    rec,        \* the worker's locals
    age,        \* ages of LastDecreaseTime in "api", "cache", "pol", of the
                \* worker's "now", and (history) of the last decrease that "landed"
                \* on the backend and of the last whose stamp was "recorded"
    phase,      \* ticks into the current second of the wall clock
    took,       \* history: how long the SetFloor of the recorded decrease took, from
                \* the reading of now to its landing
    unsure,     \* history: the floor may not be the one the worker last read: the
                \* read failed, someone else edited it, or SetFloor's answer was lost
    unsettled   \* the environment may still change and fail

policyVars == <<api, cache, lag>>
queueVars == <<ready, timer>>
historyVars == <<took, unsure>>
worldVars == <<backend, signal, unsettled>>
clockVars == <<age, phase>>
vars == <<policyVars, worldVars, queueVars, pc, pol, rec, clockVars, historyVars>>

\* The conditions that are True, and the spec (generation) the DryRun and
\* AdapterAvailable conditions and status.dryRun were written for.
Status == [desired: Floors, applied: Floors, conds: SUBSET Conditions, observed: Specs]
Clocks == {"api", "cache", "pol", "now", "landed", "recorded"}
Steps == {"idle", "demand", "decide", "predict", "activity", "clamp", "patch", "status"}
Directions == {"none", "up", "down"}
Locals == [caughtUp: BOOLEAN, demOk: BOOLEAN, current: Floors, desired: Floors,
           bound: Floors \cup {Uncapped}, phase: 0..(TicksPerSecond - 1),
           setOk: BOOLEAN, stamped: BOOLEAN, moved: Directions, took: Ages]

NoLocals == [caughtUp |-> TRUE, demOk |-> TRUE, current |-> 0, desired |-> 0,
             bound |-> Uncapped, phase |-> 0, setOk |-> TRUE, stamped |-> FALSE,
             moved |-> "none", took |-> 0]

\* The status of a new policy, which shows no dry-run (where some spec has none),
\* and the worker's copy while it is idle.
Unobserved == CHOOSE s \in Specs : s.dryRun => \A t \in Specs : t.dryRun
NoStatus == [desired |-> 0, applied |-> 0, conds |-> {}, observed |-> Unobserved]
NoCopy == [spec |-> Unobserved, status |-> NoStatus, latest |-> FALSE]

Init ==
    /\ \E s \in Specs : api = [live |-> TRUE, spec |-> s, status |-> NoStatus]
    /\ cache = api
    /\ lag = "none"
    /\ backend \in {b \in [floor: Bases, max: BackendCaps] :
                       b.max # Uncapped => b.floor <= b.max}
    /\ signal \in [base: Bases, predicted: Signals, activity: Signals]
    /\ ready = TRUE /\ timer = FALSE
    /\ pc = "idle"
    /\ pol = NoCopy /\ rec = NoLocals
    /\ age = [c \in Clocks |-> AgeCap]
    /\ phase = 0
    /\ took = 0 /\ unsure = TRUE
    /\ unsettled = TRUE

\* The environment may do e now.
Event(e) == unsettled /\ e \in Events

Goto(step) == pc' = step
SetCondition(conds, c, ok) == IF ok THEN conds \cup {c} ELSE conds \ {c}
\* Mutant: a GitHubApp brings no poll interval of its own.
RequeuesByInterval(spec) == spec.poll
Requeues(spec) == spec.poll \/ spec.appRef
Direction(from, to) == IF to > from THEN "up" ELSE IF to < from THEN "down" ELSE "none"
CaughtUp == cache.status = api.status /\ age["cache"] = age["api"]

-----------------------------------------------------------------------------
(* Reconcile, one action per remote call.                                  *)

\* The worker takes the key and copies the cached policy.
Take ==
    /\ pc = "idle" /\ ready
    /\ CaughtUp \/ Event("staleCache")
    /\ ready' = FALSE
    /\ UNCHANGED <<policyVars, worldVars, timer, phase, historyVars>>

\* The policy is gone, or names no backend: nothing is done or requeued.
BeginNothing ==
    /\ Take
    /\ ~cache.live \/ cache.spec.target = "invalid"
    /\ UNCHANGED <<pc, pol, rec, age>>

\* Mutant: LastDecreaseTime is not read.
LoadUndated(conds) ==
    /\ cache.live /\ cache.spec.target # "invalid"
    /\ pol' = [spec |-> cache.spec, latest |-> lag = "none",
               status |-> [cache.status EXCEPT !.conds = conds]]
    /\ rec' = [NoLocals EXCEPT !.caughtUp = CaughtUp]
    /\ age' = [age EXCEPT !["pol"] = AgeCap]

Load(conds) ==
    /\ cache.live /\ cache.spec.target # "invalid"
    /\ pol' = [spec |-> cache.spec, latest |-> lag = "none",
               status |-> [cache.status EXCEPT !.conds = conds]]
    /\ rec' = [NoLocals EXCEPT !.caughtUp = CaughtUp]
    /\ age' = [age EXCEPT !["pol"] = age["cache"]]

Begin == Take /\ Load(cache.status.conds) /\ Goto("demand")

\* The auth secret does not resolve: only the condition is written.
BeginWithoutSource ==
    /\ Event("source")
    /\ Take
    /\ Load(cache.status.conds \ {"DemandSourceAvailable"})
    /\ Goto("status")

\* Mutant: a demand error does not reach the condition.
ObserveDemandSilently(ok) ==
    /\ pc = "demand"
    /\ ok \/ Event("demand")
    /\ rec' = [rec EXCEPT !.demOk = ok]
    /\ pol' = [pol EXCEPT !.status.conds = SetCondition(@, "DemandSourceAvailable", TRUE)]
    /\ Goto("decide")
    /\ UNCHANGED <<policyVars, worldVars, queueVars, clockVars, historyVars>>

ObserveDemand(ok) ==
    /\ pc = "demand"
    /\ ok \/ Event("demand")
    /\ rec' = [rec EXCEPT !.demOk = ok]
    /\ pol' = [pol EXCEPT !.status.conds = SetCondition(@, "DemandSourceAvailable", ok)]
    /\ Goto("decide")
    /\ UNCHANGED <<policyVars, worldVars, queueVars, clockVars, historyVars>>

\* What the adapter reads: the floor, with 0 for an error or an unset field; the
\* cap, which does not count when its read fails.
GetFloor(ok) == IF ok THEN backend.floor ELSE 0
GetMax(ok) == IF ok THEN backend.max ELSE Uncapped

\* Mutant: a failed GetFloor answers -1.
DecideFloorSentinel(ok) ==
    /\ pc = "decide"
    /\ ok \/ Event("getFloor")
    /\ LET current == IF ok THEN backend.floor ELSE -1
       IN  rec' = [rec EXCEPT !.current = current,
                              !.desired = Decide(pol.spec, signal.base, current, age["pol"])]
    /\ unsure' = ~ok
    /\ Goto("predict")
    /\ UNCHANGED <<policyVars, worldVars, queueVars, pol, clockVars, took>>

\* GetFloor, whose error is discarded, and Decide.
DecideFloor(ok) ==
    /\ pc = "decide"
    /\ ok \/ Event("getFloor")
    /\ rec' = [rec EXCEPT !.current = GetFloor(ok),
                          !.desired = Decide(pol.spec, signal.base, GetFloor(ok), age["pol"])]
    /\ unsure' = ~ok
    /\ Goto("predict")
    /\ UNCHANGED <<policyVars, worldVars, queueVars, pol, clockVars, took>>

\* A policy with a GitHubApp reads the event feed even with the sampler off.
HasActivity(spec) == spec.activity \/ spec.appRef

\* What the two signal legs contribute; a failed read contributes nothing.
Predicted(ok) == IF pol.spec.predictor /\ ok THEN signal.predicted ELSE 0
Activity(ok) == IF HasActivity(pol.spec) /\ ok THEN signal.activity ELSE 0

Fold(value) ==
    /\ rec' = [rec EXCEPT !.desired = Greatest(@, value)]
    /\ UNCHANGED <<policyVars, worldVars, queueVars, pol, clockVars, historyVars>>

FoldPredicted(ok) ==
    /\ pc = "predict"
    /\ ok \/ (pol.spec.predictor /\ Event("predictor"))
    /\ Fold(Predicted(ok))
    /\ Goto("activity")

FoldActivity(ok) ==
    /\ pc = "activity"
    /\ ok \/ (pol.spec.activity /\ Event("activity"))
    /\ Fold(Activity(ok))
    /\ Goto("clamp")

\* Mutant: only Decide clamps to floor.max.
ClampDesiredOnce(ok) ==
    /\ pc = "clamp"
    /\ ok \/ Event("getMax")
    /\ LET bound == GetMax(ok)
       IN  rec' = [rec EXCEPT !.bound = bound, !.phase = phase,
                              !.desired = IF bound = Uncapped THEN @ ELSE Least(@, bound)]
    /\ age' = [age EXCEPT !["now"] = 0]
    /\ Goto("patch")
    /\ UNCHANGED <<policyVars, worldVars, queueVars, pol, phase, historyVars>>

\* The clamps to floor.max and to the backend's cap; then now is read.
ClampDesired(ok) ==
    /\ pc = "clamp"
    /\ ok \/ Event("getMax")
    /\ LET bound == GetMax(ok)
           desired == Least(rec.desired, pol.spec.max)
       IN  rec' = [rec EXCEPT !.bound = bound, !.phase = phase,
                              !.desired = IF bound = Uncapped THEN desired
                                          ELSE Least(desired, bound)]
    /\ age' = [age EXCEPT !["now"] = 0]
    /\ Goto("patch")
    /\ UNCHANGED <<policyVars, worldVars, queueVars, pol, phase, historyVars>>

\* Mutant: a demand error is reported, and the floor patched all the same.
WantsPatchAnyway == rec.desired # rec.current
WantsPatch == rec.demOk /\ rec.desired # rec.current

\* Mutant: status.dryRun and the DryRun condition are left as they were.
ReportOldDryRun(setOk, applied) ==
    /\ pol' = [pol EXCEPT !.status =
                  [desired |-> rec.desired, applied |-> applied, observed |-> @.observed,
                   conds |-> SetCondition(@.conds, "AdapterAvailable", setOk)]]
    /\ Goto("status")
    /\ UNCHANGED <<policyVars, signal, unsettled, queueVars, phase>>

\* The status the reconcile will write, given how the patch went.
Report(setOk, applied) ==
    /\ pol' = [pol EXCEPT !.status =
                  [desired |-> rec.desired, applied |-> applied, observed |-> pol.spec,
                   conds |-> SetCondition(@.conds, "AdapterAvailable", setOk)]]
    /\ Goto("status")
    /\ UNCHANGED <<policyVars, signal, unsettled, queueVars, phase>>

\* The backend admits a floor within its own cap only.
Admits(max, floor) == IF max = Uncapped THEN TRUE ELSE floor <= max

\* SetFloor takes effect on the backend; rec.moved remembers how, and rec.took how
\* long after now was read.
Land(setOk) ==
    /\ backend' = [backend EXCEPT !.floor = rec.desired]
    /\ rec' = [rec EXCEPT !.moved = Direction(backend.floor, rec.desired), !.setOk = setOk,
                          !.stamped = setOk /\ rec.desired < rec.current, !.took = age["now"]]
    /\ unsure' = (unsure \/ ~setOk)
    /\ age' = [age EXCEPT !["landed"] = IF rec.desired < backend.floor THEN 0 ELSE @]
    /\ UNCHANGED took

\* Nothing to change, a demand error, or dry-run.
PatchNothing ==
    /\ pc = "patch"
    /\ ~WantsPatch \/ pol.spec.dryRun
    /\ Report(TRUE, rec.current)
    /\ UNCHANGED <<backend, rec, age, took, unsure>>

PatchLands ==
    /\ pc = "patch"
    /\ WantsPatch /\ ~pol.spec.dryRun
    /\ Admits(backend.max, rec.desired)
    /\ Land(TRUE)
    /\ Report(TRUE, rec.desired)

\* Mutant: the wanted floor is reported as applied although SetFloor failed.
PatchFailsApplied ==
    /\ pc = "patch"
    /\ WantsPatch /\ ~pol.spec.dryRun
    /\ Event("setFloor")
    /\ rec' = [rec EXCEPT !.setOk = FALSE]
    /\ UNCHANGED <<backend, age, took, unsure>>
    /\ Report(FALSE, rec.desired)

\* SetFloor returns an error: the write was rejected, conflicted or never
\* arrived, or ("setFloorLost") it landed and the answer was lost.
PatchFails ==
    /\ pc = "patch"
    /\ WantsPatch /\ ~pol.spec.dryRun
    /\ LET admitted == Admits(backend.max, rec.desired)
       IN  \/ /\ ~admitted \/ Event("setFloor")
              /\ rec' = [rec EXCEPT !.setOk = FALSE]
              /\ UNCHANGED <<backend, age, took, unsure>>
           \/ admitted /\ Event("setFloorLost") /\ Land(FALSE)
    /\ Report(FALSE, rec.current)

\* The worker's own instants are forgotten when it is done.
Forget(ages) == [ages EXCEPT !["pol"] = AgeCap, !["now"] = AgeCap]

\* Mutant: a failed patch is counted.
CountsTries == IF rec.demOk THEN Direction(rec.current, rec.desired) ELSE "none"

\* The direction counted in warmrunners_floor_change_total at the end of a
\* reconcile, whether or not its status update succeeded.
Counts == IF rec.demOk /\ rec.setOk THEN Direction(rec.current, rec.desired) ELSE "none"

Finish ==
    /\ pol' = NoCopy /\ rec' = NoLocals
    /\ Goto("idle")
    /\ UNCHANGED <<worldVars, ready, phase, unsure>>

\* The decrease that this status records.
Recorded == rec.stamped /\ rec.moved = "down"

\* The update is accepted while the copy's resourceVersion is current; the
\* stamp is stored in whole seconds.
WriteStatus ==
    /\ pc = "status" /\ pol.latest
    /\ api' = [api EXCEPT !.status = pol.status]
    /\ age' = Forget([age EXCEPT !["api"] = IF rec.stamped
                                            THEN Least(age["now"] + rec.phase, AgeCap)
                                            ELSE age["pol"],
                                 !["recorded"] = IF Recorded THEN age["landed"] ELSE @])
    /\ took' = IF Recorded THEN rec.took ELSE took
    /\ lag' = IF lag = "none" THEN "status" ELSE lag
    /\ timer' = (timer \/ Requeues(pol.spec))
    /\ UNCHANGED cache
    /\ Finish

\* Mutant: the update's error is dropped.
StatusFailsDropped ==
    /\ pc = "status"
    /\ ~pol.latest \/ Event("status")
    /\ timer' = (timer \/ Requeues(pol.spec))
    /\ age' = Forget(age)
    /\ UNCHANGED <<policyVars, took>>
    /\ Finish

\* A conflict or any other error is returned, and retried after a backoff.
StatusFails ==
    /\ pc = "status"
    /\ ~pol.latest \/ Event("status")
    /\ timer' = TRUE
    /\ age' = Forget(age)
    /\ UNCHANGED <<policyVars, took>>
    /\ Finish

-----------------------------------------------------------------------------
(* The manager, the cluster and the user.                                  *)

TimerFires ==
    /\ timer
    /\ timer' = FALSE /\ ready' = TRUE
    /\ UNCHANGED <<policyVars, worldVars, pc, pol, rec, clockVars, historyVars>>

\* Mutant: a change of the spec is left to the poll.
CacheSyncByPoll ==
    /\ lag # "none"
    /\ cache' = api /\ lag' = "none"
    /\ age' = [age EXCEPT !["cache"] = age["api"]]
    /\ ready' = (ready \/ (lag = "spec" /\ ~api.live))
    /\ UNCHANGED <<api, worldVars, timer, pc, pol, rec, phase, historyVars>>

\* The informer catches up; GenerationChangedPredicate drops an event that
\* changed neither the spec nor the existence of the policy.
CacheSync ==
    /\ lag # "none"
    /\ cache' = api /\ lag' = "none"
    /\ age' = [age EXCEPT !["cache"] = age["api"]]
    /\ ready' = (ready \/ lag = "spec")
    /\ UNCHANGED <<api, worldVars, timer, pc, pol, rec, phase, historyVars>>

\* A write of the policy by someone else, which moves its resourceVersion.
UserWrite(policy, seen) ==
    /\ api.live
    /\ api' = policy
    /\ lag' = IF seen = "spec" \/ lag = "spec" THEN "spec" ELSE "meta"
    /\ pol' = [pol EXCEPT !.latest = FALSE]
    /\ UNCHANGED <<cache, worldVars, queueVars, pc, rec, clockVars, historyVars>>

EditSpec ==
    /\ Event("specEdit")
    /\ \E s \in Specs \ {api.spec} : UserWrite([api EXCEPT !.spec = s], "spec")

\* A metadata-only write, such as kubectl annotate.
Touch == Event("touch") /\ UserWrite(api, "meta")

DeletePolicy == Event("delete") /\ UserWrite([api EXCEPT !.live = FALSE], "spec")

\* Someone else writes the runner set, within its admission rule.
EditBackend ==
    /\ Event("backendEdit")
    /\ \E floor \in Bases, max \in BackendCaps :
         /\ Admits(max, floor)
         /\ backend' = [floor |-> floor, max |-> max]
         /\ unsure' = (unsure \/ floor # backend.floor)
    /\ UNCHANGED <<policyVars, signal, unsettled, queueVars, pc, pol, rec, clockVars, took>>

\* A schedule window opens or closes, or the repository's activity changes.
WorldChanges ==
    /\ Event("signal")
    /\ signal' \in [base: Bases, predicted: Signals, activity: Signals]
    /\ UNCHANGED <<policyVars, backend, unsettled, queueVars, pc, pol, rec, clockVars,
                   historyVars>>

Tick ==
    /\ age' = [c \in Clocks |-> Least(age[c] + 1, AgeCap)]
    /\ phase' = IF phase + 1 = TicksPerSecond THEN 0 ELSE phase + 1
    /\ UNCHANGED <<policyVars, worldVars, queueVars, pc, pol, rec, historyVars>>

\* The process dies and a new leader starts: its informer lists the policy
\* and enqueues it; nothing in memory survives.
Crash ==
    /\ Event("crash")
    /\ cache' = api /\ lag' = "none"
    /\ age' = Forget([age EXCEPT !["cache"] = age["api"]])
    /\ ready' = api.live /\ timer' = FALSE
    /\ pc' = "idle" /\ pol' = NoCopy /\ rec' = NoLocals
    /\ UNCHANGED <<api, worldVars, phase, historyVars>>

Settle ==
    /\ Event("settle")
    /\ unsettled' = FALSE
    /\ UNCHANGED <<policyVars, backend, signal, queueVars, pc, pol, rec, clockVars,
                   historyVars>>

Worker ==
    \/ BeginNothing \/ Begin \/ BeginWithoutSource
    \/ \E ok \in BOOLEAN : \/ ObserveDemand(ok) \/ DecideFloor(ok) \/ FoldPredicted(ok)
                          \/ FoldActivity(ok) \/ ClampDesired(ok)
    \/ PatchNothing \/ PatchLands \/ PatchFails
    \/ WriteStatus \/ StatusFails

Environment ==
    \/ TimerFires \/ CacheSync \/ Tick
    \/ EditSpec \/ Touch \/ DeletePolicy \/ EditBackend \/ WorldChanges
    \/ Crash \/ Settle

Next == Worker \/ Environment

Spec == Init /\ [][Next]_vars

\* The work queue keeps serving its workers, timers fire, the informer's watch
\* delivers and time passes.  Nothing forces the environment to act or settle.
Fairness == WF_vars(Worker) /\ WF_vars(TimerFires) /\ WF_vars(CacheSync) /\ WF_vars(Tick)

FairSpec == Spec /\ Fairness

-----------------------------------------------------------------------------
(* Properties.                                                             *)

\* Every variable holds what the code's types allow; the worker's copy and the
\* informer's are policies some user applied.
TypeOK ==
    /\ api \in [live: BOOLEAN, spec: Specs, status: Status]
    /\ cache \in [live: BOOLEAN, spec: Specs, status: Status]
    /\ lag \in {"none", "status", "meta", "spec"}
    /\ backend \in [floor: Floors, max: Floors \cup {Uncapped}]
    /\ signal \in [base: Floors, predicted: Floors, activity: Floors]
    /\ ready \in BOOLEAN /\ timer \in BOOLEAN
    /\ pc \in Steps
    /\ pol \in [spec: Specs, status: Status, latest: BOOLEAN]
    /\ rec \in Locals
    /\ age \in [Clocks -> Ages]
    /\ phase \in 0..(TicksPerSecond - 1)
    /\ took \in Ages /\ unsure \in BOOLEAN /\ unsettled \in BOOLEAN

\* The reconciler's own step lowers the backend's floor.
Lowers == pc = "patch" /\ pc' = "status" /\ backend'.floor < backend.floor

\* The floor was lowered no further than to a cap that was read.
ToCap == backend'.floor \in {pol.spec.max, rec.bound}

\* Stamps are stored in whole seconds, so the cooldown may end that much early.
Rounding == TicksPerSecond - 1

\* The cooldown since the last recorded decrease is over.  It is counted from before
\* that decrease's SetFloor, so the time SetFloor took is missing from it.
CooldownOver == age["recorded"] + took + Rounding >= pol.spec.cooldown

\* A decrease follows the last recorded one by at least the policy's cooldown, less
\* what SetFloor took then and a stored stamp is rounded by, or only obeys floor.max
\* or the backend's cap: no failed or refused update, crash, stale copy or unrecorded
\* decrease in between takes the stamp back.  Provided the reconcile read the stored
\* stamp, and the floor it lowers is the one it read.  (Decide's cooldown test,
\* LastDecreaseTime and its stamp.)
CooldownHolds ==
    [][Lowers /\ rec.caughtUp /\ rec.current = backend.floor => CooldownOver \/ ToCap]_vars

\* A reconcile "never exceeds floor.max, and never patches the backend on a demand
\* error" (the comment on Reconcile), nor under dry-run, whatever the schedule, the
\* signals, the cooldown's hold and later edits of the spec make of it.
PatchKeepsPromise ==
    [][pc = "patch" /\ pc' = "status" /\ backend' # backend =>
         backend'.floor <= pol.spec.max /\ rec.demOk /\ ~pol.spec.dryRun]_vars

\* Whenever the stored status shows a desired floor that is not the applied one,
\* a condition in the same status says why: dry-run, a failed patch or a failed
\* demand read.  (What "desiredFloor not reaching appliedFloor" is diagnosed by.)
GapExplained ==
    api.status.desired # api.status.applied =>
        \/ api.status.observed.dryRun
        \/ "AdapterAvailable" \notin api.status.conds
        \/ "DemandSourceAvailable" \notin api.status.conds

\* A stored appliedFloor that is not the backend's floor is never final: work is
\* queued, the worker could not know better (its last read failed, its patch's
\* answer was lost, or someone else edited the floor since), or the status says
\* that the demand source cannot be built.
StaleStatusIsPending ==
    pc = "idle" /\ api.live /\ api.status.applied # backend.floor =>
        \/ ready \/ timer \/ lag = "spec" \/ unsure
        \/ "DemandSourceAvailable" \notin api.status.conds
        \/ cache.spec.target = "invalid"

\* The appliedFloor a reconcile reports is what is on the backend when it reports
\* it, unless the worker could not know: GetFloor failed, someone else edited the
\* floor since, or the answer to SetFloor was lost.
\* ("applied = what's actually on the backend now", the comment in Reconcile.)
AppliedIsActual ==
    [][pc = "patch" /\ pc' = "status" /\ ~unsure'
         => pol'.status.applied = backend'.floor]_vars

\* Outside dry-run the floor-change counter counts what the reconcile did to the
\* floor, as far as the worker could know it: one event in the direction it moved,
\* and none when it did not.
CountsMoves == pc = "status" /\ ~pol.spec.dryRun /\ ~unsure => Counts = rec.moved

\* "Decreases are rate-limited by a cooldown" (README.md): a decrease follows the last
\* one that landed, whatever became of its stamp, by at least the cooldown less the
\* rounding of a stamp.
CooldownAlways ==
    [][Lowers /\ rec.current = backend.floor =>
         age["landed"] + Rounding >= pol.spec.cooldown \/ ToCap]_vars

\* Once the environment settles, the status is about the stored spec for good: a
\* spec change is never lost between the cache, the predicate and the queue.  Only
\* a policy nothing polls may be left without a demand source, and then says so.
SpecObserved ==
    <>~unsettled =>
        <>[](api.live /\ api.spec.target # "invalid" =>
                \/ api.status.observed = api.spec
                \/ /\ ~api.spec.poll /\ ~api.spec.appRef
                   /\ "DemandSourceAvailable" \notin api.status.conds)

\* What a settled policy should come to, whatever its history: the schedule
\* within min/max, raised by the enabled signals, under both caps.
TargetFloor ==
    LET spec == api.spec
        wanted == Greatest(Clamp(signal.base, spec),
                           Greatest(IF spec.predictor THEN signal.predicted ELSE 0,
                                    IF HasActivity(spec) THEN signal.activity ELSE 0))
        capped == Least(wanted, spec.max)
    IN  IF backend.max = Uncapped THEN capped ELSE Least(capped, backend.max)

\* Once the environment settles, the backend's floor and the status of a policy that
\* polls or has a GitHubApp come to the target and stay there: the cooldown, failed
\* calls, edits and crashes only delay it.
FloorConverges ==
    <>~unsettled =>
        <>[](/\ api.live /\ api.spec.target # "invalid" /\ ~api.spec.dryRun
             /\ api.spec.poll \/ api.spec.appRef
             => backend.floor = TargetFloor /\ api.status.applied = TargetFloor)

=============================================================================
