----------------------- MODULE PolicyReconcilerProofs -----------------------
(***************************************************************************)
(* Proofs about PolicyReconciler for every instance of its constants: any  *)
(* set of specs, any cooldown, any tick length and any set of events.      *)
(***************************************************************************)
EXTENDS PolicyReconciler, TLAPS

USE DEF Floors, Ages, Goto, GetFloor, GetMax, Predicted, Activity

\* What the types need of the constants.
LEMMA Constants ==
    /\ MaxFloor \in Nat /\ AgeCap \in Nat /\ TicksPerSecond \in Nat \ {0}
    /\ TicksPerSecond - 1 <= AgeCap
    /\ Bases \subseteq Floors /\ Signals \subseteq Floors
    /\ BackendCaps \subseteq Floors \cup {Uncapped}
    /\ \A s \in Specs : /\ s.min \in Floors /\ s.max \in Floors /\ s.cooldown \in Ages
                        /\ s.min <= s.max
BY ConstantsAssumption DEF ConstantsAssumption, SpecRecords

\* There is a spec for a new status to name.
LEMMA SomeSpec == Unobserved \in Specs
<1>1. \E s \in Specs : s.dryRun => \A t \in Specs : t.dryRun
    BY ConstantsAssumption DEF ConstantsAssumption
<1> QED
    BY <1>1 DEF Unobserved

\* The empty copy of a policy is well typed.
LEMMA NoCopyType ==
    /\ NoStatus \in Status
    /\ NoCopy \in [spec: Specs, status: Status, latest: BOOLEAN]
    /\ NoLocals \in Locals
BY SomeSpec, Constants DEF NoStatus, NoCopy, Status, NoLocals, Locals, Directions

\* Clamping and deciding stay among the floors.
LEMMA DecideType ==
    ASSUME NEW spec \in Specs, NEW base \in Floors, NEW current \in Floors, NEW since \in Ages
    PROVE  /\ Clamp(base, spec) \in Floors
           /\ Decide(spec, base, current, since) \in Floors
           /\ Decide(spec, base, current, since) < current => since >= spec.cooldown
BY Constants DEF Clamp, Decide, Least, Greatest

-----------------------------------------------------------------------------
(* Type correctness.                                                       *)

\* The first state is well typed.
LEMMA InitType == Init => TypeOK
<1> SUFFICES ASSUME Init PROVE TypeOK
    OBVIOUS
<1>1. api \in [live: BOOLEAN, spec: Specs, status: Status] /\ cache = api
    BY NoCopyType DEF Init
<1>2. backend \in [floor: Floors, max: Floors \cup {Uncapped}]
    BY Constants, Zenon DEF Init
<1>3. signal \in [base: Floors, predicted: Floors, activity: Floors]
    BY Constants, Zenon DEF Init
<1>4. age \in [Clocks -> Ages] /\ phase \in 0..(TicksPerSecond - 1) /\ took \in Ages
    BY Constants DEF Init
<1> QED
    BY <1>1, <1>2, <1>3, <1>4, NoCopyType, Zenon DEF Init, TypeOK, Steps

\* The three parts of a step that several actions share.
LEMMA LoadType ==
    ASSUME TypeOK, NEW conds \in SUBSET Conditions, Load(conds)
    PROVE  /\ pol' \in [spec: Specs, status: Status, latest: BOOLEAN]
           /\ rec' \in Locals
           /\ age' \in [Clocks -> Ages]
<1>1. [cache.status EXCEPT !.conds = conds] \in Status
    BY DEF TypeOK, Status
<1>2. rec' \in Locals
    BY NoCopyType, Zenon DEF Load, CaughtUp, Locals
<1> QED
    BY <1>1, <1>2 DEF Load, TypeOK, Clocks

\* What the conditions are set to is a status.
LEMMA ReportType ==
    ASSUME TypeOK, NEW setOk \in BOOLEAN, NEW applied \in Floors, Report(setOk, applied)
    PROVE  pol' \in [spec: Specs, status: Status, latest: BOOLEAN]
<1>1. [desired |-> rec.desired, applied |-> applied, observed |-> pol.spec,
       conds |-> SetCondition(pol.status.conds, "AdapterAvailable", setOk)] \in Status
    BY DEF TypeOK, Status, Locals, SetCondition, Conditions
<1> QED
    BY <1>1 DEF Report, TypeOK

\* A landed patch leaves a floor of the backend.
LEMMA LandType ==
    ASSUME TypeOK, NEW setOk \in BOOLEAN, Land(setOk)
    PROVE  /\ backend' \in [floor: Floors, max: Floors \cup {Uncapped}]
           /\ rec' \in Locals
           /\ age' \in [Clocks -> Ages]
           /\ took' \in Ages /\ unsure' \in BOOLEAN
<1>0. age["now"] \in Ages /\ 0 \in Ages
    BY Constants DEF TypeOK, Clocks
<1>1. Direction(backend.floor, rec.desired) \in Directions
    BY DEF Direction, Directions
<1>2. rec' \in Locals
    BY <1>0, <1>1, Zenon DEF Land, TypeOK, Locals
<1>3. backend' \in [floor: Floors, max: Floors \cup {Uncapped}]
    BY DEF Land, TypeOK, Locals
<1>4. /\ age' \in [Clocks -> Ages]
      /\ took' \in Ages /\ unsure' \in BOOLEAN
    BY <1>0, ZenonT(40) DEF Land, TypeOK, Clocks
<1> QED
    BY <1>2, <1>3, <1>4

\* What the worker forgets when it is done is replaced by the oldest age.
LEMMA ForgetType ==
    ASSUME NEW ages \in [Clocks -> Ages]
    PROVE  Forget(ages) \in [Clocks -> Ages]
BY Constants DEF Forget, Clocks

\* The steps of a reconcile keep the types.
LEMMA WorkerType == TypeOK /\ Worker => TypeOK'
<1> SUFFICES ASSUME TypeOK, Worker PROVE TypeOK'
    OBVIOUS
<1> USE DEF policyVars, queueVars, historyVars, worldVars, clockVars
<1>1. CASE BeginNothing
    BY <1>1, ZenonT(40) DEF BeginNothing, Take, TypeOK
<1>2. CASE Begin
    <2>1. cache.status.conds \in SUBSET Conditions
        BY DEF TypeOK, Status
    <2> QED
        BY <1>2, <2>1, LoadType, ZenonT(40) DEF Begin, Take, TypeOK, Steps
<1>3. CASE BeginWithoutSource
    <2>1. cache.status.conds \ {"DemandSourceAvailable"} \in SUBSET Conditions
        BY DEF TypeOK, Status
    <2> QED
        BY <1>3, <2>1, LoadType, ZenonT(40) DEF BeginWithoutSource, Take, TypeOK, Steps
<1>4. ASSUME NEW ok \in BOOLEAN, ObserveDemand(ok) PROVE TypeOK'
    <2>1. rec' \in Locals
        BY <1>4 DEF ObserveDemand, TypeOK, Locals
    <2>2. [pol.status EXCEPT !.conds = SetCondition(@, "DemandSourceAvailable", ok)] \in Status
        BY DEF TypeOK, Status, SetCondition, Conditions
    <2>3. pol' \in [spec: Specs, status: Status, latest: BOOLEAN]
        BY <1>4, <2>2 DEF ObserveDemand, TypeOK
    <2> QED
        BY <1>4, <2>1, <2>3 DEF ObserveDemand, TypeOK, Steps
<1>5. ASSUME NEW ok \in BOOLEAN, DecideFloor(ok) PROVE TypeOK'
    <2> DEFINE current == IF ok THEN backend.floor ELSE 0
    <2>1. current \in Floors /\ age["pol"] \in Ages /\ signal.base \in Floors
        BY Constants DEF TypeOK, Clocks
    <2>2. Decide(pol.spec, signal.base, current, age["pol"]) \in Floors
        BY <2>1, DecideType, Zenon DEF TypeOK
    <2>3. rec' \in Locals
        BY <1>5, <2>1, <2>2, Zenon DEF DecideFloor, TypeOK, Locals
    <2> QED
        BY <1>5, <2>3 DEF DecideFloor, TypeOK, Steps
<1>6. ASSUME NEW ok \in BOOLEAN, FoldPredicted(ok) PROVE TypeOK'
    BY <1>6, Constants DEF FoldPredicted, Fold, TypeOK, Steps, Locals, Greatest
<1>7. ASSUME NEW ok \in BOOLEAN, FoldActivity(ok) PROVE TypeOK'
    BY <1>7, Constants DEF FoldActivity, Fold, TypeOK, Steps, Locals, Greatest
<1>8. ASSUME NEW ok \in BOOLEAN, ClampDesired(ok) PROVE TypeOK'
    <2>1. rec' \in Locals
        BY <1>8, Constants, ZenonT(40) DEF ClampDesired, TypeOK, Locals, Least
    <2>2. age' \in [Clocks -> Ages]
        BY <1>8, Constants DEF ClampDesired, TypeOK, Clocks
    <2> QED
        BY <1>8, <2>1, <2>2 DEF ClampDesired, TypeOK, Steps
<1>9. CASE PatchNothing
    <2>1. rec.current \in Floors
        BY DEF TypeOK, Locals
    <2>2. pol' \in [spec: Specs, status: Status, latest: BOOLEAN]
        BY <1>9, <2>1, ReportType, Zenon DEF PatchNothing
    <2> QED
        BY <1>9, <2>2 DEF PatchNothing, Report, TypeOK, Steps
<1>10. CASE PatchLands
    <2>1. rec.desired \in Floors
        BY DEF TypeOK, Locals
    <2>2. pol' \in [spec: Specs, status: Status, latest: BOOLEAN]
        BY <1>10, <2>1, ReportType, Zenon DEF PatchLands
    <2> QED
        BY <1>10, <2>2, LandType, Zenon DEF PatchLands, Report, TypeOK, Steps
<1>11. CASE PatchFails
    <2>1. rec.current \in Floors
        BY DEF TypeOK, Locals
    <2>2. pol' \in [spec: Specs, status: Status, latest: BOOLEAN]
        BY <1>11, <2>1, ReportType, Zenon DEF PatchFails
    <2>3. CASE /\ UNCHANGED <<backend, age, took, unsure>>
               /\ rec' = [rec EXCEPT !.setOk = FALSE]
        <3>1. rec' \in Locals
            BY <2>3, Zenon DEF TypeOK, Locals
        <3> QED
            BY <1>11, <2>2, <2>3, <3>1 DEF PatchFails, Report, TypeOK, Steps
    <2>4. CASE Land(FALSE)
        BY <1>11, <2>2, <2>4, LandType, Zenon DEF PatchFails, Report, TypeOK, Steps
    <2> QED
        BY <1>11, <2>3, <2>4, Zenon DEF PatchFails
<1>12. CASE WriteStatus
    <2> DEFINE stamp == IF rec.stamped THEN Least(age["now"] + rec.phase, AgeCap) ELSE age["pol"]
    <2>1. stamp \in Ages
        BY Constants DEF TypeOK, Locals, Clocks, Least
    <2>2. age' \in [Clocks -> Ages]
        <3>1. [age EXCEPT !["api"] = stamp,
                          !["recorded"] = IF Recorded THEN age["landed"] ELSE @] \in [Clocks -> Ages]
            BY <2>1, Zenon DEF TypeOK, Clocks
        <3> QED
            BY <1>12, <3>1, ForgetType, Zenon DEF WriteStatus
    <2>3. api' \in [live: BOOLEAN, spec: Specs, status: Status]
        BY <1>12 DEF WriteStatus, TypeOK
    <2>4. took' \in Ages /\ timer' \in BOOLEAN
        BY <1>12, Zenon DEF WriteStatus, TypeOK, Locals
    <2> QED
        BY <1>12, <2>2, <2>3, <2>4, NoCopyType, Zenon DEF WriteStatus, Finish, TypeOK, Steps
<1>13. CASE StatusFails
    BY <1>13, ForgetType, NoCopyType DEF StatusFails, Finish, TypeOK, Steps
<1> QED
    BY <1>1, <1>2, <1>3, <1>4, <1>5, <1>6, <1>7, <1>8, <1>9, <1>10, <1>11, <1>12, <1>13
    DEF Worker

\* So do users, GitHub, the cluster and the clock.
LEMMA EnvironmentType == TypeOK /\ Environment => TypeOK'
<1> SUFFICES ASSUME TypeOK, Environment PROVE TypeOK'
    OBVIOUS
<1> USE DEF policyVars, queueVars, historyVars, worldVars, clockVars
<1>1. CASE TimerFires
    BY <1>1, Zenon DEF TimerFires, TypeOK
<1>2. CASE CacheSync
    <2>1. age' \in [Clocks -> Ages] /\ ready' \in BOOLEAN
        BY <1>2 DEF CacheSync, TypeOK, Clocks
    <2> QED
        BY <1>2, <2>1 DEF CacheSync, TypeOK
<1>3. CASE Tick
    <2>1. age' \in [Clocks -> Ages]
        BY <1>3, Constants DEF Tick, TypeOK, Least
    <2>2. phase' \in 0..(TicksPerSecond - 1)
        BY <1>3, Constants DEF Tick, TypeOK
    <2> QED
        BY <1>3, <2>1, <2>2 DEF Tick, TypeOK
<1>4. ASSUME NEW policy \in [live: BOOLEAN, spec: Specs, status: Status],
             NEW seen, UserWrite(policy, seen)
      PROVE  TypeOK'
    BY <1>4, Zenon DEF UserWrite, TypeOK
<1>5. CASE EditSpec
    BY <1>4, <1>5 DEF EditSpec, TypeOK
<1>6. CASE Touch
    BY <1>4, <1>6 DEF Touch, TypeOK
<1>7. CASE DeletePolicy
    BY <1>4, <1>7, Zenon DEF DeletePolicy, TypeOK
<1>8. CASE EditBackend
    <2>1. backend' \in [floor: Floors, max: Floors \cup {Uncapped}] /\ unsure' \in BOOLEAN
        BY <1>8, Constants DEF EditBackend
    <2> QED
        BY <1>8, <2>1 DEF EditBackend, TypeOK
<1>9. CASE WorldChanges
    <2>1. signal' \in [base: Floors, predicted: Floors, activity: Floors]
        BY <1>9, Constants, Zenon DEF WorldChanges
    <2> QED
        BY <1>9, <2>1 DEF WorldChanges, TypeOK
<1>10. CASE Crash
    <2>1. age' \in [Clocks -> Ages]
        BY <1>10, ForgetType, Zenon DEF Crash, TypeOK, Clocks
    <2> QED
        BY <1>10, <2>1, NoCopyType, Zenon DEF Crash, TypeOK, Steps
<1>11. CASE Settle
    BY <1>11, ZenonT(40) DEF Settle, TypeOK
<1> QED
    BY <1>1, <1>2, <1>3, <1>5, <1>6, <1>7, <1>8, <1>9, <1>10, <1>11 DEF Environment

\* Every reachable state of the controller is well typed: floors, ages and the
\* decoded policy stay in the ranges the code's types give them.
THEOREM TypeCorrect == Spec => []TypeOK
<1>1. TypeOK /\ UNCHANGED vars => TypeOK'
    BY DEF vars, policyVars, queueVars, historyVars, worldVars, clockVars, TypeOK
<1>2. TypeOK /\ [Next]_vars => TypeOK'
    BY <1>1, WorkerType, EnvironmentType DEF Next
<1> QED
    BY InitType, <1>2, PTL DEF Spec

-----------------------------------------------------------------------------
(* Every gap between desired and applied is explained.                     *)

\* GapExplained of the stored status holds because it holds of the status the
\* worker is about to write, which rests on the demand condition being False
\* from the demand read on whenever that read failed.
Explained(status) ==
    status.desired # status.applied =>
        \/ status.observed.dryRun
        \/ "AdapterAvailable" \notin status.conds
        \/ "DemandSourceAvailable" \notin status.conds

Deciding == pc \in {"decide", "predict", "activity", "clamp", "patch"}

GapInv ==
    /\ Explained(api.status)
    /\ pc = "status" => Explained(pol.status)
    /\ Deciding /\ ~rec.demOk => "DemandSourceAvailable" \notin pol.status.conds

\* Environment steps leave the worker and the stored status alone, or end the worker.
LEMMA EnvironmentFrame ==
    ASSUME TypeOK, Environment
    PROVE  /\ api'.status = api.status
           /\ \/ pc' = pc /\ rec' = rec /\ pol'.spec = pol.spec /\ pol'.status = pol.status
              \/ pc' = "idle" /\ rec' = NoLocals
<1> USE DEF policyVars, queueVars, historyVars, worldVars, clockVars
<1>1. CASE TimerFires \/ CacheSync \/ Tick \/ EditBackend \/ WorldChanges \/ Settle \/ Crash
    BY <1>1 DEF TimerFires, CacheSync, Tick, EditBackend, WorldChanges, Settle, Crash
<1>2. CASE EditSpec
    BY <1>2 DEF EditSpec, UserWrite, TypeOK
<1>3. CASE Touch
    BY <1>3 DEF Touch, UserWrite, TypeOK
<1>4. CASE DeletePolicy
    BY <1>4 DEF DeletePolicy, UserWrite, TypeOK
<1> QED
    BY <1>1, <1>2, <1>3, <1>4 DEF Environment

\* Every step keeps what is written explained.
LEMMA GapStep == TypeOK /\ GapInv /\ [Next]_vars => GapInv'
<1> SUFFICES ASSUME TypeOK, GapInv, [Next]_vars PROVE GapInv'
    OBVIOUS
<1> USE DEF policyVars, queueVars, historyVars, worldVars, clockVars
<1>1. CASE UNCHANGED vars
    BY <1>1 DEF vars, GapInv, Explained, Deciding
<1>2. CASE Environment
    BY <1>2, EnvironmentFrame DEF GapInv, Explained, Deciding
<1>3. CASE BeginNothing
    BY <1>3 DEF BeginNothing, Take, GapInv, Explained, Deciding
<1>4. CASE Begin
    BY <1>4 DEF Begin, Take, GapInv, Explained, Deciding
<1>5. CASE BeginWithoutSource
    <2>1. pol'.status.conds = cache.status.conds \ {"DemandSourceAvailable"}
        BY <1>5 DEF BeginWithoutSource, Load, TypeOK, Status
    <2> QED
        BY <1>5, <2>1 DEF BeginWithoutSource, Take, GapInv, Explained, Deciding
<1>6. ASSUME NEW ok \in BOOLEAN, ObserveDemand(ok) PROVE GapInv'
    <2>1. ~ok => "DemandSourceAvailable" \notin pol'.status.conds
        BY <1>6 DEF ObserveDemand, SetCondition, TypeOK, Status
    <2>2. rec'.demOk = ok
        BY <1>6 DEF ObserveDemand, TypeOK, Locals
    <2> QED
        BY <1>6, <2>1, <2>2 DEF ObserveDemand, GapInv, Explained, Deciding
<1>7. ASSUME NEW ok \in BOOLEAN,
             DecideFloor(ok) \/ FoldPredicted(ok) \/ FoldActivity(ok) \/ ClampDesired(ok)
      PROVE  GapInv'
    <2>1. rec'.demOk = rec.demOk /\ UNCHANGED <<api, pol>> /\ Deciding /\ pc' # "status"
        BY <1>7, Zenon DEF DecideFloor, FoldPredicted, FoldActivity, ClampDesired, Fold, TypeOK, Locals,
           Deciding
    <2> QED
        BY <2>1 DEF GapInv, Explained
<1>8. ASSUME NEW setOk \in BOOLEAN, NEW applied \in Floors, Report(setOk, applied)
      PROVE  /\ api' = api /\ pc' = "status"
             /\ pol'.status.desired = rec.desired /\ pol'.status.applied = applied
             /\ pol'.status.observed = pol.spec
             /\ pol'.status.conds = SetCondition(pol.status.conds, "AdapterAvailable", setOk)
    BY <1>8 DEF Report, TypeOK
<1>9. rec.current \in Floors /\ rec.desired \in Floors
    BY DEF TypeOK, Locals
<1>10. CASE PatchNothing
    <2>1. \/ ~rec.demOk /\ "DemandSourceAvailable" \notin pol.status.conds
          \/ rec.desired = rec.current
          \/ pol.spec.dryRun
        BY <1>10 DEF PatchNothing, WantsPatch, GapInv, Deciding
    <2>2. /\ pol'.status.desired = rec.desired /\ pol'.status.applied = rec.current
          /\ pol'.status.observed = pol.spec
          /\ pol'.status.conds = pol.status.conds \cup {"AdapterAvailable"}
        BY <1>10 DEF PatchNothing, Report, SetCondition, TypeOK
    <2>3. Explained(pol'.status)
        BY <2>1, <2>2 DEF Explained
    <2> QED
        BY <1>10, <2>3 DEF PatchNothing, Report, GapInv, Explained, Deciding
<1>11. CASE PatchLands
    BY <1>8, <1>9, <1>11, Zenon DEF PatchLands, GapInv, Explained, Deciding
<1>12. CASE PatchFails
    BY <1>8, <1>9, <1>12, Zenon DEF PatchFails, SetCondition, GapInv, Explained, Deciding
<1>13. CASE WriteStatus
    <2>1. api'.status = pol.status /\ pc' = "idle"
        BY <1>13 DEF WriteStatus, Finish, TypeOK
    <2> QED
        BY <1>13, <2>1 DEF WriteStatus, GapInv, Explained, Deciding
<1>14. CASE StatusFails
    BY <1>14 DEF StatusFails, Finish, GapInv, Explained, Deciding
<1> QED
    BY <1>1, <1>2, <1>3, <1>4, <1>5, <1>6, <1>7, <1>10, <1>11, <1>12, <1>13, <1>14
    DEF Next, Worker

\* In every reachable state a stored desiredFloor that differs from appliedFloor
\* comes with the condition that explains it, whatever fails and however the
\* user, the cache and the worker interleave.
THEOREM GapAlwaysExplained == Spec => []GapExplained
<1>1. Init => GapInv
    BY DEF Init, GapInv, Explained, Deciding, NoStatus
<1>2. GapInv => GapExplained
    BY DEF GapInv, Explained, GapExplained
<1> QED
    BY <1>1, <1>2, GapStep, TypeCorrect, PTL DEF Spec

-----------------------------------------------------------------------------
(* The cooldown.                                                           *)

\* The stored stamp is no older than the start of the last recorded decrease, give or
\* take the rounding; the worker's copy of it is the stored one while nobody else
\* wrote; a stamp on its way to the status is younger still, and is of the decrease
\* that status will record; and a decision to decrease was taken with the copy past
\* the cooldown.
CooldownInv ==
    /\ age["api"] <= age["recorded"] + took + Rounding
    /\ lag = "none" => age["cache"] = age["api"]
    /\ pc # "idle" /\ (pol.latest \/ rec.caughtUp) => age["pol"] = age["api"]
    /\ pc = "patch" \/ rec.stamped => age["now"] <= age["recorded"]
    /\ Recorded => age["now"] <= age["landed"] + rec.took
    /\ /\ pc \in {"predict", "activity", "clamp", "patch"}
       /\ rec.desired < rec.current /\ rec.caughtUp
       => CooldownOver \/ (pc = "patch" /\ rec.desired \in {pol.spec.max, rec.bound})

\* Nothing but the worker moves the stamp forward or decreases the floor.
LEMMA CooldownEnvironment ==
    ASSUME TypeOK, CooldownInv, Environment
    PROVE  CooldownInv'
<1> USE DEF policyVars, queueVars, historyVars, worldVars, clockVars
<1>0. /\ \A c \in Clocks : age[c] \in Ages
      /\ Rounding \in Nat /\ took \in Nat /\ rec.took \in Nat /\ pol.spec.cooldown \in Ages
    BY Constants DEF TypeOK, Rounding, Locals
<1>1. CASE TimerFires \/ EditBackend \/ WorldChanges \/ Settle
    <2>1. UNCHANGED <<lag, pol, pc, rec, age, took>>
        BY <1>1 DEF TimerFires, EditBackend, WorldChanges, Settle
    <2> QED
        BY <2>1 DEF CooldownInv, CooldownOver, Recorded, Rounding
<1>2. CASE EditSpec \/ Touch \/ DeletePolicy
    <2>1. /\ UNCHANGED <<pc, rec, age, took>> /\ pol'.spec = pol.spec
          /\ lag' # "none" /\ pol'.latest = FALSE
        BY <1>2 DEF EditSpec, Touch, DeletePolicy, UserWrite, TypeOK
    <2> QED
        BY <2>1 DEF CooldownInv, CooldownOver, Recorded, Rounding
<1>3. CASE CacheSync
    <2>1. /\ UNCHANGED <<pc, pol, rec, took>>
          /\ age'["api"] = age["api"] /\ age'["cache"] = age["api"] /\ age'["pol"] = age["pol"]
          /\ age'["now"] = age["now"] /\ age'["landed"] = age["landed"]
          /\ age'["recorded"] = age["recorded"]
        BY <1>3 DEF CacheSync, TypeOK, Clocks
    <2> QED
        BY <2>1 DEF CooldownInv, CooldownOver, Recorded, Rounding
<1>4. CASE Tick
    <2>1. UNCHANGED <<lag, pol, pc, rec, took>>
        BY <1>4 DEF Tick
    <2>2. \A c \in Clocks : age'[c] = Least(age[c] + 1, AgeCap)
        BY <1>4 DEF Tick
    <2>3. \A c, d \in Clocks : age[c] = age[d] => age'[c] = age'[d]
        BY <2>2
    <2>4. \A c, d \in Clocks, n \in Nat : age[c] <= age[d] + n => age'[c] <= age'[d] + n
        BY <1>0, <2>2, Constants DEF Least
    <2>5. CooldownOver => CooldownOver'
        BY <1>0, <2>1, <2>2, Constants DEF CooldownOver, Least, Clocks
    <2>6. age["now"] <= age["recorded"] => age'["now"] <= age'["recorded"]
        BY <1>0, <2>2, Constants DEF Least, Clocks
    <2>7. age["now"] <= age["landed"] + rec.took => age'["now"] <= age'["landed"] + rec.took
        BY <1>0, <2>4 DEF Clocks
    <2>8. age["api"] <= age["recorded"] + took + Rounding
            => age'["api"] <= age'["recorded"] + took + Rounding
        BY <1>0, <2>2, Constants DEF Least, Clocks
    <2> QED
        BY <2>1, <2>3, <2>5, <2>6, <2>7, <2>8 DEF CooldownInv, Recorded, Rounding, Clocks
<1>5. CASE Crash
    <2>1. /\ pc' = "idle" /\ rec' = NoLocals /\ took' = took
          /\ age'["api"] = age["api"] /\ age'["cache"] = age["api"]
          /\ age'["recorded"] = age["recorded"]
        BY <1>5 DEF Crash, Forget, TypeOK, Clocks
    <2> QED
        BY <2>1 DEF CooldownInv, NoLocals, Recorded, Rounding
<1> QED
    BY <1>1, <1>2, <1>3, <1>4, <1>5 DEF Environment

\* The stamp follows the decrease through the steps of a reconcile.
LEMMA CooldownWorker ==
    ASSUME TypeOK, CooldownInv, Worker
    PROVE  CooldownInv'
<1> USE DEF policyVars, queueVars, historyVars, worldVars, clockVars
<1>0. /\ \A c \in Clocks : age[c] \in Ages
      /\ Rounding \in Nat /\ took \in Nat /\ pol.spec.cooldown \in Ages
      /\ rec.phase \in 0..Rounding /\ rec.took \in Nat
      /\ rec.desired \in Floors /\ rec.current \in Floors
    BY Constants DEF TypeOK, Rounding, Locals
<1>1. CASE BeginNothing
    BY <1>1 DEF BeginNothing, Take, CooldownInv, CooldownOver, Recorded, Rounding
<1>2. ASSUME NEW conds, Take, Load(conds), pc' \in {"demand", "status"} PROVE CooldownInv'
    <2>1. /\ UNCHANGED <<lag, took>>
          /\ age'["pol"] = age["cache"] /\ age'["api"] = age["api"]
          /\ age'["cache"] = age["cache"] /\ age'["recorded"] = age["recorded"]
        BY <1>2 DEF Take, Load, TypeOK, Clocks
    <2>2. /\ pol'.latest <=> lag = "none"
          /\ rec'.caughtUp => age["cache"] = age["api"]
          /\ rec'.stamped = FALSE
        BY <1>2, Zenon DEF Load, CaughtUp, NoLocals
    <2> QED
        BY <1>2, <2>1, <2>2 DEF CooldownInv, Recorded, Rounding
<1>3. CASE Begin \/ BeginWithoutSource
    BY <1>2, <1>3 DEF Begin, BeginWithoutSource
<1>4. ASSUME NEW ok \in BOOLEAN, ObserveDemand(ok) PROVE CooldownInv'
    <2>1. /\ UNCHANGED <<lag, age, took>> /\ pol'.spec = pol.spec
          /\ pol'.latest = pol.latest /\ pc = "demand" /\ pc' = "decide"
          /\ rec'.caughtUp = rec.caughtUp /\ rec'.stamped = rec.stamped
          /\ rec'.moved = rec.moved /\ rec'.took = rec.took
        BY <1>4 DEF ObserveDemand, TypeOK, Locals
    <2> QED
        BY <2>1 DEF CooldownInv, Recorded, Rounding
<1>5. ASSUME NEW ok \in BOOLEAN, DecideFloor(ok) PROVE CooldownInv'
    <2> DEFINE current == IF ok THEN backend.floor ELSE 0
    <2>1. /\ UNCHANGED <<lag, pol, age, took>> /\ pc = "decide" /\ pc' = "predict"
          /\ rec'.caughtUp = rec.caughtUp /\ rec'.stamped = rec.stamped
          /\ rec'.moved = rec.moved /\ rec'.took = rec.took
          /\ rec'.current = current
          /\ rec'.desired = Decide(pol.spec, signal.base, current, age["pol"])
        BY <1>5 DEF DecideFloor, TypeOK, Locals
    <2>2. rec'.desired < rec'.current => age["pol"] >= pol.spec.cooldown
        <3>1. current \in Floors /\ age["pol"] \in Ages /\ signal.base \in Floors
                /\ pol.spec \in Specs
            BY Constants DEF TypeOK, Clocks
        <3> QED
            BY <2>1, <3>1, DecideType
    <2>3. rec'.desired < rec'.current /\ rec.caughtUp => CooldownOver'
        BY <1>0, <2>1, <2>2 DEF CooldownInv, CooldownOver, Recorded, Rounding, Clocks
    <2> QED
        BY <2>1, <2>3 DEF CooldownInv, Recorded, Rounding
<1>6. ASSUME NEW ok \in BOOLEAN, FoldPredicted(ok) \/ FoldActivity(ok) PROVE CooldownInv'
    <2>1. /\ UNCHANGED <<lag, pol, age, took>>
          /\ pc \in {"predict", "activity"} /\ pc' \in {"activity", "clamp"}
          /\ rec'.caughtUp = rec.caughtUp /\ rec'.stamped = rec.stamped
          /\ rec'.moved = rec.moved /\ rec'.took = rec.took
          /\ rec'.current = rec.current
        BY <1>6 DEF FoldPredicted, FoldActivity, Fold, TypeOK, Locals
    <2>2. rec'.desired >= rec.desired
        BY <1>6, Constants DEF FoldPredicted, FoldActivity, Fold, TypeOK, Locals, Greatest
    <2>3. rec'.desired < rec'.current => rec.desired < rec.current
        <3>1. rec'.desired \in Int
            BY <1>6, Constants DEF FoldPredicted, FoldActivity, Fold, TypeOK, Locals, Greatest
        <3> QED
            BY <1>0, <2>1, <2>2, <3>1
    <2> QED
        BY <2>1, <2>3 DEF CooldownInv, CooldownOver, Recorded, Rounding
<1>7. ASSUME NEW ok \in BOOLEAN, ClampDesired(ok) PROVE CooldownInv'
    <2>1. /\ UNCHANGED <<lag, pol, took>> /\ pc = "clamp" /\ pc' = "patch"
          /\ rec'.caughtUp = rec.caughtUp /\ rec'.stamped = rec.stamped
          /\ rec'.moved = rec.moved /\ rec'.took = rec.took
          /\ rec'.current = rec.current
        BY <1>7 DEF ClampDesired, TypeOK, Locals
    <2>2. /\ age'["now"] = 0 /\ age'["api"] = age["api"] /\ age'["cache"] = age["cache"]
          /\ age'["pol"] = age["pol"] /\ age'["landed"] = age["landed"]
          /\ age'["recorded"] = age["recorded"]
        BY <1>7 DEF ClampDesired, TypeOK, Clocks
    <2>3. rec'.desired \in {rec.desired, pol.spec.max, rec'.bound}
        BY <1>7 DEF ClampDesired, TypeOK, Locals, Least
    <2>4. age["recorded"] >= 0 /\ age["landed"] + rec.took >= 0
        BY <1>0 DEF Clocks
    <2> QED
        BY <2>1, <2>2, <2>3, <2>4 DEF CooldownInv, CooldownOver, Recorded, Rounding
<1>8. CASE PatchNothing
    <2>1. /\ UNCHANGED <<lag, age, took, rec>> /\ pol'.spec = pol.spec
          /\ pol'.latest = pol.latest /\ pc = "patch" /\ pc' = "status"
        BY <1>8 DEF PatchNothing, Report, TypeOK
    <2> QED
        BY <2>1 DEF CooldownInv, Recorded, Rounding
<1>9. CASE PatchLands \/ PatchFails
    <2>1. /\ UNCHANGED lag /\ pol'.latest = pol.latest /\ pc = "patch" /\ pc' = "status"
        BY <1>9, Zenon DEF PatchLands, PatchFails, Report, TypeOK
    <2>2. /\ rec'.caughtUp = rec.caughtUp /\ took' = took
          /\ age'["api"] = age["api"] /\ age'["cache"] = age["cache"]
          /\ age'["pol"] = age["pol"] /\ age'["now"] = age["now"]
          /\ age'["recorded"] = age["recorded"]
        BY <1>9, Zenon DEF PatchLands, PatchFails, Land, TypeOK, Locals, Clocks
    <2>3. CASE Land(TRUE) \/ Land(FALSE)
        <3>1. rec'.took = age["now"] /\ age'["landed"] \in {0, age["landed"]}
            BY <2>3 DEF Land, TypeOK, Locals, Clocks
        <3>2. age["now"] <= age'["landed"] + rec'.took
            BY <1>0, <3>1 DEF Clocks
        <3> QED
            BY <2>1, <2>2, <3>2 DEF CooldownInv
    <2>4. CASE rec' = [rec EXCEPT !.setOk = FALSE] /\ UNCHANGED age
        <3>1. rec'.moved = rec.moved /\ rec'.took = rec.took /\ rec'.stamped = rec.stamped
            BY <2>4 DEF TypeOK, Locals
        <3> QED
            BY <2>1, <2>2, <2>4, <3>1 DEF CooldownInv, Recorded
    <2> QED
        BY <1>9, <2>3, <2>4, Zenon DEF PatchLands, PatchFails
<1>10. CASE WriteStatus
    <2>1. pc' = "idle" /\ rec' = NoLocals /\ lag' # "none"
        BY <1>10 DEF WriteStatus, Finish, TypeOK
    <2>2. /\ age'["recorded"] = IF Recorded THEN age["landed"] ELSE age["recorded"]
          /\ age'["api"] = IF rec.stamped THEN Least(age["now"] + rec.phase, AgeCap)
                                         ELSE age["pol"]
          /\ took' = IF Recorded THEN rec.took ELSE took
        BY <1>10 DEF WriteStatus, Forget, TypeOK, Clocks
    <2>3. CASE rec.stamped
        <3>1. age'["api"] <= age["now"] + rec.phase /\ age'["api"] \in Int
            BY <1>0, <2>2, <2>3, Constants DEF Least, Clocks
        <3>2. age["now"] <= age'["recorded"] + took'
            <4>1. CASE Recorded
                BY <2>2, <4>1 DEF CooldownInv
            <4>2. CASE ~Recorded
                <5>1. age["now"] <= age["recorded"]
                    BY <2>3 DEF CooldownInv
                <5> QED
                    BY <1>0, <2>2, <4>2, <5>1 DEF Clocks
            <4> QED
                BY <4>1, <4>2
        <3>3. age'["recorded"] \in Int /\ took' \in Int
            BY <1>0, <2>2 DEF Clocks
        <3>4. age'["api"] <= age'["recorded"] + took' + Rounding
            BY <1>0, <3>1, <3>2, <3>3 DEF Clocks
        <3> QED
            BY <2>1, <3>4 DEF CooldownInv, NoLocals, Recorded, Rounding
    <2>4. CASE ~rec.stamped
        <3>1. age["pol"] = age["api"]
            BY <1>10 DEF WriteStatus, CooldownInv
        <3>2. age'["api"] = age["api"] /\ age'["recorded"] = age["recorded"] /\ took' = took
            BY <2>2, <2>4, <3>1, Zenon DEF Recorded
        <3> QED
            BY <2>1, <3>2 DEF CooldownInv, NoLocals, Recorded, Rounding
    <2> QED
        BY <2>3, <2>4
<1>11. CASE StatusFails
    <2>1. /\ pc' = "idle" /\ rec' = NoLocals /\ UNCHANGED <<lag, took>>
          /\ age'["api"] = age["api"] /\ age'["cache"] = age["cache"]
          /\ age'["recorded"] = age["recorded"]
        BY <1>11 DEF StatusFails, Finish, Forget, TypeOK, Clocks
    <2> QED
        BY <2>1 DEF CooldownInv, NoLocals, Recorded, Rounding
<1> QED
    BY <1>1, <1>3, <1>4, <1>5, <1>6, <1>7, <1>8, <1>9, <1>10, <1>11 DEF Worker

\* The cooldown invariant is inductive.
LEMMA CooldownStep == TypeOK /\ CooldownInv /\ [Next]_vars => CooldownInv'
<1>1. TypeOK /\ CooldownInv /\ UNCHANGED vars => CooldownInv'
    BY DEF vars, policyVars, queueVars, historyVars, worldVars, clockVars, CooldownInv,
       CooldownOver, Recorded, Rounding
<1> QED
    BY <1>1, CooldownWorker, CooldownEnvironment DEF Next

\* Only the steps that end a patch take the worker from "patch" to "status".
LEMMA PatchEnds ==
    ASSUME TypeOK, [Next]_vars, pc = "patch", pc' = "status"
    PROVE  PatchNothing \/ PatchLands \/ PatchFails
<1> USE DEF policyVars, queueVars, historyVars, worldVars, clockVars
<1>1. Worker
    <2>1. ~Environment
        BY DEF Environment, TimerFires, CacheSync, Tick, EditSpec, Touch, DeletePolicy,
           UserWrite, EditBackend, WorldChanges, Crash, Settle
    <2> QED
        BY <2>1 DEF Next, vars
<1> QED
    BY <1>1 DEF Worker, BeginNothing, Begin, BeginWithoutSource, Take, ObserveDemand,
       DecideFloor, FoldPredicted, FoldActivity, ClampDesired, WriteStatus, StatusFails

\* Of those, only a landing patch changes the backend.
LEMMA PatchStep ==
    ASSUME TypeOK, [Next]_vars, pc = "patch", pc' = "status", backend' # backend
    PROVE  /\ backend'.floor = rec.desired
           /\ rec.demOk /\ ~pol.spec.dryRun
BY PatchEnds, Zenon DEF PatchNothing, PatchLands, PatchFails, Land, WantsPatch, TypeOK

\* Under any interleaving of users, cache lag, failures, crashes and time, a
\* reconcile that read the stored stamp lowers the floor it read only a cooldown
\* after the last recorded decrease, less the time that one's SetFloor took and the
\* rounding of a stamp, or to floor.max or the backend's cap.
THEOREM CooldownRespected == Spec => CooldownHolds
<1>1. Init => CooldownInv
    BY Constants DEF Init, CooldownInv, Rounding, Recorded, NoLocals, Clocks
<1>2. TypeOK /\ CooldownInv /\ [Next]_vars =>
        [Lowers /\ rec.caughtUp /\ rec.current = backend.floor
           => CooldownOver \/ ToCap]_vars
    <2> SUFFICES ASSUME TypeOK, CooldownInv, [Next]_vars,
                        Lowers, rec.caughtUp, rec.current = backend.floor
                 PROVE  CooldownOver \/ ToCap
        OBVIOUS
    <2>1. backend'.floor = rec.desired /\ rec.desired < rec.current /\ pc = "patch"
        <3>1. backend.floor \in Int
            BY DEF TypeOK
        <3>2. backend' # backend
            BY <3>1 DEF Lowers
        <3> QED
            BY <3>2, PatchStep DEF Lowers
    <2>2. CooldownOver \/ rec.desired \in {pol.spec.max, rec.bound}
        BY <2>1 DEF CooldownInv
    <2> QED
        BY <2>1, <2>2 DEF ToCap
<1> QED
    BY <1>1, <1>2, CooldownStep, TypeCorrect, PTL DEF Spec, CooldownHolds

-----------------------------------------------------------------------------
(* floor.max.                                                              *)

\* The floor about to be patched is within floor.max.
PromiseInv == pc = "patch" => rec.desired <= pol.spec.max

\* What is about to be patched stays within the cap that was read.
LEMMA PromiseStep == TypeOK /\ PromiseInv /\ [Next]_vars => PromiseInv'
<1> SUFFICES ASSUME TypeOK, PromiseInv, [Next]_vars PROVE PromiseInv'
    OBVIOUS
<1> USE DEF policyVars, queueVars, historyVars, worldVars, clockVars
<1>1. CASE UNCHANGED vars
    BY <1>1 DEF vars, PromiseInv
<1>2. CASE Environment
    BY <1>2, EnvironmentFrame DEF PromiseInv
<1>3. ASSUME NEW ok \in BOOLEAN, ClampDesired(ok) PROVE PromiseInv'
    <2>1. pol.spec.max \in Floors /\ rec.desired \in Floors
        BY Constants DEF TypeOK, Locals
    <2>2. Least(rec.desired, pol.spec.max) \in Floors
             /\ Least(rec.desired, pol.spec.max) <= pol.spec.max
        BY <2>1, Constants DEF Least
    <2>3. backend.max # Uncapped => backend.max \in Floors
        BY DEF TypeOK
    <2>4. rec'.desired <= pol.spec.max /\ pol' = pol
        BY <1>3, <2>1, <2>2, <2>3, Constants DEF ClampDesired, TypeOK, Locals, Least
    <2> QED
        BY <2>4 DEF PromiseInv
<1>4. CASE Worker /\ ~\E ok \in BOOLEAN : ClampDesired(ok)
    <2>1. pc' # "patch"
        BY <1>4, Zenon DEF Worker, BeginNothing, Begin, BeginWithoutSource, Take, ObserveDemand,
           DecideFloor, FoldPredicted, FoldActivity, PatchNothing, PatchLands, PatchFails, Report,
           WriteStatus, StatusFails, Finish
    <2> QED
        BY <2>1 DEF PromiseInv
<1> QED
    BY <1>1, <1>2, <1>3, <1>4 DEF Next

\* No patch of the backend exceeds floor.max, follows a failed demand read or
\* happens under dry-run, in any behaviour.
THEOREM PromiseKept == Spec => PatchKeepsPromise
<1>1. Init => PromiseInv
    BY DEF Init, PromiseInv
<1>2. TypeOK /\ PromiseInv /\ [Next]_vars =>
        [pc = "patch" /\ pc' = "status" /\ backend' # backend =>
           backend'.floor <= pol.spec.max /\ rec.demOk /\ ~pol.spec.dryRun]_vars
    BY PatchStep DEF PromiseInv
<1> QED
    BY <1>1, <1>2, PromiseStep, TypeCorrect, PTL DEF Spec, PatchKeepsPromise


-----------------------------------------------------------------------------
(* What the worker knows of the backend's floor.                           *)

\* The reported floor is the backend's, the worker could not know, or the demand
\* source could not be built.
Truthful(status) ==
    \/ status.applied = backend.floor \/ unsure
    \/ "DemandSourceAvailable" \notin status.conds

\* From the read on the worker knows the floor, or could not know it; what it is
\* about to report and to count follows from that, and so does what was reported
\* once it is idle.  Only a lag of the spec hides a spec, or a deletion, from it.
FloorInv ==
    /\ pc \in {"predict", "activity", "clamp", "patch"} => unsure \/ rec.current = backend.floor
    /\ pc # "status" => rec.setOk /\ rec.moved = "none"
    /\ pc = "status" => Truthful(pol.status)
    /\ lag # "spec" => cache.live = api.live /\ cache.spec = api.spec
    /\ CountsMoves
    /\ StaleStatusIsPending

\* Users, the cluster and the clock keep it: an edited floor is one the worker does
\* not know, and a changed spec or a crash brings the policy back to the queue.
LEMMA FloorEnvironment == TypeOK /\ FloorInv /\ Environment => FloorInv'
<1> SUFFICES ASSUME TypeOK, FloorInv, Environment PROVE FloorInv'
    OBVIOUS
<1> USE DEF policyVars, queueVars, historyVars, worldVars, clockVars
<1>1. CASE TimerFires \/ WorldChanges \/ Settle \/ Tick
    <2>1. /\ UNCHANGED <<api, cache, lag, backend, pc, pol, rec, unsure>>
          /\ ready \/ timer => ready' \/ timer'
        BY <1>1 DEF TimerFires, WorldChanges, Settle, Tick
    <2> QED
        BY <2>1 DEF FloorInv, Truthful, CountsMoves, Counts, StaleStatusIsPending
<1>2. CASE CacheSync
    <2>1. /\ UNCHANGED <<api, backend, timer, pc, pol, rec, unsure>>
          /\ cache' = api /\ lag' = "none" /\ ready' = (ready \/ lag = "spec")
        BY <1>2 DEF CacheSync
    <2> QED
        BY <2>1, Zenon DEF FloorInv, Truthful, CountsMoves, Counts, StaleStatusIsPending
<1>3. CASE EditSpec \/ Touch \/ DeletePolicy
    <2>1. /\ UNCHANGED <<cache, backend, ready, timer, pc, rec, unsure>>
          /\ api.live /\ api'.status = api.status
          /\ pol'.spec = pol.spec /\ pol'.status = pol.status
          /\ lag' = "spec" \/ (lag' # "spec" /\ lag # "spec" /\ api' = api)
        BY <1>3 DEF EditSpec, Touch, DeletePolicy, UserWrite, TypeOK
    <2> QED
        BY <2>1, Zenon DEF FloorInv, Truthful, CountsMoves, Counts, StaleStatusIsPending
<1>4. CASE EditBackend
    <2>1. /\ UNCHANGED <<api, cache, lag, ready, timer, pc, pol, rec>>
          /\ unsure' = (unsure \/ backend'.floor # backend.floor)
        BY <1>4 DEF EditBackend
    <2> QED
        BY <2>1, Zenon DEF FloorInv, Truthful, CountsMoves, Counts, StaleStatusIsPending
<1>5. CASE Crash
    <2>1. /\ api' = api /\ cache' = api /\ lag' = "none" /\ ready' = api.live
          /\ pc' = "idle" /\ rec' = NoLocals
        BY <1>5 DEF Crash
    <2> QED
        BY <2>1 DEF FloorInv, CountsMoves, StaleStatusIsPending, NoLocals
<1> QED
    BY <1>1, <1>2, <1>3, <1>4, <1>5 DEF Environment

\* A worker that is not about to write, and leaves the floor and the policy alone,
\* has nothing to keep but what it read.
LEMMA FloorQuiet ==
    ASSUME FloorInv, UNCHANGED <<api, cache, lag, backend>>, pc' \notin {"idle", "status"},
           rec'.setOk = rec.setOk, rec'.moved = rec.moved, pc # "status",
           pc' \in {"predict", "activity", "clamp", "patch"}
               => unsure' \/ rec'.current = backend.floor
    PROVE  FloorInv'
BY DEF FloorInv, CountsMoves, StaleStatusIsPending

\* How a patch ends decides what is reported and counted.
LEMMA FloorPatch ==
    ASSUME TypeOK, FloorInv, PatchNothing \/ PatchLands \/ PatchFails
    PROVE  /\ FloorInv'
           /\ unsure' \/ pol'.status.applied = backend'.floor
<1> USE DEF policyVars, queueVars, historyVars, worldVars, clockVars
<1>0. /\ pc = "patch" /\ pc' = "status" /\ UNCHANGED <<api, cache, lag>> /\ pol'.spec = pol.spec
    BY Zenon DEF PatchNothing, PatchLands, PatchFails, Report, TypeOK
<1>1. /\ unsure \/ rec.current = backend.floor
      /\ rec.setOk = TRUE /\ rec.moved = "none"
      /\ rec.current \in Int /\ rec.desired \in Int
    BY <1>0 DEF FloorInv, TypeOK, Locals
<1>2. CASE PatchNothing
    <2>1. /\ UNCHANGED <<backend, rec, unsure>> /\ pol'.status.applied = rec.current
          /\ ~WantsPatch \/ pol.spec.dryRun
        BY <1>2 DEF PatchNothing, Report, TypeOK
    <2>2. ~WantsPatch => Counts' = "none"
        BY <1>1, <2>1 DEF WantsPatch, Counts, Direction
    <2>3. CountsMoves'
        BY <1>0, <1>1, <2>1, <2>2 DEF CountsMoves
    <2> QED
        BY <1>0, <1>1, <2>1, <2>3 DEF FloorInv, Truthful, StaleStatusIsPending
<1>3. CASE PatchLands
    <2>1. /\ unsure' = unsure /\ pol'.status.applied = rec.desired
          /\ backend'.floor = rec.desired /\ rec.demOk
          /\ rec' = [rec EXCEPT !.moved = Direction(backend.floor, rec.desired), !.setOk = TRUE,
                                !.stamped = TRUE /\ rec.desired < rec.current,
                                !.took = age["now"]]
        BY <1>3 DEF PatchLands, Land, Report, WantsPatch, TypeOK
    <2>2. /\ rec'.moved = Direction(backend.floor, rec.desired) /\ rec'.setOk /\ rec'.demOk
          /\ rec'.current = rec.current /\ rec'.desired = rec.desired
        BY <2>1 DEF TypeOK, Locals
    <2>3. CountsMoves'
        BY <1>1, <2>1, <2>2 DEF CountsMoves, Counts
    <2> QED
        BY <1>0, <2>1, <2>3 DEF FloorInv, Truthful, StaleStatusIsPending
<1>4. CASE PatchFails
    <2>1. CASE Land(FALSE)
        <3>1. unsure' = TRUE
            BY <2>1, Zenon DEF Land
        <3> QED
            BY <1>0, <3>1 DEF FloorInv, Truthful, CountsMoves, StaleStatusIsPending
    <2>2. CASE ~Land(FALSE)
        <3>1. /\ UNCHANGED <<backend, unsure>> /\ rec' = [rec EXCEPT !.setOk = FALSE]
              /\ pol'.status.applied = rec.current
            BY <1>4, <2>2, Zenon DEF PatchFails, Report, TypeOK
        <3>2. rec'.setOk = FALSE /\ rec'.moved = "none"
            BY <1>1, <3>1 DEF TypeOK, Locals
        <3>3. CountsMoves'
            BY <3>2 DEF CountsMoves, Counts
        <3> QED
            BY <1>0, <1>1, <3>1, <3>3 DEF FloorInv, Truthful, StaleStatusIsPending
    <2> QED
        BY <2>1, <2>2, Zenon
<1> QED
    BY <1>2, <1>3, <1>4

\* The worker keeps it.
LEMMA FloorWorker == TypeOK /\ FloorInv /\ Worker => FloorInv'
<1> SUFFICES ASSUME TypeOK, FloorInv, Worker PROVE FloorInv'
    OBVIOUS
<1> USE DEF policyVars, queueVars, historyVars, worldVars, clockVars
<1>1. CASE BeginNothing
    <2>1. /\ UNCHANGED <<api, cache, lag, backend, pc, pol, rec, timer, unsure>> /\ pc = "idle"
          /\ ~cache.live \/ cache.spec.target = "invalid"
        BY <1>1 DEF BeginNothing, Take
    <2> QED
        BY <2>1 DEF FloorInv, CountsMoves, StaleStatusIsPending
<1>2. ASSUME NEW conds, Take, Load(conds)
      PROVE  /\ UNCHANGED <<api, cache, lag, backend, unsure>> /\ pc = "idle"
             /\ rec'.setOk /\ rec'.moved = "none" /\ rec'.current = 0 /\ rec'.desired = 0
             /\ pol'.status.conds = conds
    BY <1>2 DEF Take, Load, NoLocals, TypeOK, Status
<1>3. CASE Begin
    <2>1. Take /\ Load(cache.status.conds) /\ pc' = "demand"
        BY <1>3 DEF Begin
    <2>2. rec.setOk = TRUE /\ rec.moved = "none"
        BY <1>2, <2>1 DEF FloorInv, TypeOK, Locals
    <2> QED
        BY <1>2, <2>1, <2>2 DEF FloorInv, CountsMoves, StaleStatusIsPending
<1>4. CASE BeginWithoutSource
    <2>1. Take /\ Load(cache.status.conds \ {"DemandSourceAvailable"}) /\ pc' = "status"
        BY <1>4 DEF BeginWithoutSource
    <2>2. Counts' = "none"
        BY <1>2, <2>1 DEF Counts, Direction
    <2>3. "DemandSourceAvailable" \notin pol'.status.conds
        BY <1>2, <2>1
    <2> QED
        BY <1>2, <2>1, <2>2, <2>3 DEF FloorInv, Truthful, CountsMoves, StaleStatusIsPending
<1>5. ASSUME NEW ok \in BOOLEAN, ObserveDemand(ok) PROVE FloorInv'
    <2>1. /\ UNCHANGED <<api, cache, lag, backend>> /\ pc = "demand" /\ pc' = "decide"
          /\ rec'.setOk = rec.setOk /\ rec'.moved = rec.moved
        BY <1>5 DEF ObserveDemand, TypeOK, Locals
    <2> QED
        BY <2>1, FloorQuiet
<1>6. ASSUME NEW ok \in BOOLEAN, DecideFloor(ok) PROVE FloorInv'
    <2>1. /\ UNCHANGED <<api, cache, lag, backend>> /\ pc = "decide" /\ pc' = "predict"
          /\ rec'.setOk = rec.setOk /\ rec'.moved = rec.moved
          /\ unsure' \/ rec'.current = backend.floor
        BY <1>6, Zenon DEF DecideFloor, TypeOK, Locals
    <2> QED
        BY <2>1, FloorQuiet
<1>7. ASSUME NEW ok \in BOOLEAN, FoldPredicted(ok) \/ FoldActivity(ok) \/ ClampDesired(ok)
      PROVE  FloorInv'
    <2>1. /\ UNCHANGED <<api, cache, lag, backend, unsure>> /\ pc \in {"predict", "activity", "clamp"}
          /\ pc' \in {"activity", "clamp", "patch"} /\ rec'.current = rec.current
          /\ rec'.setOk = rec.setOk /\ rec'.moved = rec.moved
        BY <1>7, Zenon DEF FoldPredicted, FoldActivity, ClampDesired, Fold, TypeOK, Locals
    <2>2. unsure' \/ rec'.current = backend.floor
        BY <2>1 DEF FloorInv
    <2> QED
        BY <2>1, <2>2, FloorQuiet
<1>8. CASE PatchNothing \/ PatchLands \/ PatchFails
    BY <1>8, FloorPatch
<1>9. CASE WriteStatus
    <2>1. /\ UNCHANGED <<cache, backend, unsure>> /\ pc = "status" /\ pc' = "idle" /\ rec' = NoLocals
          /\ api'.status = pol.status /\ api'.live = api.live /\ api'.spec = api.spec
          /\ (lag' = "spec") = (lag = "spec")
        BY <1>9 DEF WriteStatus, Finish, TypeOK
    <2> QED
        BY <2>1 DEF FloorInv, Truthful, CountsMoves, StaleStatusIsPending, NoLocals
<1>10. CASE StatusFails
    <2>1. UNCHANGED <<api, cache, lag>> /\ pc' = "idle" /\ rec' = NoLocals /\ timer'
        BY <1>10 DEF StatusFails, Finish
    <2> QED
        BY <2>1 DEF FloorInv, CountsMoves, StaleStatusIsPending, NoLocals
<1> QED
    BY <1>1, <1>3, <1>4, <1>5, <1>6, <1>7, <1>8, <1>9, <1>10 DEF Worker

\* It holds from the start and is inductive.
LEMMA FloorAlways == Spec => []FloorInv
<1>1. Init => FloorInv
    BY DEF Init, FloorInv, CountsMoves, StaleStatusIsPending, NoLocals
<1>2. TypeOK /\ FloorInv /\ UNCHANGED vars => FloorInv'
    <2>1. UNCHANGED vars => UNCHANGED <<api, cache, lag, backend, ready, timer, pc, pol, rec, unsure>>
        BY DEF vars, policyVars, queueVars, historyVars, worldVars, clockVars
    <2> QED
        BY <2>1 DEF FloorInv, Truthful, CountsMoves, Counts, StaleStatusIsPending
<1>3. TypeOK /\ FloorInv /\ [Next]_vars => FloorInv'
    BY <1>2, FloorWorker, FloorEnvironment DEF Next
<1> QED
    BY <1>1, <1>3, TypeCorrect, PTL DEF Spec

\* However edits, cache lag, failed calls, crashes and the queue interleave, a status
\* whose appliedFloor is out of date is never the last word on a live policy, unless
\* the worker could not know, or the status says the demand source is missing.
THEOREM StaleStatusNeverFinal == Spec => []StaleStatusIsPending
<1>1. FloorInv => StaleStatusIsPending
    BY DEF FloorInv
<1> QED
    BY <1>1, FloorAlways, PTL

\* warmrunners_floor_change_total counts the moves the reconciler made, and only those.
THEOREM CounterIsExact == Spec => []CountsMoves
<1>1. FloorInv => CountsMoves
    BY DEF FloorInv
<1> QED
    BY <1>1, FloorAlways, PTL

\* The appliedFloor a reconcile reports is the backend's floor at that moment, for
\* every way the patch can go, whenever the worker could know it.
THEOREM ReportsActualFloor == Spec => AppliedIsActual
<1>1. TypeOK /\ FloorInv /\ [Next]_vars =>
        [pc = "patch" /\ pc' = "status" /\ ~unsure' => pol'.status.applied = backend'.floor]_vars
    <2> SUFFICES ASSUME TypeOK, FloorInv, [Next]_vars, pc = "patch", pc' = "status"
                 PROVE  unsure' \/ pol'.status.applied = backend'.floor
        OBVIOUS
    <2> QED
        BY PatchEnds, FloorPatch
<1> QED
    BY <1>1, FloorAlways, TypeCorrect, PTL DEF Spec, AppliedIsActual
=============================================================================
