--------------------------- MODULE WebhookProofs ---------------------------
(***************************************************************************)
(* Machine-checked proofs about the webhook path, for any number of        *)
(* handlers and deliveries, any payloads, and any size and TTL of the      *)
(* replay guard.                                                           *)
(***************************************************************************)
EXTENDS Webhook, ReplayGuardProofs

\* What every step does to the guard.
LEMMA GuardNext ==
    ASSUME TypeOK, [Next]_vars
    PROVE  \/ \E h \in Handlers : handler[h].id \in Ids /\ Seen(handler[h].id)
           \/ GuardTick \/ GuardRestart \/ UNCHANGED guardVars
<1>1. CASE UNCHANGED vars
  BY <1>1 DEF vars, guardVars
<1>2. CASE Next
  BY <1>2, Zenon DEF Next, Arrive, Lookup, Guard, Dispatch, AppChanges, Tick, Restart, TypeOK
<1> QED
  BY <1>1, <1>2
-----------------------------------------------------------------------------
(* Types.                                                                  *)

\* Facts about the constants.
LEMMA Constants ==
    /\ Ids # {} /\ AgeCap \in Nat /\ GuardTTL \in Nat /\ GuardTTL < AgeCap
    /\ GuardSize \in Nat /\ GuardSize # 0 /\ MaxSends \in Nat
    /\ Never = AgeCap + 1 /\ Idle.id \in Ids /\ Idle.at = "idle"
    /\ Idle \in [at: {"idle", "lookup", "guard", "dispatch"}, id: Ids, via: Paths]
    /\ \A id \in Ids : Payload[id] \in Payloads
BY GuardAssumption, WebhookAssumption
   DEF GuardAssumption, WebhookAssumption, Never, Idle, Paths

\* Ages keep their range, and Never its meaning.
LEMMA AgeIs ==
    ASSUME NEW age \in 0..Never
    PROVE  /\ Age(age) \in 0..Never /\ (Age(age) = Never <=> age = Never)
           /\ age <= Age(age)
           /\ age # Never => age <= AgeCap /\ Age(age) = Older(age)
BY Constants DEF Age, Older, Never

\* The ranges of ages and counts, one by one.
LEMMA Ranges ==
    /\ \A age \in 0..AgeCap : age \in Nat
    /\ \A age \in 0..Never : age \in Nat
    /\ 0 \in 0..Never
    /\ \A n \in 0..MaxSends : n < MaxSends => n + 1 \in 0..MaxSends
    /\ \A a \in 0..AgeCap, b \in Nat : a <= b /\ b <= AgeCap => Older(a) <= Older(b)
BY Constants DEF Older

\* An idle handler is one.
LEMMA IdleIs == Idle \in [at: {"idle", "lookup", "guard", "dispatch"}, id: Ids, via: Paths]
BY Constants

\* The first state is well typed and its guard sound.
LEMMA TypeInit == Init => TypeOK /\ GuardOK(guard)
<1> SUFFICES ASSUME Init PROVE TypeOK /\ GuardOK(guard)
  OBVIOUS
<1>1. GuardOK(guard)
  BY EmptyGuard DEF Init, GuardInit
<1>2. 0 \in 0..Never /\ Never \in 0..Never /\ 0 \in 0..MaxSends
  BY Constants
<1>3. handler \in [Handlers -> [at: {"idle", "lookup", "guard", "dispatch"}, id: Ids, via: Paths]]
  BY Constants DEF Init
<1>4. jobs \in [Repos -> [Keys -> Nat]]
  BY DEF Init
<1> QED
  BY <1>1, <1>2, <1>3, <1>4 DEF Init, TypeOK, GuardOK, Entries

\* The types of the variables other than the guard.
LEMMA TypeNext ==
    ASSUME TypeOK, GuardOK(guard), [Next]_vars
    PROVE  TypeOK' /\ GuardOK(guard')
<1> DEFINE H == [at: {"idle", "lookup", "guard", "dispatch"}, id: Ids, via: Paths]
<1>1. GuardOK(guard')
  BY GuardNext, WindowSeen, GuardOKTick, WindowRestart DEF guardVars
<1>2. guard' \in Seq([key: Ids, age: 0..AgeCap]) /\ Len(guard') <= GuardSize
  BY <1>1 DEF GuardOK, Entries
<1>3. ASSUME NEW h \in Handlers, NEW x \in H
      PROVE  [handler EXCEPT ![h] = x] \in [Handlers -> H]
  BY DEF TypeOK
<1>4. ASSUME NEW h \in Handlers
      PROVE  /\ handler[h] \in H /\ handler[h].id \in Ids
             /\ \A a \in {"idle", "lookup", "guard", "dispatch"} :
                   [handler EXCEPT ![h].at = a] \in [Handlers -> H]
  BY Zenon DEF TypeOK
<1>5. ASSUME NEW h \in Handlers, NEW ok \in BOOLEAN, Answer(h, ok)
      PROVE  handler' \in [Handlers -> H] /\ accepted' \subseteq Ids
  BY <1>4, <1>5, IdleIs, ZenonT(30) DEF Answer, TypeOK
<1>6. ASSUME NEW h \in Handlers, NEW id \in Ids, NEW via \in Paths, Arrive(h, id, via)
      PROVE  TypeOK'
  <2>1. sent' \in [Ids -> 0..MaxSends]
    <3>1. sent[id] + 1 \in 0..MaxSends
      <4>1. sent[id] \in 0..MaxSends /\ sent[id] < MaxSends
        BY <1>6, Zenon DEF Arrive, TypeOK
      <4> QED
        BY <4>1, Ranges, Zenon
    <3> QED
      BY <1>6, <3>1 DEF Arrive, TypeOK
  <2> QED
    BY <1>2, <1>3, <1>6, <2>1 DEF Arrive, TypeOK, feedVars
<1>7. ASSUME NEW h \in Handlers, Lookup(h) PROVE TypeOK'
  <2>1. handler' \in [Handlers -> H] /\ accepted' \subseteq Ids
    <3>1. CASE Answer(h, FALSE)
      BY <1>5, <3>1, Zenon
    <3>2. CASE handler' = [handler EXCEPT ![h].at = "guard"] /\ UNCHANGED accepted
      BY <1>4, <3>2, Zenon DEF TypeOK
    <3> QED
      BY <1>7, <3>1, <3>2, Zenon DEF Lookup
  <2> QED
    BY <1>2, <1>7, <2>1 DEF Lookup, TypeOK, feedVars
<1>8. ASSUME NEW h \in Handlers, Guard(h) PROVE TypeOK'
  <2>1. handler' \in [Handlers -> H] /\ accepted' \subseteq Ids
    <3>1. CASE Answer(h, TRUE)
      BY <1>5, <3>1, Zenon
    <3>2. CASE handler' = [handler EXCEPT ![h].at = "dispatch"] /\ UNCHANGED accepted
      BY <1>4, <3>2, Zenon DEF TypeOK
    <3> QED
      BY <1>8, <3>1, <3>2, Zenon DEF Guard
  <2>2. asked' \in [Ids -> 0..Never]
    BY <1>4, <1>8, Ranges, Zenon DEF Guard, Ask, TypeOK
  <2> QED
    BY <1>2, <1>8, <2>1, <2>2 DEF Guard, Ask, TypeOK, feedVars
<1>9. ASSUME NEW h \in Handlers, Dispatch(h) PROVE TypeOK'
  <2>1. handler' \in [Handlers -> H] /\ accepted' \subseteq Ids
    BY <1>5, <1>9, Zenon DEF Dispatch
  <2>2. jobs' \in [Repos -> [Keys -> Nat]] /\ last' \in [Repos -> 0..Never] /\ since' \in [Ids -> 0..Never]
    <3>1. CASE UNCHANGED feedVars
      BY <3>1 DEF feedVars, TypeOK
    <3>2. CASE Record(handler[h].id) /\ Touches(Payload[handler[h].id])
      <4>1. PICK p \in Payloads : p = Payload[handler[h].id] /\ p.repo # NoRepo
        BY <1>4, <3>2, Constants, Zenon DEF Touches
      <4>2. p.repo \in Repos /\ p.labels \in Keys
        BY <4>1 DEF Payloads
      <4>3. [jobs EXCEPT ![p.repo][p.labels] = @ + 1] \in [Repos -> [Keys -> Nat]]
        BY <4>2 DEF TypeOK
      <4>4. last' \in [Repos -> 0..Never] /\ since' \in [Ids -> 0..Never]
        <5>1. 0 \in 0..Never
          BY Constants
        <5>2. last' = [last EXCEPT ![p.repo] = 0] /\ since' = [since EXCEPT ![handler[h].id] = 0]
          BY <3>2, <4>1, Zenon DEF Record
        <5> QED
          BY <5>1, <5>2, Zenon DEF TypeOK
      <4> QED
        BY <3>2, <4>1, <4>3, <4>4, Zenon DEF Record, TypeOK
    <3> QED
      BY <1>9, <3>1, <3>2, Zenon DEF Dispatch, Record
  <2> QED
    BY <1>2, <1>9, <2>1, <2>2, Zenon DEF Dispatch, TypeOK
<1>10. CASE Tick
  <2>1. /\ last' \in [Repos -> 0..Never] /\ since' \in [Ids -> 0..Never]
        /\ asked' \in [Ids -> 0..Never]
    BY <1>10, AgeIs DEF Tick, TypeOK
  <2> QED
    BY <1>1, <1>2, <1>10, <2>1 DEF Tick, TypeOK
<1>11. CASE Restart
  <2>1. handler' \in [Handlers -> H]
    BY <1>11, Constants DEF Restart
  <2>2. jobs' \in [Repos -> [Keys -> Nat]] /\ Never \in 0..Never
    BY <1>11, Constants DEF Restart
  <2> QED
    BY <1>1, <1>2, <1>11, <2>1, <2>2 DEF Restart, TypeOK
<1>12. CASE AppChanges \/ UNCHANGED vars
  BY <1>1, <1>2, <1>12, Zenon DEF AppChanges, TypeOK, vars, feedVars
<1> QED
  BY <1>1, <1>6, <1>7, <1>8, <1>9, <1>10, <1>11, <1>12 DEF Next

\* Every variable of the webhook path keeps its type, and the guard never holds
\* more than GuardSize IDs.
THEOREM WebhookTypeCorrect == Spec => []TypeOK
<1> DEFINE Inv == TypeOK /\ GuardOK(guard)
<1>1. Init => Inv
  BY TypeInit
<1>2. Inv /\ [Next]_vars => Inv'
  BY TypeNext DEF GuardOK
<1>3. Inv => TypeOK
  OBVIOUS
<1> HIDE DEF Inv
<1> QED
  BY <1>1, <1>2, <1>3, PTL DEF Spec

\* Every step of the webhook path is a step of the window or leaves it alone.
LEMMA WindowNext ==
    ASSUME TypeOK, GuardOK(guard), [Next]_vars
    PROVE  [Window!Next]_<<Recognised, answer>>
<1>1. ASSUME NEW h \in Handlers, handler[h].id \in Ids, Seen(handler[h].id)
      PROVE  Window!Next
  BY <1>1, WindowSeen, Zenon DEF Window!Next
<1>2. CASE GuardTick
  BY <1>2, WindowTick DEF Window!Next
<1>3. CASE GuardRestart
  BY <1>3, WindowRestart DEF Window!Next
<1>4. CASE UNCHANGED guardVars
  <2>1. guard' = guard /\ answer' = answer
    BY <1>4 DEF guardVars
  <2>2. Recognised' = Recognised
    BY <2>1, RecognisedIs, Zenon
  <2> QED
    BY <2>1, <2>2
<1> QED
  BY <1>1, <1>2, <1>3, <1>4, GuardNext, Zenon

\* ReplayGuard.Seen, its list, its lazy expiry and its eviction from the back
\* keep the promise of the replay window for every size, TTL and set of IDs,
\* asked by any number of handlers.
THEOREM GuardImplementsWindow == Spec => ImplementsWindow
<1>1. Init => Window!Init
  BY EmptyGuard, RecognisedIs DEF Init, GuardInit, Window!Init
<1> DEFINE Inv == TypeOK /\ GuardOK(guard)
<1>2. Init => Inv
  BY TypeInit
<1>3. Inv /\ [Next]_vars => Inv'
  BY TypeNext DEF GuardOK
<1>4. Inv /\ [Next]_vars => [Window!Next]_<<Recognised, answer>>
  BY WindowNext
<1> HIDE DEF Inv
<1> QED
  BY <1>1, <1>2, <1>3, <1>4, PTL DEF Spec, ImplementsWindow, Window!Spec

-----------------------------------------------------------------------------
(* No event is swallowed.                                                  *)

Dispatching(h, id) == handler[h].at = "dispatch" /\ handler[h].id = id

\* The event of the delivery is recorded, or a handler is about to.
Covered(id) ==
    Touches(Payload[id]) /\ Payload[id].decodes =>
        since[id] # Never \/ \E h \in Handlers : Dispatching(h, id)

\* Whatever the guard remembers is covered, hence whatever was accepted.
DeliveryInv ==
    /\ TypeOK /\ GuardOK(guard)
    /\ \A id \in Ids : Held(id) => Covered(id)
    /\ \A id \in accepted : Covered(id)

\* Which handlers are dispatching after a step of one of them.
LEMMA DispatchingNext ==
    ASSUME TypeOK, NEW h \in Handlers
    PROVE  /\ \A id \in Ids, via \in Paths : Arrive(h, id, via) =>
                 \A k \in Handlers, i \in Ids : Dispatching(k, i)' <=> Dispatching(k, i)
           /\ Lookup(h) =>
                 \A k \in Handlers, i \in Ids : Dispatching(k, i)' <=> Dispatching(k, i)
           /\ Guard(h) /\ answer'.seen =>
                 \A k \in Handlers, i \in Ids : Dispatching(k, i)' <=> Dispatching(k, i)
           /\ Guard(h) /\ ~answer'.seen =>
                 \A k \in Handlers, i \in Ids :
                     Dispatching(k, i)' <=> Dispatching(k, i) \/ (k = h /\ i = handler[h].id)
           /\ Dispatch(h) =>
                 \A k \in Handlers, i \in Ids : Dispatching(k, i)' <=> Dispatching(k, i) /\ k # h
<1>0. \A k \in Handlers : handler[k] \in [at: {"idle", "lookup", "guard", "dispatch"}, id: Ids, via: Paths]
  BY DEF TypeOK
<1>1. ASSUME NEW x, handler' = [handler EXCEPT ![h] = x], x.at # "dispatch",
             NEW k \in Handlers, NEW i \in Ids
      PROVE  Dispatching(k, i)' <=> Dispatching(k, i) /\ k # h
  BY <1>1 DEF Dispatching, TypeOK
<1>2. ASSUME NEW id \in Ids, NEW via \in Paths, Arrive(h, id, via)
      PROVE  \A k \in Handlers, i \in Ids : Dispatching(k, i)' <=> Dispatching(k, i)
  <2>1. handler[h].at # "dispatch" /\ handler' = [handler EXCEPT ![h] = [at |-> "lookup", id |-> id, via |-> via]]
    BY <1>2 DEF Arrive
  <2>2. [at |-> "lookup", id |-> id, via |-> via].at # "dispatch"
    OBVIOUS
  <2> QED
    BY <1>1, <2>1, <2>2 DEF Dispatching
<1>3. ASSUME NEW ok, Answer(h, ok)
      PROVE  \A k \in Handlers, i \in Ids : Dispatching(k, i)' <=> Dispatching(k, i) /\ k # h
  <2>1. handler' = [handler EXCEPT ![h] = Idle] /\ Idle.at # "dispatch"
    BY <1>3 DEF Answer, Idle
  <2> QED
    BY <1>1, <2>1, Zenon
<1>4. ASSUME NEW a, handler' = [handler EXCEPT ![h].at = a], NEW k \in Handlers, NEW i \in Ids
      PROVE  Dispatching(k, i)' <=> IF k = h THEN a = "dispatch" /\ i = handler[h].id ELSE Dispatching(k, i)
  BY <1>0, <1>4 DEF Dispatching, TypeOK
<1>5. ASSUME Lookup(h)
      PROVE  \A k \in Handlers, i \in Ids : Dispatching(k, i)' <=> Dispatching(k, i)
  <2>1. ~\E i : Dispatching(h, i)
    BY <1>5 DEF Lookup, Dispatching
  <2>2. CASE Answer(h, FALSE)
    BY <1>3, <2>1, <2>2, Zenon
  <2>3. CASE handler' = [handler EXCEPT ![h].at = "guard"]
    <3>1. "guard" # "dispatch"
      OBVIOUS
    <3> QED
      BY <1>4, <2>1, <2>3, <3>1, Zenon
  <2> QED
    BY <1>5, <2>2, <2>3, Zenon DEF Lookup
<1>6. ASSUME Guard(h), answer'.seen
      PROVE  \A k \in Handlers, i \in Ids : Dispatching(k, i)' <=> Dispatching(k, i)
  <2>1. ~\E i : Dispatching(h, i)
    BY <1>6 DEF Guard, Dispatching
  <2>2. Answer(h, TRUE)
    BY <1>6, Zenon DEF Guard
  <2> QED
    BY <1>3, <2>1, <2>2, Zenon
<1>7. ASSUME Guard(h), ~answer'.seen
      PROVE  \A k \in Handlers, i \in Ids :
                Dispatching(k, i)' <=> Dispatching(k, i) \/ (k = h /\ i = handler[h].id)
  <2>1. ~\E i : Dispatching(h, i)
    BY <1>7 DEF Guard, Dispatching
  <2>2. handler' = [handler EXCEPT ![h].at = "dispatch"]
    BY <1>7, Zenon DEF Guard
  <2> QED
    BY <1>4, <2>1, <2>2, Zenon
<1>8. ASSUME Dispatch(h)
      PROVE  \A k \in Handlers, i \in Ids : Dispatching(k, i)' <=> Dispatching(k, i) /\ k # h
  <2>1. PICK ok : Answer(h, ok)
    BY <1>8, Zenon DEF Dispatch
  <2> QED
    BY <1>3, <2>1
<1> QED
  BY <1>2, <1>5, <1>6, <1>7, <1>8

\* What is covered stays covered: only a restart forgets.
LEMMA CoveredNext ==
    ASSUME TypeOK, [Next]_vars, ~Restart, NEW id \in Ids, Covered(id)
    PROVE  Covered(id)'
<1>1. ASSUME UNCHANGED since, \A k \in Handlers : Dispatching(k, id) => Dispatching(k, id)'
      PROVE  Covered(id)'
  BY <1>1 DEF Covered
<1>2. ASSUME NEW h \in Handlers, NEW d \in Ids, NEW via \in Paths, Arrive(h, d, via)
      PROVE  Covered(id)'
  <2>1. UNCHANGED since
    BY <1>2 DEF Arrive, feedVars
  <2> QED
    BY <1>1, <1>2, <2>1, DispatchingNext, Zenon
<1>3. ASSUME NEW h \in Handlers, Lookup(h) PROVE Covered(id)'
  <2>1. UNCHANGED since
    BY <1>3 DEF Lookup, feedVars
  <2> QED
    BY <1>1, <1>3, <2>1, DispatchingNext, Zenon
<1>4. ASSUME NEW h \in Handlers, Guard(h) PROVE Covered(id)'
  <2>1. UNCHANGED since
    BY <1>4 DEF Guard, Ask, feedVars
  <2> QED
    BY <1>1, <1>4, <2>1, DispatchingNext, Zenon
<1>5. ASSUME NEW h \in Handlers, Dispatch(h) PROVE Covered(id)'
  <2>0. Never # 0
    BY Constants
  <2>1. since' = since \/ since' = [since EXCEPT ![handler[h].id] = 0]
    BY <1>5, Zenon DEF Dispatch, Record, feedVars
  <2>2. since[id] # Never => since'[id] # Never
    BY <2>0, <2>1 DEF TypeOK
  <2>3. CASE Dispatching(h, id) /\ Touches(Payload[id]) /\ Payload[id].decodes
    <3>1. Record(id)
      BY <1>5, <2>3, Zenon DEF Dispatch, Dispatching
    <3>2. since' = [since EXCEPT ![id] = 0]
      BY <2>3, <3>1, Zenon DEF Record
    <3> QED
      BY <2>0, <3>2 DEF Covered, TypeOK
  <2>4. CASE ~Dispatching(h, id)
    <3>1. \A k \in Handlers : Dispatching(k, id) => Dispatching(k, id)'
      BY <1>5, <2>4, DispatchingNext, Zenon
    <3> QED
      BY <2>2, <3>1, Zenon DEF Covered
  <2> QED
    BY <2>3, <2>4, Zenon DEF Covered
<1>6. CASE Tick
  <2>1. since[id] # Never => since'[id] # Never
    BY <1>6, AgeIs DEF Tick, TypeOK
  <2>2. \A k \in Handlers : Dispatching(k, id) => Dispatching(k, id)'
    BY <1>6 DEF Tick, Dispatching
  <2> QED
    BY <2>1, <2>2, Zenon DEF Covered
<1>7. CASE AppChanges \/ UNCHANGED vars
  <2>1. UNCHANGED since /\ UNCHANGED handler
    BY <1>7, Zenon DEF AppChanges, vars, feedVars
  <2> QED
    BY <1>1, <2>1 DEF Dispatching
<1> QED
  BY <1>2, <1>3, <1>4, <1>5, <1>6, <1>7, Zenon DEF Next

\* At first nothing was accepted and nothing is being dispatched.
LEMMA DeliveryInit == Init => DeliveryInv
<1> SUFFICES ASSUME Init PROVE DeliveryInv
  OBVIOUS
<1>1. guard = <<>> /\ accepted = {}
  BY DEF Init, GuardInit
<1> QED
  BY <1>1, TypeInit DEF DeliveryInv, Held

\* Only an admitted delivery is new to the list, and its handler dispatches it;
\* only what the list recognised, or was dispatched, is new among the accepted.
LEMMA DeliveryNext == DeliveryInv /\ [Next]_vars => DeliveryInv'
<1> SUFFICES ASSUME DeliveryInv, [Next]_vars PROVE DeliveryInv'
  OBVIOUS
<1>1. TypeOK /\ GuardOK(guard) /\ TypeOK' /\ GuardOK(guard')
  BY TypeNext DEF DeliveryInv
<1>2. CASE Restart
  <2>1. guard' = <<>> /\ accepted' = {}
    BY <1>2 DEF Restart, GuardRestart
  <2>2. \A id : ~Held(id)'
    BY <2>1 DEF Held
  <2> QED
    BY <1>1, <2>1, <2>2 DEF DeliveryInv, GuardOK
<1>3. CASE ~Restart
  <2>1. \A id \in Ids : Covered(id) => Covered(id)'
    BY <1>1, <1>3, CoveredNext
  <2>2. accepted \subseteq Ids
    BY <1>1 DEF TypeOK
  <2>3. ASSUME \A id \in Ids : Held(id)' => Held(id) \/ Covered(id)',
               NEW d \in Ids, Covered(d), accepted' \subseteq accepted \cup {d}
        PROVE  DeliveryInv'
    <3>1. \A id \in Ids : Held(id)' => Covered(id)'
      BY <2>1, <2>3, Zenon DEF DeliveryInv
    <3>2. \A id \in accepted' : Covered(id)'
      BY <2>1, <2>2, <2>3, Zenon DEF DeliveryInv
    <3> QED
      BY <1>1, <3>1, <3>2 DEF DeliveryInv, GuardOK
  <2>4. ASSUME \A id \in Ids : Held(id)' => Held(id) \/ Covered(id)', accepted' = accepted
        PROVE  DeliveryInv'
    <3>1. \A id \in Ids : Held(id)' => Covered(id)'
      BY <2>1, <2>4, Zenon DEF DeliveryInv
    <3>2. \A id \in accepted' : Covered(id)'
      BY <2>1, <2>2, <2>4, Zenon DEF DeliveryInv
    <3> QED
      BY <1>1, <3>1, <3>2 DEF DeliveryInv, GuardOK
  <2>5. ASSUME guard' = guard PROVE \A id \in Ids : Held(id)' => Held(id)
    BY <2>5 DEF Held
  <2>6. ASSUME NEW h \in Handlers, Guard(h) PROVE DeliveryInv'
    <3>a. PICK id \in Ids : id = handler[h].id
      BY <1>1 DEF TypeOK
    <3>0. Seen(id)
      BY <2>6, <3>a DEF Guard
    <3>1. CASE answer'.seen
      <4>1. guard' = guard /\ Held(id)
        BY <1>1, <3>0, <3>1, SeenKeys DEF Held
      <4>2. Covered(id)
        BY <3>0, <4>1 DEF DeliveryInv
      <4>3. accepted' = accepted \cup {id}
        BY <2>6, <3>a, <3>1, Zenon DEF Guard, Answer
      <4> QED
        BY <2>3, <2>5, <3>0, <4>1, <4>2, <4>3
    <3>2. CASE ~answer'.seen
      <4>1. accepted' = accepted
        BY <2>6, <3>2, Zenon DEF Guard
      <4>2. \A d \in Ids : Held(d)' => Held(d) \/ d = id
        BY <1>1, <3>0, <3>2, HeldSeen
      <4>3. Covered(id)'
        <5>1. Dispatching(h, id)'
          BY <1>1, <2>6, <3>a, <3>2, DispatchingNext, Zenon
        <5> QED
          BY <5>1 DEF Covered
      <4> QED
        BY <2>4, <4>1, <4>2, <4>3
    <3> QED
      BY <3>1, <3>2
  <2>7. ASSUME NEW h \in Handlers, Dispatch(h) PROVE DeliveryInv'
    <3>1. guard' = guard /\ accepted' \subseteq accepted \cup {handler[h].id} /\ handler[h].at = "dispatch"
      BY <2>7 DEF Dispatch, Answer, guardVars
    <3>2. handler[h].id \in Ids /\ Covered(handler[h].id)
      BY <1>1, <3>1 DEF TypeOK, Covered, Dispatching
    <3> QED
      BY <2>3, <2>5, <3>1, <3>2
  <2>8. ASSUME NEW h \in Handlers, (\E id \in Ids, via \in Paths : Arrive(h, id, via)) \/ Lookup(h)
        PROVE  DeliveryInv'
    <3>1. guard' = guard /\ accepted' = accepted
      BY <2>8, Zenon DEF Arrive, Lookup, Answer, guardVars
    <3> QED
      BY <2>4, <2>5, <3>1
  <2>9. CASE AppChanges \/ UNCHANGED vars
    <3>1. guard' = guard /\ accepted' = accepted
      BY <2>9, Zenon DEF AppChanges, vars, guardVars
    <3> QED
      BY <2>4, <2>5, <3>1
  <2>10. CASE Tick
    <3>1. accepted' = accepted /\ GuardTick
      BY <2>10 DEF Tick
    <3>2. \A id \in Ids : Held(id)' <=> Held(id)
      BY <1>1, <3>1, HeldTick
    <3> QED
      BY <2>4, <3>1, <3>2
  <2> QED
    BY <1>3, <2>6, <2>7, <2>8, <2>9, <2>10, Zenon DEF Next
<1> QED
  BY <1>2, <1>3

\* A delivery answered 200, also as a replay of another copy that is still under
\* way, is recorded or will be: Receiver asks the guard only after the
\* signature, and the guard remembers only what goes on to the dispatcher.
THEOREM NothingSwallowed == Spec => []AcceptedIsRecorded
<1>1. DeliveryInv => AcceptedIsRecorded
  BY DEF DeliveryInv, AcceptedIsRecorded, Covered, Dispatching
<1> QED
  BY <1>1, DeliveryInit, DeliveryNext, PTL DEF Spec

-----------------------------------------------------------------------------
(* A job is counted once.                                                  *)

AskedIds == {id \in Ids : asked[id] # Never}
Few == Cardinality(AskedIds) <= GuardSize

\* At most one handler dispatches the delivery, and it was not recorded before.
Single(id) ==
    \A h \in Handlers : Dispatching(h, id) =>
        since[id] = Never /\ \A k \in Handlers : Dispatching(k, id) => k = h

CountedJobs(repo, key) == {id \in JobsOf(repo, key) : since[id] # Never}

\* The premise and the conclusion of CountedOnce.
Timely(repo, key) == Few /\ \A id \in JobsOf(repo, key) : asked[id] # Never => asked[id] <= GuardTTL
Counted(repo, key) == jobs[repo][key] = Cardinality(CountedJobs(repo, key))

\* What the guard remembers about deliveries it was asked about, and what the
\* handlers past it may still do.
OnceInv ==
    /\ TypeOK /\ GuardOK(guard)
    /\ IsFiniteSet(AskedIds)
    /\ \A id \in Ids : since[id] # Never \/ Held(id) \/ (\E h \in Handlers : Dispatching(h, id))
                           => asked[id] # Never
    /\ \A id \in Ids : \A i \in 1..Len(guard) : guard[i].key = id => guard[i].age <= asked[id]
    /\ Few => \A id \in AskedIds : Held(id)
    /\ Few => \A id \in Ids : asked[id] <= GuardTTL => Single(id)
    /\ \A repo \in Repos, key \in Keys : Timely(repo, key) => Counted(repo, key)

\* Nothing was asked yet: at the start and after a restart.
NothingAsked ==
    /\ TypeOK /\ GuardOK(guard) /\ guard = <<>>
    /\ handler = [h \in Handlers |-> Idle] /\ jobs = [r \in Repos |-> [k \in Keys |-> 0]]
    /\ since = [id \in Ids |-> Never] /\ asked = since

\* Then the invariant holds.
LEMMA OnceEmpty == NothingAsked => OnceInv
<1> SUFFICES ASSUME NothingAsked PROVE OnceInv
  OBVIOUS
<1> USE DEF NothingAsked
<1>1. AskedIds = {}
  BY DEF AskedIds
<1>2. IsFiniteSet(AskedIds)
  BY <1>1, FS_EmptySet
<1>3. 1..Len(guard) = {}
  OBVIOUS
<1>4. \A id : ~Held(id)
  BY <1>3, Zenon DEF Held
<1>5. \A id : ~\E h \in Handlers : Dispatching(h, id)
  <2>1. \A h \in Handlers : handler[h].at # "dispatch"
    BY Constants
  <2> QED
    BY <2>1, Zenon DEF Dispatching
<1>6. \A repo \in Repos, key \in Keys : CountedJobs(repo, key) = {}
  BY DEF CountedJobs, JobsOf
<1>7. \A repo \in Repos, key \in Keys : Counted(repo, key)
  BY <1>6, FS_EmptySet, Zenon DEF Counted
<1>8. \A id \in Ids : since[id] = Never
  BY Zenon
<1>9. \A id \in Ids : Single(id)
  BY <1>5, Zenon DEF Single
<1> QED
  BY <1>1, <1>2, <1>3, <1>5, <1>7, <1>8, <1>4, <1>9, Zenon DEF OnceInv

\* Steps of which guard and feed see nothing.
LEMMA OnceQuiet ==
    ASSUME OnceInv, TypeOK', UNCHANGED <<guard, asked, jobs, since>>,
           \A h \in Handlers, id \in Ids : Dispatching(h, id)' <=> Dispatching(h, id)
    PROVE  OnceInv'
<1>1. AskedIds' = AskedIds /\ (Few' <=> Few)
  BY DEF AskedIds, Few
<1>2. \A id : Held(id)' <=> Held(id)
  BY DEF Held
<1>3. \A id \in Ids : Single(id)' <=> Single(id)
  BY Zenon DEF Single
<1>4. \A repo \in Repos, key \in Keys : Timely(repo, key)' => Timely(repo, key)
  BY <1>1 DEF Timely, JobsOf
<1>5. \A repo \in Repos, key \in Keys : Counted(repo, key) => Counted(repo, key)'
  BY DEF Counted, CountedJobs, JobsOf
<1>6. \A id \in Ids : since'[id] # Never \/ Held(id)' \/ (\E h \in Handlers : Dispatching(h, id)')
                         => asked'[id] # Never
  BY <1>2, Zenon DEF OnceInv
<1>7. GuardOK(guard)' /\ IsFiniteSet(AskedIds')
  BY <1>1 DEF OnceInv, GuardOK
<1>8. /\ \A id \in Ids : \A i \in 1..Len(guard') : guard'[i].key = id => guard'[i].age <= asked'[id]
      /\ Few' => \A id \in AskedIds' : Held(id)'
      /\ Few' => \A id \in Ids : asked'[id] <= GuardTTL => Single(id)'
  BY <1>1, <1>2, <1>3 DEF OnceInv
<1>9. \A repo \in Repos, key \in Keys : Timely(repo, key)' => Counted(repo, key)'
  BY <1>4, <1>5, Zenon DEF OnceInv
<1> QED
  BY <1>6, <1>7, <1>8, <1>9, Zenon DEF OnceInv

\* A full guard that gives up an ID has more than GuardSize to remember.
LEMMA FullGuard ==
    ASSUME OnceInv, Len(guard) = GuardSize, NEW id \in Ids, ~Held(id), Few,
           Cardinality(AskedIds \cup {id}) <= GuardSize
    PROVE  FALSE
<1>0. GuardOK(guard) /\ IsFiniteSet(AskedIds) /\ GuardSize \in Nat /\ Len(guard) \in Nat
  BY Constants DEF OnceInv, GuardOK
<1> DEFINE K == {guard[i].key : i \in 1..Len(guard)}
<1>1. K \subseteq AskedIds
  <2>1. ASSUME NEW i \in 1..Len(guard) PROVE guard[i].key \in AskedIds
    <3>1. guard[i] \in Entries
      BY <1>0 DEF GuardOK
    <3>2. guard[i].key \in Ids
      BY <3>1 DEF Entries
    <3>3. Held(guard[i].key)
      BY DEF Held
    <3> QED
      BY <3>2, <3>3 DEF OnceInv, AskedIds
  <2> QED
    BY <2>1
<1>2. Cardinality(K) = GuardSize
  <2>1. Cardinality(K) = Cardinality(1..Len(guard))
    <3>1. \A I \in SUBSET (1..Len(guard)) : Cardinality({guard[i].key : i \in I}) = Cardinality(I)
      BY <1>0, KeysCount, Zenon
    <3> QED
      BY <3>1
  <2>2. Cardinality(1..Len(guard)) = IF 1 > Len(guard) THEN 0 ELSE Len(guard) - 1 + 1
    <3>1. Len(guard) \in Nat
      BY <1>0
    <3> QED
      BY <3>1, FS_Interval
  <2> QED
    BY <1>0, <2>1, <2>2
<1>3. id \notin AskedIds
  BY DEF OnceInv
<1> HIDE DEF K
<1>4. Cardinality(K) <= Cardinality(AskedIds)
  BY <1>0, <1>1, FS_Subset
<1>5. Cardinality(AskedIds \cup {id}) = Cardinality(AskedIds) + 1
  BY <1>0, <1>3, FS_AddElement
<1>6. Cardinality(AskedIds) \in Nat
  BY <1>0, FS_CardinalityType
<1> QED
  BY <1>0, <1>2, <1>4, <1>5, <1>6

\* An ID that is asked about for the first time, or whose memory has expired.
LEMMA OnceGuard ==
    ASSUME OnceInv, TypeOK', GuardOK(guard'), NEW h \in Handlers, Guard(h)
    PROVE  OnceInv'
<1>0. TypeOK /\ GuardOK(guard) /\ UNCHANGED feedVars
  BY DEF OnceInv, Guard, Ask
<1>1. PICK id \in Ids : id = handler[h].id
  BY <1>0 DEF TypeOK
<1>2. Seen(id) /\ asked' = [asked EXCEPT ![id] = IF @ = Never THEN 0 ELSE @]
  BY <1>1 DEF Guard, Ask
<1>3. \A d \in Ids : asked[d] \in 0..Never /\ asked'[d] \in 0..Never
  BY <1>0 DEF TypeOK
<1>4. \A d \in Ids : asked'[d] = IF d = id /\ asked[d] = Never THEN 0 ELSE asked[d]
  BY <1>0, <1>2, Zenon DEF TypeOK
<1>5. CASE answer'.seen
  <2>1. guard' = guard /\ Held(id)
    BY <1>0, <1>2, <1>5, SeenKeys DEF Held
  <2>2. asked[id] # Never
    BY <2>1 DEF OnceInv
  <2>3. asked' = asked
    BY <1>0, <1>2, <2>2 DEF TypeOK
  <2>4. \A k \in Handlers, d \in Ids : Dispatching(k, d)' <=> Dispatching(k, d)
    BY <1>0, <1>5, DispatchingNext, Zenon
  <2> QED
    BY <1>0, <2>1, <2>3, <2>4, OnceQuiet DEF feedVars
<1>6. CASE ~answer'.seen
  <2>1. \A k \in Handlers, d \in Ids :
           Dispatching(k, d)' <=> Dispatching(k, d) \/ (k = h /\ d = id)
    BY <1>0, <1>1, <1>6, DispatchingNext, Zenon
  <2>2. ~\E i \in 1..Len(guard) : guard[i].key = id /\ Fresh(guard[i])
    BY <1>0, <1>2, <1>6, SeenKeys
  <2>3. Never # 0
    BY Constants
  <2>4. AskedIds' = AskedIds \cup {id}
    BY <1>4, <2>3 DEF AskedIds
  <2>5. IsFiniteSet(AskedIds') /\ IsFiniteSet(AskedIds)
    BY <2>4, FS_AddElement DEF OnceInv
  <2>6. Few' => Few
    <3>1. Cardinality(AskedIds) <= Cardinality(AskedIds')
      BY <2>4, <2>5, FS_Subset
    <3>2. Cardinality(AskedIds) \in Nat /\ Cardinality(AskedIds') \in Nat
      BY <2>5, FS_CardinalityType
    <3> QED
      BY <3>1, <3>2, Constants DEF Few
  <2>7. ASSUME NEW d \in Ids, since'[d] # Never \/ Held(d)' \/ (\E k \in Handlers : Dispatching(k, d)')
        PROVE  asked'[d] # Never
    <3>1. CASE d = id
      BY <1>4, <2>3, <3>1
    <3>2. CASE d # id
      <4>1. since[d] # Never \/ Held(d) \/ (\E k \in Handlers : Dispatching(k, d))
        BY <1>0, <1>2, <1>6, <2>1, <2>7, <3>2, HeldSeen DEF feedVars
      <4> QED
        BY <1>4, <3>2, <4>1 DEF OnceInv
    <3> QED
      BY <3>1, <3>2
  <2>8. ASSUME NEW d \in Ids, NEW i \in 1..Len(guard'), guard'[i].key = d
        PROVE  guard'[i].age <= asked'[d]
    <3>1. guard' \in Seq(Entries) /\ \E p \in 1..GuardSize : p <= Len(guard) + 1 /\ Admitted(guard, guard', id, p)
      BY <1>0, <1>2, <1>6, SeenKeys
    <3>2. PICK p \in 1..GuardSize : p <= Len(guard) + 1 /\ Admitted(guard, guard', id, p)
      BY <3>1
    <3>3. p \in 1..(Len(guard) + 1) /\ guard \in Seq(Entries) /\ Len(guard') \in Nat
      BY <1>0, <3>1, <3>2, Constants DEF GuardOK
    <3>4. CASE i = 1
      <4>1. guard'[i].age = 0
        BY <3>2, <3>4 DEF Admitted
      <4> QED
        BY <1>3, <4>1, Constants
    <3>5. CASE i \in 2..Len(guard')
      <4>1. PICK j \in 1..Len(guard) : j # p /\ guard'[i] = guard[j]
        BY <3>1, <3>2, <3>3, <3>5, AdmittedFrom
      <4>2. guard[j].key = d /\ d # id
        BY <2>8, <3>2, <4>1 DEF Admitted
      <4>3. guard[j].age <= asked[d]
        BY <4>2 DEF OnceInv
      <4> QED
        BY <1>4, <4>1, <4>2, <4>3
    <3> QED
      BY <3>3, <3>4, <3>5
  <2>9. ASSUME Few', NEW d \in AskedIds' PROVE Held(d)'
    <3>1. CASE d = id
      BY <1>0, <1>2, <1>6, <3>1, HeldSeen
    <3>2. CASE d # id
      <4>1. d \in Ids /\ Held(d)
        BY <2>4, <2>6, <2>9, <3>2 DEF OnceInv, AskedIds
      <4>2. ASSUME ~Held(d)' PROVE FALSE
        <5>1. Len(guard) = GuardSize /\ ~Held(id)
          BY <1>0, <1>2, <1>6, <4>1, <4>2, HeldSeen
        <5> QED
          BY <2>4, <2>6, <2>9, <5>1, FullGuard DEF Few
      <4> QED
        BY <4>2
    <3> QED
      BY <3>1, <3>2
  <2>10. ASSUME Few', NEW d \in Ids, asked'[d] <= GuardTTL PROVE Single(d)'
    <3>1. since' = since
      BY <1>0 DEF feedVars
    <3>2. CASE d # id
      <4>1. asked[d] <= GuardTTL
        BY <1>4, <2>10, <3>2
      <4>2. Single(d)
        BY <2>6, <2>10, <4>1 DEF OnceInv
      <4> QED
        BY <2>1, <3>1, <3>2, <4>2, Zenon DEF Single
    <3>3. CASE d = id
      <4>1. asked[id] = Never
        <5>1. ASSUME asked[id] # Never PROVE FALSE
          <6>1. asked[id] <= GuardTTL /\ id \in AskedIds
            BY <1>4, <2>10, <3>3, <5>1 DEF AskedIds
          <6>2. PICK i \in 1..Len(guard) : guard[i].key = id
            BY <2>6, <2>10, <6>1 DEF OnceInv, Held
          <6>3. guard[i].age <= asked[id]
            BY <6>2 DEF OnceInv
          <6>4. guard[i] \in Entries
            BY <1>0 DEF GuardOK
          <6>5. guard[i].age \in Nat /\ asked[id] \in Nat /\ GuardTTL \in Nat
            <7>1. guard[i].age \in 0..AgeCap
              BY <6>4, Zenon DEF Entries
            <7> QED
              BY <1>3, <7>1, Ranges, Constants, Zenon
          <6> QED
            BY <2>2, <6>1, <6>2, <6>3, <6>5 DEF Fresh
        <5> QED
          BY <5>1
      <4>2. since[id] = Never /\ ~\E k \in Handlers : Dispatching(k, id)
        BY <4>1 DEF OnceInv
      <4> QED
        BY <2>1, <3>1, <3>3, <4>2, Zenon DEF Single
    <3> QED
      BY <3>2, <3>3
  <2>11. ASSUME NEW repo \in Repos, NEW key \in Keys, Timely(repo, key)' PROVE Counted(repo, key)'
    <3>1. Timely(repo, key)
      BY <1>4, <2>6, <2>11 DEF Timely, JobsOf
    <3>2. Counted(repo, key)
      BY <3>1 DEF OnceInv
    <3> QED
      BY <1>0, <3>2 DEF Counted, CountedJobs, JobsOf, feedVars
  <2>12. GuardOK(guard)'
    BY DEF GuardOK
  <2> QED
    BY <2>5, <2>7, <2>8, <2>9, <2>10, <2>11, <2>12, Zenon DEF OnceInv
<1> QED
  BY <1>5, <1>6

\* Adding the one job that was not counted yet.
LEMMA OnceDispatch ==
    ASSUME OnceInv, TypeOK', NEW h \in Handlers, Dispatch(h)
    PROVE  OnceInv'
<1>0. TypeOK /\ GuardOK(guard) /\ guard' = guard /\ asked' = asked /\ IsFiniteSet(AskedIds)
  BY DEF OnceInv, Dispatch, guardVars
<1>1. PICK id \in Ids : id = handler[h].id
  BY <1>0 DEF TypeOK
<1>2. \A k \in Handlers, d \in Ids : Dispatching(k, d)' <=> Dispatching(k, d) /\ k # h
  BY <1>0, DispatchingNext, Zenon
<1>3. Dispatching(h, id) /\ asked[id] # Never
  BY <1>1 DEF Dispatch, Dispatching, OnceInv
<1>4. AskedIds' = AskedIds /\ (Few' <=> Few) /\ \A d : Held(d)' <=> Held(d)
  BY <1>0 DEF AskedIds, Few, Held
<1>5. since' = since \/ since' = [since EXCEPT ![id] = 0]
  BY <1>1, Zenon DEF Dispatch, Record, feedVars
<1>6. \A d \in Ids : since'[d] # Never => since[d] # Never \/ d = id
  BY <1>0, <1>5, Zenon DEF TypeOK
<1>7. \A d \in Ids : since'[d] # Never \/ Held(d)' \/ (\E k \in Handlers : Dispatching(k, d)')
                        => asked'[d] # Never
  BY <1>0, <1>2, <1>3, <1>4, <1>6, Zenon DEF OnceInv
<1>8. ASSUME Few', NEW d \in Ids, asked'[d] <= GuardTTL PROVE Single(d)'
  <2>1. Single(d)
    BY <1>0, <1>4, <1>8 DEF OnceInv
  <2>2. CASE d = id
    <3>1. ~\E k \in Handlers : Dispatching(k, d)'
      BY <1>2, <1>3, <2>1, <2>2, Zenon DEF Single
    <3> QED
      BY <3>1, Zenon DEF Single
  <2>3. CASE d # id
    <3>1. since'[d] = since[d]
      BY <1>0, <1>5, <2>3, Zenon DEF TypeOK
    <3> QED
      BY <1>2, <2>1, <3>1, Zenon DEF Single
  <2> QED
    BY <2>2, <2>3
<1>9. ASSUME NEW repo \in Repos, NEW key \in Keys, Timely(repo, key)' PROVE Counted(repo, key)'
  <2>1. Timely(repo, key) /\ Counted(repo, key)
    <3>1. Timely(repo, key)
      BY <1>0, <1>4, <1>9, Zenon DEF Timely, JobsOf
    <3> QED
      BY <3>1, Zenon DEF OnceInv
  <2> DEFINE p == Payload[id]
  <2>2. CASE UNCHANGED <<jobs, since>>
    BY <2>1, <2>2 DEF Counted, CountedJobs, JobsOf
  <2>3. CASE Record(id) /\ Touches(p)
    <3>1. since' = [since EXCEPT ![id] = 0]
      BY <2>3, Zenon DEF Record
    <3>2. p \in Payloads /\ p.repo # NoRepo
      BY <2>3, Constants DEF Touches
    <3>3. p.repo \in Repos /\ p.labels \in Keys
      BY <3>2 DEF Payloads
    <3>4. CASE id \notin JobsOf(repo, key)
      <4>1. jobs'[repo][key] = jobs[repo][key]
        <5>1. CASE p.event # "workflow_job"
          <6>1. jobs' = jobs
            BY <2>3, <5>1, Zenon DEF Record
          <6> QED
            BY <6>1
        <5>2. CASE p.event = "workflow_job"
          <6>1. jobs' = [jobs EXCEPT ![p.repo][p.labels] = @ + 1]
            BY <2>3, <5>2, Zenon DEF Record
          <6>2. p.repo # repo \/ p.labels # key
            BY <2>3, <3>4, <5>2, Zenon DEF JobsOf
          <6> HIDE DEF p
          <6> QED
            BY <1>0, <3>3, <6>1, <6>2, Zenon DEF TypeOK
        <5> QED
          BY <5>1, <5>2
      <4>2. CountedJobs(repo, key)' = CountedJobs(repo, key)
        BY <1>0, <3>1, <3>4 DEF CountedJobs, JobsOf, TypeOK
      <4> QED
        BY <2>1, <4>1, <4>2 DEF Counted
    <3>5. CASE id \in JobsOf(repo, key)
      <4>1. p.event = "workflow_job" /\ p.repo = repo /\ p.labels = key
        BY <3>5, Zenon DEF JobsOf
      <4>2. jobs'[repo][key] = jobs[repo][key] + 1
        <5>1. jobs' = [jobs EXCEPT ![repo][key] = @ + 1]
          BY <2>3, <4>1, Zenon DEF Record
        <5> QED
          BY <1>0, <5>1 DEF TypeOK
      <4>3. since[id] = Never
        <5>1. asked[id] <= GuardTTL /\ Few
          BY <1>3, <2>1, <3>5 DEF Timely
        <5>2. Single(id)
          BY <5>1 DEF OnceInv
        <5> QED
          BY <1>3, <5>2, Zenon DEF Single
      <4>4. id \notin CountedJobs(repo, key)
        BY <4>3 DEF CountedJobs
      <4>5. CountedJobs(repo, key)' = CountedJobs(repo, key) \cup {id}
        <5>1. Never # 0
          BY Constants
        <5>2. \A d \in Ids : since'[d] = IF d = id THEN 0 ELSE since[d]
          BY <1>0, <3>1 DEF TypeOK
        <5>3. JobsOf(repo, key) \subseteq Ids /\ JobsOf(repo, key)' = JobsOf(repo, key)
          BY DEF JobsOf
        <5> QED
          BY <3>5, <5>1, <5>2, <5>3 DEF CountedJobs
      <4>6. IsFiniteSet(CountedJobs(repo, key))
        <5>1. CountedJobs(repo, key) \subseteq AskedIds
          BY DEF CountedJobs, AskedIds, JobsOf, OnceInv
        <5> QED
          BY <1>0, <5>1, FS_Subset
      <4>7. Cardinality(CountedJobs(repo, key) \cup {id}) = Cardinality(CountedJobs(repo, key)) + 1
        BY <4>4, <4>6, FS_AddElement, Zenon
      <4> QED
        BY <2>1, <4>2, <4>5, <4>7 DEF Counted
    <3> QED
      BY <3>4, <3>5
  <2> QED
    BY <1>1, <2>2, <2>3, Zenon DEF Dispatch, Record, feedVars
<1>10. GuardOK(guard)' /\ IsFiniteSet(AskedIds')
  BY <1>0, <1>4 DEF GuardOK
<1>11. /\ \A d \in Ids : \A i \in 1..Len(guard') : guard'[i].key = d => guard'[i].age <= asked'[d]
       /\ Few' => \A d \in AskedIds' : Held(d)'
  BY <1>0, <1>4 DEF OnceInv
<1> QED
  BY <1>7, <1>8, <1>9, <1>10, <1>11, Zenon DEF OnceInv

\* Entries age with what they stand for.
LEMMA OnceTick ==
    ASSUME OnceInv, TypeOK', GuardOK(guard'), Tick
    PROVE  OnceInv'
<1>0. TypeOK /\ GuardOK(guard) /\ GuardTick /\ handler' = handler /\ jobs' = jobs
  BY DEF OnceInv, Tick
<1>1. \A d \in Ids : /\ asked[d] \in 0..Never /\ since[d] \in 0..Never
                     /\ asked'[d] = Age(asked[d]) /\ since'[d] = Age(since[d])
  BY <1>0 DEF Tick, TypeOK
<1>2. \A d \in Ids : (asked'[d] = Never <=> asked[d] = Never) /\ (since'[d] = Never <=> since[d] = Never)
  BY <1>1, AgeIs
<1>3. \A d \in Ids : asked'[d] <= GuardTTL => asked[d] <= GuardTTL
  <2>1. \A d \in Ids : asked[d] <= asked'[d] /\ asked'[d] \in 0..Never
    BY <1>1, AgeIs
  <2> QED
    BY <1>1, <2>1, Constants
<1>4. AskedIds' = AskedIds /\ (Few' <=> Few)
  BY <1>2 DEF AskedIds, Few
<1>5. \A d \in Ids : Held(d)' <=> Held(d)
  BY <1>0, HeldTick
<1>6. \A k \in Handlers, d \in Ids : Dispatching(k, d)' <=> Dispatching(k, d)
  BY <1>0 DEF Dispatching
<1>7. \A d \in Ids : since'[d] # Never \/ Held(d)' \/ (\E k \in Handlers : Dispatching(k, d)')
                        => asked'[d] # Never
  BY <1>2, <1>5, <1>6, Zenon DEF OnceInv
<1>8. ASSUME NEW d \in Ids, NEW i \in 1..Len(guard'), guard'[i].key = d PROVE guard'[i].age <= asked'[d]
  <2>1. i \in 1..Len(guard) /\ guard'[i] = [key |-> guard[i].key, age |-> Older(guard[i].age)]
    BY <1>0, GuardOKTick
  <2>2. guard'[i].age = Older(guard[i].age) /\ guard[i].key = d
    <3>1. guard'[i].age = Older(guard[i].age) /\ guard'[i].key = guard[i].key
      BY <2>1
    <3> QED
      BY <1>8, <3>1, Zenon
  <2>3. guard[i].age <= asked[d]
    BY <2>1, <2>2, Zenon DEF OnceInv
  <2>4. guard[i] \in Entries
    BY <1>0, <2>1 DEF GuardOK
  <2>5. guard[i].age \in 0..AgeCap
    BY <2>4 DEF Entries
  <2>6. Held(d)
    BY <2>1, <2>2 DEF Held
  <2>7. asked[d] # Never
    BY <2>6 DEF OnceInv
  <2>8. asked[d] <= AgeCap /\ asked'[d] = Older(asked[d]) /\ asked[d] \in Nat
    BY <1>1, <2>7, AgeIs, Ranges, Zenon
  <2> QED
    BY <2>2, <2>3, <2>5, <2>8, Ranges, Zenon
<1>9. Few' => \A d \in AskedIds' : Held(d)'
  BY <1>4, <1>5 DEF OnceInv, AskedIds
<1>10. ASSUME Few', NEW d \in Ids, asked'[d] <= GuardTTL PROVE Single(d)'
  <2>1. Single(d)
    BY <1>3, <1>4, <1>10 DEF OnceInv
  <2> QED
    BY <1>2, <1>6, <2>1, Zenon DEF Single
<1>11. ASSUME NEW repo \in Repos, NEW key \in Keys, Timely(repo, key)' PROVE Counted(repo, key)'
  <2>1. Timely(repo, key)
    BY <1>2, <1>3, <1>4, <1>11 DEF Timely, JobsOf
  <2>2. Counted(repo, key)
    BY <2>1 DEF OnceInv
  <2>3. CountedJobs(repo, key)' = CountedJobs(repo, key)
    BY <1>2 DEF CountedJobs, JobsOf
  <2> QED
    BY <1>0, <2>2, <2>3 DEF Counted
<1>12. GuardOK(guard)' /\ IsFiniteSet(AskedIds')
  BY <1>4 DEF GuardOK, OnceInv
<1> QED
  BY <1>7, <1>8, <1>9, <1>10, <1>11, <1>12, Zenon DEF OnceInv

\* At first nothing was counted.
LEMMA OnceInit == Init => OnceInv
BY TypeInit, OnceEmpty DEF Init, GuardInit, NothingAsked

\* Every step keeps the invariant behind CountedOnce.
LEMMA OnceNext == OnceInv /\ [Next]_vars => OnceInv'
<1> SUFFICES ASSUME OnceInv, [Next]_vars PROVE OnceInv'
  OBVIOUS
<1>1. TypeOK /\ GuardOK(guard) /\ TypeOK' /\ GuardOK(guard')
  BY TypeNext DEF OnceInv
<1>2. CASE Restart
  <2>1. NothingAsked'
    BY <1>1, <1>2 DEF Restart, GuardRestart, GuardOK, NothingAsked
  <2> QED
    BY <2>1, OnceEmpty, PTL
<1>3. ASSUME NEW h \in Handlers, \/ \E id \in Ids, via \in Paths : Arrive(h, id, via)
                                 \/ Lookup(h)
      PROVE  OnceInv'
  <2>1. UNCHANGED <<guard, asked, jobs, since>>
    BY <1>3, Zenon DEF Arrive, Lookup, guardVars, feedVars
  <2>2. \A k \in Handlers, d \in Ids : Dispatching(k, d)' <=> Dispatching(k, d)
    BY <1>1, <1>3, DispatchingNext, Zenon
  <2> QED
    BY <1>1, <2>1, <2>2, OnceQuiet
<1>4. CASE AppChanges \/ UNCHANGED vars
  <2>1. UNCHANGED <<guard, asked, jobs, since>> /\ UNCHANGED handler
    BY <1>4, Zenon DEF AppChanges, vars, guardVars, feedVars
  <2>2. \A k \in Handlers, d \in Ids : Dispatching(k, d)' <=> Dispatching(k, d)
    BY <2>1 DEF Dispatching
  <2> QED
    BY <1>1, <2>1, <2>2, OnceQuiet
<1>5. ASSUME NEW h \in Handlers, Guard(h) PROVE OnceInv'
  BY <1>1, <1>5, OnceGuard
<1>6. ASSUME NEW h \in Handlers, Dispatch(h) PROVE OnceInv'
  BY <1>1, <1>6, OnceDispatch
<1>7. CASE Tick
  BY <1>1, <1>7, OnceTick
<1> QED
  BY <1>2, <1>3, <1>4, <1>5, <1>6, <1>7, Zenon DEF Next

\* However often, by whichever path and on however many handlers at once a queued
\* job is delivered, EventFeed counts it once, as long as no more than GuardSize
\* deliveries were asked about and none of its label set longer than GuardTTL ago.
THEOREM JobsCountedOnce == Spec => []CountedOnce
<1>1. OnceInv => CountedOnce
  BY Zenon DEF OnceInv, CountedOnce, Timely, Counted, CountedJobs, Few, AskedIds
<1> QED
  BY <1>1, OnceInit, OnceNext, PTL DEF Spec
=============================================================================
