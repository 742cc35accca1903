-------------------------- MODULE FloorLegsProofs --------------------------
(***************************************************************************)
(* Machine-checked proofs about the two legs that may raise a policy's     *)
(* floor.  Activity, for all policies, windows, caps and kinds of runs:    *)
(* the window a status keeps is bounded by the newest activity.            *)
(* WindowBounded is not inductive alone: a window is opened from the       *)
(* feed's age or from a listed run's, so both are tied to the newest       *)
(* activity as well.  And the schedule, for weeks and days of any length,  *)
(* any zones and any number of windows.                                    *)
(***************************************************************************)
EXTENDS ActivityLeg, ScheduleWeek, FiniteSetTheorems, WellFoundedInduction, TLAPS

LegFields == {"at", "until", "source", "contrib", "since"}

\* What the steps keep about the shape of the state.
Shape ==
    /\ newest \in Nat /\ DOMAIN feed = {"last", "jobs"} /\ feed.last \in Nat
    /\ \A i \in DOMAIN runs : DOMAIN runs[i] = {"kind", "age"} /\ runs[i].age \in Nat
    /\ DOMAIN stored = Policies /\ DOMAIN leg = Policies
    /\ \A p \in Policies : /\ DOMAIN stored[p] = {"until", "source"} /\ stored[p].until \in Int
                           /\ DOMAIN leg[p] = LegFields /\ leg[p].until \in Int
                           /\ leg[p].since \in Int

\* No event in the feed's window, and no listed run that counts, is newer than the
\* newest activity.
NewestIsNewest ==
    /\ feed.last <= ActiveWindow => newest <= feed.last
    /\ \A i \in DOMAIN runs : /\ runs[i].age < SampleWindow
                              /\ \A p \in Policies : Counts(p, runs[i].kind) =>
                                                       newest <= runs[i].age

Bound(source) == IF source = "webhook" THEN ActiveWindow ELSE Polled

Within(w) == Active(w.until) => w.until + newest <= Bound(w.source)

\* A listing that matched showed a run of its sample window.
Matched(call) ==
    call.since # NoTime => /\ call.since >= 0 /\ call.since <= SampleTime
                           /\ newest <= SampleWindow - 1 + call.since

LegInv ==
    /\ Shape /\ NewestIsNewest
    /\ \A p \in Policies : Within(stored[p]) /\ Within(leg[p]) /\ Matched(leg[p])

\* An empty status and a resting leg have no window.
LEMMA Idle ==
    /\ DOMAIN NoStatus = {"until", "source"} /\ NoStatus.until = -1
    /\ DOMAIN Resting = LegFields /\ Resting.until = -1 /\ Resting.since = -1
  BY DEF NoStatus, Resting, NoTime, LegFields

\* Nothing is active when the controller has just been installed.
LEMMA LegInvInit == Init => LegInv
  <1> SUFFICES ASSUME Init PROVE LegInv
    OBVIOUS
  <1> USE LegAssumption
  <1>0. /\ runs = <<>> /\ feed = [last |-> Stale, jobs |-> [k \in Keys |-> 0]]
        /\ stored = [p \in Policies |-> NoStatus] /\ leg = [p \in Policies |-> Resting]
        /\ newest = Longest
    BY DEF Init
  <1>1. Shape
    BY <1>0, Idle DEF Shape, Longest, Polled, Stale
  <1>2. NewestIsNewest
    BY <1>0 DEF NewestIsNewest, Stale
  <1>3. \A p \in Policies : Within(stored[p]) /\ Within(leg[p]) /\ Matched(leg[p])
    BY <1>0, Idle DEF Within, Active, Matched, NoTime
  <1> QED BY <1>1, <1>2, <1>3 DEF LegInv

\* A reconcile that gives a policy's leg a window within the bound, and leaves the
\* repository, the feed and the statuses alone, keeps the invariant.
LEMMA LegInvComputed ==
    ASSUME LegInv, NEW p \in Policies, NEW until \in Int, NEW source, NEW contrib,
           NEW at, NEW since \in Int,
           leg' = [leg EXCEPT ![p] = [at |-> at, until |-> until, source |-> source,
                                      contrib |-> contrib, since |-> since]],
           UNCHANGED <<runs, feed, stored, newest>>,
           Active(until) => until + newest <= Bound(source),
           since # NoTime => since = 0 /\ newest <= SampleWindow - 1
    PROVE  LegInv'
  <1> USE LegAssumption DEF LegInv
  <1>1. Shape'
    BY DEF Shape, LegFields
  <1>2. NewestIsNewest'
    BY Zenon DEF NewestIsNewest, Counts, IsBotActor
  <1>3. \A q \in Policies : Within(stored[q])' /\ Within(leg[q])'
    BY DEF Within, Shape, Active, Bound
  <1>4. \A q \in Policies : Matched(leg[q])'
    BY DEF Matched, Shape
  <1> QED BY <1>1, <1>2, <1>3, <1>4

\* The steps of a reconcile keep the invariant.
LEMMA LegInvReconciles ==
    ASSUME LegInv, NEW p \in Policies, Reconciles(p)
    PROVE  LegInv'
  <1> USE LegAssumption
  <1>0. /\ leg[p].until \in Int /\ stored[p].until \in Int /\ newest \in Nat
        /\ Within(stored[p]) /\ Within(leg[p])
    BY DEF LegInv, Shape
  <1>a. NoTime \in Int
    BY DEF NoTime
  <1>1. CASE FromFeed(p)
    <2>1. feed.last \in Nat /\ feed.last <= ActiveWindow /\ newest <= feed.last
      BY <1>1 DEF FromFeed, UsesFeed, FeedFresh, LegInv, Shape, NewestIsNewest
    <2>2. ActiveWindow - feed.last \in Int
          /\ (ActiveWindow - feed.last) + newest <= Bound("webhook")
      BY <1>0, <2>1 DEF Bound
    <2> QED BY <1>1, <1>a, <2>2, LegInvComputed, Zenon DEF FromFeed, Computed
  <1>2. CASE Disabled(p)
    BY <1>0, <1>2, <1>a, LegInvComputed, Zenon DEF Disabled, Computed, Within
  <1>3. CASE Polls(p)
    BY <1>0, <1>3, <1>a, LegInvComputed, Zenon DEF Polls, Within
  <1>4. CASE SampleFails(p)
    BY <1>0, <1>4, <1>a, LegInvComputed, Zenon DEF SampleFails, Computed, Within
  <1>5. ASSUME NEW lost \in SUBSET (1..RunsCap), ListRuns(p, lost)
        PROVE  LegInv'
    <2> DEFINE mine == {i \in Sample(p, lost) : runs[i].kind.key \in Config[p].wants}
               contrib == MapThenSumSet(LAMBDA i : runs[i].kind.fanout, mine)
               since == IF mine = {} THEN NoTime ELSE 0
    <2>1. /\ leg' = [leg EXCEPT ![p] = [at |-> "listed", until |-> leg[p].until,
                                        source |-> leg[p].source, contrib |-> contrib,
                                        since |-> since]]
          /\ UNCHANGED <<runs, feed, stored, newest>>
      BY <1>5 DEF ListRuns
    <2>2. mine # {} => newest <= SampleWindow - 1
      <3> SUFFICES ASSUME NEW i \in mine PROVE newest <= SampleWindow - 1
        OBVIOUS
      <3>1. i \in DOMAIN runs /\ Counts(p, runs[i].kind)
        BY DEF Sample
      <3>2. /\ runs[i].age \in Nat /\ runs[i].age < SampleWindow /\ newest <= runs[i].age
        BY <3>1 DEF LegInv, Shape, NewestIsNewest
      <3> QED BY <1>0, <3>2
    <2>3. since \in Int /\ (since # NoTime => since = 0 /\ newest <= SampleWindow - 1)
      BY <1>a, <2>2
    <2> HIDE DEF mine, contrib, since
    <2> QED BY <1>0, <2>1, <2>3, LegInvComputed, Zenon DEF Within
  <1>7. CASE FromSample(p)
    <2>1. CASE Config[p].appRef /\ leg[p].since # NoTime
      <3>1. SampleWindow + newest <= Bound("poll")
        <4>1. /\ leg[p].since \in Int /\ leg[p].since <= SampleTime
              /\ newest <= SampleWindow - 1 + leg[p].since
          BY <2>1 DEF LegInv, Shape, Matched
        <4>2. Bound("poll") = 2 * SampleWindow - 1 + SampleTime
          BY DEF Bound, Polled
        <4> QED BY <1>0, <4>1, <4>2
      <3>2. Computed(p, SampleWindow, "poll", leg[p].contrib)
            /\ UNCHANGED <<runs, feed, stored, newest>>
        BY <1>7, <2>1 DEF FromSample
      <3>3. SampleWindow \in Int
        OBVIOUS
      <3> HIDE LegAssumption
      <3> QED BY <1>a, <3>1, <3>2, <3>3, LegInvComputed, Zenon DEF Computed
    <2>2. CASE ~(Config[p].appRef /\ leg[p].since # NoTime)
      <3>1. Computed(p, leg[p].until, leg[p].source, leg[p].contrib)
            /\ UNCHANGED <<runs, feed, stored, newest>>
        BY <1>7, <2>2 DEF FromSample
      <3> QED BY <1>0, <1>a, <3>1, LegInvComputed, Zenon DEF Computed, Within
    <2> QED BY <2>1, <2>2
  <1>6. ASSUME NEW ok \in BOOLEAN, WriteStatus(p, ok)
        PROVE  LegInv'
    <2>0. /\ leg' = [leg EXCEPT ![p] = Resting]
          /\ \/ stored' = [stored EXCEPT ![p] = [until |-> leg[p].until,
                                                 source |-> leg[p].source]]
             \/ stored' = stored
          /\ UNCHANGED <<runs, feed, newest>>
      BY <1>6 DEF WriteStatus
    <2>1. Shape'
      BY <2>0, Idle DEF LegInv, Shape
    <2>2. NewestIsNewest'
      BY <2>0, Zenon DEF LegInv, NewestIsNewest, Counts, IsBotActor
    <2>3. \A q \in Policies : Within(stored[q])' /\ Within(leg[q])'
      BY <2>0, Idle DEF LegInv, Shape, Within, Active
    <2>4. \A q \in Policies : Matched(leg[q])'
      BY <2>0, Idle DEF LegInv, Shape, Matched, NoTime
    <2> QED BY <2>1, <2>2, <2>3, <2>4 DEF LegInv
  <1> QED BY <1>1, <1>2, <1>3, <1>4, <1>5, <1>6, <1>7 DEF Reconciles

\* The repository's events, the clock and a restart keep the invariant.
LEMMA LegInvOther ==
    ASSUME LegInv,
           \/ \E kind \in Kinds : RunStarts(kind)
           \/ \E k \in Keys : RecordJob(k)
           \/ RecordPush \/ Tick \/ Restart \/ Settle \/ UNCHANGED vars
    PROVE  LegInv'
  <1> USE LegAssumption
  <1>1. ASSUME NEW kind \in Kinds, RunStarts(kind)
        PROVE  LegInv'
    <2>0. newest' \in Nat /\ newest' <= newest
      BY <1>1 DEF RunStarts, LegInv, Shape
    <2>1. Shape'
      BY <1>1, <2>0 DEF RunStarts, LegInv, Shape
    <2>2. NewestIsNewest'
      <3>1. ASSUME NEW i \in DOMAIN runs'
            PROVE  /\ runs'[i].age < SampleWindow
                   /\ \A p \in Policies : Counts(p, runs'[i].kind) => newest' <= runs'[i].age
        <4>1. CASE i = 1
          BY <1>1, <4>1 DEF RunStarts
        <4>2. CASE i # 1
          <5>1. i - 1 \in DOMAIN runs /\ runs'[i] = runs[i - 1]
            BY <1>1, <3>1, <4>2 DEF RunStarts
          <5> QED BY <2>0, <5>1 DEF LegInv, NewestIsNewest, Shape
        <4> QED BY <4>1, <4>2
      <3>2. feed'.last <= ActiveWindow => newest' <= feed'.last
        BY <1>1, <2>0 DEF RunStarts, LegInv, NewestIsNewest, Shape
      <3> QED BY <3>1, <3>2, Zenon DEF NewestIsNewest, Counts, IsBotActor
    <2>3. \A q \in Policies : Within(stored[q])' /\ Within(leg[q])'
      BY <1>1, <2>0 DEF RunStarts, LegInv, Shape, Within, Active, Bound, Polled
    <2>4. \A q \in Policies : Matched(leg[q])'
      BY <1>1, <2>0 DEF RunStarts, LegInv, Shape, Matched
    <2> QED BY <2>1, <2>2, <2>3, <2>4 DEF LegInv
  <1>2. CASE RecordPush \/ \E k \in Keys : RecordJob(k)
    <2>0. newest' = 0 /\ feed'.last = 0 /\ DOMAIN feed' = {"last", "jobs"}
          /\ UNCHANGED <<runs, stored, leg>>
      BY <1>2 DEF RecordPush, RecordJob, LegInv, Shape
    <2>1. Shape'
      BY <2>0 DEF LegInv, Shape
    <2>2. NewestIsNewest'
      BY <2>0 DEF LegInv, Shape, NewestIsNewest
    <2>3. \A q \in Policies : Within(stored[q])' /\ Within(leg[q])'
      BY <2>0 DEF LegInv, Shape, Within, Active, Bound, Polled
    <2>4. \A q \in Policies : Matched(leg[q])'
      BY <2>0 DEF LegInv, Shape, Matched
    <2> QED BY <2>1, <2>2, <2>3, <2>4 DEF LegInv
  <1>3. CASE Tick
    <2>0. /\ newest' \in Nat /\ newest' <= newest + 1
          /\ feed'.last \in Nat /\ DOMAIN feed' = {"last", "jobs"}
          /\ feed'.last <= ActiveWindow => feed'.last = feed.last + 1
      <3>1. newest' = Older(newest, Longest) /\ feed' = [feed EXCEPT !.last = Older(@, Stale)]
        BY <1>3, Zenon DEF Tick
      <3>2. newest \in Nat /\ feed.last \in Nat /\ DOMAIN feed = {"last", "jobs"}
        BY DEF LegInv, Shape
      <3> QED BY <3>1, <3>2 DEF Older, Stale
    <2>1. \A i \in DOMAIN runs' :
             /\ i \in DOMAIN runs /\ DOMAIN runs'[i] = {"kind", "age"}
             /\ runs'[i].kind = runs[i].kind /\ runs'[i].age = runs[i].age + 1
             /\ runs'[i].age < SampleWindow
      BY <1>3, Zenon DEF Tick, LegInv, Shape
    <2>2. \A q \in Policies :
             /\ DOMAIN stored'[q] = {"until", "source"} /\ stored'[q].source = stored[q].source
             /\ stored'[q].until = Sooner(stored[q].until)
             /\ DOMAIN leg'[q] = LegFields /\ leg'[q].source = leg[q].source
             /\ leg'[q].until = Sooner(leg[q].until)
             /\ leg'[q].since = IF leg[q].since = NoTime THEN NoTime ELSE leg[q].since + 1
             /\ leg[q].since < SampleTime
      BY <1>3, Zenon DEF Tick, LegInv, Shape, LegFields
    <2>3. Shape'
      <3>1. DOMAIN stored' = Policies /\ DOMAIN leg' = Policies
        BY <1>3, Zenon DEF Tick
      <3>2. \A q \in Policies : /\ stored'[q].until \in Int /\ leg'[q].until \in Int
                                /\ leg'[q].since \in Int
        BY <2>2 DEF LegInv, Shape, Sooner, NoTime
      <3>3. \A i \in DOMAIN runs' : runs'[i].age \in Nat
        BY <2>1 DEF LegInv, Shape
      <3> QED BY <2>0, <2>1, <2>2, <3>1, <3>2, <3>3 DEF Shape
    <2>4. NewestIsNewest'
      <3>1. ASSUME NEW i \in DOMAIN runs', NEW p \in Policies, Counts(p, runs'[i].kind)
            PROVE  newest' <= runs'[i].age
        <4>1. runs[i].age \in Nat /\ newest \in Nat /\ newest <= runs[i].age
          BY <2>1, <3>1 DEF LegInv, Shape, NewestIsNewest
        <4> QED BY <2>0, <2>1, <4>1
      <3>2. feed'.last <= ActiveWindow => newest' <= feed'.last
        BY <2>0 DEF LegInv, Shape, NewestIsNewest
      <3> QED BY <2>1, <3>1, <3>2, Zenon DEF NewestIsNewest, Counts, IsBotActor
    <2>5. \A q \in Policies : Within(stored[q])' /\ Within(leg[q])'
      BY <2>0, <2>2 DEF LegInv, Shape, Within, Active, Sooner, Bound, Polled
    <2>6. \A q \in Policies : Matched(leg[q])'
      BY <2>0, <2>2, SMTT(30) DEF LegInv, Shape, Matched, NoTime
    <2> QED BY <2>3, <2>4, <2>5, <2>6 DEF LegInv
  <1>4. CASE Restart
    <2>0. /\ feed' = [last |-> Stale, jobs |-> [k \in Keys |-> 0]]
          /\ leg' = [p \in Policies |-> Resting] /\ UNCHANGED <<runs, stored, newest>>
      BY <1>4 DEF Restart
    <2>1. Shape'
      BY <2>0, Idle DEF LegInv, Shape, Stale
    <2>2. NewestIsNewest'
      <3>1. ~(feed'.last <= ActiveWindow)
        BY <2>0 DEF Stale
      <3> QED BY <2>0, <3>1, Zenon DEF LegInv, NewestIsNewest, Counts, IsBotActor
    <2>3. \A q \in Policies : Within(stored[q])' /\ Within(leg[q])'
      BY <2>0, Idle DEF LegInv, Shape, Within, Active
    <2>4. \A q \in Policies : Matched(leg[q])'
      BY <2>0, Idle DEF LegInv, Shape, Matched, NoTime
    <2> QED BY <2>1, <2>2, <2>3, <2>4 DEF LegInv
  <1>5. CASE Settle \/ UNCHANGED vars
    <2>0. UNCHANGED <<runs, feed, stored, leg, newest>>
      BY <1>5 DEF Settle, vars
    <2> QED BY <2>0, Zenon DEF LegInv, Shape, NewestIsNewest, Within, Bound, Matched, Active, Counts, IsBotActor
  <1> QED BY <1>1, <1>2, <1>3, <1>4, <1>5

\* The window kept in the status ends at most activeWindowSeconds after the newest
\* event if the feed set it, and less than two sample windows and the time of a sample
\* after the newest run or event if the poll did: whatever order reconciles, events,
\* failed status updates, ticks and restarts come in (computeActivity, computeActivityFromFeed).
THEOREM WindowAlwaysBounded == Spec => []WindowBounded
  <1>1. LegInv /\ [Next]_vars => LegInv'
    BY LegInvReconciles, LegInvOther DEF Next
  <1>2. LegInv => WindowBounded
    BY DEF LegInv, WindowBounded, Within, Bound
  <1> QED BY LegInvInit, <1>1, <1>2, PTL DEF Spec

-----------------------------------------------------------------------------
(* Sums.                                                                   *)

\* A nonempty set of naturals has a least element.
LEMMA LeastElement ==
    ASSUME NEW T \in SUBSET Nat, T # {}
    PROVE  \E m \in T : \A n \in T : m <= n
<1> DEFINE R == OpToRel(<, Nat)
<1>1. IsWellFoundedOn(R, Nat)
    BY NatLessThanWellFounded, Zenon
<1>2. PICK m \in T : \A n \in T : ~(<<n, m>> \in R)
    BY <1>1, WFMin, Zenon
<1>3. \A n \in T : ~(n < m)
    BY <1>2, Zenon DEF OpToRel
<1> QED
    BY <1>3

\* What MapThenSumSet adds up, one element after the other.
Pick(s) == CHOOSE x \in s : TRUE
Plus(f, g, s) == IF s = {} THEN 0 ELSE f[Pick(s)] + g[s \ {Pick(s)}]
Partial(f, S) == CHOOSE g : g = [s \in SUBSET S |-> Plus(f, g, s)]

\* One element less.
LEMMA Fewer ==
    ASSUME NEW S, IsFiniteSet(S), NEW s \in SUBSET S
    PROVE  /\ IsFiniteSet(s) /\ Cardinality(s) \in Nat
           /\ s # {} => /\ Pick(s) \in s
                        /\ Cardinality(s) # 0
                        /\ Cardinality(s \ {Pick(s)}) = Cardinality(s) - 1
<1>1. IsFiniteSet(s)
    BY FS_Subset
<1>2. Cardinality(s) \in Nat /\ (Cardinality(s) = 0 <=> s = {})
    BY <1>1, FS_CardinalityType, FS_EmptySet
<1>3. s # {} => Pick(s) \in s
    BY DEF Pick
<1> QED
    BY <1>1, <1>2, <1>3, FS_RemoveElement, Zenon

\* The sum is well defined.
LEMMA PartialIs ==
    ASSUME NEW S, IsFiniteSet(S), NEW f
    PROVE  Partial(f, S) = [s \in SUBSET S |-> Plus(f, Partial(f, S), s)]
<1> DEFINE D(n) == {s \in SUBSET S : Cardinality(s) <= n}
           Good(n) == \E g : g = [s \in D(n) |-> Plus(f, g, s)]
           T == {n \in Nat : ~Good(n)}
<1>1. Good(0)
    <2>1. ASSUME NEW s \in D(0) PROVE s = {}
        <3>1. s \in SUBSET S /\ Cardinality(s) <= 0
            OBVIOUS
        <3>2. Cardinality(s) \in Nat /\ (s # {} => Cardinality(s) # 0)
            BY <3>1, Fewer, Zenon
        <3> QED
            BY <3>1, <3>2
    <2>2. [s \in D(0) |-> 0] = [s \in D(0) |-> Plus(f, [t \in D(0) |-> 0], s)]
        BY <2>1 DEF Plus
    <2> QED
        BY <2>2, Zenon
<1>2. ASSUME NEW n \in Nat, Good(n) PROVE Good(n + 1)
    <2>1. PICK g : g = [s \in D(n) |-> Plus(f, g, s)]
        BY <1>2, Zenon
    <2> DEFINE h == [s \in D(n + 1) |-> Plus(f, g, s)]
    <2>2. ASSUME NEW s \in D(n) PROVE g[s] = Plus(f, g, s) /\ s \in D(n + 1)
        <3>1. g[s] = Plus(f, g, s)
            BY <2>1, Zenon
        <3>2. Cardinality(s) \in Nat
            BY Fewer, Zenon
        <3> QED
            BY <3>1, <3>2
    <2>3. \A s \in D(n) : h[s] = g[s]
        BY <2>2
    <2>4. \A s \in D(n + 1) : s # {} => s \ {Pick(s)} \in D(n)
        BY Fewer
    <2>5. \A s \in D(n + 1) : Plus(f, g, s) = Plus(f, h, s)
        <3> HIDE DEF D, h
        <3> QED BY <2>3, <2>4 DEF Plus
    <2>6. h = [s \in D(n + 1) |-> Plus(f, h, s)]
        BY <2>5
    <2> QED
        BY <2>6, Zenon
<1>3. T = {}
    <2> SUFFICES ASSUME T # {} PROVE FALSE
        BY Zenon
    <2>0. T \in SUBSET Nat /\ \A n \in Nat : n \in T <=> ~Good(n)
        BY Zenon
    <2> HIDE DEF T, Good
    <2>1. PICK m \in T : \A n \in T : m <= n
        BY <2>0, LeastElement
    <2>2. m # 0 /\ m \in Nat
        BY <1>1, <2>0, <2>1
    <2>3. m - 1 \in Nat /\ m - 1 \notin T
        BY <2>1, <2>2
    <2>4. Good((m - 1) + 1)
        BY <1>2, <2>0, <2>3
    <2> QED
        BY <2>0, <2>1, <2>2, <2>4
<1>4. Cardinality(S) \in Nat
    BY FS_CardinalityType
<1>5. Good(Cardinality(S))
    BY <1>3, <1>4, Zenon
<1>6. D(Cardinality(S)) = SUBSET S
    BY FS_Subset
<1>7. \E g : g = [s \in SUBSET S |-> Plus(f, g, s)]
    BY <1>5, <1>6, Zenon
<1> QED
    BY <1>7, Zenon DEF Partial

\* A finite sum of naturals is a natural, and 0 when there is nothing to add.
LEMMA PartialType ==
    ASSUME NEW S, IsFiniteSet(S), NEW f \in [S -> Nat]
    PROVE  Partial(f, S)[S] \in Nat /\ (S = {} => Partial(f, S)[S] = 0)
<1> DEFINE g == Partial(f, S)
           T == {n \in Nat : \E s \in SUBSET S : Cardinality(s) = n /\ g[s] \notin Nat}
<1>0. g = [s \in SUBSET S |-> Plus(f, g, s)]
    BY PartialIs, Zenon
<1> HIDE DEF g
<1>1. \A s \in SUBSET S : g[s] = Plus(f, g, s)
    BY <1>0, Zenon
<1>2. T = {}
    <2> SUFFICES ASSUME T # {} PROVE FALSE
        OBVIOUS
    <2>1. PICK m \in T : \A n \in T : m <= n
        BY LeastElement, Zenon
    <2>2. PICK s \in SUBSET S : Cardinality(s) = m /\ g[s] \notin Nat
        OBVIOUS
    <2>3. s # {}
        <3>1. Plus(f, g, {}) = 0
            BY DEF Plus
        <3>2. g[s] = Plus(f, g, s)
            BY <1>1
        <3> QED
            BY <2>2, <3>1, <3>2
    <2>4. /\ Pick(s) \in S /\ s \ {Pick(s)} \in SUBSET S
          /\ Cardinality(s \ {Pick(s)}) = m - 1 /\ m - 1 \in Nat
        BY <2>2, <2>3, Fewer
    <2>5. g[s \ {Pick(s)}] \in Nat
        BY <2>1, <2>4
    <2>6. g[s] = f[Pick(s)] + g[s \ {Pick(s)}]
        BY <1>1, <2>3, Zenon DEF Plus
    <2> QED
        BY <2>2, <2>4, <2>5, <2>6
<1>3. g[S] \in Nat
    BY <1>2, FS_CardinalityType
<1>4. S = {} => g[S] = 0
    BY <1>1, Zenon DEF Plus
<1> QED
    BY <1>3, <1>4 DEF g

\* What the feed contributes is such a sum, ...
LEMMA SumType ==
    ASSUME NEW counts, NEW keys, IsFiniteSet(keys), \A k \in keys : counts[k] \in Nat
    PROVE  Sum(counts, keys) \in Nat
<1> DEFINE h == [k \in keys |-> counts[k]]
<1>1. Sum(counts, keys) = Partial(h, keys)[keys]
    BY ZenonT(40) DEF Sum, MapThenSumSet, MapThenFoldSet, Partial, Plus, Pick
<1>2. h \in [keys -> Nat]
    OBVIOUS
<1> QED
    BY <1>1, <1>2, PartialType

\* ... those of a sample over the fanouts of its runs, and 0 where it has none.
LEMMA FanoutType ==
    ASSUME NEW S, IsFiniteSet(S), \A i \in S : runs[i].kind.fanout \in Nat
    PROVE  /\ MapThenSumSet(LAMBDA i : runs[i].kind.fanout, S) \in Nat
           /\ S = {} => MapThenSumSet(LAMBDA i : runs[i].kind.fanout, S) = 0
<1> DEFINE h == [i \in S |-> runs[i].kind.fanout]
<1>1. MapThenSumSet(LAMBDA i : runs[i].kind.fanout, S) = Partial(h, S)[S]
    BY ZenonT(30) DEF MapThenSumSet, MapThenFoldSet, Partial, Plus, Pick
<1>2. h \in [S -> Nat]
    OBVIOUS
<1> QED
    BY <1>1, <1>2, PartialType

-----------------------------------------------------------------------------
(* Type correctness.                                                       *)

\* A part of 1..n that has, with an index, all those before it is an initial segment.
LEMMA Segment ==
    ASSUME NEW n \in Nat, NEW D \in SUBSET (1..n), \A i \in D : \A j \in 1..i : j \in D
    PROVE  \E k \in 0..n : D = 1..k
<1>1. CASE D = 1..n
    BY <1>1
<1>2. CASE D # 1..n
    <2>1. (1..n) \ D \in SUBSET Nat /\ (1..n) \ D # {}
        <3>1. \E i \in 1..n : i \notin D
            BY <1>2, Zenon
        <3> QED
            BY <3>1
    <2>2. PICK m \in (1..n) \ D : \A i \in (1..n) \ D : m <= i
        BY <2>1, LeastElement, Zenon
    <2>3. \A i \in 1..n : i \in D <=> i <= m - 1
        BY <2>2
    <2>4. m - 1 \in 0..n
        BY <2>2
    <2>5. D \subseteq 1..(m - 1)
        BY <2>3, <2>4
    <2>6. 1..(m - 1) \subseteq D
        BY <2>3, <2>4
    <2> QED
        BY <2>4, <2>5, <2>6, Zenon
<1> QED
    BY <1>1, <1>2

\* A sequence is a function on an initial segment, ...
LEMMA SequenceIs ==
    ASSUME NEW S, NEW s \in Seq(S)
    PROVE  Len(s) \in Nat /\ DOMAIN s = 1..Len(s) /\ \A i \in 1..Len(s) : s[i] \in S
OBVIOUS

\* ... and such a function is a sequence.
LEMMA MakesSequence ==
    ASSUME NEW S, NEW m \in Nat, NEW s \in [1..m -> S]
    PROVE  s \in Seq(S) /\ Len(s) = m /\ DOMAIN s = 1..m
OBVIOUS

RunRecords == [kind: Kinds, age: 0..(SampleWindow - 1)]
Feeds == [last: 0..Stale, jobs: [Keys -> 0..MaxJobs]]
Statuses == [until: Windows, source: Sources]
Calls == [at: {"idle", "sample", "listed", "write"}, until: Windows, source: Sources,
          contrib: Nat, since: NoTime..SampleTime]

\* The listing is the newest runs, newest first: what leaves the window leaves at
\* its end.
NewestFirst == \A i \in DOMAIN runs : \A j \in 1..i : runs[j].age <= runs[i].age

TypeInv == TypeOK /\ NewestFirst

\* What the types say of the listing.
LEMMA ListingIs ==
    ASSUME TypeInv
    PROVE  /\ Len(runs) \in Nat /\ Len(runs) <= RunsCap /\ DOMAIN runs = 1..Len(runs)
           /\ \A i \in 1..Len(runs) : /\ runs[i] \in RunRecords
                                      /\ runs[i].kind \in Kinds
                                      /\ runs[i].age \in 0..(SampleWindow - 1)
                                      /\ \A j \in 1..i : runs[j].age <= runs[i].age
<1>1. runs \in Seq(RunRecords) /\ Len(runs) <= RunsCap
    BY DEF TypeInv, TypeOK, RunRecords
<1>2. /\ Len(runs) \in Nat /\ DOMAIN runs = 1..Len(runs)
      /\ \A i \in 1..Len(runs) : runs[i] \in RunRecords
    BY <1>1, SequenceIs
<1>3. \A i \in 1..Len(runs) : runs[i].kind \in Kinds /\ runs[i].age \in 0..(SampleWindow - 1)
    BY <1>2 DEF RunRecords
<1>4. \A i \in 1..Len(runs) : \A j \in 1..i : runs[j].age <= runs[i].age
    BY <1>2 DEF TypeInv, NewestFirst
<1> QED
    BY <1>1, <1>2, <1>3, <1>4

\* What the windows and an idle policy are made of.
LEMMA LegConstants ==
    /\ SampleWindow \in Windows /\ NoTime \in Windows /\ Windows \subseteq Int
    /\ \A n \in 0..ActiveWindow : n \in Windows
    /\ \A u \in Windows : Sooner(u) \in Windows
    /\ NoStatus \in Statuses /\ Resting \in Calls
    /\ Stale \in Nat /\ Longest \in Nat
<1>1. /\ SampleWindow \in Windows /\ NoTime \in Windows /\ Windows \subseteq Int
      /\ \A n \in 0..ActiveWindow : n \in Windows
      /\ \A u \in Windows : Sooner(u) \in Windows
    BY LegAssumption DEF Windows, NoTime, Sooner
<1>2. NoStatus \in Statuses /\ Resting \in Calls
    BY <1>1, LegAssumption DEF NoStatus, Resting, Statuses, Calls, Sources, NoTime
<1>3. Stale \in Nat /\ Longest \in Nat
    BY LegAssumption DEF Stale, Longest, Polled
<1> QED
    BY <1>1, <1>2, <1>3

\* A reconcile's step replaces one policy's call.
LEMMA TypeCall ==
    ASSUME TypeInv, NEW p \in Policies, NEW call \in Calls,
           leg' = [leg EXCEPT ![p] = call],
           UNCHANGED <<runs, feed, stored, quiet, newest>>,
           prev' = prev \/ \E until : EmitActiveWindowMetrics(p, until)
    PROVE  TypeInv'
<1>1. leg' \in [Policies -> Calls]
    BY DEF TypeInv, TypeOK, Calls
<1>2. prev' \in [Names -> BOOLEAN]
    <2>1. prev \in [Names -> BOOLEAN]
        BY DEF TypeInv, TypeOK
    <2>2. CASE prev' = prev
        BY <2>1, <2>2
    <2>3. ASSUME NEW until, EmitActiveWindowMetrics(p, until) PROVE prev' \in [Names -> BOOLEAN]
        <3>1. prev' = [prev EXCEPT ![Name[p]] = (until > 0)] /\ (until > 0) \in BOOLEAN
            BY <2>3 DEF EmitActiveWindowMetrics, Active
        <3> QED
            BY <2>1, <3>1, Zenon
    <2> QED
        BY <2>2, <2>3
<1> QED
    BY <1>1, <1>2 DEF TypeInv, TypeOK, Calls, NewestFirst

\* The jobs a policy wants, and the runs a sample finds, add up to a number.
LEMMA ContribType ==
    ASSUME TypeInv, NEW p \in Policies, NEW S \in SUBSET DOMAIN runs
    PROVE  /\ Sum(feed.jobs, Config[p].wants) \in Nat
           /\ MapThenSumSet(LAMBDA i : runs[i].kind.fanout, S) \in Nat
           /\ S = {} => MapThenSumSet(LAMBDA i : runs[i].kind.fanout, S) = 0
<1>1. \A k \in Config[p].wants : feed.jobs[k] \in Nat
    BY LegAssumption DEF TypeInv, TypeOK
<1>2. Sum(feed.jobs, Config[p].wants) \in Nat
    BY <1>1, LegAssumption, SumType
<1>3. Len(runs) \in Nat /\ DOMAIN runs = 1..Len(runs) /\ \A i \in S : runs[i].kind \in Kinds
    BY ListingIs
<1>4. IsFiniteSet(S)
    <2>1. IsFiniteSet(1..Len(runs))
        BY <1>3, FS_Interval
    <2> QED
        BY <1>3, <2>1, FS_Subset
<1>5. \A i \in S : runs[i].kind.fanout \in Nat
    BY <1>3, LegAssumption
<1> QED
    BY <1>2, <1>4, <1>5, FanoutType, Zenon

\* The steps of a reconcile keep the types.
LEMMA TypeReconciles ==
    ASSUME TypeInv, NEW p \in Policies, Reconciles(p)
    PROVE  TypeInv'
<1>0. /\ leg[p] \in Calls /\ stored[p] \in Statuses /\ NoTime \in NoTime..SampleTime
      /\ 0 \in NoTime..SampleTime
    BY LegAssumption DEF TypeInv, TypeOK, Calls, Statuses, NoTime
<1>1. ASSUME NEW at \in {"sample", "listed", "write"}, NEW until \in Windows,
             NEW source \in Sources, NEW contrib \in Nat, NEW since \in NoTime..SampleTime
      PROVE  [at |-> at, until |-> until, source |-> source, contrib |-> contrib,
              since |-> since] \in Calls
    BY DEF Calls
<1>2. ASSUME NEW until \in Windows, NEW source \in Sources, NEW contrib \in Nat,
             Computed(p, until, source, contrib),
             UNCHANGED <<runs, feed, stored, quiet, newest>>
      PROVE  TypeInv'
    BY <1>0, <1>1, <1>2, TypeCall, Zenon DEF Computed
<1>3. CASE FromFeed(p)
    <2>1. ActiveWindow - feed.last \in Windows
        <3>1. feed.last \in 0..Stale
            BY DEF TypeInv, TypeOK
        <3>2. ActiveWindow - feed.last \in 0..ActiveWindow
            BY <1>3, <3>1, LegAssumption DEF FromFeed, UsesFeed, FeedFresh, Stale
        <3> QED
            BY <3>2, LegConstants
    <2>2. Sum(feed.jobs, Config[p].wants) \in Nat /\ "webhook" \in Sources
        BY ContribType, Zenon DEF Sources
    <2> QED
        BY <1>2, <1>3, <2>1, <2>2 DEF FromFeed
<1>4. CASE Disabled(p)
    BY <1>0, <1>2, <1>4 DEF Disabled, Statuses
<1>5. CASE Polls(p)
    BY <1>0, <1>1, <1>5, TypeCall, Zenon DEF Polls, Statuses
<1>6. CASE SampleFails(p)
    BY <1>0, <1>2, <1>6 DEF SampleFails, Calls
<1>7. CASE FromSample(p)
    BY <1>0, <1>2, <1>7, LegConstants, Zenon DEF FromSample, Calls, Sources
<1>8. ASSUME NEW lost \in SUBSET (1..RunsCap), ListRuns(p, lost)
      PROVE  TypeInv'
    <2> DEFINE mine == {i \in Sample(p, lost) : runs[i].kind.key \in Config[p].wants}
               contrib == MapThenSumSet(LAMBDA i : runs[i].kind.fanout, mine)
               since == IF mine = {} THEN NoTime ELSE 0
    <2>1. /\ leg' = [leg EXCEPT ![p] = [at |-> "listed", until |-> leg[p].until,
                                        source |-> leg[p].source, contrib |-> contrib,
                                        since |-> since]]
          /\ UNCHANGED <<runs, feed, stored, prev, quiet, newest>>
        BY <1>8, SMTT(30) DEF ListRuns
    <2>2. mine \in SUBSET DOMAIN runs
        BY DEF Sample
    <2>3. contrib \in Nat
        <3> HIDE DEF mine
        <3> QED BY <2>2, ContribType, Zenon
    <2>4. since \in NoTime..SampleTime /\ leg[p].until \in Windows /\ leg[p].source \in Sources
        BY <1>0 DEF Calls
    <2> HIDE DEF mine, contrib, since
    <2> QED
        BY <1>1, <2>1, <2>3, <2>4, TypeCall, Zenon
<1>9. ASSUME NEW ok \in BOOLEAN, WriteStatus(p, ok)
      PROVE  TypeInv'
    <2>1. stored' \in [Policies -> Statuses]
        BY <1>0, <1>9 DEF WriteStatus, TypeInv, TypeOK, Statuses, Calls
    <2>2. leg' \in [Policies -> Calls]
        BY <1>9, LegConstants, SMTT(30) DEF WriteStatus, TypeInv, TypeOK, Calls
    <2> QED
        BY <1>9, <2>1, <2>2 DEF WriteStatus, TypeInv, TypeOK, Calls, Statuses, NewestFirst
<1> QED
    BY <1>3, <1>4, <1>5, <1>6, <1>7, <1>8, <1>9 DEF Reconciles

\* So do the repository, the clock and the process.
LEMMA TypeOther ==
    ASSUME TypeInv,
           \/ \E kind \in Kinds : RunStarts(kind)
           \/ \E k \in Keys : RecordJob(k)
           \/ RecordPush \/ Tick \/ Restart \/ Settle \/ UNCHANGED vars
    PROVE  TypeInv'
<1> USE LegAssumption
<1> DEFINE n == Len(runs)
<1>0. /\ n \in Nat /\ n <= RunsCap /\ DOMAIN runs = 1..n
      /\ \A i \in 1..n : runs[i] \in RunRecords /\ \A j \in 1..i : runs[j].age <= runs[i].age
    BY ListingIs
<1>a. \A i \in 1..n : runs[i].kind \in Kinds /\ runs[i].age \in 0..(SampleWindow - 1)
    BY ListingIs, SMTT(30)
<1>1. ASSUME NEW kind \in Kinds, RunStarts(kind)
      PROVE  TypeInv'
    <2> DEFINE m == IF n < RunsCap THEN n + 1 ELSE RunsCap
               new == [kind |-> kind, age |-> 0]
    <2>1. {1} \cup {j \in 2..RunsCap : j - 1 \in 1..n} = 1..m /\ m \in Nat
        BY <1>0, SMTT(30)
    <2>2. runs' = [i \in 1..m |-> IF i = 1 THEN new ELSE runs[i - 1]]
        BY <1>0, <1>1, <2>1 DEF RunStarts
    <2>3. new \in RunRecords
        BY DEF RunRecords
    <2>4. \A i \in 1..m : i # 1 => i - 1 \in 1..n
        BY <1>0
    <2> HIDE DEF m, new, n
    <2>5. runs' \in [1..m -> RunRecords]
        BY <1>0, <2>2, <2>3, <2>4
    <2>6. runs' \in Seq(RunRecords) /\ Len(runs') = m /\ DOMAIN runs' = 1..m
        BY <2>1, <2>5, MakesSequence
    <2>7. m <= RunsCap
        BY <1>0 DEF m
    <2>8. ASSUME NEW i \in 1..m, NEW j \in 1..i PROVE runs'[j].age <= runs'[i].age
        <3>1. CASE j = 1
            <4>1. runs'[1].age = 0 /\ runs'[i] \in RunRecords
                BY <2>1, <2>2, <2>5, SMTT(30) DEF new
            <4> QED
                BY <3>1, <4>1 DEF RunRecords
        <3>2. CASE j # 1
            <4>1. /\ runs'[j] = runs[j - 1] /\ runs'[i] = runs[i - 1]
                  /\ i - 1 \in 1..n /\ j - 1 \in 1..(i - 1)
                BY <2>1, <2>2, <2>4, <3>2, SMTT(30)
            <4> QED
                BY <1>0, <4>1
        <3> QED
            BY <3>1, <3>2
    <2>9. newest' \in 0..Longest
        <3>1. newest' \in {0, newest}
            BY <1>1, Zenon DEF RunStarts
        <3>2. newest \in 0..Longest
            BY Zenon DEF TypeInv, TypeOK
        <3>3. 0 \in 0..Longest
            BY LegConstants
        <3> QED BY <3>1, <3>2, <3>3, Zenon
    <2>10. UNCHANGED <<feed, stored, leg, prev, quiet>>
        BY <1>1, Zenon DEF RunStarts
    <2> QED
        BY <2>6, <2>7, <2>8, <2>9, <2>10 DEF TypeInv, TypeOK, RunRecords, NewestFirst
<1>2. CASE RecordPush \/ \E k \in Keys : RecordJob(k)
    <2>1. feed' \in Feeds
        <3>1. feed.jobs \in [Keys -> 0..MaxJobs] /\ feed \in Feeds /\ 0 \in 0..Stale
            BY LegConstants, SMTT(30) DEF TypeInv, TypeOK, Feeds
        <3>2. CASE RecordPush
            BY <3>1, <3>2 DEF RecordPush, Feeds
        <3>3. ASSUME NEW k \in Keys, RecordJob(k) PROVE feed' \in Feeds
            <4>1. [feed.jobs EXCEPT ![k] = @ + 1] \in [Keys -> 0..MaxJobs]
                <5>1. feed.jobs[k] \in 0..MaxJobs /\ feed.jobs[k] < MaxJobs
                    BY <3>1, <3>3, Zenon DEF RecordJob
                <5>2. \A m \in 0..MaxJobs : m < MaxJobs => m + 1 \in 0..MaxJobs
                    BY LegAssumption
                <5>3. feed.jobs[k] + 1 \in 0..MaxJobs
                    BY <5>1, <5>2, Zenon
                <5> QED BY <3>1, <5>3, Zenon
            <4> QED
                BY <3>1, <3>3, <4>1 DEF RecordJob, Feeds
        <3> QED
            BY <1>2, <3>2, <3>3
    <2>2. newest' \in 0..Longest
        BY <1>2, LegConstants DEF RecordPush, RecordJob
    <2>3. UNCHANGED <<runs, stored, leg, prev, quiet>>
        BY <1>2 DEF RecordPush, RecordJob
    <2> QED
        BY <2>1, <2>2, <2>3 DEF TypeInv, TypeOK, Feeds, NewestFirst
<1>3. CASE Tick
    <2> DEFINE D == {j \in 1..n : runs[j].age + 1 < SampleWindow}
    <2>1. PICK m \in 0..n : D = 1..m
        <3>1. \A i \in D : \A j \in 1..i : j \in D
            <4> SUFFICES ASSUME NEW i \in D, NEW j \in 1..i PROVE j \in D
                OBVIOUS
            <4>1. i \in 1..n /\ j \in 1..n /\ runs[i].age + 1 < SampleWindow
                BY <1>0
            <4>2. runs[i].age \in Nat /\ runs[j].age \in Nat /\ runs[j].age <= runs[i].age
                BY <1>0, <1>a, <4>1
            <4> QED
                BY <4>1, <4>2
        <3>2. D \in SUBSET (1..n)
            OBVIOUS
        <3>3. n \in Nat
            BY <1>0
        <3> HIDE DEF D, n
        <3> QED
            BY <3>1, <3>2, <3>3, Segment, Zenon
    <2>2. runs' = [i \in 1..m |-> [runs[i] EXCEPT !.age = @ + 1]]
        <3>1. {j \in DOMAIN runs : runs[j].age + 1 < SampleWindow} = 1..m
            BY <1>0, <2>1
        <3> QED
            BY <1>3, <3>1, Zenon DEF Tick
    <2>3. \A i \in 1..m : runs[i].age + 1 < SampleWindow /\ i \in 1..n
        BY <2>1
    <2> HIDE DEF D, n
    <2>4. ASSUME NEW i \in 1..m
          PROVE  runs'[i].age = runs[i].age + 1 /\ runs'[i] \in RunRecords
        <3>1. runs'[i] = [runs[i] EXCEPT !.age = @ + 1] /\ i \in 1..n
            BY <2>2, <2>3
        <3>2. runs[i] \in RunRecords /\ runs[i].age + 1 \in 0..(SampleWindow - 1)
            BY <1>0, <1>a, <2>3
        <3> QED
            BY <3>1, <3>2 DEF RunRecords
    <2>5. runs' \in Seq(RunRecords) /\ Len(runs') = m /\ DOMAIN runs' = 1..m
        <3>1. m \in Nat /\ runs' \in [1..m -> RunRecords]
            BY <1>0, <2>2, <2>4
        <3> QED
            BY <3>1, MakesSequence
    <2>a. m <= RunsCap
        BY <1>0
    <2>6. ASSUME NEW i \in 1..m, NEW j \in 1..i PROVE runs'[j].age <= runs'[i].age
        <3>0. j \in 1..m
            OBVIOUS
        <3>1. /\ runs'[j].age = runs[j].age + 1 /\ runs'[i].age = runs[i].age + 1
              /\ j \in 1..n /\ i \in 1..n
            BY <2>3, <2>4, <3>0
        <3> QED
            BY <1>0, <1>a, <3>1, SMTT(30)
    <2>7. newest' \in 0..Longest /\ feed' \in Feeds
        <3>1. newest \in 0..Longest /\ feed \in Feeds /\ feed.last \in 0..Stale
            BY DEF TypeInv, TypeOK, Feeds
        <3>a. \A cap \in Nat : \A a \in 0..cap : Older(a, cap) \in 0..cap
            BY DEF Older
        <3>b. newest' = Older(newest, Longest)
            BY <1>3, Zenon DEF Tick
        <3>2. newest' \in 0..Longest /\ Older(feed.last, Stale) \in 0..Stale
            BY <3>a, <3>b, <3>1, LegConstants, Zenon
        <3> QED
            BY <1>3, <3>1, <3>2, Zenon DEF Tick, Feeds
    <2>8. stored' \in [Policies -> Statuses]
        BY <1>3, LegConstants, Zenon DEF Tick, TypeInv, TypeOK, Statuses
    <2>9. leg' \in [Policies -> Calls]
        <3>1. ASSUME NEW p \in Policies PROVE leg'[p] \in Calls
            <4> DEFINE since == IF leg[p].since = NoTime THEN NoTime ELSE leg[p].since + 1
            <4>1. leg[p] \in Calls /\ leg[p].until \in Windows /\ leg[p].since \in NoTime..SampleTime
                BY DEF TypeInv, TypeOK, Calls
            <4>2. leg'[p] = [leg[p] EXCEPT !.until = Sooner(@), !.since = since]
                  /\ leg[p].since < SampleTime
                BY <1>3, <4>1, Zenon DEF Tick, Calls
            <4>3. Sooner(leg[p].until) \in Windows /\ since \in NoTime..SampleTime
                BY <4>1, <4>2, LegConstants DEF NoTime
            <4> HIDE DEF since
            <4> QED
                BY <4>1, <4>2, <4>3, Zenon DEF Calls
        <3> QED
            BY <1>3, <3>1, Zenon DEF Tick
    <2>10. UNCHANGED <<prev, quiet>>
        BY <1>3, ZenonT(30) DEF Tick
    <2> QED
        BY <2>5, <2>a, <2>6, <2>7, <2>8, <2>9, <2>10, ZenonT(30)
        DEF TypeInv, TypeOK, RunRecords, Feeds, Statuses, Calls, NewestFirst
<1>4. CASE Restart
    <2>1. /\ feed' \in [last: 0..Stale, jobs: [Keys -> 0..MaxJobs]]
          /\ leg' \in [Policies -> Calls] /\ prev' \in [Names -> BOOLEAN]
        <3>1. Stale \in 0..Stale /\ 0 \in 0..MaxJobs
            BY LegConstants, LegAssumption
        <3> QED BY <1>4, <3>1, LegConstants, Zenon DEF Restart
    <2> QED
        BY <1>4, <2>1, ZenonT(30) DEF Restart, TypeInv, TypeOK, Calls, NewestFirst
<1>5. CASE Settle \/ UNCHANGED vars
    BY <1>5, Zenon DEF Settle, vars, TypeInv, TypeOK, NewestFirst
<1> QED
    BY <1>1, <1>2, <1>3, <1>4, <1>5

\* The types hold from the start and are kept.
LEMMA TypeAlways == Spec => []TypeInv
<1>1. Init => TypeInv
    <2> SUFFICES ASSUME Init PROVE TypeInv
        OBVIOUS
    <2>1. runs = <<>> /\ NewestFirst
        BY DEF Init, NewestFirst
    <2>2. /\ feed \in [last: 0..Stale, jobs: [Keys -> 0..MaxJobs]]
          /\ stored \in [Policies -> Statuses] /\ leg \in [Policies -> Calls]
          /\ prev \in [Names -> BOOLEAN] /\ newest \in 0..Longest
        <3>1. Stale \in 0..Stale /\ 0 \in 0..MaxJobs /\ Longest \in 0..Longest
            BY LegConstants, LegAssumption
        <3> QED BY <3>1, LegConstants, Zenon DEF Init
    <2>3. runs \in Seq([kind: Kinds, age: 0..(SampleWindow - 1)]) /\ Len(runs) <= RunsCap
        BY <2>1, LegAssumption
    <2>4. quiet \in BOOLEAN
        BY Zenon DEF Init
    <2> QED
        BY <2>1, <2>2, <2>3, <2>4 DEF TypeInv, TypeOK, Statuses, Calls
<1>2. TypeInv /\ [Next]_vars => TypeInv'
    BY TypeReconciles, TypeOther DEF Next
<1> QED
    BY <1>1, <1>2, PTL DEF Spec

\* Every reachable state is well typed.  The listing stays a sequence because the
\* runs that age out of the sample window are always its last ones; contributions
\* are numbers because finitely many label sets and runs are added up.
THEOREM LegTypeCorrect == Spec => []TypeOK
<1>1. TypeInv => TypeOK
    BY SMTT(30) DEF TypeInv
<1> QED
    BY <1>1, TypeAlways, PTL

-----------------------------------------------------------------------------
(* What a contribution comes from.                                         *)

\* A reconcile that goes on to the poll brings nothing with it.
SampleIsFresh ==
    \A p \in Policies : leg[p].at = "sample" => leg[p].contrib = 0 /\ leg[p].since = NoTime

\* Where a policy's call stands after a step of its own reconcile.
LEMMA OwnStep ==
    ASSUME TypeInv, SampleIsFresh, NEW p \in Policies, Reconciles(p)
    PROVE  /\ \A q \in Policies : q # p => leg'[q] = leg[q]
           /\ leg'[p].at = "sample" => leg'[p].contrib = 0 /\ leg'[p].since = NoTime
           /\ leg[p].at = "sample" /\ (leg'[p].contrib > 0 \/ leg'[p].since # NoTime)
                => \E i \in DOMAIN runs : /\ Counts(p, runs[i].kind)
                                          /\ runs[i].kind.key \in Config[p].wants
<1>0. DOMAIN leg = Policies /\ leg \in [Policies -> Calls]
    BY DEF TypeInv, TypeOK, Calls
<1>1. ASSUME NEW at, NEW until, NEW source, NEW contrib, NEW since,
             leg' = [leg EXCEPT ![p] = [at |-> at, until |-> until, source |-> source,
                                        contrib |-> contrib, since |-> since]]
      PROVE  /\ \A q \in Policies : q # p => leg'[q] = leg[q]
             /\ leg'[p].at = at /\ leg'[p].contrib = contrib /\ leg'[p].since = since
    BY <1>0, <1>1
<1>a. ~(0 > 0)
    BY SMTT(30)
<1>2. CASE FromFeed(p)
    <2>1. /\ \A q \in Policies : q # p => leg'[q] = leg[q]
          /\ leg'[p].at = "write" /\ leg[p].at = "idle"
        BY <1>1, <1>2, Zenon DEF FromFeed, Computed
    <2> QED
        BY <2>1, Zenon
<1>3. CASE Disabled(p) \/ Polls(p) \/ SampleFails(p)
    <2>1. /\ \A q \in Policies : q # p => leg'[q] = leg[q]
          /\ leg'[p].contrib = 0 /\ leg'[p].since = NoTime
        BY <1>1, <1>3 DEF Disabled, Polls, SampleFails, Computed
    <2> QED
        BY <1>a, <2>1, Zenon
<1>4. CASE FromSample(p)
    <2>1. /\ leg[p].at = "listed"
          /\ \E until, source : Computed(p, until, source, leg[p].contrib)
        BY <1>4, Zenon DEF FromSample
    <2> QED
        BY <1>1, <2>1, SMTT(30) DEF Computed
<1>5. ASSUME NEW lost \in SUBSET (1..RunsCap), ListRuns(p, lost)
      PROVE  /\ \A q \in Policies : q # p => leg'[q] = leg[q]
             /\ leg'[p].at = "listed" /\ leg[p].at = "sample"
             /\ leg'[p].contrib > 0 \/ leg'[p].since # NoTime
                  => \E i \in DOMAIN runs : /\ Counts(p, runs[i].kind)
                                            /\ runs[i].kind.key \in Config[p].wants
    <2> DEFINE mine == {i \in Sample(p, lost) : runs[i].kind.key \in Config[p].wants}
               contrib == MapThenSumSet(LAMBDA i : runs[i].kind.fanout, mine)
               since == IF mine = {} THEN NoTime ELSE 0
    <2>1. /\ leg' = [leg EXCEPT ![p] = [at |-> "listed", until |-> leg[p].until,
                                        source |-> leg[p].source, contrib |-> contrib,
                                        since |-> since]]
          /\ leg[p].at = "sample"
        BY <1>5 DEF ListRuns
    <2>2. mine \in SUBSET DOMAIN runs
        BY DEF Sample
    <2>3. mine = {} => contrib = 0 /\ since = NoTime
        <3>1. mine = {} => contrib = 0
            <4> HIDE DEF mine
            <4> QED BY <2>2, ContribType, Zenon
        <3> QED
            BY <3>1
    <2>4. \A i \in mine : /\ i \in DOMAIN runs /\ Counts(p, runs[i].kind)
                          /\ runs[i].kind.key \in Config[p].wants
        BY DEF Sample
    <2> HIDE DEF mine, contrib, since
    <2>5. /\ \A q \in Policies : q # p => leg'[q] = leg[q]
          /\ leg'[p].at = "listed" /\ leg'[p].contrib = contrib /\ leg'[p].since = since
        BY <1>1, <2>1, Zenon
    <2> QED
        BY <2>1, <2>3, <2>4, <2>5
<1>6. ASSUME NEW ok \in BOOLEAN, WriteStatus(p, ok)
      PROVE  /\ \A q \in Policies : q # p => leg'[q] = leg[q]
             /\ leg'[p].at = "idle" /\ leg[p].at = "write"
    BY <1>0, <1>6, Zenon DEF WriteStatus, Resting
<1>7. CASE \E lost \in SUBSET (1..RunsCap) : ListRuns(p, lost)
    BY <1>5, <1>7, ZenonT(30)
<1>8. CASE \E ok \in BOOLEAN : WriteStatus(p, ok)
    BY <1>6, <1>8, ZenonT(30)
<1> QED
    BY <1>2, <1>3, <1>4, <1>7, <1>8, Zenon DEF Reconciles

\* The other steps leave where a call stands and what it contributes, or end it.
LEMMA OtherStep ==
    ASSUME TypeInv, [Next]_vars, NEW p \in Policies, \A q \in Policies : ~Reconciles(q)
    PROVE  \/ leg'[p].at = leg[p].at /\ leg'[p].contrib = leg[p].contrib
              /\ (leg[p].since = NoTime => leg'[p].since = NoTime)
           \/ leg'[p] = Resting
<1>0. leg[p] \in Calls
    BY DEF TypeInv, TypeOK, Calls
<1>1. CASE Tick
    BY <1>0, <1>1, Zenon DEF Tick, Calls
<1>2. CASE Restart
    BY <1>2 DEF Restart
<1>3. CASE ~Tick /\ ~Restart
    <2>1. leg' = leg
        BY <1>3, Zenon DEF Next, vars, RunStarts, RecordJob, RecordPush, Settle
    <2> QED
        BY <2>1
<1> QED
    BY <1>1, <1>2, <1>3

\* Where the automation of a repository is recognisable, what a poll contributes, and
\* the window it opens, come from a listed run of a person for labels the policy wants,
\* in every interleaving with events, other policies, restarts and the clock.
THEOREM SamplesHaveCause == AutomationIsKnown => (Spec => SampleHasCause)
<1> SUFFICES ASSUME AutomationIsKnown PROVE Spec => SampleHasCause
    OBVIOUS
<1>0. /\ Resting.at = "idle" /\ Resting.contrib = 0 /\ Resting.since = NoTime
      /\ "idle" # "sample" /\ "idle" # "write" /\ "sample" # "write"
    BY DEF Resting
<1>1. Init => SampleIsFresh
    <2> SUFFICES ASSUME Init, NEW p \in Policies PROVE leg[p] = Resting
        BY <1>0, Zenon DEF SampleIsFresh
    <2> QED
        BY DEF Init
<1>2. TypeInv /\ SampleIsFresh /\ [Next]_vars => SampleIsFresh'
    <2> SUFFICES ASSUME TypeInv, SampleIsFresh, [Next]_vars, NEW p \in Policies,
                        leg'[p].at = "sample"
                 PROVE  leg'[p].contrib = 0 /\ leg'[p].since = NoTime
        BY SMTT(30) DEF SampleIsFresh
    <2>1. ASSUME NEW q \in Policies, Reconciles(q)
          PROVE  leg'[p].contrib = 0 /\ leg'[p].since = NoTime
        BY <2>1, OwnStep DEF SampleIsFresh
    <2>2. CASE \A q \in Policies : ~Reconciles(q)
        <3>1. \/ leg'[p].at = leg[p].at /\ leg'[p].contrib = leg[p].contrib
                 /\ (leg[p].since = NoTime => leg'[p].since = NoTime)
              \/ leg'[p] = Resting
            BY <2>2, OtherStep
        <3> QED
            BY <1>0, <3>1, Zenon DEF SampleIsFresh
    <2> QED
        BY <2>1, <2>2
<1>3. TypeInv /\ SampleIsFresh /\ [Next]_vars =>
        [\A p \in Policies :
           leg[p].at = "sample" /\ (leg'[p].contrib > 0 \/ leg'[p].since # NoTime)
               => PersonAtWork(p)]_vars
    <2> SUFFICES ASSUME TypeInv, SampleIsFresh, [Next]_vars, NEW p \in Policies
                 PROVE  leg[p].at = "sample" /\ (leg'[p].contrib > 0 \/ leg'[p].since # NoTime)
                            => PersonAtWork(p)
        BY Zenon
    <2>1. CASE Reconciles(p)
        <3>1. ASSUME NEW i \in DOMAIN runs, Counts(p, runs[i].kind) PROVE runs[i].kind.person
            <4>1. runs[i].kind \in Kinds
                BY ListingIs, SMTT(30)
            <4> QED
                BY <3>1, <4>1, Zenon DEF AutomationIsKnown, Counts, IsBotActor
        <3> QED
            BY <2>1, <3>1, OwnStep DEF PersonAtWork
    <2>2. ASSUME NEW q \in Policies, q # p, Reconciles(q) PROVE leg'[p] = leg[p]
        BY <2>2, OwnStep
    <2>3. CASE ~Reconciles(p)
        <3>1. \/ leg'[p].at = leg[p].at /\ leg'[p].contrib = leg[p].contrib
                 /\ (leg[p].since = NoTime => leg'[p].since = NoTime)
              \/ leg'[p] = Resting
            BY <2>2, <2>3, OtherStep
        <3>2. ~(0 > 0)
            OBVIOUS
        <3> QED
            BY <1>0, <3>1, <3>2, ZenonT(30) DEF SampleIsFresh
    <2> QED
        BY <2>1, <2>3
<1> QED
    BY <1>1, <1>2, <1>3, TypeAlways, PTL DEF Spec, SampleHasCause

-----------------------------------------------------------------------------
(* The schedule: minutes, days and weeks.                                  *)

\* Products keep the order.
LEMMA Product ==
    ASSUME NEW n \in Nat \ {0}, NEW a \in Int, NEW b \in Int
    PROVE  /\ a * n \in Int
           /\ a < b => (a + 1) * n <= b * n
           /\ (a + 1) * n = a * n + n
  OBVIOUS

\* Quotient and remainder.
LEMMA Division ==
    ASSUME NEW n \in Nat \ {0}, NEW a \in Int
    PROVE  /\ a \div n \in Int /\ a % n \in 0..(n - 1)
           /\ a = (a \div n) * n + (a % n)
  OBVIOUS

\* They are the only ones.
LEMMA Remainder ==
    ASSUME NEW n \in Nat \ {0}, NEW q \in Int, NEW r \in 0..(n - 1)
    PROVE  (q * n + r) \div n = q /\ (q * n + r) % n = r
  OBVIOUS

\* A day and a week have minutes.
LEMMA Lengths ==
    /\ DayMinutes \in Nat \ {0} /\ WeekMinutes \in Nat \ {0} /\ Len(Weekdays) \in Nat \ {0}
    /\ WeekMinutes = Len(Weekdays) * DayMinutes
<1>1. HoursPerDay \in Nat \ {0} /\ MinutesPerHour \in Nat \ {0} /\ Len(Weekdays) \in Nat \ {0}
    BY ScheduleAssumption
<1>2. DayMinutes \in Nat \ {0}
    BY <1>1 DEF DayMinutes
<1>3. WeekMinutes \in Nat \ {0}
    <2> HIDE DEF DayMinutes
    <2> QED BY <1>1, <1>2 DEF WeekMinutes
<1> QED BY <1>1, <1>2, <1>3 DEF WeekMinutes

\* A minute of the week is a minute of one of its days, which the code finds by
\* division.
LEMMA DayAndMinute ==
    ASSUME NEW local \in 0..(WeekMinutes - 1)
    PROVE  /\ local \div DayMinutes \in 0..(Len(Weekdays) - 1)
           /\ MinuteOfDay(local) \in 0..(DayMinutes - 1)
           /\ local = (local \div DayMinutes) * DayMinutes + MinuteOfDay(local)
<1> DEFINE d == local \div DayMinutes
           m == local % DayMinutes
<1>1. d \in Int /\ m \in 0..(DayMinutes - 1) /\ local = d * DayMinutes + m
    <2>1. DayMinutes \in Nat \ {0} /\ local \in Int
        BY Lengths
    <2> QED BY <2>1, Division, Zenon
<1> HIDE DEF d, m
<1>2. d >= 0
    <2> SUFFICES ASSUME d < 0 PROVE FALSE
        BY <1>1
    <2>1. (d + 1) * DayMinutes <= 0 * DayMinutes /\ (d + 1) * DayMinutes = d * DayMinutes + DayMinutes
          /\ d * DayMinutes \in Int
        BY <1>1, Lengths, Product
    <2>2. 0 * DayMinutes = 0
        BY Lengths
    <2> QED BY <1>1, <2>1, <2>2, Lengths
<1>3. d < Len(Weekdays)
    <2> SUFFICES ASSUME Len(Weekdays) <= d PROVE FALSE
        BY <1>1, Lengths
    <2>1. Len(Weekdays) * DayMinutes <= d * DayMinutes /\ d * DayMinutes \in Int
        BY <1>1, Lengths, Product
    <2> QED BY <1>1, <2>1, Lengths
<1> QED BY <1>1, <1>2, <1>3, Lengths DEF d, m, MinuteOfDay

\* And every minute of a day is one of the week.
LEMMA MinuteOfWeek ==
    ASSUME NEW d \in 0..(Len(Weekdays) - 1), NEW m \in 0..(DayMinutes - 1)
    PROVE  /\ d * DayMinutes + m \in 0..(WeekMinutes - 1)
           /\ (d * DayMinutes + m) \div DayMinutes = d
           /\ MinuteOfDay(d * DayMinutes + m) = m
<1>1. (d + 1) * DayMinutes <= Len(Weekdays) * DayMinutes
      /\ (d + 1) * DayMinutes = d * DayMinutes + DayMinutes /\ d * DayMinutes \in Int
    BY Lengths, Product
<1>2. d * DayMinutes >= 0
    BY Lengths
<1>3. d * DayMinutes + m \in 0..(WeekMinutes - 1)
    BY <1>1, <1>2, Lengths
<1>4. (d * DayMinutes + m) \div DayMinutes = d /\ (d * DayMinutes + m) % DayMinutes = m
    <2>1. DayMinutes \in Nat \ {0} /\ d \in Int
        BY Lengths
    <2> QED BY <2>1, Remainder, Zenon
<1> QED BY <1>3, <1>4, Zenon DEF MinuteOfDay

\* A reading of the clock is a minute of the day.
LEMMA Readings ==
    ASSUME NEW hm \in Clock
    PROVE  ToMinutes(hm) \in 0..(DayMinutes - 1)
<1>1. hm[1] \in 0..(HoursPerDay - 1) /\ hm[2] \in 0..(MinutesPerHour - 1)
    BY DEF Clock
<1>2. HoursPerDay \in Nat \ {0} /\ MinutesPerHour \in Nat \ {0}
    BY ScheduleAssumption
<1>3. (hm[1] + 1) * MinutesPerHour <= HoursPerDay * MinutesPerHour
      /\ (hm[1] + 1) * MinutesPerHour = hm[1] * MinutesPerHour + MinutesPerHour
      /\ hm[1] * MinutesPerHour \in Int
    BY <1>1, <1>2, Product
<1>4. hm[1] * MinutesPerHour >= 0
    BY <1>1, <1>2
<1>5. hm[1] * MinutesPerHour + hm[2] \in 0..(HoursPerDay * MinutesPerHour - 1)
    <2> DEFINE h == hm[1] * MinutesPerHour
               m == hm[2]
               n == HoursPerDay * MinutesPerHour
    <2>1. n \in Int /\ h \in Int /\ h >= 0 /\ h + MinutesPerHour <= n /\ m \in 0..(MinutesPerHour - 1)
        BY <1>1, <1>2, <1>3, <1>4
    <2> HIDE DEF h, m, n
    <2>2. h + m \in 0..(n - 1)
        BY <1>2, <2>1
    <2> QED BY <2>2 DEF h, m, n
<1> QED BY <1>5, Zenon DEF ToMinutes, DayMinutes

\* The place of a day in the week.
LEMMA DayIndexIs ==
    ASSUME NEW i \in 0..(Len(Weekdays) - 1)
    PROVE  DayIndex(Weekdays[i + 1]) = i
<1>1. DayIndex(Weekdays[i + 1]) \in 0..(Len(Weekdays) - 1)
      /\ Weekdays[DayIndex(Weekdays[i + 1]) + 1] = Weekdays[i + 1]
    BY Zenon DEF DayIndex
<1> QED BY <1>1, Lengths, ScheduleAssumption

\* A zone's clock and back.
There(a, off) == (a + off) % WeekMinutes
Back(b, off) == (b + WeekMinutes - off) % WeekMinutes

\* The one undoes the other.
LEMMA ThereAndBack ==
    ASSUME NEW a \in 0..(WeekMinutes - 1), NEW b \in 0..(WeekMinutes - 1), NEW off \in Int
    PROVE  There(a, off) = b <=> a = Back(b, off)
<1> DEFINE n == WeekMinutes
<1>0. n \in Nat \ {0}
    BY Lengths
<1> HIDE DEF n
<1>1. ASSUME (a + off) % n = b PROVE a = (b + n - off) % n
    <2> DEFINE k == (a + off) \div n
    <2>1. k \in Int /\ a + off = k * n + b
        BY <1>0, <1>1, Division DEF n
    <2> HIDE DEF k
    <2>2. (1 - k) * n = n - k * n /\ k * n \in Int
        BY <1>0, <2>1
    <2>3. b + n - off = (1 - k) * n + a
        BY <1>0, <2>1, <2>2 DEF n
    <2>4. ((1 - k) * n + a) % n = a
        BY <1>0, <2>1, Remainder DEF n
    <2> QED BY <2>3, <2>4
<1>2. ASSUME a = (b + n - off) % n PROVE (a + off) % n = b
    <2> DEFINE k == (b + n - off) \div n
    <2>1. k \in Int /\ b + n - off = k * n + a
        BY <1>0, <1>2, Division DEF n
    <2> HIDE DEF k
    <2>2. (1 - k) * n = n - k * n /\ k * n \in Int
        BY <1>0, <2>1
    <2>3. a + off = (1 - k) * n + b
        BY <1>0, <2>1, <2>2 DEF n
    <2>4. ((1 - k) * n + b) % n = b
        BY <1>0, <2>1, Remainder DEF n
    <2> QED BY <2>3, <2>4
<1> QED BY <1>1, <1>2 DEF n, There, Back

\* A window the code finds active in its own zone covers the instant in UTC, and
\* the other way round: across midnight and the end of the week, and at the
\* first and the last minute.
LEMMA ActiveIsCovered ==
    ASSUME NEW w \in Admitted, NEW t \in 0..(WeekMinutes - 1)
    PROVE  WindowActive(w, t) <=> w.tz \in DOMAIN ZoneOffset /\ t \in Covers(w)
<1> SUFFICES ASSUME w.tz \in DOMAIN ZoneOffset PROVE WindowActive(w, t) <=> t \in Covers(w)
    BY DEF WindowActive
<1> DEFINE off == ZoneOffset[w.tz]
           local == Local(t, w.tz)
           from == ToMinutes(w.from)
           to == ToMinutes(w.to)
           At(d, m) == (d * DayMinutes + m + WeekMinutes - off) % WeekMinutes
<1>1. off \in Int
    BY ScheduleAssumption, SMTT(30)
<1>2. from \in 0..(DayMinutes - 1) /\ to \in 0..(DayMinutes - 1)
    BY ScheduleAssumption, Readings
<1>3. local \in 0..(WeekMinutes - 1)
    <2>1. t + off \in Int /\ WeekMinutes \in Nat \ {0}
        BY <1>1, Lengths
    <2> QED BY <2>1, Division, Zenon DEF Local
<1>4. WindowActive(w, t) <=> /\ Weekdays[(local \div DayMinutes) + 1] \in w.days
                       /\ MinuteOfDay(local) >= from /\ MinuteOfDay(local) < to
    BY DEF WindowActive, WithinHHMM, LocalDay
<1>5. t \in Covers(w) <=> \E day \in w.days \cap {Weekdays[i] : i \in DOMAIN Weekdays} :
                            \E m \in from..(to - 1) : t = At(DayIndex(day), m)
    BY DEF Covers
<1>6. ASSUME NEW d \in 0..(Len(Weekdays) - 1), NEW m \in 0..(DayMinutes - 1)
      PROVE  t = At(d, m) <=> local = d * DayMinutes + m
    <2>1. d * DayMinutes + m \in 0..(WeekMinutes - 1)
        BY MinuteOfWeek
    <2>2. There(t, off) = d * DayMinutes + m <=> t = Back(d * DayMinutes + m, off)
        BY <1>1, <2>1, ThereAndBack, Zenon
    <2> QED BY <2>2, Zenon DEF Local, There, Back
<1>7. DOMAIN Weekdays = 1..Len(Weekdays)
    BY ScheduleAssumption
<1> HIDE DEF off, local, from, to, At
<1>8. ASSUME WindowActive(w, t) PROVE t \in Covers(w)
    <2> DEFINE d == local \div DayMinutes
               m == MinuteOfDay(local)
    <2>1. d \in 0..(Len(Weekdays) - 1) /\ m \in 0..(DayMinutes - 1) /\ local = d * DayMinutes + m
        BY <1>3, DayAndMinute
    <2>2. Weekdays[d + 1] \in w.days /\ m >= from /\ m < to
        BY <1>4, <1>8
    <2> HIDE DEF d, m
    <2>3. t = At(d, m)
        BY <1>6, <2>1, Zenon
    <2>4. DayIndex(Weekdays[d + 1]) = d
        BY <2>1, DayIndexIs
    <2>5. Weekdays[d + 1] \in {Weekdays[i] : i \in DOMAIN Weekdays} /\ m \in from..(to - 1)
        BY <1>2, <1>7, <2>1, <2>2, Lengths, SMTT(30)
    <2> QED BY <1>5, <2>2, <2>3, <2>4, <2>5, Zenon
<1>9. ASSUME t \in Covers(w) PROVE WindowActive(w, t)
    <2>1. PICK day \in w.days \cap {Weekdays[i] : i \in DOMAIN Weekdays}, m \in from..(to - 1) :
              t = At(DayIndex(day), m)
        BY <1>5, <1>9, Zenon
    <2>2. PICK d \in 0..(Len(Weekdays) - 1) : day = Weekdays[d + 1]
        <3>1. PICK i \in 1..Len(Weekdays) : day = Weekdays[i]
            BY <1>7, <2>1
        <3>2. i - 1 \in 0..(Len(Weekdays) - 1) /\ (i - 1) + 1 = i
            BY Lengths
        <3> QED BY <3>1, <3>2, Zenon
    <2>3. m \in 0..(DayMinutes - 1) /\ m >= from /\ m < to
        BY <1>2, Lengths
    <2>4. local = d * DayMinutes + m
        BY <1>6, <2>1, <2>2, <2>3, DayIndexIs, SMTT(30)
    <2>5. local \div DayMinutes = d /\ MinuteOfDay(local) = m
        BY <2>3, <2>4, MinuteOfWeek
    <2> QED BY <1>4, <2>1, <2>2, <2>3, <2>5
<1> QED BY <1>8, <1>9

-----------------------------------------------------------------------------
(* The scan of the windows.                                                *)

\* Induction up to a bound, with the set of the numbers it holds of.
LEMMA UpTo ==
    ASSUME NEW n \in Nat, NEW G, 0 \in G, \A i \in 1..n : i - 1 \in G => i \in G
    PROVE  \A i \in 0..n : i \in G
<1> DEFINE Bad == {i \in 0..n : i \notin G}
<1>1. SUFFICES ASSUME Bad # {} PROVE FALSE
    OBVIOUS
<1>2. Bad \in SUBSET Nat
    OBVIOUS
<1>3. PICK m \in Bad : \A i \in Bad : m <= i
    <2> HIDE DEF Bad
    <2> QED BY <1>1, <1>2, LeastElement
<1>4. m \in 1..n /\ m - 1 \in 0..n /\ m - 1 \notin Bad
    BY <1>3
<1> QED BY <1>3, <1>4

\* The best base after window i, and the scan as a function of i.
Better(windows, t, g, i) ==
    IF i = 0 THEN 0
    ELSE IF WindowActive(windows[i], t) /\ windows[i].base > g[i - 1]
         THEN windows[i].base
         ELSE g[i - 1]
Scan(windows, t) == CHOOSE g : g = [i \in 0..Len(windows) |-> Better(windows, t, g, i)]

\* The scan, step by step.
LEMMA ScanIs ==
    ASSUME NEW windows \in Seq(Admitted), NEW t
    PROVE  /\ ScheduleBase(windows, t) = Scan(windows, t)[Len(windows)]
           /\ Scan(windows, t) = [i \in 0..Len(windows) |-> Better(windows, t, Scan(windows, t), i)]
<1> DEFINE Exists(n) == \E g : g = [i \in 0..n |-> Better(windows, t, g, i)]
           G == {n \in Nat : Exists(n)}
<1>1. Len(windows) \in Nat
    OBVIOUS
<1>2. 0 \in G
    <2> DEFINE g == [i \in 0..0 |-> 0]
    <2>1. g = [i \in 0..0 |-> Better(windows, t, g, i)]
        BY DEF Better
    <2> QED BY <2>1, SMTT(30)
<1>3. ASSUME NEW n \in 1..Len(windows), n - 1 \in G
      PROVE  n \in G
    <2>1. PICK h : h = [i \in 0..(n - 1) |-> Better(windows, t, h, i)]
        BY <1>3
    <2> DEFINE g == [i \in 0..n |-> IF i = n THEN Better(windows, t, h, n) ELSE h[i]]
    <2>2. \A i \in 0..(n - 1) : g[i] = h[i] /\ h[i] = Better(windows, t, h, i)
        BY <2>1, SMTT(30)
    <2>3. \A i \in 0..n : g[i] = Better(windows, t, h, i)
        <3> TAKE i \in 0..n
        <3>1. i = n \/ i \in 0..(n - 1)
            OBVIOUS
        <3>2. g[n] = Better(windows, t, h, n)
            BY n \in 0..n
        <3> HIDE DEF g
        <3> QED BY <2>2, <3>1, <3>2, Zenon
    <2>4. \A i \in 0..n : Better(windows, t, h, i) = Better(windows, t, g, i)
        <3> TAKE i \in 0..n
        <3>1. CASE i = 0
            BY <3>1 DEF Better
        <3>2. CASE i # 0
            <4>1. g[i - 1] = h[i - 1]
                BY <2>2, <3>2
            <4> QED BY <4>1, Zenon DEF Better
        <3> QED BY <3>1, <3>2
    <2>5. g = [i \in 0..n |-> Better(windows, t, g, i)]
        <3> HIDE DEF g
        <3>1. \A i \in 0..n : g[i] = Better(windows, t, g, i)
            BY <2>3, <2>4
        <3>2. g = [i \in 0..n |-> g[i]]
            BY DEF g
        <3> QED BY <3>1, <3>2, Zenon
    <2>6. Exists(n)
        <3> HIDE DEF g
        <3> QED BY <2>5, Zenon
    <2> HIDE DEF Exists
    <2> QED BY <2>6
<1>4. Exists(Len(windows))
    <2> HIDE DEF G, Exists
    <2>1. \A n \in 0..Len(windows) : n \in G
        BY <1>1, <1>2, <1>3, UpTo, Zenon
    <2>2. Len(windows) \in 0..Len(windows)
        BY <1>1
    <2> QED BY <2>1, <2>2, Zenon DEF G
<1>5. Scan(windows, t) = [i \in 0..Len(windows) |-> Better(windows, t, Scan(windows, t), i)]
    BY <1>4, Zenon DEF Scan
<1>6. ScheduleBase(windows, t) = Scan(windows, t)[Len(windows)]
    BY Zenon DEF ScheduleBase, Scan, Better
<1> QED BY <1>5, <1>6

\* base is 0 or that of one of the first n windows that are active, and none of
\* those has a larger one.
Largest(windows, t, n, base) ==
    /\ base \in Nat
    /\ base = 0 \/ \E j \in 1..n : WindowActive(windows[j], t) /\ base = windows[j].base
    /\ \A j \in 1..n : WindowActive(windows[j], t) => windows[j].base <= base

\* The scan ends with the largest active base.
LEMMA ScanFindsLargest ==
    ASSUME NEW windows \in Seq(Admitted), NEW t
    PROVE  Largest(windows, t, Len(windows), ScheduleBase(windows, t))
<1> DEFINE best == Scan(windows, t)
           G == {n \in 0..Len(windows) : Largest(windows, t, n, best[n])}
<1>1. /\ ScheduleBase(windows, t) = best[Len(windows)]
      /\ best = [i \in 0..Len(windows) |-> Better(windows, t, best, i)]
    BY ScanIs, Zenon
<1> HIDE DEF best
<1>2. Len(windows) \in Nat /\ \A i \in 1..Len(windows) : windows[i].base \in Nat
    BY ScheduleAssumption, SMTT(30)
<1>3. 0 \in G
    BY <1>1, <1>2 DEF Better, Largest
<1>4. ASSUME NEW n \in 1..Len(windows), n - 1 \in G
      PROVE  n \in G
    <2>1. best[n] = IF WindowActive(windows[n], t) /\ windows[n].base > best[n - 1]
                    THEN windows[n].base ELSE best[n - 1]
        <3>1. n \in 0..Len(windows) /\ n # 0
            BY <1>2
        <3>2. best[n] = Better(windows, t, best, n)
            BY <1>1, <3>1, Zenon
        <3> QED BY <3>1, <3>2, Zenon DEF Better
    <2>2. Largest(windows, t, n - 1, best[n - 1])
        BY <1>4
    <2>3. 1..n = 1..(n - 1) \cup {n} /\ windows[n].base \in Nat
        BY <1>2
    <2>4. Largest(windows, t, n, best[n])
        <3> DEFINE before == best[n - 1]
                   after == best[n]
        <3>1. /\ before \in Nat
              /\ before = 0 \/ \E j \in 1..(n - 1) : WindowActive(windows[j], t) /\ before = windows[j].base
              /\ \A j \in 1..(n - 1) : WindowActive(windows[j], t) => windows[j].base <= before
            BY <2>2, Zenon DEF Largest
        <3> HIDE DEF before, after
        <3>2. CASE WindowActive(windows[n], t) /\ windows[n].base > before
            <4>1. after = windows[n].base
                BY <2>1, <3>2, Zenon DEF before, after
            <4>2. \A j \in 1..(n - 1) : WindowActive(windows[j], t) => windows[j].base <= after
                BY <1>2, <2>3, <3>1, <3>2, <4>1
            <4>3. after <= after /\ n \in 1..n
                BY <2>3, <4>1
            <4>4. \A j \in 1..n : WindowActive(windows[j], t) => windows[j].base <= after
                BY <2>3, <4>1, <4>2, <4>3, Zenon
            <4> QED BY <2>3, <3>2, <4>1, <4>3, <4>4, Zenon DEF Largest, after
        <3>3. CASE ~ (WindowActive(windows[n], t) /\ windows[n].base > before)
            <4>1. after = before
                BY <2>1, <3>3, Zenon DEF before, after
            <4>2. WindowActive(windows[n], t) => windows[n].base <= before
                <5>1. \A a, b \in Nat : ~(a > b) => a <= b
                    OBVIOUS
                <5> QED BY <2>3, <3>1, <3>3, <5>1, Zenon
            <4>3. \A j \in 1..n : WindowActive(windows[j], t) => windows[j].base <= after
                BY <2>3, <3>1, <4>1, <4>2, Zenon
            <4>4. after = 0 \/ \E j \in 1..n : WindowActive(windows[j], t) /\ after = windows[j].base
                BY <2>3, <3>1, <4>1, Zenon
            <4> QED BY <3>1, <4>1, <4>3, <4>4, Zenon DEF Largest, after
        <3> QED BY <3>2, <3>3
    <2> QED BY <1>2, <2>4
<1>5. Len(windows) \in G
    <2> HIDE DEF G
    <2>1. \A n \in 0..Len(windows) : n \in G
        BY <1>2, <1>3, <1>4, UpTo, Zenon
    <2> QED BY <1>2, <2>1
<1> QED BY <1>1, <1>5

\* At every minute of the week, for every schedule of any number of windows, in any
\* zones, scheduleBase answers the largest base among the windows that cover the
\* minute, and 0 when none does.
THEOREM ScheduleIsRight == WeekSpec => []BaseIsLargestActive
<1> DEFINE WeekInv == schedule \in Schedules /\ now \in 0..(WeekMinutes - 1)
<1>1. WeekInit => WeekInv
    BY Lengths DEF WeekInit
<1>2. WeekInv /\ [MinutePasses]_weekVars => WeekInv'
    <2> SUFFICES ASSUME WeekInv, [MinutePasses]_weekVars PROVE WeekInv'
        OBVIOUS
    <2>1. CASE MinutePasses
        <3>1. WeekMinutes \in Nat \ {0} /\ now + 1 \in Int
            BY Lengths
        <3>2. (now + 1) % WeekMinutes \in 0..(WeekMinutes - 1)
            BY <3>1, Division, Zenon
        <3> QED BY <2>1, <3>2, Zenon DEF MinutePasses
    <2>2. CASE UNCHANGED weekVars
        BY <2>2 DEF weekVars
    <2> QED BY <2>1, <2>2
<1>3. WeekInv => BaseIsLargestActive
    <2> SUFFICES ASSUME WeekInv PROVE BaseIsLargestActive
        OBVIOUS
    <2> DEFINE base == ScheduleBase(schedule, now)
    <2>1. schedule \in Seq(Admitted) /\ DOMAIN schedule = 1..Len(schedule)
          /\ \A i \in 1..Len(schedule) : schedule[i] \in Admitted
        BY ScheduleAssumption
    <2>2. Largest(schedule, now, Len(schedule), base)
        BY <2>1, ScanFindsLargest, Zenon
    <2>3. \A i \in 1..Len(schedule) : WindowActive(schedule[i], now) <=> i \in Covering(schedule, now)
        BY <2>1, ActiveIsCovered DEF Covering
    <2>4. Covering(schedule, now) \subseteq 1..Len(schedule)
        BY <2>1 DEF Covering
    <2> HIDE DEF base
    <2>5. base \in {0} \cup {schedule[i].base : i \in Covering(schedule, now)}
        BY <2>2, <2>3 DEF Largest
    <2>6. ASSUME NEW other \in {0} \cup {schedule[i].base : i \in Covering(schedule, now)}
          PROVE  other <= base
        BY <2>2, <2>3, <2>4 DEF Largest
    <2> QED BY <2>5, <2>6, Zenon DEF BaseIsLargestActive, base
<1> QED BY <1>1, <1>2, <1>3, PTL DEF WeekSpec
=============================================================================
