------------------------- MODULE ReplayGuardProofs -------------------------
(***************************************************************************)
(* What Seen does to the replay guard's list, and that the list keeps the  *)
(* promise of the replay window, for any size, TTL and set of IDs.         *)
(***************************************************************************)
EXTENDS ReplayGuard, FiniteSetTheorems, TLAPS

-----------------------------------------------------------------------------
(* The guard's list.                                                       *)

Entries == [key: Ids, age: 0..AgeCap]

\* The list has at most GuardSize entries, no ID twice and the newest in front.
GuardOK(g) ==
    /\ g \in Seq(Entries) /\ Len(g) <= GuardSize
    /\ \A i, j \in 1..Len(g) : g[i].key = g[j].key => i = j
    /\ \A i, j \in 1..Len(g) : i <= j => g[i].age <= g[j].age

\* rest is the list s without one, and t has e in front, in the place of the one at p.
Replaced(rest, t, s, e, p) ==
    /\ Len(rest) = Len(s) - 1
    /\ Len(t) = Len(s) /\ t[1] = e
    /\ \A i \in 2..p : t[i] = s[i - 1]
    /\ \A i \in (p + 1)..Len(s) : t[i] = s[i]

\* An entry put in front of a list from which the one at p was removed.
LEMMA InFront ==
    ASSUME NEW S, NEW s \in Seq(S), NEW e \in S, NEW p \in 1..Len(s)
    PROVE  /\ <<e>> \o Remove(s, p) \in Seq(S)
           /\ Replaced(Remove(s, p), <<e>> \o Remove(s, p), s, e, p)
<1> DEFINE rest == Remove(s, p)
           t == <<e>> \o rest
<1>1. /\ rest \in Seq(S) /\ Len(rest) = Len(s) - 1
      /\ \A j \in 1..(Len(s) - 1) : rest[j] = s[IF j < p THEN j ELSE j + 1]
  BY DEF Remove
<1> HIDE DEF rest
<1>2. /\ t \in Seq(S) /\ Len(t) = Len(s) /\ t[1] = e
      /\ \A i \in 2..Len(s) : t[i] = rest[i - 1]
  BY <1>1
<1> HIDE DEF t
<1>3. ASSUME NEW i \in 2..p PROVE t[i] = s[i - 1]
  <2>1. t[i] = rest[i - 1] /\ i - 1 \in 1..(Len(s) - 1) /\ i - 1 < p
    BY <1>2
  <2> QED
    BY <1>1, <2>1
<1>4. ASSUME NEW i \in (p + 1)..Len(s) PROVE t[i] = s[i]
  <2>1. t[i] = rest[i - 1] /\ i - 1 \in 1..(Len(s) - 1) /\ ~(i - 1 < p) /\ (i - 1) + 1 = i
    BY <1>2
  <2> QED
    BY <1>1, <2>1
<1>5. t \in Seq(S) /\ Replaced(rest, t, s, e, p)
  BY <1>1, <1>2, <1>3, <1>4 DEF Replaced
<1> QED
  BY <1>5, Zenon DEF rest, t

\* t is g with [id, 0] in front, in the place of the entry at p: id's stale one,
\* the oldest of a full list, or none.
Admitted(g, t, id, p) ==
    /\ Len(t) = IF p > Len(g) THEN p ELSE Len(g)
    /\ t[1] = [key |-> id, age |-> 0]
    /\ \A i \in 2..p : t[i] = g[i - 1]
    /\ \A i \in (p + 1)..Len(g) : t[i] = g[i]
    /\ \A i \in 1..Len(g) : g[i].key = id => i = p
    /\ p <= Len(g) => g[p].key = id \/ (Len(g) = GuardSize /\ p = GuardSize)

\* What Seen does to the list when no live entry answers.
LEMMA SeenAdmits ==
    ASSUME GuardOK(guard), NEW id \in Ids, Seen(id),
           ~\E i \in DOMAIN guard : guard[i].key = id /\ Fresh(guard[i])
    PROVE  /\ guard' \in Seq(Entries)
           /\ \E p \in 1..GuardSize : p <= Len(guard) + 1 /\ Admitted(guard, guard', id, p)
<1> DEFINE new == [key |-> id, age |-> 0]
           others == Without(id)
<1>1. guard' = <<new>> \o (IF Len(others) >= GuardSize THEN Remove(others, Len(others)) ELSE others)
  BY Zenon DEF Seen
<1>2. new \in Entries /\ GuardSize \in Nat \ {0} /\ guard \in Seq(Entries) /\ Len(guard) \in Nat
  BY GuardAssumption DEF Entries, GuardOK, GuardAssumption
<1>3. CASE \E p \in 1..Len(guard) : guard[p].key = id
  <2>1. PICK p \in 1..Len(guard) : guard[p].key = id
    BY <1>3
  <2>2. (CHOOSE i \in DOMAIN guard : guard[i].key = id) = p
    BY <1>2, <2>1 DEF GuardOK
  <2>3. p \in DOMAIN guard
    BY <1>2
  <2>4. others = Remove(guard, p)
    BY <2>1, <2>2, <2>3, Zenon DEF Without
  <2> HIDE DEF new, others
  <2> DEFINE t == <<new>> \o Remove(guard, p)
  <2>5. /\ Len(Remove(guard, p)) = Len(guard) - 1
        /\ t \in Seq(Entries) /\ Len(t) = Len(guard) /\ t[1] = new
        /\ \A i \in 2..p : t[i] = guard[i - 1]
        /\ \A i \in (p + 1)..Len(guard) : t[i] = guard[i]
    <3>1. new \in Entries /\ guard \in Seq(Entries)
      BY <1>2
    <3>2. t \in Seq(Entries) /\ Replaced(Remove(guard, p), t, guard, new, p)
      BY <3>1, InFront, Zenon
    <3> HIDE DEF t
    <3> QED
      BY <3>2 DEF Replaced
  <2>6. ~(Len(guard) - 1 >= GuardSize)
    BY <1>2 DEF GuardOK
  <2>7. guard' = t
    BY <1>1, <2>4, <2>5, <2>6, Zenon
  <2> HIDE DEF t
  <2>8. \A i \in 1..Len(guard) : guard[i].key = id => i = p
    BY <2>1 DEF GuardOK
  <2>9. Admitted(guard, t, id, p)
    BY <1>2, <2>1, <2>5, <2>8 DEF Admitted, new
  <2>10. p \in 1..GuardSize /\ p <= Len(guard) + 1
    BY <1>2 DEF GuardOK
  <2> QED
    BY <2>5, <2>7, <2>9, <2>10
<1>4. CASE ~\E p \in 1..Len(guard) : guard[p].key = id
  <2>0. DOMAIN guard = 1..Len(guard)
    BY <1>2
  <2>1. others = guard
    BY <1>4, <2>0, Zenon DEF Without
  <2> HIDE DEF new, others
  <2>2. CASE Len(guard) >= GuardSize
    <3>1. guard' = <<new>> \o Remove(guard, Len(guard)) /\ Len(guard) = GuardSize
      BY <1>1, <1>2, <2>1, <2>2 DEF GuardOK
    <3>2. /\ guard' \in Seq(Entries) /\ Len(guard') = Len(guard) /\ guard'[1] = new
          /\ \A i \in 2..Len(guard) : guard'[i] = guard[i - 1]
      <4>1. Len(guard) \in 1..Len(guard) /\ new \in Entries /\ guard \in Seq(Entries)
        BY <1>2, <3>1
      <4>2. /\ guard' \in Seq(Entries)
            /\ Replaced(Remove(guard, Len(guard)), guard', guard, new, Len(guard))
        BY <3>1, <4>1, InFront, Zenon
      <4> QED
        BY <4>2 DEF Replaced
    <3>3. Admitted(guard, guard', id, GuardSize)
      <4>1. \A i \in (GuardSize + 1)..Len(guard) : FALSE
        BY <1>2, <3>1
      <4> QED
        BY <1>2, <1>4, <3>1, <3>2, <4>1 DEF Admitted, new
    <3> QED
      BY <1>2, <3>1, <3>2, <3>3
  <2>3. CASE Len(guard) < GuardSize
    <3>1. guard' = <<new>> \o guard
      BY <1>1, <1>2, <2>1, <2>3
    <3>2. /\ guard' \in Seq(Entries) /\ Len(guard') = Len(guard) + 1 /\ guard'[1] = new
          /\ \A i \in 2..(Len(guard) + 1) : guard'[i] = guard[i - 1]
      BY <1>2, <3>1
    <3>3. Admitted(guard, guard', id, Len(guard) + 1)
      BY <1>2, <1>4, <2>3, <3>1, <3>2 DEF Admitted, new
    <3> QED
      BY <1>2, <2>3, <3>2, <3>3
  <2> QED
    BY <1>2, <2>2, <2>3
<1> QED
  BY <1>3, <1>4
\* Where the entries behind the first one come from.
From(i, p) == IF i <= p THEN i - 1 ELSE i

\* Those entries are the others of the list before, in their order.
LEMMA AdmittedFrom ==
    ASSUME NEW g \in Seq(Entries), NEW t \in Seq(Entries), NEW id, NEW p \in 1..(Len(g) + 1),
           Admitted(g, t, id, p)
    PROVE  /\ \A i \in 2..Len(t) : From(i, p) \in 1..Len(g) /\ From(i, p) # p /\ t[i] = g[From(i, p)]
           /\ \A j \in 1..Len(g) : j # p => \E i \in 2..Len(t) : j = From(i, p)
<1>1. Len(g) \in Nat /\ Len(t) \in Nat /\ Len(t) = IF p > Len(g) THEN p ELSE Len(g)
  BY DEF Admitted
<1>2. ASSUME NEW i \in 2..Len(t)
      PROVE  From(i, p) \in 1..Len(g) /\ From(i, p) # p /\ t[i] = g[From(i, p)]
  <2>1. CASE i <= p
    BY <1>1, <2>1 DEF Admitted, From
  <2>2. CASE i > p
    BY <1>1, <2>2 DEF Admitted, From
  <2> QED
    BY <2>1, <2>2
<1>3. ASSUME NEW j \in 1..Len(g), j # p PROVE \E i \in 2..Len(t) : j = From(i, p)
  <2>1. CASE j < p
    <3>1. j + 1 \in 2..Len(t) /\ From(j + 1, p) = j
      BY <1>1, <2>1 DEF From
    <3> QED
      BY <3>1
  <2>2. CASE j > p
    <3>1. j \in 2..Len(t) /\ From(j, p) = j
      BY <1>1, <2>2 DEF From
    <3> QED
      BY <3>1
  <2> QED
    BY <1>3, <2>1, <2>2
<1> QED
  BY <1>2, <1>3

\* Seen keeps the list in order.
LEMMA GuardOKSeen ==
    ASSUME NEW g, NEW t \in Seq(Entries), NEW id \in Ids, NEW p \in 1..GuardSize,
           GuardOK(g), p <= Len(g) + 1, Admitted(g, t, id, p)
    PROVE  GuardOK(t)
<1>0. GuardSize \in Nat /\ AgeCap \in Nat /\ Len(g) \in Nat /\ g \in Seq(Entries) /\ Len(t) \in Nat
  BY GuardAssumption DEF GuardOK, GuardAssumption
<1>1. Len(t) <= GuardSize
  BY <1>0 DEF GuardOK, Admitted
<1>2. p \in 1..(Len(g) + 1) /\ p \in Nat
  BY <1>0
<1>3. \A i \in 2..Len(t) : From(i, p) \in 1..Len(g) /\ From(i, p) # p /\ t[i] = g[From(i, p)]
  BY <1>0, <1>2, AdmittedFrom
<1>4. t[1].key = id /\ t[1].age = 0
  BY DEF Admitted
<1>5. \A i \in 2..Len(t) : t[i].key # id
  BY <1>3, Zenon DEF Admitted
<1>6. \A i \in 2..Len(t), j \in 2..Len(t) : From(i, p) = From(j, p) => i = j
  <2>1. \A i \in 2..Len(t) : From(i, p) # p
    BY <1>3
  <2> QED
    BY <1>2, <2>1 DEF From
<1>7. \A i \in 2..Len(t), j \in 2..Len(t) : i <= j => From(i, p) <= From(j, p)
  BY <1>2 DEF From
<1>8. \A i \in 1..Len(t) : i = 1 \/ i \in 2..Len(t)
  BY <1>0
<1>9. ASSUME NEW i \in 1..Len(t), NEW j \in 1..Len(t), t[i].key = t[j].key PROVE i = j
  <2>1. CASE i = 1 \/ j = 1
    BY <1>4, <1>5, <1>8, <1>9, <2>1
  <2>2. CASE i \in 2..Len(t) /\ j \in 2..Len(t)
    <3>1. From(i, p) = From(j, p)
      BY <1>3, <1>9, <2>2 DEF GuardOK
    <3> QED
      BY <1>6, <2>2, <3>1
  <2> QED
    BY <1>8, <2>1, <2>2
<1>10. ASSUME NEW i \in 1..Len(t), NEW j \in 1..Len(t), i <= j PROVE t[i].age <= t[j].age
  <2>1. CASE i = 1
    <3>0. t[j] \in Entries
      OBVIOUS
    <3>1. t[j].age \in 0..AgeCap
      BY <3>0 DEF Entries
    <3> QED
      BY <1>0, <1>4, <2>1, <3>1
  <2>2. CASE i \in 2..Len(t) /\ j \in 2..Len(t)
    BY <1>3, <1>7, <1>10, <2>2 DEF GuardOK
  <2> QED
    BY <1>0, <1>8, <1>10, <2>1, <2>2
<1> QED
  BY <1>1, <1>9, <1>10 DEF GuardOK

\* So does the clock.
LEMMA GuardOKTick ==
    ASSUME GuardOK(guard), GuardTick
    PROVE  /\ GuardOK(guard') /\ Len(guard') = Len(guard)
           /\ \A i \in 1..Len(guard) :
                 guard'[i] = [key |-> guard[i].key, age |-> Older(guard[i].age)]
<1> DEFINE e(i) == [guard[i] EXCEPT !.age = Older(@)]
<1>0. AgeCap \in Nat /\ guard \in Seq(Entries) /\ guard' = [i \in 1..Len(guard) |-> e(i)]
  BY GuardAssumption DEF GuardOK, GuardAssumption, GuardTick
<1>1. \A i \in 1..Len(guard) : guard[i] \in Entries
  BY <1>0
<1>2. ASSUME NEW i \in 1..Len(guard)
      PROVE  /\ e(i) = [key |-> guard[i].key, age |-> Older(guard[i].age)]
             /\ e(i) \in Entries
             /\ e(i).key = guard[i].key /\ e(i).age = Older(guard[i].age)
  <2>1. guard[i].key \in Ids /\ guard[i].age \in 0..AgeCap
    BY <1>1, Zenon DEF Entries
  <2>2. Older(guard[i].age) \in 0..AgeCap
    BY <1>0, <2>1 DEF Older
  <2>3. e(i) = [key |-> guard[i].key, age |-> Older(guard[i].age)]
    BY <1>1 DEF Entries
  <2> HIDE DEF e
  <2> QED
    BY <2>1, <2>2, <2>3 DEF Entries
<1> HIDE DEF e
<1>3. guard' \in Seq(Entries) /\ Len(guard') = Len(guard)
  BY <1>0, <1>2
<1>4. \A i \in 1..Len(guard) : guard'[i] = e(i)
  BY <1>0
<1>5. ASSUME NEW i \in 1..Len(guard), NEW j \in 1..Len(guard), i <= j
      PROVE  guard'[i].age <= guard'[j].age
  <2>1. guard[i].age \in 0..AgeCap /\ guard[j].age \in 0..AgeCap
    BY <1>1 DEF Entries
  <2>2. guard[i].age <= guard[j].age
    BY <1>5 DEF GuardOK
  <2>3. guard'[i].age = Older(guard[i].age) /\ guard'[j].age = Older(guard[j].age)
    BY <1>2, <1>4
  <2> QED
    BY <1>0, <2>1, <2>2, <2>3 DEF Older
<1>6. \A i \in 1..Len(guard) : guard'[i].key = guard[i].key
  BY <1>2, <1>4
<1>7. \A i, j \in 1..Len(guard) : guard'[i].key = guard'[j].key => i = j
  BY <1>6 DEF GuardOK
<1>8. Len(guard') <= GuardSize
  BY <1>3 DEF GuardOK
<1>9. GuardOK(guard')
  BY <1>3, <1>5, <1>7, <1>8 DEF GuardOK
<1> QED
  BY <1>2, <1>3, <1>4, <1>9
-----------------------------------------------------------------------------
(* The guard implements the window.                                        *)

Live(g) == {g[i].key : i \in {j \in DOMAIN g : Fresh(g[j])}}
Ages(g) == [id \in Live(g) |-> g[CHOOSE i \in DOMAIN g : g[i].key = id].age]

\* The window is a function of the list's live entries.
LEMMA AgesIs ==
    ASSUME NEW g, GuardOK(g)
    PROVE  /\ DOMAIN Ages(g) = Live(g)
           /\ \A i \in 1..Len(g) :
                 Fresh(g[i]) => g[i].key \in Live(g) /\ Ages(g)[g[i].key] = g[i].age
           /\ \A id \in Live(g) : \E i \in 1..Len(g) : Fresh(g[i]) /\ g[i].key = id
<1>1. DOMAIN g = 1..Len(g)
  BY DEF GuardOK
<1>2. ASSUME NEW i \in 1..Len(g), Fresh(g[i])
      PROVE  g[i].key \in Live(g) /\ Ages(g)[g[i].key] = g[i].age
  <2>1. g[i].key \in Live(g)
    BY <1>1, <1>2 DEF Live
  <2>2. (CHOOSE j \in DOMAIN g : g[j].key = g[i].key) = i
    BY <1>1 DEF GuardOK
  <2> QED
    BY <2>1, <2>2, Zenon DEF Ages
<1>3. \A id \in Live(g) : \E i \in 1..Len(g) : Fresh(g[i]) /\ g[i].key = id
  BY <1>1 DEF Live
<1> QED
  BY <1>2, <1>3 DEF Ages

\* The number of places in a list.
LEMMA IntervalCount ==
    ASSUME NEW n \in Nat
    PROVE  IsFiniteSet(1..n) /\ Cardinality(1..n) = n
BY FS_Interval

\* As many IDs as entries.
LEMMA KeysCount ==
    ASSUME NEW g, GuardOK(g), NEW I \in SUBSET (1..Len(g))
    PROVE  /\ IsFiniteSet(I) /\ IsFiniteSet({g[i].key : i \in I})
           /\ Cardinality({g[i].key : i \in I}) = Cardinality(I)
           /\ Cardinality(I) <= Len(g)
           /\ Cardinality(I) = Len(g) => I = 1..Len(g)
<1> DEFINE T == {g[i].key : i \in I}
           f == [i \in I |-> g[i].key]
<1>1. IsFiniteSet(1..Len(g)) /\ Cardinality(1..Len(g)) = Len(g) /\ Len(g) \in Nat
  <2>1. Len(g) \in Nat
    BY DEF GuardOK
  <2> QED
    BY <2>1, IntervalCount, Zenon
<1>2. /\ IsFiniteSet(I) /\ Cardinality(I) <= Len(g)
      /\ Cardinality(I) = Len(g) => I = 1..Len(g)
  BY <1>1, FS_Subset, Zenon
<1>3. f \in Bijection(I, T)
  <2>1. f \in [I -> T]
    OBVIOUS
  <2>2. \A a, b \in I : f[a] = f[b] => a = b
    BY DEF GuardOK
  <2>3. \A t \in T : \E a \in I : f[a] = t
    BY Zenon
  <2>4. DOMAIN f = I
    OBVIOUS
  <2> HIDE DEF f, T
  <2> QED
    BY <2>1, <2>2, <2>3, <2>4 DEF Bijection, Injection, Surjection, IsInjective
<1>4. ExistsBijection(I, T)
  BY <1>3 DEF ExistsBijection
<1> QED
  BY <1>2, <1>4, FS_Bijection

\* The window is full when the list is and none of its entries has expired.
LEMMA LiveCount ==
    ASSUME NEW g, GuardOK(g)
    PROVE  Cardinality(Live(g)) < GuardSize
               <=> ~(Len(g) = GuardSize /\ \A i \in 1..Len(g) : Fresh(g[i]))
<1> DEFINE I == {j \in 1..Len(g) : Fresh(g[j])}
<1>1. Live(g) = {g[i].key : i \in I} /\ I \in SUBSET (1..Len(g))
  BY DEF Live, GuardOK
<1>2. I = 1..Len(g) <=> \A i \in 1..Len(g) : Fresh(g[i])
  OBVIOUS
<1> HIDE DEF I
<1>3. /\ IsFiniteSet(I) /\ Cardinality(Live(g)) = Cardinality(I)
      /\ Cardinality(I) <= Len(g)
      /\ Cardinality(I) = Len(g) => I = 1..Len(g)
  BY <1>1, KeysCount, Zenon
<1>4. Len(g) \in Nat /\ GuardSize \in Nat /\ Len(g) <= GuardSize
  BY GuardAssumption DEF GuardOK, GuardAssumption
<1>5. Cardinality(I) \in Nat /\ Cardinality(1..Len(g)) = Len(g)
  <2>1. Cardinality(I) \in Nat
    BY <1>3, FS_CardinalityType
  <2>2. Cardinality(1..Len(g)) = Len(g)
    BY <1>4, IntervalCount, Zenon
  <2> QED
    BY <2>1, <2>2
<1> QED
  BY <1>2, <1>3, <1>4, <1>5
\* What admitting an ID does to the window.
LEMMA AgesAdmit ==
    ASSUME NEW g, NEW t \in Seq(Entries), NEW id \in Ids, NEW p \in 1..GuardSize,
           GuardOK(g), p <= Len(g) + 1, Admitted(g, t, id, p),
           \A i \in 1..Len(g) : g[i].key = id => ~Fresh(g[i])
    PROVE  /\ id \notin Live(g)
           /\ \E kept \in SUBSET Live(g) :
                /\ IF Cardinality(Live(g)) < GuardSize
                   THEN kept = Live(g)
                   ELSE \E old \in Live(g) :
                           /\ \A other \in Live(g) : Ages(g)[other] <= Ages(g)[old]
                           /\ kept = Live(g) \ {old}
                /\ Ages(t) = [i \in kept \cup {id} |-> IF i = id THEN 0 ELSE Ages(g)[i]]
<1> DEFINE gone == IF p <= Len(g) /\ Fresh(g[p]) THEN {g[p].key} ELSE {}
           kept == Live(g) \ gone
<1>0. /\ GuardSize \in Nat /\ GuardTTL \in Nat /\ AgeCap \in Nat /\ p \in Nat
      /\ Len(g) \in Nat /\ Len(t) \in Nat /\ g \in Seq(Entries) /\ p \in 1..(Len(g) + 1)
  BY GuardAssumption DEF GuardOK, GuardAssumption
<1>1. GuardOK(t)
  BY GuardOKSeen
<1>2. \A i \in 2..Len(t) : From(i, p) \in 1..Len(g) /\ From(i, p) # p /\ t[i] = g[From(i, p)]
  BY <1>0, AdmittedFrom
<1>3. \A j \in 1..Len(g) : j # p => \E i \in 2..Len(t) : j = From(i, p)
  BY <1>0, AdmittedFrom
<1>4. id \notin Live(g)
  BY AgesIs
<1>5. 1 \in 1..Len(t) /\ t[1].key = id /\ t[1].age = 0 /\ Fresh(t[1])
  BY <1>0 DEF Admitted, Fresh
<1>6. ASSUME NEW x \in Live(t), x # id PROVE x \in kept /\ Ages(t)[x] = Ages(g)[x]
  <2>1. PICK i \in 1..Len(t) : Fresh(t[i]) /\ t[i].key = x
    BY <1>1, AgesIs
  <2>2. i \in 2..Len(t)
    BY <1>0, <1>5, <1>6, <2>1
  <2>3. PICK j \in 1..Len(g) : j # p /\ t[i] = g[j]
    BY <1>2, <2>2
  <2>4. x \in Live(g) /\ Ages(g)[x] = g[j].age
    BY <2>1, <2>3, AgesIs
  <2>5. Ages(t)[x] = t[i].age
    BY <1>1, <2>1, AgesIs
  <2>6. p <= Len(g) => g[p].key # x
    BY <1>0, <2>1, <2>3 DEF GuardOK
  <2> QED
    BY <2>3, <2>4, <2>5, <2>6
<1>7. ASSUME NEW x \in kept PROVE x \in Live(t)
  <2>1. PICK j \in 1..Len(g) : Fresh(g[j]) /\ g[j].key = x
    BY AgesIs
  <2>2. j # p
    BY <1>0, <2>1
  <2>3. PICK i \in 2..Len(t) : j = From(i, p)
    BY <1>3, <2>2
  <2>4. t[i] = g[j] /\ i \in 1..Len(t)
    BY <1>0, <1>2, <2>3
  <2> QED
    BY <1>1, <2>1, <2>4, AgesIs
<1>8. id \in Live(t) /\ Ages(t)[id] = 0
  BY <1>1, <1>5, AgesIs
<1>9. Live(t) = kept \cup {id}
  <2> HIDE DEF kept
  <2> QED
    BY <1>6, <1>7, <1>8
<1>10. Ages(t) = [i \in kept \cup {id} |-> IF i = id THEN 0 ELSE Ages(g)[i]]
  <2> HIDE DEF kept
  <2>1. Ages(t) = [i \in Live(t) |-> Ages(t)[i]]
    BY DEF Ages
  <2> QED
    BY <1>6, <1>8, <1>9, <2>1, Zenon
<1>11. CASE p <= Len(g) /\ Fresh(g[p])
  <2>1. Len(g) = GuardSize /\ p = GuardSize
    BY <1>0, <1>11 DEF Admitted
  <2>2. \A i \in 1..Len(g) : g[i].age <= g[p].age
    BY <1>0, <2>1 DEF GuardOK
  <2>3. \A i \in 1..Len(g) : g[i] \in Entries
    BY <1>0
  <2>4. \A i \in 1..Len(g) : Fresh(g[i])
    BY <1>0, <1>11, <2>2, <2>3 DEF Fresh, Entries
  <2>5. ~(Cardinality(Live(g)) < GuardSize)
    BY <2>1, <2>4, LiveCount
  <2>6. g[p].key \in Live(g) /\ Ages(g)[g[p].key] = g[p].age
    BY <1>0, <1>11, AgesIs
  <2>7. \A other \in Live(g) : Ages(g)[other] <= Ages(g)[g[p].key]
    BY <2>2, <2>6, AgesIs
  <2>8. kept = Live(g) \ {g[p].key}
    BY <1>11
  <2> HIDE DEF kept
  <2> QED
    BY <1>4, <1>10, <2>5, <2>6, <2>7, <2>8, Zenon
<1>12. CASE ~(p <= Len(g) /\ Fresh(g[p]))
  <2>1. ~(Len(g) = GuardSize /\ \A i \in 1..Len(g) : Fresh(g[i]))
    BY <1>0, <1>12
  <2>2. Cardinality(Live(g)) < GuardSize
    BY <2>1, LiveCount
  <2>3. kept = Live(g)
    BY <1>12
  <2> HIDE DEF kept
  <2> QED
    BY <1>4, <1>10, <2>2, <2>3
<1> QED
  BY <1>11, <1>12, Zenon

\* What a tick does to the window.
LEMMA AgesTick ==
    ASSUME GuardOK(guard), GuardTick
    PROVE  Ages(guard') = [i \in {j \in Live(guard) : Ages(guard)[j] < GuardTTL} |-> Ages(guard)[i] + 1]
<1>0. /\ GuardTTL \in Nat /\ AgeCap \in Nat /\ GuardTTL < AgeCap
      /\ guard \in Seq(Entries) /\ Len(guard') = Len(guard) /\ GuardOK(guard')
      /\ \A i \in 1..Len(guard) : guard'[i].key = guard[i].key /\ guard'[i].age = Older(guard[i].age)
  <2>1. GuardTTL \in Nat /\ AgeCap \in Nat /\ GuardTTL < AgeCap /\ guard \in Seq(Entries)
    BY GuardAssumption DEF GuardOK, GuardAssumption
  <2>2. /\ GuardOK(guard') /\ Len(guard') = Len(guard)
        /\ \A i \in 1..Len(guard) :
              guard'[i] = [key |-> guard[i].key, age |-> Older(guard[i].age)]
    BY GuardOKTick
  <2>3. \A i \in 1..Len(guard) : guard'[i].key = guard[i].key /\ guard'[i].age = Older(guard[i].age)
    <3> SUFFICES ASSUME NEW i \in 1..Len(guard)
                 PROVE  guard'[i].key = guard[i].key /\ guard'[i].age = Older(guard[i].age)
      OBVIOUS
    <3>1. guard'[i] = [key |-> guard[i].key, age |-> Older(guard[i].age)]
      BY <2>2
    <3> QED
      BY <3>1
  <2> QED
    BY <2>1, <2>2, <2>3
<1>1. \A i \in 1..Len(guard) : guard[i] \in Entries
  BY <1>0
<1>2. \A i \in 1..Len(guard) : guard[i].age \in 0..AgeCap
  BY <1>1 DEF Entries
<1>3. ASSUME NEW i \in 1..Len(guard)
      PROVE  /\ Fresh(guard'[i]) <=> guard[i].age < GuardTTL
             /\ Fresh(guard'[i]) => Fresh(guard[i]) /\ guard'[i].age = guard[i].age + 1
  BY <1>0, <1>2 DEF Fresh, Older
<1>4. ASSUME NEW x \in Live(guard')
      PROVE  x \in Live(guard) /\ Ages(guard)[x] < GuardTTL /\ Ages(guard')[x] = Ages(guard)[x] + 1
  <2>1. PICK i \in 1..Len(guard) : Fresh(guard'[i]) /\ guard'[i].key = x
    BY <1>0, AgesIs
  <2>2. x \in Live(guard) /\ Ages(guard)[x] = guard[i].age
    BY <1>0, <1>3, <2>1, AgesIs
  <2>3. Ages(guard')[x] = guard'[i].age
    BY <1>0, <2>1, AgesIs
  <2> QED
    BY <1>3, <2>1, <2>2, <2>3
<1>5. ASSUME NEW x \in Live(guard), Ages(guard)[x] < GuardTTL PROVE x \in Live(guard')
  <2>1. PICK i \in 1..Len(guard) : Fresh(guard[i]) /\ guard[i].key = x
    BY AgesIs
  <2>2. Ages(guard)[x] = guard[i].age
    BY <2>1, AgesIs
  <2>3. Fresh(guard'[i]) /\ guard'[i].key = x
    BY <1>0, <1>3, <1>5, <2>1, <2>2
  <2> QED
    BY <1>0, <2>3, AgesIs
<1>6. Live(guard') = {j \in Live(guard) : Ages(guard)[j] < GuardTTL}
  BY <1>4, <1>5
<1>7. Ages(guard') = [i \in Live(guard') |-> Ages(guard')[i]]
  BY DEF Ages
<1> QED
  BY <1>4, <1>6, <1>7
\* The window counts as the module of finite sets does.
LEMMA SameCount == ASSUME NEW S PROVE Window!Cardinality(S) = Cardinality(S)
BY Zenon DEF Window!Cardinality, Cardinality, Window!IsFiniteSet, IsFiniteSet

\* Recognised is that window, before and after a step.
LEMMA RecognisedIs == Recognised = Ages(guard) /\ Recognised' = Ages(guard')
BY DEF Recognised, Ages, Live

\* Seen is Recognise or Admit.
LEMMA WindowSeen ==
    ASSUME GuardOK(guard), NEW id \in Ids, Seen(id)
    PROVE  /\ GuardOK(guard')
           /\ Window!Recognise(id) \/ Window!Admit(id)
<1>1. CASE \E i \in DOMAIN guard : guard[i].key = id /\ Fresh(guard[i])
  <2>1. guard' = guard /\ answer' = [id |-> id, seen |-> TRUE]
    BY <1>1, Zenon DEF Seen
  <2>2. id \in Live(guard)
    BY <1>1 DEF Live
  <2>3. Ages(guard') = Ages(guard) /\ GuardOK(guard') /\ id \in DOMAIN Ages(guard)
    BY <2>1, <2>2, AgesIs
  <2> QED
    BY <2>1, <2>3, RecognisedIs DEF Window!Recognise
<1>2. CASE ~\E i \in DOMAIN guard : guard[i].key = id /\ Fresh(guard[i])
  <2>1. guard' \in Seq(Entries) /\ answer' = [id |-> id, seen |-> FALSE]
    BY <1>2, SeenAdmits, Zenon DEF Seen
  <2>2. PICK p \in 1..GuardSize : p <= Len(guard) + 1 /\ Admitted(guard, guard', id, p)
    BY <1>2, SeenAdmits
  <2>3. \A i \in 1..Len(guard) : guard[i].key = id => ~Fresh(guard[i])
    BY <1>2 DEF GuardOK
  <2>4. GuardOK(guard')
    BY <2>1, <2>2, GuardOKSeen
  <2>5. /\ id \notin Live(guard)
        /\ \E kept \in SUBSET Live(guard) :
             /\ IF Cardinality(Live(guard)) < GuardSize
                THEN kept = Live(guard)
                ELSE \E old \in Live(guard) :
                        /\ \A other \in Live(guard) : Ages(guard)[other] <= Ages(guard)[old]
                        /\ kept = Live(guard) \ {old}
             /\ Ages(guard') = [i \in kept \cup {id} |-> IF i = id THEN 0 ELSE Ages(guard)[i]]
    BY <2>1, <2>2, <2>3, AgesAdmit, ZenonT(40)
  <2>6. DOMAIN Ages(guard) = Live(guard)
    BY AgesIs
  <2>7. Window!Admit(id)
    <3>1. DOMAIN Recognised = Live(guard) /\ Recognised = Ages(guard) /\ Recognised' = Ages(guard')
      BY <2>6, RecognisedIs
    <3>2. PICK kept \in SUBSET Live(guard) :
             /\ IF Cardinality(Live(guard)) < GuardSize
                THEN kept = Live(guard)
                ELSE \E old \in Live(guard) :
                        /\ \A other \in Live(guard) : Ages(guard)[other] <= Ages(guard)[old]
                        /\ kept = Live(guard) \ {old}
             /\ Ages(guard') = [i \in kept \cup {id} |-> IF i = id THEN 0 ELSE Ages(guard)[i]]
      BY <2>5
    <3>3. IF Cardinality(DOMAIN Recognised) < GuardSize
          THEN kept = DOMAIN Recognised
          ELSE \E old \in DOMAIN Recognised : Window!Oldest(old) /\ kept = DOMAIN Recognised \ {old}
      BY <3>1, <3>2 DEF Window!Oldest
    <3>4. Recognised' = [i \in kept \cup {id} |-> IF i = id THEN 0 ELSE Recognised[i]]
      BY <3>1, <3>2
    <3>5. id \notin DOMAIN Recognised /\ kept \in SUBSET DOMAIN Recognised
      BY <2>5, <3>1
    <3> QED
      BY <2>1, <3>3, <3>4, <3>5, SameCount DEF Window!Admit
  <2> QED
    BY <2>4, <2>7
<1> QED
  BY <1>1, <1>2

\* GuardTick is Tick, and GuardRestart is Forget.
LEMMA WindowTick ==
    ASSUME GuardOK(guard), GuardTick
    PROVE  Window!Tick
<1>1. DOMAIN Ages(guard) = Live(guard)
  BY AgesIs
<1> QED
  BY <1>1, AgesTick, RecognisedIs DEF Window!Tick, GuardTick

\* An empty guard is sound and remembers nothing.
LEMMA EmptyGuard == GuardOK(<<>>) /\ Ages(<<>>) = <<>>
<1>1. GuardOK(<<>>)
  BY GuardAssumption DEF GuardOK, GuardAssumption
<1>2. Live(<<>>) = {}
  BY DEF Live
<1> QED
  BY <1>1, <1>2 DEF Ages

\* A restart, which loses the guard, is the window's restart.
LEMMA WindowRestart ==
    ASSUME GuardRestart
    PROVE  GuardOK(guard') /\ Window!Forget
BY EmptyGuard, RecognisedIs DEF GuardRestart, Window!Forget

-----------------------------------------------------------------------------
(* What the list holds.                                                    *)

\* The guard's list has an entry, live or not, for the delivery.
Held(id) == \E i \in 1..Len(guard) : guard[i].key = id

\* The keys of the list after Seen are old ones or the one asked about.
LEMMA SeenKeys ==
    ASSUME GuardOK(guard), NEW id \in Ids, Seen(id)
    PROVE  /\ answer'.seen => guard' = guard /\ \E i \in 1..Len(guard) : guard[i].key = id /\ Fresh(guard[i])
           /\ ~answer'.seen =>
                 /\ ~\E i \in 1..Len(guard) : guard[i].key = id /\ Fresh(guard[i])
                 /\ guard' \in Seq(Entries)
                 /\ \E p \in 1..GuardSize : p <= Len(guard) + 1 /\ Admitted(guard, guard', id, p)
<1>0. DOMAIN guard = 1..Len(guard)
  BY DEF GuardOK
<1>1. CASE \E i \in DOMAIN guard : guard[i].key = id /\ Fresh(guard[i])
  <2>1. guard' = guard /\ answer' = [id |-> id, seen |-> TRUE]
    BY <1>1, Zenon DEF Seen
  <2> QED
    BY <1>0, <1>1, <2>1
<1>2. CASE ~\E i \in DOMAIN guard : guard[i].key = id /\ Fresh(guard[i])
  <2>1. answer' = [id |-> id, seen |-> FALSE]
    BY <1>2, Zenon DEF Seen
  <2>2. ~answer'.seen
    BY <2>1
  <2> QED
    BY <1>0, <1>2, <2>2, SeenAdmits, Zenon
<1> QED
  BY <1>1, <1>2

\* The same for what is held: Seen adds at most the ID asked about, and the one it
\* gives up, if the list was full, it gives up for an ID that was not held.
LEMMA HeldSeen ==
    ASSUME GuardOK(guard), NEW id \in Ids, Seen(id), ~answer'.seen
    PROVE  /\ \A d \in Ids : Held(d)' => Held(d) \/ d = id
           /\ Held(id)'
           /\ \A d \in Ids : Held(d) /\ ~Held(d)' => Len(guard) = GuardSize /\ ~Held(id)
<1>1. guard' \in Seq(Entries) /\ \E p \in 1..GuardSize : p <= Len(guard) + 1 /\ Admitted(guard, guard', id, p)
  BY SeenKeys
<1>2. PICK p \in 1..GuardSize : p <= Len(guard) + 1 /\ Admitted(guard, guard', id, p)
  BY <1>1
<1>3. p \in 1..(Len(guard) + 1) /\ guard \in Seq(Entries) /\ Len(guard') \in Nat /\ Len(guard) \in Nat /\ 1 <= Len(guard')
  BY <1>1, <1>2, GuardAssumption DEF GuardOK, Admitted, GuardAssumption
<1>4. \A i \in 2..Len(guard') : From(i, p) \in 1..Len(guard) /\ guard'[i] = guard[From(i, p)]
  BY <1>1, <1>2, <1>3, AdmittedFrom
<1>5. \A j \in 1..Len(guard) : j # p => \E i \in 2..Len(guard') : j = From(i, p)
  BY <1>1, <1>2, <1>3, AdmittedFrom
<1>6. guard'[1].key = id
  BY <1>2 DEF Admitted
<1>7. \A i \in 1..Len(guard') : i = 1 \/ i \in 2..Len(guard')
  BY <1>3
<1>8. \A d \in Ids : Held(d)' => Held(d) \/ d = id
  BY <1>4, <1>6, <1>7 DEF Held
<1>9. Held(id)'
  BY <1>3, <1>6 DEF Held
<1>10. ASSUME NEW d \in Ids, Held(d), ~Held(d)' PROVE Len(guard) = GuardSize /\ ~Held(id)
  <2>1. PICK j \in 1..Len(guard) : guard[j].key = d
    BY <1>10 DEF Held
  <2>2. j = p
    <3>1. ASSUME j # p PROVE FALSE
      <4>1. PICK i \in 2..Len(guard') : j = From(i, p)
        BY <1>5, <3>1
      <4>2. guard'[i].key = d /\ i \in 1..Len(guard')
        BY <1>3, <1>4, <2>1, <4>1
      <4> QED
        BY <1>10, <4>2 DEF Held
    <3> QED
      BY <3>1
  <2>3. guard[p].key # id /\ p <= Len(guard)
    BY <1>9, <1>10, <2>1, <2>2
  <2> QED
    BY <1>2, <1>3, <2>3 DEF Admitted, Held
<1> QED
  BY <1>8, <1>9, <1>10

\* Time changes the ages only.
LEMMA HeldTick ==
    ASSUME GuardOK(guard), GuardTick
    PROVE  \A id \in Ids : Held(id)' <=> Held(id)
<1>1. /\ Len(guard') = Len(guard)
      /\ \A i \in 1..Len(guard) :
            guard'[i] = [key |-> guard[i].key, age |-> Older(guard[i].age)]
  BY GuardOKTick
<1>2. ASSUME NEW i \in 1..Len(guard) PROVE guard'[i].key = guard[i].key
  <2>1. guard'[i] = [key |-> guard[i].key, age |-> Older(guard[i].age)]
    BY <1>1
  <2> QED
    BY <2>1
<1> QED
  BY <1>1, <1>2 DEF Held
=============================================================================
