------------------------- MODULE DemandPollerProofs -------------------------
(***************************************************************************)
(* Machine-checked proofs about the demand poll, for any repository, page  *)
(* size, number of retries and cap, while runs and jobs move between the   *)
(* requests.                                                               *)
(***************************************************************************)
EXTENDS DemandPoller, WellFoundedInduction, TLAPS

-----------------------------------------------------------------------------
(* Lists that are filtered.                                                *)

\* A nonempty set of naturals has a least element.
LEMMA LeastOne ==
    ASSUME NEW T \in SUBSET Nat, T # {}
    PROVE  \E m \in T : \A n \in T : m <= n
<1> DEFINE R == OpToRel(<, Nat)
<1>1. IsWellFoundedOn(R, Nat)
    BY NatLessThanWellFounded, Zenon
<1>2. PICK m \in T : \A n \in T : ~(<<n, m>> \in R)
    BY <1>1, WFMin, Zenon
<1>3. \A n \in T : ~(n < m)
    BY <1>2, Zenon DEF OpToRel
<1> QED
    BY <1>3

\* Induction up to a bound, with the set of the numbers it holds of.
LEMMA UpTo ==
    ASSUME NEW n \in Nat, NEW G, 0 \in G, \A i \in 1..n : i - 1 \in G => i \in G
    PROVE  \A i \in 0..n : i \in G
<1> DEFINE Bad == {i \in 0..n : i \notin G}
<1>1. SUFFICES ASSUME Bad # {} PROVE FALSE
    OBVIOUS
<1>2. Bad \in SUBSET Nat
    OBVIOUS
<1>3. PICK m \in Bad : \A i \in Bad : m <= i
    <2> HIDE DEF Bad
    <2> QED BY <1>1, <1>2, LeastOne
<1>4. m \in 1..n /\ m - 1 \in 0..n /\ m - 1 \notin Bad
    BY <1>3
<1> QED BY <1>3, <1>4

Added(s, S, g, i) ==
    IF i = 0 THEN <<>> ELSE IF s[i] \in S THEN Append(g[i - 1], s[i]) ELSE g[i - 1]
Kept(s, S) == CHOOSE g : g = [i \in 0..Len(s) |-> Added(s, S, g, i)]

\* The loop that filters a list, step by step.
LEMMA KeptIs ==
    ASSUME NEW V, NEW s \in Seq(V), NEW S
    PROVE  /\ Only(s, S) = Kept(s, S)[Len(s)]
           /\ Kept(s, S) = [i \in 0..Len(s) |-> Added(s, S, Kept(s, S), i)]
<1> DEFINE Exists(n) == \E g : g = [i \in 0..n |-> Added(s, S, g, i)]
           G == {n \in Nat : Exists(n)}
<1>1. Len(s) \in Nat
    OBVIOUS
<1>2. 0 \in G
    <2> DEFINE g == [i \in 0..0 |-> <<>>]
    <2>1. g = [i \in 0..0 |-> Added(s, S, g, i)]
        BY DEF Added
    <2> QED BY <2>1
<1>3. ASSUME NEW n \in 1..Len(s), n - 1 \in G
      PROVE  n \in G
    <2>1. PICK h : h = [i \in 0..(n - 1) |-> Added(s, S, h, i)]
        BY <1>3
    <2> DEFINE g == [i \in 0..n |-> IF i = n THEN Added(s, S, h, n) ELSE h[i]]
    <2>2. \A i \in 0..(n - 1) : g[i] = h[i] /\ h[i] = Added(s, S, h, i)
        BY <2>1, SMTT(30)
    <2>3. \A i \in 0..n : g[i] = Added(s, S, h, i)
        <3> TAKE i \in 0..n
        <3>1. i = n \/ i \in 0..(n - 1)
            OBVIOUS
        <3>2. g[n] = Added(s, S, h, n)
            BY n \in 0..n
        <3> HIDE DEF g
        <3> QED BY <2>2, <3>1, <3>2, Zenon
    <2>4. \A i \in 0..n : Added(s, S, h, i) = Added(s, S, g, i)
        <3> TAKE i \in 0..n
        <3>1. CASE i = 0
            BY <3>1 DEF Added
        <3>2. CASE i # 0
            <4>1. g[i - 1] = h[i - 1]
                BY <2>2, <3>2
            <4> QED BY <4>1, Zenon DEF Added
        <3> QED BY <3>1, <3>2
    <2>5. g = [i \in 0..n |-> Added(s, S, g, i)]
        <3> HIDE DEF g
        <3>1. \A i \in 0..n : g[i] = Added(s, S, g, i)
            BY <2>3, <2>4
        <3>2. g = [i \in 0..n |-> g[i]]
            BY DEF g
        <3> QED BY <3>1, <3>2, Zenon
    <2>6. Exists(n)
        <3> HIDE DEF g
        <3> QED BY <2>5, Zenon
    <2> HIDE DEF Exists
    <2> QED BY <2>6
<1>4. Exists(Len(s))
    <2> HIDE DEF G, Exists
    <2>1. \A n \in 0..Len(s) : n \in G
        BY <1>1, <1>2, <1>3, UpTo, Zenon
    <2>2. Len(s) \in 0..Len(s)
        BY <1>1
    <2> QED BY <2>1, <2>2, Zenon DEF G
<1>5. Kept(s, S) = [i \in 0..Len(s) |-> Added(s, S, Kept(s, S), i)]
    BY <1>4, Zenon DEF Kept
<1>6. Only(s, S) = Kept(s, S)[Len(s)]
    BY Zenon DEF Only, Kept, Added
<1> QED BY <1>5, <1>6

\* What the loop has kept after each step: a list of members of S among the first
\* elements, in which each of them has its place, and which only grows.
Filters(K, s, S, V) ==
    /\ \A i \in 0..Len(s) : K[i] \in Seq(V) /\ Len(K[i]) <= i
    /\ \A i \in 1..Len(s) : s[i] \in S =>
          Len(K[i]) \in 1..Len(K[Len(s)]) /\ K[Len(s)][Len(K[i])] = s[i]
    /\ \A m \in 1..Len(K[Len(s)]) :
          \E i \in 1..Len(s) : s[i] \in S /\ Len(K[i]) = m /\ K[Len(s)][m] = s[i]

\* The loop does so.
LEMMA KeptHas ==
    ASSUME NEW V, NEW s \in Seq(V), NEW S
    PROVE  Filters(Kept(s, S), s, S, V)
<1> DEFINE K == Kept(s, S)
<1> HIDE DEF K
<1>0. Len(s) \in Nat
    OBVIOUS
<1>1. /\ K[0] = <<>>
      /\ \A i \in 1..Len(s) : K[i] = IF s[i] \in S THEN Append(K[i - 1], s[i]) ELSE K[i - 1]
    <2>1. K = [i \in 0..Len(s) |-> Added(s, S, K, i)]
        BY KeptIs DEF K
    <2>2. \A i \in 0..Len(s) : K[i] = Added(s, S, K, i)
        BY <2>1, Zenon
    <2> QED BY <2>2 DEF Added
<1> DEFINE T == {i \in Nat : K[i] \in Seq(V) /\ Len(K[i]) <= i}
<1>2. \A i \in 0..Len(s) : i \in T
    <2>1. 0 \in T
        <3>1. <<>> \in Seq(V) /\ Len(<<>>) = 0
            OBVIOUS
        <3>2. K[0] \in Seq(V) /\ Len(K[0]) = 0
            BY <1>1, <3>1, Zenon
        <3> QED BY <3>2
    <2>2. ASSUME NEW i \in 1..Len(s), i - 1 \in T
          PROVE  i \in T
        <3>1. s[i] \in V /\ K[i - 1] \in Seq(V) /\ Len(K[i - 1]) \in Nat /\ Len(K[i - 1]) <= i - 1
            BY <2>2
        <3>2. CASE s[i] \in S
            <4>1. K[i] = Append(K[i - 1], s[i])
                BY <1>1, <3>2, Zenon
            <4>2. K[i] \in Seq(V) /\ Len(K[i]) = Len(K[i - 1]) + 1
                BY <3>1, <4>1
            <4> QED BY <3>1, <4>2
        <3>3. CASE s[i] \notin S
            <4>1. K[i] = K[i - 1]
                BY <1>1, <3>3
            <4> QED BY <3>1, <4>1
        <3> QED BY <3>2, <3>3
    <2> HIDE DEF T
    <2> QED BY <1>0, <2>1, <2>2, UpTo, Zenon
<1>3. \A i \in 0..Len(s) : K[i] \in Seq(V) /\ Len(K[i]) \in Nat /\ Len(K[i]) <= i
    BY <1>2
<1>a. \A i \in 1..Len(s) : s[i] \in S =>
        /\ Len(K[i]) = Len(K[i - 1]) + 1 /\ K[i][Len(K[i])] = s[i]
        /\ \A m \in 1..Len(K[i - 1]) : K[i][m] = K[i - 1][m]
    <2> TAKE i \in 1..Len(s)
    <2> HAVE s[i] \in S
    <2>0. K[i] = Append(K[i - 1], s[i])
        BY <1>1, Zenon
    <2>2. s[i] \in V
        OBVIOUS
    <2>1. K[i - 1] \in Seq(V)
        BY <1>3, i - 1 \in 0..Len(s)
    <2> QED BY <2>0, <2>1, <2>2
<1>b. \A i \in 1..Len(s) : s[i] \notin S => K[i] = K[i - 1]
    BY <1>1
<1> DEFINE P == {k \in Nat : \A i \in 1..k : s[i] \in S =>
                    Len(K[i]) \in 1..Len(K[k]) /\ K[k][Len(K[i])] = s[i]}
<1>4. \A k \in 0..Len(s) : k \in P
    <2>1. 0 \in P
        OBVIOUS
    <2>2. ASSUME NEW k \in 1..Len(s), k - 1 \in P
          PROVE  k \in P
        <3> SUFFICES ASSUME NEW i \in 1..k, s[i] \in S
                     PROVE  Len(K[i]) \in 1..Len(K[k]) /\ K[k][Len(K[i])] = s[i]
            OBVIOUS
        <3>0. /\ Len(K[k]) \in Nat /\ Len(K[k - 1]) \in Nat /\ Len(K[i]) \in Nat
            BY <1>3
        <3>1. CASE i = k
            BY <1>a, <3>0, <3>1
        <3>2. CASE i # k
            <4>1. Len(K[i]) \in 1..Len(K[k - 1]) /\ K[k - 1][Len(K[i])] = s[i]
                BY <2>2, <3>2
            <4>2. CASE s[k] \in S
                BY <1>a, <3>0, <4>1, <4>2
            <4>3. CASE s[k] \notin S
                BY <1>b, <4>1, <4>3
            <4> QED BY <4>2, <4>3
        <3> QED BY <3>1, <3>2
    <2> HIDE DEF P
    <2> QED BY <1>0, <2>1, <2>2, UpTo, Zenon
<1> DEFINE Q == {k \in Nat : \A m \in 1..Len(K[k]) :
                    \E i \in 1..k : s[i] \in S /\ Len(K[i]) = m /\ K[k][m] = s[i]}
<1>5. \A k \in 0..Len(s) : k \in Q
    <2>1. 0 \in Q
        BY <1>1
    <2>2. ASSUME NEW k \in 1..Len(s), k - 1 \in Q
          PROVE  k \in Q
        <3> SUFFICES ASSUME NEW m \in 1..Len(K[k])
                     PROVE  \E i \in 1..k : s[i] \in S /\ Len(K[i]) = m /\ K[k][m] = s[i]
            BY k \in Nat, Zenon
        <3>0. /\ Len(K[k]) \in Nat /\ Len(K[k - 1]) \in Nat
            BY <1>3
        <3>1. CASE s[k] \in S /\ m = Len(K[k])
            BY <1>a, <3>1
        <3>2. CASE m \in 1..Len(K[k - 1]) /\ K[k][m] = K[k - 1][m]
            <4>1. PICK i \in 1..(k - 1) : s[i] \in S /\ Len(K[i]) = m /\ K[k - 1][m] = s[i]
                BY <2>2, <3>2
            <4> QED BY <3>2, <4>1
        <3> QED BY <1>a, <1>b, <3>0, <3>1, <3>2
    <2> HIDE DEF Q
    <2> QED BY <1>0, <2>1, <2>2, UpTo, Zenon
<1>6. Len(s) \in 0..Len(s)
    BY <1>0
<1>7. Len(s) \in P /\ Len(s) \in Q
    <2> HIDE DEF P, Q
    <2> QED BY <1>4, <1>5, <1>6
<1> QED BY <1>3, <1>7, Zenon DEF K, Filters

\* A filtered list has the members of S that the list has, once each if the list has
\* them once, and is not longer.
LEMMA OnlyIs ==
    ASSUME NEW V, NEW s \in Seq(V), NEW S
    PROVE  /\ Only(s, S) \in Seq(V) /\ Len(Only(s, S)) <= Len(s)
           /\ Range(Only(s, S)) = Range(s) \cap S
           /\ IsInjective(s) => IsInjective(Only(s, S))
<1> DEFINE K == Kept(s, S)
<1>0. Len(s) \in Nat /\ Len(s) \in 0..Len(s) /\ DOMAIN s = 1..Len(s)
    OBVIOUS
<1>1. Only(s, S) = K[Len(s)]
    BY KeptIs
<1>2. /\ \A i \in 0..Len(s) : K[i] \in Seq(V) /\ Len(K[i]) <= i
      /\ \A i \in 1..Len(s) : s[i] \in S =>
            /\ Len(K[i]) \in 1..Len(K[Len(s)]) /\ K[Len(s)][Len(K[i])] = s[i]
      /\ \A m \in 1..Len(K[Len(s)]) :
            \E i \in 1..Len(s) : s[i] \in S /\ Len(K[i]) = m /\ K[Len(s)][m] = s[i]
    <2>1. Filters(K, s, S, V)
        BY KeptHas
    <2> HIDE DEF K
    <2> QED BY <2>1, Zenon DEF Filters
<1> DEFINE L == K[Len(s)]
<1> HIDE DEF K
<1>3. L \in Seq(V) /\ Len(L) <= Len(s)
    BY <1>0, <1>2
<1>4. DOMAIN L = 1..Len(L)
    BY <1>3
<1>5. Range(L) = Range(s) \cap S
    <2>1. ASSUME NEW x \in Range(L) PROVE x \in Range(s) \cap S
        BY <1>0, <1>2, <1>4, <2>1, ZenonT(30) DEF Range
    <2>2. ASSUME NEW x \in Range(s) \cap S PROVE x \in Range(L)
        <3>1. PICK i \in 1..Len(s) : s[i] = x
            BY <1>0, <2>2, Zenon DEF Range
        <3>2. Len(K[i]) \in 1..Len(L) /\ L[Len(K[i])] = x
            BY <1>2, <2>2, <3>1
        <3> QED BY <1>4, <3>2, Zenon DEF Range
    <2> QED BY <2>1, <2>2, Zenon
<1>6. IsInjective(s) => IsInjective(L)
    <2> SUFFICES ASSUME IsInjective(s), NEW a \in 1..Len(L), NEW b \in 1..Len(L), L[a] = L[b]
                 PROVE  a = b
        BY <1>4, Zenon DEF IsInjective
    <2>1. PICK i \in 1..Len(s) : Len(K[i]) = a /\ L[a] = s[i]
        BY <1>2, Zenon
    <2>2. PICK k \in 1..Len(s) : Len(K[k]) = b /\ L[b] = s[k]
        BY <1>2, Zenon
    <2>3. i = k
        BY <1>0, <2>1, <2>2, Zenon DEF IsInjective
    <2> QED BY <2>1, <2>2, <2>3
<1> QED BY <1>1, <1>3, <1>5, <1>6, Zenon

\* What s has, t has no further forward.
MovesBack(s, t) == \A a \in 1..Len(s) : \E b \in 1..Len(t) : b >= a /\ t[b] = s[a]

\* When more is let through, what was kept moves back in the list, never forward.
LEMMA OnlyGrows ==
    ASSUME NEW V, NEW s \in Seq(V), NEW S, NEW S2, S \subseteq S2
    PROVE  MovesBack(Only(s, S), Only(s, S2))
<1> SUFFICES ASSUME NEW a \in 1..Len(Only(s, S))
             PROVE  \E b \in 1..Len(Only(s, S2)) : b >= a /\ Only(s, S2)[b] = Only(s, S)[a]
    BY Zenon DEF MovesBack
<1> DEFINE K == Kept(s, S)
           M == Kept(s, S2)
<1>0. Len(s) \in Nat
    OBVIOUS
<1>1. /\ Only(s, S) = K[Len(s)] /\ K = [i \in 0..Len(s) |-> Added(s, S, K, i)]
      /\ Only(s, S2) = M[Len(s)] /\ M = [i \in 0..Len(s) |-> Added(s, S2, M, i)]
    BY KeptIs
<1>2. /\ \A i \in 0..Len(s) : K[i] \in Seq(V)
      /\ \A m \in 1..Len(K[Len(s)]) :
            \E i \in 1..Len(s) : s[i] \in S /\ Len(K[i]) = m /\ K[Len(s)][m] = s[i]
    <2>1. Filters(K, s, S, V)
        BY KeptHas
    <2> HIDE DEF K
    <2> QED BY <2>1, Zenon DEF Filters
<1>3. /\ \A i \in 0..Len(s) : M[i] \in Seq(V)
      /\ \A i \in 1..Len(s) : s[i] \in S2 =>
            /\ Len(M[i]) \in 1..Len(M[Len(s)]) /\ M[Len(s)][Len(M[i])] = s[i]
    <2>1. Filters(M, s, S2, V)
        BY KeptHas
    <2> HIDE DEF M
    <2> QED BY <2>1, Zenon DEF Filters
<1> HIDE DEF K, M
<1>4. \A i \in 0..Len(s) : K[i] = Added(s, S, K, i) /\ M[i] = Added(s, S2, M, i)
    BY <1>1, Zenon
<1> DEFINE G == {i \in Nat : Len(K[i]) <= Len(M[i])}
<1>5. \A i \in 0..Len(s) : i \in G
    <2>1. 0 \in G
        <3>1. K[0] = <<>> /\ M[0] = <<>>
            BY <1>0, <1>4 DEF Added
        <3> QED BY <3>1
    <2>2. ASSUME NEW i \in 1..Len(s), i - 1 \in G
          PROVE  i \in G
        <3>1. /\ K[i - 1] \in Seq(V) /\ M[i - 1] \in Seq(V) /\ s[i] \in V
              /\ Len(K[i - 1]) <= Len(M[i - 1])
            BY <1>0, <1>2, <1>3, <2>2
        <3>2. /\ K[i] = IF s[i] \in S THEN Append(K[i - 1], s[i]) ELSE K[i - 1]
              /\ M[i] = IF s[i] \in S2 THEN Append(M[i - 1], s[i]) ELSE M[i - 1]
            BY <1>0, <1>4 DEF Added
        <3>3. /\ Len(K[i]) = IF s[i] \in S THEN Len(K[i - 1]) + 1 ELSE Len(K[i - 1])
              /\ Len(M[i]) = IF s[i] \in S2 THEN Len(M[i - 1]) + 1 ELSE Len(M[i - 1])
            BY <3>1, <3>2
        <3>4. Len(K[i - 1]) \in Nat /\ Len(M[i - 1]) \in Nat
            BY <3>1
        <3>5. Len(K[i]) <= Len(M[i])
            BY <3>1, <3>3, <3>4, SMTT(30)
        <3> QED BY <3>5
    <2> HIDE DEF G
    <2> QED BY <1>0, <2>1, <2>2, UpTo, Zenon
<1>6. PICK i \in 1..Len(s) : s[i] \in S /\ Len(K[i]) = a /\ K[Len(s)][a] = s[i]
    BY <1>1, <1>2, Zenon
<1>7. /\ Len(M[i]) \in 1..Len(M[Len(s)]) /\ M[Len(s)][Len(M[i])] = s[i]
    BY <1>3, <1>6
<1>8. Len(M[i]) >= a
    BY <1>5, <1>6
<1> QED BY <1>1, <1>6, <1>7, <1>8, Zenon

\* The smaller of two numbers.
LEMMA SmallerIs ==
    ASSUME NEW m \in Int, NEW n \in Int
    PROVE  Smaller(m, n) \in {m, n} /\ Smaller(m, n) <= m /\ Smaller(m, n) <= n
  BY DEF Smaller

\* What a page shows.
LEMMA PageIs ==
    ASSUME NEW V, NEW s \in Seq(V), NEW p \in Nat \ {0}
    PROVE  LET got == PageOf(s, p)
               seen == (p - 1) * PerPage
           IN  /\ seen \in Nat /\ p * PerPage = seen + PerPage
               /\ got \in Seq(V) /\ Len(got) \in 0..PerPage
               /\ Len(got) = IF seen >= Len(s) THEN 0 ELSE Smaller(PerPage, Len(s) - seen)
               /\ \A m \in 1..Len(got) : got[m] = s[seen + m]
<1> DEFINE seen == (p - 1) * PerPage
           got == PageOf(s, p)
<1>0. PerPage \in Nat /\ PerPage # 0 /\ Len(s) \in Nat
    BY PollerAssumption
<1>1. seen \in Nat /\ p * PerPage = seen + PerPage
    BY <1>0
<1>2. got = SubSeq(s, seen + 1, Smaller(seen + PerPage, Len(s)))
    BY <1>1, Zenon DEF PageOf
<1> HIDE DEF seen, got
<1>3. CASE seen >= Len(s)
    <2>1. got = SubSeq(s, seen + 1, Len(s))
        BY <1>0, <1>1, <1>2, <1>3 DEF Smaller
    <2>2. got = <<>>
        BY <1>0, <1>1, <1>3, <2>1
    <2> QED BY <1>0, <1>1, <1>3, <2>2 DEF seen, got
<1>4. CASE seen < Len(s)
    <2> DEFINE e == Smaller(seen + PerPage, Len(s))
    <2>1. e \in Nat /\ e <= Len(s) /\ seen < e /\ e - seen = Smaller(PerPage, Len(s) - seen)
        BY <1>0, <1>1, <1>4 DEF Smaller
    <2>2. got = SubSeq(s, seen + 1, e)
        BY <1>2
    <2> HIDE DEF e
    <2>3. got \in Seq(V) /\ Len(got) = e - seen
          /\ \A m \in 1..Len(got) : got[m] = s[seen + m]
        BY <1>0, <1>1, <2>1, <2>2
    <2>4. e - seen \in 0..PerPage
        BY <1>0, <1>1, <1>4, <2>1 DEF Smaller
    <2>5. ~(seen >= Len(s))
        BY <1>0, <1>1, <1>4
    <2> QED BY <1>1, <2>1, <2>3, <2>4, <2>5, Zenon DEF seen, got
<1> QED BY <1>0, <1>1, <1>3, <1>4

\* Taking the first element off a list.
LEMMA HeadTail ==
    ASSUME NEW V, NEW s \in Seq(V), s # <<>>
    PROVE  /\ Head(s) \in V /\ Tail(s) \in Seq(V) /\ Len(s) \in Nat /\ Len(s) > 0
           /\ Len(Tail(s)) = Len(s) - 1 /\ (Len(s) # 1 => Tail(s) # <<>>)
           /\ Range(s) = {Head(s)} \cup Range(Tail(s))
           /\ IsInjective(s) => IsInjective(Tail(s)) /\ Head(s) \notin Range(Tail(s))
<1>1. Len(s) \in Nat /\ Len(s) > 0 /\ DOMAIN s = 1..Len(s)
    OBVIOUS
<1>2. Head(s) = s[1] /\ Head(s) \in V
    BY <1>1
<1> DEFINE t == Tail(s)
<1>3. /\ t \in Seq(V) /\ Len(t) = Len(s) - 1
      /\ \A i \in 1..Len(t) : t[i] = s[i + 1]
    BY <1>1
<1> HIDE DEF t
<1>4. DOMAIN t = 1..Len(t)
    BY <1>3
<1>5. Len(s) # 1 => t # <<>>
    <2> SUFFICES ASSUME Len(s) # 1 PROVE t # <<>>
        OBVIOUS
    <2>1. 1 \in DOMAIN t
        BY <1>1, <1>3, <1>4
    <2> QED BY <2>1
<1>6. Range(s) = {Head(s)} \cup Range(t)
    <2>1. ASSUME NEW i \in DOMAIN s PROVE s[i] = Head(s) \/ \E k \in DOMAIN t : t[k] = s[i]
        <3>1. CASE i = 1
            BY <1>2, <3>1
        <3>2. CASE i # 1
            <4>1. i - 1 \in 1..Len(t)
                BY <1>1, <1>3, <3>2
            <4>2. t[i - 1] = s[i]
                BY <1>1, <1>3, <4>1
            <4> QED BY <1>4, <4>1, <4>2
        <3> QED BY <3>1, <3>2
    <2>2. 1 \in DOMAIN s
        BY <1>1
    <2>3. \A k \in DOMAIN t : k + 1 \in DOMAIN s /\ t[k] = s[k + 1]
        BY <1>1, <1>3, <1>4
    <2>4. ASSUME NEW x \in Range(s) PROVE x \in {Head(s)} \cup Range(t)
        BY <2>1, <2>4, Zenon DEF Range
    <2>5. ASSUME NEW x \in {Head(s)} \cup Range(t) PROVE x \in Range(s)
        <3>1. CASE x = Head(s)
            BY <1>2, <2>2, <3>1, Zenon DEF Range
        <3>2. CASE x \in Range(t)
            <4>1. PICK k \in DOMAIN t : x = t[k]
                BY <3>2, Zenon DEF Range
            <4>2. k + 1 \in DOMAIN s /\ x = s[k + 1]
                BY <2>3, <4>1
            <4> QED BY <4>2, Zenon DEF Range
        <3> QED BY <2>5, <3>1, <3>2
    <2> QED BY <2>4, <2>5, Zenon
<1>7. IsInjective(s) => IsInjective(t) /\ Head(s) \notin Range(t)
    <2> SUFFICES ASSUME IsInjective(s) PROVE IsInjective(t) /\ Head(s) \notin Range(t)
        OBVIOUS
    <2>1. \A a \in 1..Len(s), b \in 1..Len(s) : s[a] = s[b] => a = b
        BY <1>1, Zenon DEF IsInjective
    <2>2. \A a \in 1..Len(t), b \in 1..Len(t) : t[a] = t[b] => a = b
        BY <1>1, <1>3, <2>1
    <2>3. \A a \in 1..Len(t) : t[a] # s[1]
        BY <1>1, <1>3, <2>1
    <2> QED BY <1>2, <1>4, <2>2, <2>3, Zenon DEF Range, IsInjective
<1> QED BY <1>1, <1>2, <1>3, <1>5, <1>6, <1>7 DEF t

\* Joining two lists.
LEMMA JoinIs ==
    ASSUME NEW V, NEW s \in Seq(V), NEW t \in Seq(V)
    PROVE  /\ s \o t \in Seq(V) /\ Len(s \o t) = Len(s) + Len(t)
           /\ Range(s \o t) = Range(s) \cup Range(t)
           /\ (IsInjective(s) /\ IsInjective(t) /\ Range(s) \cap Range(t) = {}
                => IsInjective(s \o t))
<1> DEFINE u == s \o t
<1>0. Len(s) \in Nat /\ Len(t) \in Nat
    OBVIOUS
<1>1. /\ u \in Seq(V) /\ Len(u) = Len(s) + Len(t)
      /\ \A i \in 1..Len(s) : u[i] = s[i]
      /\ \A i \in 1..Len(t) : u[i + Len(s)] = t[i]
    BY <1>0
<1> HIDE DEF u
<1>2. DOMAIN s = 1..Len(s) /\ DOMAIN t = 1..Len(t) /\ DOMAIN u = 1..Len(u)
    BY <1>1
<1>3. \A i \in 1..Len(u) :
         \/ i \in 1..Len(s) /\ u[i] = s[i]
         \/ i - Len(s) \in 1..Len(t) /\ u[i] = t[i - Len(s)]
    <2> TAKE i \in 1..Len(u)
    <2>1. CASE i <= Len(s)
        BY <1>0, <1>1, <2>1
    <2>2. CASE i > Len(s)
        <3>1. i - Len(s) \in 1..Len(t) /\ (i - Len(s)) + Len(s) = i
            BY <1>0, <1>1, <2>2
        <3> QED BY <1>1, <3>1
    <2> QED BY <1>0, <2>1, <2>2
<1>4. Range(u) = Range(s) \cup Range(t)
    <2>1. ASSUME NEW x \in Range(u) PROVE x \in Range(s) \cup Range(t)
        BY <1>2, <1>3, <2>1, Zenon DEF Range
    <2>2. ASSUME NEW x \in Range(s) PROVE x \in Range(u)
        <3>1. PICK i \in 1..Len(s) : x = s[i]
            BY <1>2, <2>2, Zenon DEF Range
        <3>2. i \in DOMAIN u /\ x = u[i]
            BY <1>0, <1>1, <1>2, <3>1
        <3> QED BY <3>2, Zenon DEF Range
    <2>3. ASSUME NEW x \in Range(t) PROVE x \in Range(u)
        <3>1. PICK i \in 1..Len(t) : x = t[i]
            BY <1>2, <2>3, Zenon DEF Range
        <3>2. i + Len(s) \in DOMAIN u /\ x = u[i + Len(s)]
            BY <1>0, <1>1, <1>2, <3>1
        <3> QED BY <3>2, Zenon DEF Range
    <2> QED BY <2>1, <2>2, <2>3, Zenon
<1>5. ASSUME IsInjective(s), IsInjective(t), Range(s) \cap Range(t) = {}
      PROVE  IsInjective(u)
    <2>1. \A a \in 1..Len(s), b \in 1..Len(s) : s[a] = s[b] => a = b
        BY <1>2, <1>5, Zenon DEF IsInjective
    <2>2. \A a \in 1..Len(t), b \in 1..Len(t) : t[a] = t[b] => a = b
        BY <1>2, <1>5, Zenon DEF IsInjective
    <2>3. \A a \in 1..Len(s), b \in 1..Len(t) : s[a] # t[b]
        BY <1>2, <1>5, Zenon DEF Range
    <2>4. ASSUME NEW a \in 1..Len(u), NEW b \in 1..Len(u), u[a] = u[b]
          PROVE  a = b
        <3>1. CASE a \in 1..Len(s) /\ b \in 1..Len(s)
            BY <1>1, <2>1, <2>4, <3>1
        <3>2. CASE a - Len(s) \in 1..Len(t) /\ b - Len(s) \in 1..Len(t)
            <4>1. u[a] = t[a - Len(s)] /\ u[b] = t[b - Len(s)]
                BY <1>0, <1>3, <3>2
            <4>2. a - Len(s) = b - Len(s)
                BY <2>2, <2>4, <3>2, <4>1, Zenon
            <4> QED BY <1>0, <4>2
        <3> QED BY <1>0, <1>3, <2>3, <2>4, <3>1, <3>2
    <2> QED BY <1>2, <2>4, Zenon DEF IsInjective
<1> QED BY <1>1, <1>4, <1>5 DEF u

\* The first elements of a list.
LEMMA FirstIs ==
    ASSUME NEW V, NEW s \in Seq(V), NEW n \in 0..Len(s)
    PROVE  LET u == SubSeq(s, 1, n)
           IN  /\ u \in Seq(V) /\ Len(u) = n /\ \A i \in 1..n : u[i] = s[i]
               /\ Range(u) \subseteq Range(s) /\ (IsInjective(s) => IsInjective(u))
               /\ (n = Len(s) => Range(u) = Range(s))
<1> DEFINE u == SubSeq(s, 1, n)
<1>0. Len(s) \in Nat /\ n \in Nat /\ n <= Len(s)
    OBVIOUS
<1>1. u \in Seq(V) /\ Len(u) = n /\ \A i \in 1..n : u[i] = s[i]
    BY <1>0
<1> HIDE DEF u
<1>2. DOMAIN s = 1..Len(s) /\ DOMAIN u = 1..n
    BY <1>1
<1>3. \A i \in 1..n : i \in 1..Len(s)
    BY <1>0
<1>4. Range(u) \subseteq Range(s)
    BY <1>1, <1>2, <1>3, Zenon DEF Range
<1>5. IsInjective(s) => IsInjective(u)
    BY <1>1, <1>2, <1>3, Zenon DEF IsInjective
<1>6. n = Len(s) => Range(u) = Range(s)
    BY <1>1, <1>2, Zenon DEF Range
<1> QED BY <1>1, <1>4, <1>5, <1>6 DEF u

-----------------------------------------------------------------------------
(* Types.                                                                  *)

\* The runs and their jobs.
LEMMA Repository ==
    /\ RunSeq \in Seq(Runs) /\ IsInjective(RunSeq) /\ Range(RunSeq) = Runs
    /\ \A r \in Runs : /\ JobSeq[r] \in Seq(Jobs) /\ IsInjective(JobSeq[r])
                       /\ Range(JobSeq[r]) \subseteq Jobs /\ Range(JobSeq[r]) # {}
    /\ \A r \in Runs, q \in Runs : r # q => Range(JobSeq[r]) \cap Range(JobSeq[q]) = {}
    /\ \A j \in Jobs : \E r \in Runs : j \in Range(JobSeq[r])
    /\ PerPage \in Nat /\ PerPage > 0
<1>1. RunSeq \in Seq(Runs) /\ IsInjective(RunSeq) /\ Range(RunSeq) = Runs
    BY PollerAssumption DEF Runs
<1>2. \A r \in Runs : Range(JobSeq[r]) \subseteq Jobs
    BY Zenon DEF Jobs
<1>3. ASSUME NEW r \in Runs
      PROVE  JobSeq[r] \in Seq(Jobs) /\ IsInjective(JobSeq[r]) /\ Range(JobSeq[r]) # {}
    <2> DEFINE s == JobSeq[r]
    <2>1. s \in Seq(Range(s)) /\ s # <<>> /\ IsInjective(s)
        BY PollerAssumption, Zenon
    <2> HIDE DEF s
    <2>2. 1 \in DOMAIN s
        BY <2>1
    <2>3. Range(s) # {}
        BY <2>2, Zenon DEF Range
    <2>4. Range(s) \subseteq Jobs
        BY <1>2, Zenon DEF s
    <2>5. s \in Seq(Jobs)
        <3> DEFINE R == Range(s)
        <3> HIDE DEF R
        <3>1. s \in Seq(R) /\ R \subseteq Jobs
            BY <2>1, <2>4 DEF R
        <3> QED BY <3>1
    <2> QED BY <2>1, <2>3, <2>5 DEF s
<1>4. \A r \in Runs, q \in Runs : r # q => Range(JobSeq[r]) \cap Range(JobSeq[q]) = {}
    BY PollerAssumption, Zenon
<1>5. \A j \in Jobs : \E r \in Runs : j \in Range(JobSeq[r])
    BY Zenon DEF Jobs
<1>6. PerPage \in Nat /\ PerPage > 0
    BY PollerAssumption
<1> QED BY <1>1, <1>2, <1>3, <1>4, <1>5, <1>6, Zenon

\* A page shows elements of the list.
LEMMA PageWithin ==
    ASSUME NEW V, NEW s \in Seq(V), NEW p \in Nat \ {0}
    PROVE  Range(PageOf(s, p)) \subseteq Range(s)
<1> DEFINE got == PageOf(s, p)
           seen == (p - 1) * PerPage
<1>1. /\ seen \in Nat /\ got \in Seq(V)
      /\ Len(got) = IF seen >= Len(s) THEN 0 ELSE Smaller(PerPage, Len(s) - seen)
      /\ \A m \in 1..Len(got) : got[m] = s[seen + m]
    BY PageIs, Zenon
<1>2. PerPage \in Nat /\ Len(s) \in Nat /\ DOMAIN s = 1..Len(s)
    BY PollerAssumption
<1> HIDE DEF got, seen
<1>3. DOMAIN got = 1..Len(got)
    BY <1>1
<1>4. ASSUME NEW m \in 1..Len(got) PROVE seen + m \in DOMAIN s /\ got[m] = s[seen + m]
    <2>0. Len(got) # 0
        BY <1>1
    <2>3. ~(seen >= Len(s)) /\ Len(got) = Smaller(PerPage, Len(s) - seen)
        BY <1>1, <2>0, Zenon
    <2>4. Smaller(PerPage, Len(s) - seen) <= Len(s) - seen
        <3>1. PerPage \in Int /\ Len(s) - seen \in Int
            BY <1>1, <1>2
        <3> QED BY <3>1, SmallerIs, Zenon
    <2>5. Len(got) \in Nat
        BY <1>1
    <2>1. seen < Len(s) /\ Len(got) \in Nat /\ Len(got) <= Len(s) - seen
        BY <1>1, <1>2, <2>3, <2>4, <2>5
    <2>2. seen + m \in 1..Len(s)
        BY <1>1, <1>2, <2>1
    <2> QED BY <1>1, <1>2, <2>2
<1>5. Range(got) \subseteq Range(s)
    <2> SUFFICES ASSUME NEW x \in Range(got) PROVE x \in Range(s)
        OBVIOUS
    <2>1. PICK m \in 1..Len(got) : x = got[m]
        BY <1>3, Zenon DEF Range
    <2> QED BY <1>4, <2>1, Zenon DEF Range
<1> QED BY <1>5 DEF got

\* Pages of runs hold runs of the status, pages of jobs the jobs that exist.
LEMMA PagesHold ==
    ASSUME NEW p \in Nat \ {0}
    PROVE  /\ \A st : RunPage(st, p) \in Seq(Runs) /\ Range(RunPage(st, p)) \subseteq RunsIn(st)
           /\ \A r \in Runs : /\ JobPage(r, p) \in Seq(Jobs)
                              /\ Range(JobPage(r, p)) \subseteq Range(JobSeq[r]) \cap Created
<1>1. ASSUME NEW st
      PROVE  RunPage(st, p) \in Seq(Runs) /\ Range(RunPage(st, p)) \subseteq RunsIn(st)
    <2>0. RunSeq \in Seq(Runs)
        BY Repository
    <2>1. /\ Only(RunSeq, RunsIn(st)) \in Seq(Runs)
          /\ Range(Only(RunSeq, RunsIn(st))) = Range(RunSeq) \cap RunsIn(st)
        BY <2>0, OnlyIs, Zenon
    <2>2. RunPage(st, p) \in Seq(Runs)
        BY <2>1, PageIs, Zenon DEF RunPage
    <2>3. Range(RunPage(st, p)) \subseteq Range(Only(RunSeq, RunsIn(st)))
        BY <2>1, PageWithin, Zenon DEF RunPage
    <2> QED BY <2>1, <2>2, <2>3, Zenon
<1>2. ASSUME NEW r \in Runs
      PROVE  /\ JobPage(r, p) \in Seq(Jobs)
             /\ Range(JobPage(r, p)) \subseteq Range(JobSeq[r]) \cap Created
    <2>0. JobSeq[r] \in Seq(Jobs)
        BY Repository
    <2>1. /\ Only(JobSeq[r], Created) \in Seq(Jobs)
          /\ Range(Only(JobSeq[r], Created)) = Range(JobSeq[r]) \cap Created
        BY <2>0, OnlyIs, Zenon
    <2>2. JobPage(r, p) \in Seq(Jobs)
        BY <2>1, PageIs, Zenon DEF JobPage
    <2>3. Range(JobPage(r, p)) \subseteq Range(Only(JobSeq[r], Created))
        BY <2>1, PageWithin, Zenon DEF JobPage
    <2> QED BY <2>1, <2>2, <2>3, Zenon
<1> QED BY <1>1, <1>2, Zenon

\* Nothing is counted at first, and counting adds to a count.
LEMMA Tallies ==
    /\ NoTally \in [queued: [Jobs -> Nat], running: [Jobs -> Nat]]
    /\ \A count \in [Jobs -> Nat] : \A got, st : Counted(count, got, st) \in [Jobs -> Nat]
<1>1. \A count \in [Jobs -> Nat] : \A got, st : Counted(count, got, st) \in [Jobs -> Nat]
    <2> SUFFICES ASSUME NEW count \in [Jobs -> Nat], NEW got, NEW st
                 PROVE  Counted(count, got, st) \in [Jobs -> Nat]
        BY Zenon
    <2> QED BY DEF Counted
<1> QED BY <1>1 DEF NoTally

\* The end of a status's runs.
LEMMA NextStatusIs ==
    ASSUME NextStatus, list \in DOMAIN Statuses
    PROVE  /\ ids' = <<>> /\ page' = 1 /\ list' \in DOMAIN Statuses
           /\ \/ list = 1 /\ at' = "list" /\ list' = 2
              \/ list = 2 /\ at' = "done" /\ list' = list
  BY DEF NextStatus, Statuses

\* Every step of a demand poll keeps the types.
LEMMA DemandTypes ==
    ASSUME TypeOK, Poll \/ GetRuns \/ GetJobs \/ \E kind \in FailureKinds : RequestFails(kind)
    PROVE  TypeOK'
<1> USE DEF TypeOK
<1>0. 0 \in 0..MaxRetries /\ MaxRetries \in Nat
    BY PollerAssumption
<1>1. CASE Poll
    <2>1. 1 \in DOMAIN Statuses /\ <<>> \in Seq(Runs)
        BY DEF Statuses
    <2> QED BY <1>0, <1>1, <2>1, Tallies DEF Poll
<1>2. CASE GetRuns
    <2> DEFINE got == RunPage(Statuses[list], page)
               all == ids \o got
    <2>1. got \in Seq(Runs)
        BY PagesHold, Zenon
    <2>2. all \in Seq(Runs)
        <3> HIDE DEF got
        <3> QED BY <2>1
    <2>3. /\ job' = job /\ steady' = steady /\ tally' = tally
          /\ attempt' = 0
        BY <1>2 DEF GetRuns, Got
    <2>4. \/ ids' = all /\ page' = page + 1 /\ at' = at /\ list' = list
          \/ NextStatus
          \/ all # <<>> /\ ids' = all /\ page' = 1 /\ at' = "count" /\ list' = list
        BY <1>2, Zenon DEF GetRuns
    <2>5. at = "list"
        BY <1>2 DEF GetRuns
    <2> HIDE DEF all
    <2>6. /\ at' \in {"idle", "list", "count", "done", "failed"} /\ list' \in DOMAIN Statuses
          /\ page' \in Nat \ {0} /\ ids' \in Seq(Runs) /\ (at' = "count" => ids' # <<>>)
        <3>1. <<>> \in Seq(Runs)
            OBVIOUS
        <3>2. CASE NextStatus
            BY <3>1, <3>2, NextStatusIs
        <3> QED BY <2>2, <2>4, <2>5, <3>2
    <2> QED BY <1>0, <2>3, <2>6
<1>3. CASE GetJobs
    <2> DEFINE got == JobPage(Head(ids), page)
    <2>0. at = "count" /\ ids # <<>>
        BY <1>3 DEF GetJobs
    <2>1. /\ job' = job /\ steady' = steady /\ attempt' = 0
          /\ tally' = [queued |-> Counted(tally.queued, got, "queued"),
                       running |-> Counted(tally.running, got, "in_progress")]
        BY <1>3 DEF GetJobs, Got
    <2>2. \/ page' = page + 1 /\ at' = at /\ list' = list /\ ids' = ids
          \/ NextStatus
          \/ Len(ids) # 1 /\ ids' = Tail(ids) /\ page' = 1 /\ at' = at /\ list' = list
        BY <1>3, Zenon DEF GetJobs
    <2>3. /\ at' \in {"idle", "list", "count", "done", "failed"} /\ list' \in DOMAIN Statuses
          /\ page' \in Nat \ {0} /\ ids' \in Seq(Runs) /\ (at' = "count" => ids' # <<>>)
        <3>1. <<>> \in Seq(Runs)
            OBVIOUS
        <3>2. Len(ids) # 1 => Tail(ids) \in Seq(Runs) /\ Tail(ids) # <<>>
            BY <2>0, HeadTail, Zenon
        <3>3. CASE NextStatus
            BY <3>1, <3>3, NextStatusIs
        <3>4. CASE page' = page + 1 /\ at' = at /\ list' = list /\ ids' = ids
            BY <2>0, <3>4
        <3>5. CASE Len(ids) # 1 /\ ids' = Tail(ids) /\ page' = 1 /\ at' = at /\ list' = list
            BY <2>0, <3>2, <3>5
        <3> QED BY <2>2, <3>3, <3>4, <3>5
    <2>4. tally' \in [queued: [Jobs -> Nat], running: [Jobs -> Nat]]
        <3>1. tally.queued \in [Jobs -> Nat] /\ tally.running \in [Jobs -> Nat]
            OBVIOUS
        <3>2. /\ Counted(tally.queued, got, "queued") \in [Jobs -> Nat]
              /\ Counted(tally.running, got, "in_progress") \in [Jobs -> Nat]
            BY <3>1, Tallies, Zenon
        <3> QED BY <2>1, <3>2
    <2> QED BY <1>0, <2>1, <2>3, <2>4
<1>4. ASSUME NEW kind \in FailureKinds, RequestFails(kind)
      PROVE  TypeOK'
    <2>1. CASE Retries(kind)
        BY <1>0, <1>4, <2>1 DEF RequestFails, Retries, loopVars
    <2>2. CASE ~Retries(kind)
        <3>1. 1 \in DOMAIN Statuses /\ <<>> \in Seq(Runs)
            BY DEF Statuses
        <3> QED BY <1>0, <1>4, <2>2, <3>1, Tallies DEF RequestFails
    <2> QED BY <2>1, <2>2
<1> QED BY <1>1, <1>2, <1>3, <1>4

\* Every step keeps the types.
LEMMA TypeNext == TypeOK /\ [Next]_vars => TypeOK'
<1> SUFFICES ASSUME TypeOK, [Next]_vars PROVE TypeOK'
    OBVIOUS
<1>1. CASE Poll \/ GetRuns \/ GetJobs \/ \E kind \in FailureKinds : RequestFails(kind)
    BY <1>1, DemandTypes
<1>2. CASE \E j \in Jobs : JobMoves(j)
    <2> PICK j \in Jobs : JobMoves(j)
        BY <1>2
    <2>1. PICK to \in {"waiting", "queued", "in_progress", "completed"} : job' = [job EXCEPT ![j] = to]
        BY Zenon DEF JobMoves
    <2>2. job' \in [Jobs -> {"absent", "waiting", "queued", "in_progress", "completed"}]
        BY <2>1 DEF TypeOK
    <2>3. UNCHANGED <<at, list, page, ids, tally, attempt>> /\ steady' \subseteq Jobs
        BY DEF JobMoves, loopVars, TypeOK
    <2> QED BY <2>2, <2>3, Zenon DEF TypeOK
<1>3. CASE UNCHANGED vars
    <2>1. UNCHANGED <<job, at, list, page, ids, tally, attempt, steady>>
        BY <1>3 DEF vars, loopVars
    <2> QED BY <2>1, Zenon DEF TypeOK
<1> QED BY <1>1, <1>2, <1>3, Zenon DEF Next

\* The types hold at first.
LEMMA TypeInit == Init => TypeOK
<1>1. 1 \in DOMAIN Statuses /\ <<>> \in Seq(Runs) /\ 0 \in 0..MaxRetries
    BY PollerAssumption DEF Statuses
<1> QED BY <1>1, Tallies DEF Init, TypeOK

\* Every variable of the poll has its type, whatever fails, is tried again or moves on between
\* two requests, and no request is tried more than MaxRetries times after the first
\* (CurrentDemand, doWithRetry).
THEOREM DemandTypeCorrect == Spec => []TypeOK
  BY TypeInit, TypeNext, PTL DEF Spec

\* A page of a run's jobs is counted.
LEMMA GetJobsIs ==
    ASSUME TypeOK, GetJobs
    PROVE  LET r == Head(ids)
               got == JobPage(r, page)
               Hit(j, st) == IF j \in Range(got) \cap Matching /\ job[j] = st THEN 1 ELSE 0
           IN  /\ at = "count" /\ ids \in Seq(Runs) /\ ids # <<>> /\ r \in Runs
               /\ got \in Seq(Jobs) /\ Range(got) \subseteq Range(JobSeq[r]) \cap Created
               /\ UNCHANGED <<job, steady>>
               /\ \A j \in Jobs : /\ tally'.queued[j] = tally.queued[j] + Hit(j, "queued")
                                  /\ tally'.running[j] = tally.running[j] + Hit(j, "in_progress")
               /\ \/ /\ Len(got) = PerPage /\ page' = page + 1
                     /\ UNCHANGED <<at, list, ids>>
                  \/ Len(got) # PerPage /\ Len(ids) = 1 /\ NextStatus
                  \/ /\ Len(got) # PerPage /\ Len(ids) # 1 /\ ids' = Tail(ids) /\ page' = 1
                     /\ UNCHANGED <<at, list>>
<1> DEFINE r == Head(ids)
           got == JobPage(r, page)
<1>1. at = "count" /\ ids \in Seq(Runs) /\ ids # <<>> /\ page \in Nat \ {0}
    BY DEF TypeOK, GetJobs
<1>2. r \in Runs
    BY <1>1, HeadTail, Zenon
<1>3. got \in Seq(Jobs) /\ Range(got) \subseteq Range(JobSeq[r]) \cap Created
    BY <1>1, <1>2, PagesHold, Zenon
<1>4. /\ UNCHANGED <<job, steady>>
      /\ tally' = [queued |-> Counted(tally.queued, got, "queued"),
                   running |-> Counted(tally.running, got, "in_progress")]
      /\ IF Len(got) = PerPage THEN page' = page + 1 /\ UNCHANGED <<at, list, ids>>
         ELSE IF Len(ids) = 1 THEN NextStatus
         ELSE ids' = Tail(ids) /\ page' = 1 /\ UNCHANGED <<at, list>>
    BY Zenon DEF GetJobs, Got
<1> HIDE DEF got, r
<1> DEFINE Hit(j, st) == IF j \in Range(got) \cap Matching /\ job[j] = st THEN 1 ELSE 0
<1>5. \A j \in Jobs : /\ tally'.queued[j] = tally.queued[j] + Hit(j, "queued")
                      /\ tally'.running[j] = tally.running[j] + Hit(j, "in_progress")
    <2>1. /\ tally'.queued = Counted(tally.queued, got, "queued")
          /\ tally'.running = Counted(tally.running, got, "in_progress")
        BY <1>4
    <2> QED BY <2>1, Zenon DEF Counted
<1>6. \/ /\ Len(got) = PerPage /\ page' = page + 1
         /\ UNCHANGED <<at, list, ids>>
      \/ Len(got) # PerPage /\ Len(ids) = 1 /\ NextStatus
      \/ /\ Len(got) # PerPage /\ Len(ids) # 1 /\ ids' = Tail(ids) /\ page' = 1
         /\ UNCHANGED <<at, list>>
    BY <1>4, Zenon
<1> QED BY <1>1, <1>2, <1>3, <1>4, <1>5, <1>6, Zenon DEF got, r

\* The status of a run is that of its jobs.
LEMMA SameStatus ==
    ASSUME NEW r, \A j \in Range(JobSeq[r]) : job'[j] = job[j]
    PROVE  RunStatus(r)' = RunStatus(r)
<1>1. {job'[j] : j \in Range(JobSeq[r])} = {job[j] : j \in Range(JobSeq[r])}
    BY Zenon
<1> QED BY <1>1, Zenon DEF RunStatus

-----------------------------------------------------------------------------
(* Paging.                                                                 *)

\* The first n elements of a list, and those after them.
Shown(s, n) == {s[i] : i \in {k \in 1..Len(s) : k <= n}}
Ahead(s, n) == {s[i] : i \in {k \in 1..Len(s) : k > n}}

\* Before the first page nothing has been shown, and everything in the end.
LEMMA ShownIs ==
    ASSUME NEW V, NEW s \in Seq(V)
    PROVE  /\ Shown(s, 0) = {} /\ Ahead(s, 0) = Range(s)
           /\ \A n \in Nat : Len(s) <= n => Shown(s, n) = Range(s)
<1>1. Len(s) \in Nat /\ DOMAIN s = 1..Len(s)
    OBVIOUS
<1>2. {k \in 1..Len(s) : k <= 0} = {} /\ {k \in 1..Len(s) : k > 0} = 1..Len(s)
    BY <1>1
<1>3. \A n \in Nat : Len(s) <= n => {k \in 1..Len(s) : k <= n} = 1..Len(s)
    BY <1>1
<1>4. Shown(s, 0) = {}
    BY <1>2, Zenon DEF Shown
<1>5. Ahead(s, 0) = Range(s)
    BY <1>1, <1>2, Zenon DEF Ahead, Range
<1>6. \A n \in Nat : Len(s) <= n => Shown(s, n) = Range(s)
    BY <1>1, <1>3, Zenon DEF Shown, Range
<1> QED BY <1>4, <1>5, <1>6

\* The n places after the first seen ones, up to next, of a list of len: a page, if n is per.
Spans(seen, next, per, len, n) ==
    /\ n = per <=> next <= len
    /\ \A k \in 1..len : (k > seen /\ k <= next) <=> k - seen \in 1..n
    /\ \A m \in 1..n : seen + m \in 1..len /\ seen + m > seen /\ seen + m <= next

\* A page that is not empty does.
LEMMA PageNumbers ==
    ASSUME NEW seen \in Nat, NEW next \in Nat, NEW per \in Nat, NEW len \in Nat, NEW n \in Nat,
           per > 0, next = seen + per, seen < len, n = Smaller(per, len - seen)
    PROVE  Spans(seen, next, per, len, n)
<1> USE DEF Spans
<1>1. CASE per < len - seen
    <2>1. n = per
        BY <1>1 DEF Smaller
    <2> QED BY <1>1, <2>1
<1>2. CASE ~(per < len - seen)
    <2>1. n = len - seen
        BY <1>2 DEF Smaller
    <2> QED BY <1>2, <2>1
<1> QED BY <1>1, <1>2

\* A page is what is shown next; a page that is not full is the last.
Turns(s, p, V) ==
    LET got == PageOf(s, p)
        seen == (p - 1) * PerPage
        next == p * PerPage
    IN  /\ seen \in Nat /\ next \in Nat /\ next = seen + PerPage
        /\ got \in Seq(V) /\ Len(got) \in Nat
        /\ Len(got) = PerPage <=> next <= Len(s)
        /\ Shown(s, next) = Shown(s, seen) \cup Range(got)
        /\ (IsInjective(s) => Shown(s, seen) \cap Range(got) = {})
        /\ Ahead(s, seen) = Range(got) \cup Ahead(s, next)
        /\ Ahead(s, next) # {} => Len(got) = PerPage

\* The pages of every list do so.
LEMMA PageNext ==
    ASSUME NEW V, NEW s \in Seq(V), NEW p \in Nat \ {0}
    PROVE  Turns(s, p, V)
<1> DEFINE got == PageOf(s, p)
           seen == (p - 1) * PerPage
           next == p * PerPage
<1>1. /\ seen \in Nat /\ next = seen + PerPage /\ got \in Seq(V) /\ Len(got) \in 0..PerPage
      /\ Len(got) = IF seen >= Len(s) THEN 0 ELSE Smaller(PerPage, Len(s) - seen)
      /\ \A m \in 1..Len(got) : got[m] = s[seen + m]
    BY PageIs, Zenon
<1>2. PerPage \in Nat /\ PerPage > 0 /\ Len(s) \in Nat /\ DOMAIN s = 1..Len(s)
    BY Repository
<1> HIDE DEF got, seen, next
<1>3. next \in Nat
    BY <1>1, <1>2
<1>4. DOMAIN got = 1..Len(got) /\ Len(got) \in Nat
    BY <1>1
<1>5. CASE seen >= Len(s)
    <2>1. Len(got) = 0
        BY <1>1, <1>5, Zenon
    <2>2. Range(got) = {}
        BY <1>4, <2>1 DEF Range
    <2>3. Len(got) = PerPage <=> next <= Len(s)
        BY <1>1, <1>2, <1>5, <2>1
    <2>4. /\ {k \in 1..Len(s) : k <= next} = {k \in 1..Len(s) : k <= seen}
          /\ {k \in 1..Len(s) : k > next} = {} /\ {k \in 1..Len(s) : k > seen} = {}
        BY <1>1, <1>2, <1>5
    <2>5. Shown(s, next) = Shown(s, seen) /\ Ahead(s, next) = {} /\ Ahead(s, seen) = {}
        BY <2>4, Zenon DEF Shown, Ahead
    <2> QED BY <1>1, <1>3, <1>4, <2>2, <2>3, <2>5, Zenon DEF got, seen, next, Turns
<1>6. CASE seen < Len(s)
    <2>1. Len(got) = Smaller(PerPage, Len(s) - seen)
        BY <1>1, <1>2, <1>6
    <2>2. /\ Len(got) = PerPage <=> next <= Len(s)
          /\ \A k \in 1..Len(s) : (k > seen /\ k <= next) <=> k - seen \in 1..Len(got)
          /\ \A m \in 1..Len(got) : seen + m \in 1..Len(s) /\ seen + m > seen /\ seen + m <= next
        <3>1. /\ seen \in Nat /\ next \in Nat /\ PerPage \in Nat /\ Len(s) \in Nat /\ Len(got) \in Nat
              /\ PerPage > 0 /\ next = seen + PerPage /\ seen < Len(s)
            BY <1>1, <1>2, <1>3, <1>4, <1>6, Zenon
        <3>2. Spans(seen, next, PerPage, Len(s), Len(got))
            BY <2>1, <3>1, PageNumbers
        <3> QED BY <3>2, Zenon DEF Spans
    <2>3. \A k \in 1..Len(s) : (k > seen /\ k <= next) <=> k - seen \in 1..Len(got)
        BY <2>2, Zenon
    <2>4. \A m \in 1..Len(got) : seen + m \in 1..Len(s) /\ seen + m > seen /\ seen + m <= next
                                 /\ got[m] = s[seen + m]
        BY <1>1, <2>2, Zenon
    <2>5. \A x : x \in Range(got) <=> \E k \in 1..Len(s) : k > seen /\ k <= next /\ s[k] = x
        <3> TAKE x
        <3>1. ASSUME x \in Range(got) PROVE \E k \in 1..Len(s) : k > seen /\ k <= next /\ s[k] = x
            <4>1. PICK m \in 1..Len(got) : got[m] = x
                BY <1>4, <3>1, Zenon DEF Range
            <4> QED BY <2>4, <4>1, Zenon
        <3>2. ASSUME NEW k \in 1..Len(s), k > seen, k <= next, s[k] = x PROVE x \in Range(got)
            <4>1. k - seen \in 1..Len(got) /\ seen + (k - seen) = k
                BY <1>1, <2>3, <3>2
            <4>2. got[k - seen] = x
                BY <1>1, <3>2, <4>1
            <4> QED BY <1>4, <4>1, <4>2, Zenon DEF Range
        <3> QED BY <3>1, <3>2, Zenon
    <2>6. \A k \in 1..Len(s) : /\ k <= next <=> (k <= seen \/ (k > seen /\ k <= next))
                               /\ k > seen <=> (k > next \/ (k > seen /\ k <= next))
                               /\ ~(k <= seen /\ k > seen)
        BY <1>1, <1>2, <1>3
    <2>7. \A x, n : /\ x \in Shown(s, n) <=> \E k \in 1..Len(s) : k <= n /\ s[k] = x
                    /\ x \in Ahead(s, n) <=> \E k \in 1..Len(s) : k > n /\ s[k] = x
        BY Zenon DEF Shown, Ahead
    <2>8. Shown(s, next) = Shown(s, seen) \cup Range(got)
        <3>1. \A x : x \in Shown(s, next) <=> x \in Shown(s, seen) \/ x \in Range(got)
            BY <2>5, <2>6, <2>7, Zenon
        <3> QED BY <3>1, Zenon
    <2>9. Ahead(s, seen) = Range(got) \cup Ahead(s, next)
        <3>1. \A x : x \in Ahead(s, seen) <=> x \in Ahead(s, next) \/ x \in Range(got)
            BY <2>5, <2>6, <2>7, Zenon
        <3> QED BY <3>1, Zenon
    <2>10. IsInjective(s) => Shown(s, seen) \cap Range(got) = {}
        <3> SUFFICES ASSUME IsInjective(s), NEW x \in Shown(s, seen), x \in Range(got) PROVE FALSE
            BY Zenon
        <3>1. PICK k \in 1..Len(s) : k <= seen /\ s[k] = x
            BY <2>7, Zenon
        <3>2. PICK m \in 1..Len(s) : m > seen /\ s[m] = x
            BY <2>5, Zenon
        <3>3. k = m
            BY <1>2, <3>1, <3>2, Zenon DEF IsInjective
        <3> QED BY <2>6, <3>1, <3>2, <3>3, Zenon
    <2>11. Ahead(s, next) # {} => Len(got) = PerPage
        <3> SUFFICES ASSUME Ahead(s, next) # {} PROVE Len(got) = PerPage
            OBVIOUS
        <3>1. PICK k \in 1..Len(s) : k > next
            BY <2>7, Zenon
        <3> QED BY <1>2, <1>3, <2>2, <3>1
    <2> QED BY <1>1, <1>3, <1>4, <2>2, <2>8, <2>9, <2>10, <2>11, Zenon DEF got, seen, next, Turns
<1> QED BY <1>1, <1>2, <1>5, <1>6

\* Letting more through moves nothing forward.
LEMMA AheadGrows ==
    ASSUME NEW V, NEW s \in Seq(V), NEW S, NEW S2, S \subseteq S2, NEW n \in Nat
    PROVE  Ahead(Only(s, S), n) \subseteq Ahead(Only(s, S2), n)
<1> SUFFICES ASSUME NEW x \in Ahead(Only(s, S), n) PROVE x \in Ahead(Only(s, S2), n)
    OBVIOUS
<1>1. PICK a \in 1..Len(Only(s, S)) : a > n /\ Only(s, S)[a] = x
    BY Zenon DEF Ahead
<1>2. PICK b \in 1..Len(Only(s, S2)) : b >= a /\ Only(s, S2)[b] = x
    <2>0. MovesBack(Only(s, S), Only(s, S2))
        BY OnlyGrows
    <2>1. \E b \in 1..Len(Only(s, S2)) : b >= a /\ Only(s, S2)[b] = Only(s, S)[a]
        BY <2>0, Zenon DEF MovesBack
    <2> QED BY <1>1, <2>1, Zenon
<1>3. b > n
    <2>1. a \in Int /\ b \in Int
        BY <1>1, <1>2
    <2> QED BY <1>1, <1>2, <2>1
<1> QED BY <1>2, <1>3, Zenon DEF Ahead

\* A page of runs is added to those listed.
LEMMA GetRunsIs ==
    ASSUME TypeOK, GetRuns
    PROVE  LET got == RunPage(Statuses[list], page)
               all == ids \o got
           IN  /\ at = "list" /\ all \in Seq(Runs) /\ Range(all) = Range(ids) \cup Range(got)
               /\ UNCHANGED <<job, steady, tally>>
               /\ \/ /\ Len(got) = PerPage /\ ids' = all /\ page' = page + 1
                     /\ UNCHANGED <<at, list>>
                  \/ Len(got) # PerPage /\ all = <<>> /\ NextStatus
                  \/ /\ Len(got) # PerPage /\ all # <<>> /\ ids' = all /\ page' = 1
                     /\ at' = "count" /\ list' = list
<1> DEFINE got == RunPage(Statuses[list], page)
           all == ids \o got
<1>1. ids \in Seq(Runs) /\ page \in Nat \ {0}
    BY DEF TypeOK
<1>2. got \in Seq(Runs)
    BY <1>1, PagesHold, Zenon
<1>3. at = "list" /\ UNCHANGED <<job, steady, tally>>
    BY Zenon DEF GetRuns, Got
<1>4. \/ Len(got) = PerPage /\ ids' = all /\ page' = page + 1 /\ UNCHANGED <<at, list>>
      \/ Len(got) # PerPage /\ all = <<>> /\ NextStatus
      \/ /\ Len(got) # PerPage /\ all # <<>> /\ ids' = all /\ page' = 1
         /\ at' = "count" /\ list' = list
    BY Zenon DEF GetRuns
<1> HIDE DEF got
<1>5. all \in Seq(Runs) /\ Range(all) = Range(ids) \cup Range(got)
    BY <1>1, <1>2, JoinIs, ZenonT(30)
<1> QED BY <1>3, <1>4, <1>5, Zenon DEF got

\* The status of a run whose jobs have the statuses in seen.
Summary(seen) ==
    CASE seen = {"absent"} -> "absent"
      [] seen = {"completed"} -> "completed"
      [] "waiting" \in seen /\ seen \cap {"queued", "in_progress"} = {} -> "waiting"
      [] seen \subseteq {"absent", "waiting", "queued"} -> "queued"
      [] OTHER -> "in_progress"

\* A run with a queued job is queued until one of its jobs has started, and one with a
\* job in progress is in progress.
LEMMA SummaryIs ==
    ASSUME NEW seen
    PROVE  /\ "queued" \in seen =>
                Summary(seen) = IF seen \subseteq {"absent", "waiting", "queued"}
                                THEN "queued" ELSE "in_progress"
           /\ "in_progress" \in seen => Summary(seen) = "in_progress"
<1>1. "queued" \in seen \/ "in_progress" \in seen =>
        /\ seen # {"absent"} /\ seen # {"completed"}
        /\ ~("waiting" \in seen /\ seen \cap {"queued", "in_progress"} = {})
    OBVIOUS
<1>2. "in_progress" \in seen => ~(seen \subseteq {"absent", "waiting", "queued"})
    OBVIOUS
<1> QED BY <1>1, <1>2 DEF Summary

\* The run of a queued job is queued until one of its jobs has started.
LEMMA QueuedRun ==
    ASSUME NEW r, NEW j \in Range(JobSeq[r]), job[j] = "queued"
    PROVE  RunStatus(r) = IF \A i \in Range(JobSeq[r]) : job[i] \in {"absent", "waiting", "queued"}
                          THEN "queued" ELSE "in_progress"
<1> DEFINE seen == {job[i] : i \in Range(JobSeq[r])}
<1>1. "queued" \in seen
    BY Zenon
<1>2. seen \subseteq {"absent", "waiting", "queued"} <=>
        \A i \in Range(JobSeq[r]) : job[i] \in {"absent", "waiting", "queued"}
    BY Zenon
<1>3. RunStatus(r) = Summary(seen)
    BY Zenon DEF RunStatus, Summary
<1> HIDE DEF seen
<1> QED BY <1>1, <1>2, <1>3, SummaryIs, Zenon

\* The run of a job in progress is in progress.
LEMMA RunningRun ==
    ASSUME NEW r, NEW j \in Range(JobSeq[r]), job[j] = "in_progress"
    PROVE  RunStatus(r) = "in_progress"
<1> DEFINE seen == {job[i] : i \in Range(JobSeq[r])}
<1>1. "in_progress" \in seen
    BY Zenon
<1>2. RunStatus(r) = Summary(seen)
    BY Zenon DEF RunStatus, Summary
<1> HIDE DEF seen
<1> QED BY <1>1, <1>2, SummaryIs, Zenon

Visible(r) == Only(JobSeq[r], Created)

\* The job is counted, or still comes: in a run on the list, behind the pages of it that
\* were counted, or in one that the next list shows.
Due(j, r) ==
    \/ tally.queued[j] > 0
    \/ at = "list" /\ list = 1 /\ page = 1
    \/ at = "list" /\ page > 1 /\ r \in Range(ids)
    \/ /\ at = "count" /\ r \in Range(ids)
       /\ r = Head(ids) => j \in Ahead(Visible(r), (page - 1) * PerPage)
    \/ /\ at \in {"list", "count"} /\ RunStatus(r) = "in_progress"
       /\ list = 1 \/ (at = "list" /\ page = 1)

WaitingInv ==
    at \in {"list", "count", "done"} /\ PerPage >= Len(RunSeq) =>
        \A r \in Runs : \A j \in Range(JobSeq[r]) \cap steady \cap Matching :
            job[j] = "queued" => Due(j, r)

\* The jobs of a run that can be seen.
LEMMA VisibleIs ==
    ASSUME NEW r \in Runs
    PROVE  /\ Visible(r) \in Seq(Jobs) /\ IsInjective(Visible(r))
           /\ Range(Visible(r)) = Range(JobSeq[r]) \cap Created
           /\ \A j \in Range(JobSeq[r]) : job[j] # "absent" => j \in Range(Visible(r))
<1>1. JobSeq[r] \in Seq(Jobs) /\ IsInjective(JobSeq[r]) /\ Range(JobSeq[r]) \subseteq Jobs
    BY Repository
<1>2. /\ Visible(r) \in Seq(Jobs) /\ (IsInjective(JobSeq[r]) => IsInjective(Visible(r)))
      /\ Range(Visible(r)) = Range(JobSeq[r]) \cap Created
    BY <1>1, OnlyIs, Zenon DEF Visible
<1> QED BY <1>1, <1>2, Zenon DEF Created

\* While no job moves, the lists stay as they are.
LEMMA SameLists ==
    ASSUME job' = job
    PROVE  /\ Created' = Created
           /\ \A r : RunStatus(r)' = RunStatus(r) /\ Visible(r)' = Visible(r)
           /\ \A st : RunsIn(st)' = RunsIn(st)
<1>1. Created' = Created
    BY DEF Created
<1>2. \A r : RunStatus(r)' = RunStatus(r)
    BY SameStatus, Zenon
<1>3. \A r : Visible(r)' = Visible(r)
    BY <1>1, Zenon DEF Visible, Only
<1>4. \A st : RunsIn(st)' = RunsIn(st)
    BY <1>2, Zenon DEF RunsIn
<1> QED BY <1>1, <1>2, <1>3, <1>4

\* Where the runs fit one page, that page has them all.
LEMMA OnePage ==
    ASSUME PerPage >= Len(RunSeq), NEW st
    PROVE  Range(RunPage(st, 1)) = RunsIn(st)
<1> DEFINE s == Only(RunSeq, RunsIn(st))
<1>1. RunSeq \in Seq(Runs) /\ Range(RunSeq) = Runs /\ PerPage \in Nat
    BY Repository
<1>2. s \in Seq(Runs) /\ Len(s) <= Len(RunSeq) /\ Range(s) = Range(RunSeq) \cap RunsIn(st)
    BY <1>1, OnlyIs, Zenon
<1>3. RunPage(st, 1) = PageOf(s, 1)
    BY Zenon DEF RunPage
<1> HIDE DEF s
<1>4. 1 \in Nat \ {0} /\ (1 - 1) * PerPage = 0 /\ 1 * PerPage = PerPage
    BY <1>1
<1>5. Shown(s, PerPage) = Shown(s, 0) \cup Range(PageOf(s, 1))
    <2>1. Shown(s, 1 * PerPage) = Shown(s, (1 - 1) * PerPage) \cup Range(PageOf(s, 1))
        <3>1. Turns(s, 1, Runs)
            BY <1>2, <1>4, PageNext
        <3> QED BY <3>1, Zenon DEF Turns
    <2> QED BY <1>4, <2>1, Zenon
<1>6. Len(s) <= PerPage
    <2>1. Len(s) \in Nat /\ Len(RunSeq) \in Nat
        BY <1>1, <1>2
    <2> QED BY <1>1, <1>2, <2>1
<1>7. Range(PageOf(s, 1)) = Range(s)
    BY <1>1, <1>2, <1>5, <1>6, ShownIs, Zenon
<1> QED BY <1>1, <1>2, <1>3, <1>7, Zenon DEF RunsIn

\* Listing a page of runs leaves no waiting job behind.
LEMMA WaitingListed ==
    ASSUME TypeOK, WaitingInv, PerPage >= Len(RunSeq), GetRuns
    PROVE  WaitingInv'
<1> DEFINE got == RunPage(Statuses[list], page)
           all == ids \o got
<1>1. /\ at = "list" /\ all \in Seq(Runs) /\ Range(all) = Range(ids) \cup Range(got)
      /\ UNCHANGED <<job, steady, tally>>
      /\ \/ Len(got) = PerPage /\ ids' = all /\ page' = page + 1 /\ UNCHANGED <<at, list>>
         \/ Len(got) # PerPage /\ all = <<>> /\ NextStatus
         \/ /\ Len(got) # PerPage /\ all # <<>> /\ ids' = all /\ page' = 1
            /\ at' = "count" /\ list' = list
    BY GetRunsIs, Zenon
<1> SUFFICES ASSUME NEW r \in Runs, NEW j \in Range(JobSeq[r]) \cap steady' \cap Matching,
                    job'[j] = "queued"
             PROVE  Due(j, r)'
    BY Zenon DEF WaitingInv
<1>2. page \in Nat /\ page # 0 /\ list \in {1, 2} /\ list \in DOMAIN Statuses
    BY DEF TypeOK, Statuses
<1>3. job[j] = "queued" /\ Due(j, r)
    BY <1>1, Zenon DEF WaitingInv
<1>4. RunStatus(r) \in {"queued", "in_progress"}
    BY <1>3, QueuedRun
<1>5. /\ RunStatus(r)' = RunStatus(r) /\ Visible(r)' = Visible(r)
      /\ tally' = tally /\ PerPage' = PerPage
    BY <1>1, SameLists, Zenon
<1>6. page = 1 => (r \in Range(got) <=> RunStatus(r) = Statuses[list])
    BY OnePage, Zenon DEF RunsIn
<1> HIDE DEF got, all
<1>7. Statuses[1] = "queued" /\ Statuses[2] = "in_progress"
    BY DEF Statuses
<1>8. /\ all = <<>> => Range(all) = {}
    BY DEF Range
<1>9. CASE tally.queued[j] > 0
    BY <1>5, <1>9 DEF Due
<1>10. CASE r \in Range(all)
    <2>1. all # <<>>
        BY <1>8, <1>10
    <2>2. CASE Len(got) = PerPage
        <3>1. at' = "list" /\ ids' = all /\ page' > 1
            BY <1>1, <1>2, <2>2
        <3> QED BY <1>10, <3>1 DEF Due
    <2>3. CASE Len(got) # PerPage
        <3>1. at' = "count" /\ ids' = all /\ page' = 1
            BY <1>1, <2>1, <2>3
        <3>2. j \in Ahead(Visible(r), (1 - 1) * PerPage)
            <4>1. (1 - 1) * PerPage = 0
                BY Repository
            <4>2. j \in Range(Visible(r)) /\ Visible(r) \in Seq(Jobs)
                BY <1>3, VisibleIs
            <4> QED BY <4>1, <4>2, ShownIs, Zenon
        <3>3. (j \in Ahead(Visible(r), (page - 1) * PerPage))'
            BY <1>5, <3>1, <3>2, Zenon DEF Ahead
        <3> QED BY <1>10, <3>1, <3>3, Zenon DEF Due
    <2> QED BY <2>2, <2>3
<1>11. CASE r \notin Range(all) /\ RunStatus(r) = "in_progress" /\ list = 1
    <2>1. /\ at' \in {"list", "count"} /\ (list' = 1 \/ (at' = "list" /\ page' = 1))
        BY <1>1, <1>2, <1>11, NextStatusIs
    <2> QED BY <1>5, <1>11, <2>1 DEF Due
<1>12. CASE page = 1 /\ r \notin Range(all) /\ ~(tally.queued[j] > 0)
    <2>1. RunStatus(r) # Statuses[list]
        BY <1>1, <1>6, <1>12, Zenon
    <2>2. list = 1
        BY <1>1, <1>2, <1>3, <1>7, <1>12, <2>1 DEF Due
    <2>3. RunStatus(r) = "in_progress"
        BY <1>4, <1>7, <2>1, <2>2
    <2> QED BY <1>11, <1>12, <2>2, <2>3
<1>13. CASE page # 1 /\ r \notin Range(all) /\ ~(tally.queued[j] > 0)
    <2>1. r \notin Range(ids)
        BY <1>1, <1>13, Zenon
    <2>2. RunStatus(r) = "in_progress" /\ list = 1
        BY <1>1, <1>3, <1>13, <2>1 DEF Due
    <2> QED BY <1>11, <1>13, <2>2
<1> QED BY <1>9, <1>10, <1>12, <1>13

\* Counting a page of jobs leaves no waiting job behind.
LEMMA WaitingCounted ==
    ASSUME TypeOK, WaitingInv, PerPage >= Len(RunSeq), GetJobs
    PROVE  WaitingInv'
<1> DEFINE h == Head(ids)
           got == JobPage(h, page)
           Hit(i) == IF i \in Range(got) \cap Matching /\ job[i] = "queued" THEN 1 ELSE 0
<1>1. /\ at = "count" /\ ids \in Seq(Runs) /\ ids # <<>> /\ h \in Runs
      /\ UNCHANGED <<job, steady>>
      /\ \A i \in Jobs : tally'.queued[i] = tally.queued[i] + Hit(i)
      /\ \/ Len(got) = PerPage /\ page' = page + 1 /\ UNCHANGED <<at, list, ids>>
         \/ Len(got) # PerPage /\ Len(ids) = 1 /\ NextStatus
         \/ /\ Len(got) # PerPage /\ Len(ids) # 1 /\ ids' = Tail(ids) /\ page' = 1
            /\ UNCHANGED <<at, list>>
    BY GetJobsIs, Zenon
<1> SUFFICES ASSUME NEW r \in Runs, NEW j \in Range(JobSeq[r]) \cap steady' \cap Matching,
                    job'[j] = "queued"
             PROVE  Due(j, r)'
    BY Zenon DEF WaitingInv
<1>2. /\ page \in Nat \ {0} /\ list \in DOMAIN Statuses /\ tally.queued[j] \in Nat /\ j \in Jobs
    BY <1>1 DEF TypeOK
<1>3. job[j] = "queued" /\ Due(j, r)
    BY <1>1, Zenon DEF WaitingInv
<1>4. RunStatus(r)' = RunStatus(r) /\ Visible(r)' = Visible(r)
    BY <1>1, SameLists, Zenon
<1>5. /\ Visible(r) \in Seq(Jobs) /\ j \in Range(Visible(r))
    BY <1>3, VisibleIs
<1>6. /\ Len(ids) \in Nat /\ Len(Tail(ids)) = Len(ids) - 1 /\ Tail(ids) \in Seq(Runs)
      /\ Range(ids) = {h} \cup Range(Tail(ids))
    BY <1>1, HeadTail, Zenon
<1>7. h = r => got = PageOf(Visible(r), page)
    BY Zenon DEF JobPage, Visible
<1> HIDE DEF h, got
<1>8. tally'.queued[j] = tally.queued[j] + Hit(j)
    BY <1>1, <1>2, Zenon
<1>9. CASE tally.queued[j] > 0 \/ j \in Range(got)
    <2>1. tally'.queued[j] > 0
        BY <1>2, <1>3, <1>8, <1>9
    <2> QED BY <2>1 DEF Due
<1>10. CASE /\ j \notin Range(got) /\ r \in Range(ids)
            /\ r = h => j \in Ahead(Visible(r), (page - 1) * PerPage)
    <2>1. CASE r = h
        <3> DEFINE next == page * PerPage
        <3>1. /\ Ahead(Visible(r), (page - 1) * PerPage) = Range(got) \cup Ahead(Visible(r), next)
              /\ Ahead(Visible(r), next) # {} => Len(got) = PerPage
            <4>1. Turns(Visible(r), page, Jobs)
                BY <1>2, <1>5, PageNext
            <4>2. got = PageOf(Visible(r), page)
                BY <1>7, <2>1
            <4> QED BY <4>1, <4>2, Zenon DEF Turns
        <3>2. j \in Ahead(Visible(r), next) /\ Len(got) = PerPage
            BY <1>10, <2>1, <3>1, Zenon
        <3>3. page' = page + 1 /\ at' = "count" /\ ids' = ids
            BY <1>1, <3>2
        <3>4. (page' - 1) * PerPage = next
            BY <1>2, <3>3
        <3>5. (j \in Ahead(Visible(r), (page - 1) * PerPage))'
            BY <1>4, <3>2, <3>4, Zenon DEF Ahead
        <3> QED BY <1>10, <3>3, <3>5, Zenon DEF Due
    <2>2. CASE r # h
        <3>1. r \in Range(Tail(ids))
            BY <1>6, <1>10, <2>2, Zenon
        <3>2. CASE Len(got) = PerPage
            <4>1. at' = "count" /\ ids' = ids
                BY <1>1, <3>2
            <4>2. r # Head(ids')
                BY <2>2, <4>1, Zenon DEF h
            <4> QED BY <1>10, <4>1, <4>2, Zenon DEF Due
        <3>3. CASE Len(got) # PerPage
            <4>1. Len(ids) # 1
                <5> SUFFICES ASSUME Len(ids) = 1 PROVE FALSE
                    OBVIOUS
                <5>0. \A t \in Seq(Runs) : Len(t) = 0 => t = <<>>
                    OBVIOUS
                <5>3. Len(Tail(ids)) = 0
                    BY <1>6
                <5>1. Tail(ids) = <<>>
                    BY <1>6, <5>0, <5>3, Zenon
                <5>2. Range(<<>>) = {}
                    BY DEF Range
                <5> QED BY <3>1, <5>1, <5>2, Zenon
            <4>2. at' = "count" /\ ids' = Tail(ids) /\ page' = 1
                BY <1>1, <3>3, <4>1
            <4>3. (page' - 1) * PerPage = 0
                BY <4>2, Repository
            <4>4. j \in Ahead(Visible(r), 0)
                BY <1>5, ShownIs, Zenon
            <4>5. (j \in Ahead(Visible(r), (page - 1) * PerPage))'
                BY <1>4, <4>3, <4>4, Zenon DEF Ahead
            <4> QED BY <3>1, <4>2, <4>5, Zenon DEF Due
        <3> QED BY <3>2, <3>3
    <2> QED BY <2>1, <2>2
<1>11. CASE RunStatus(r) = "in_progress" /\ list = 1
    <2>1. /\ at' \in {"list", "count"} /\ (list' = 1 \/ (at' = "list" /\ page' = 1))
        BY <1>1, <1>2, <1>11, NextStatusIs, SMTT(30)
    <2> QED BY <1>4, <1>11, <2>1 DEF Due
<1>12. \/ tally.queued[j] > 0
       \/ r \in Range(ids) /\ (r = h => j \in Ahead(Visible(r), (page - 1) * PerPage))
       \/ RunStatus(r) = "in_progress" /\ list = 1
    BY <1>1, <1>3 DEF Due, h
<1> QED BY <1>9, <1>10, <1>11, <1>12, Zenon

\* Moving one job leaves the others due: what has started has started, and a job created
\* in between pushes others back in the list, not forward.
LEMMA WaitingMoved ==
    ASSUME TypeOK, WaitingInv, PerPage >= Len(RunSeq), NEW k \in Jobs, JobMoves(k)
    PROVE  WaitingInv'
<1> PICK to \in CASE job[k] = "absent" -> {"waiting", "queued"}
                  [] job[k] = "waiting" -> {"queued"}
                  [] job[k] = "queued" -> {"in_progress"}
                  [] job[k] = "in_progress" -> {"completed"}
                  [] OTHER -> {} :
          job' = [job EXCEPT ![k] = to]
    BY Zenon DEF JobMoves
<1>1. /\ steady' = steady \ {k} /\ UNCHANGED <<at, list, page, ids, tally>>
    BY Zenon DEF JobMoves, loopVars
<1>2. job \in [Jobs -> {"absent", "waiting", "queued", "in_progress", "completed"}]
    BY DEF TypeOK
<1>3. /\ job'[k] # "absent" /\ (job[k] \notin {"absent", "waiting", "queued"}
                                 => job'[k] \notin {"absent", "waiting", "queued"})
    BY <1>2
<1>4. \A i \in Jobs : i # k => job'[i] = job[i]
    BY <1>2
<1>5. Created \subseteq Created'
    BY <1>3, <1>4, Zenon DEF Created
<1> SUFFICES ASSUME at \in {"list", "count", "done"},
                    NEW r \in Runs, NEW j \in Range(JobSeq[r]) \cap steady' \cap Matching,
                    job'[j] = "queued"
             PROVE  Due(j, r)'
    BY <1>1, Zenon DEF WaitingInv
<1>6. j \in steady /\ j # k /\ j \in Jobs
    BY <1>1 DEF TypeOK
<1>7. job[j] = "queued" /\ Due(j, r)
    BY <1>4, <1>6, Zenon DEF WaitingInv
<1>8. RunStatus(r) = "in_progress" => RunStatus(r)' = "in_progress"
    <2> SUFFICES ASSUME RunStatus(r) = "in_progress" PROVE RunStatus(r)' = "in_progress"
        OBVIOUS
    <2>1. PICK i \in Range(JobSeq[r]) : job[i] \notin {"absent", "waiting", "queued"}
        BY <1>7, QueuedRun
    <2>2. i \in Jobs
        BY Repository, Zenon
    <2>3. job'[i] \notin {"absent", "waiting", "queued"}
        BY <1>3, <1>4, <2>1, <2>2
    <2> DEFINE seen == {job'[n] : n \in Range(JobSeq[r])}
    <2>4. RunStatus(r)' = Summary(seen)
        BY Zenon DEF RunStatus, Summary
    <2>5. "queued" \in seen /\ ~(seen \subseteq {"absent", "waiting", "queued"})
        BY <2>3, Zenon
    <2> HIDE DEF seen
    <2> QED BY <2>4, <2>5, SummaryIs
<1>9. ASSUME j \in Ahead(Visible(r), (page - 1) * PerPage)
      PROVE  (j \in Ahead(Visible(r), (page - 1) * PerPage))'
    <2>1. (page - 1) * PerPage \in Nat
        <3>1. page \in Nat /\ page # 0 /\ PerPage \in Nat
            BY Repository DEF TypeOK
        <3> QED BY <3>1
    <2>2. JobSeq[r] \in Seq(Jobs)
        BY Repository
    <2>3. Ahead(Only(JobSeq[r], Created), (page - 1) * PerPage)
            \subseteq Ahead(Only(JobSeq[r], Created'), (page - 1) * PerPage)
        BY <1>5, <2>1, <2>2, AheadGrows
    <2>4. j \in Ahead(Only(JobSeq[r], Created'), (page - 1) * PerPage)
        BY <1>9, <2>3, Zenon DEF Visible
    <2> QED BY <1>1, <2>4, Zenon DEF Visible, Ahead, Only
<1> QED BY <1>1, <1>7, <1>8, <1>9, Zenon DEF Due

\* What a step is to the poll: a step of its own, a change at GitHub, or nothing.
LEMMA StepKinds ==
    ASSUME [Next]_vars
    PROVE  \/ Poll \/ GetRuns \/ GetJobs \/ at' = "failed" \/ (\E j \in Jobs : JobMoves(j))
           \/ UNCHANGED <<job, at, list, page, ids, tally, steady>>
<1>1. CASE \E kind \in FailureKinds : RequestFails(kind)
    BY <1>1, Zenon DEF RequestFails, loopVars
<1>2. CASE UNCHANGED vars
    BY <1>2, Zenon DEF vars, loopVars
<1> QED BY <1>1, <1>2, Zenon DEF Next

\* Every step keeps the waiting jobs counted or due.
LEMMA WaitingStep == TypeOK /\ WaitingInv /\ [Next]_vars => WaitingInv'
<1> SUFFICES ASSUME TypeOK, WaitingInv, [Next]_vars, PerPage >= Len(RunSeq)
             PROVE  WaitingInv'
    BY DEF WaitingInv
<1>0. TypeOK
    OBVIOUS
<1>1. CASE Poll
    <2>1. at' = "list" /\ list' = 1 /\ page' = 1
        BY <1>1, Zenon DEF Poll
    <2>2. \A j, r : Due(j, r)'
        BY <2>1, Zenon DEF Due
    <2> QED BY <2>2, Zenon DEF WaitingInv
<1>2. CASE GetRuns
    BY <1>0, <1>2, WaitingListed
<1>3. CASE GetJobs
    BY <1>0, <1>3, WaitingCounted, SMTT(30)
<1>4. CASE at' = "failed"
    BY <1>4 DEF WaitingInv
<1>5. CASE \E j \in Jobs : JobMoves(j)
    BY <1>0, <1>5, WaitingMoved
<1>6. CASE UNCHANGED <<job, at, list, page, ids, tally, steady>>
    <2>1. \A j, r : Due(j, r)' <=> Due(j, r)
        <3>1. \A r : RunStatus(r)' = RunStatus(r) /\ Visible(r)' = Visible(r)
            BY <1>6, SameLists, Zenon
        <3> QED BY <1>6, <3>1, ZenonT(30) DEF Due, Ahead
    <2> QED BY <1>6, <2>1, Zenon DEF WaitingInv
<1> QED BY <1>1, <1>2, <1>3, <1>4, <1>5, <1>6, StepKinds, Zenon

\* Where a repository's runs fit one page, a job that waits throughout a poll is counted,
\* however the runs around it start, finish and move between the two lists (CurrentDemand's
\* order: queued before in_progress).
THEOREM WaitingNeverMissed == Spec => []WaitingJobsCounted
<1>1. Init => WaitingInv
    BY DEF Init, WaitingInv
<1>2. WaitingInv /\ TypeOK => WaitingJobsCounted
    <2> SUFFICES ASSUME WaitingInv, TypeOK, at = "done", PerPage >= Len(RunSeq),
                        NEW j \in steady \cap Matching, job[j] = "queued"
                 PROVE  tally.queued[j] > 0
        BY Zenon DEF WaitingJobsCounted
    <2>1. j \in Jobs
        BY DEF TypeOK
    <2>2. PICK r \in Runs : j \in Range(JobSeq[r])
        BY <2>1, Repository, Zenon
    <2>3. Due(j, r)
        BY <2>2 DEF WaitingInv
    <2> QED BY <2>3 DEF Due
<1> QED BY TypeInit, TypeNext, WaitingStep, <1>1, <1>2, PTL DEF Spec

-----------------------------------------------------------------------------
(* A poll during which nothing moves.                                      *)

\* u is the first n elements of s.
Begins(u, s, n) == Len(u) = n /\ n <= Len(s) /\ \A i \in 1..n : u[i] = s[i]

\* One page more of a list: a short page completes it.
LEMMA BeginsMore ==
    ASSUME NEW V, NEW s \in Seq(V), NEW u \in Seq(V), NEW p \in Nat \ {0},
           Begins(u, s, (p - 1) * PerPage)
    PROVE  IF Len(PageOf(s, p)) = PerPage THEN Begins(u \o PageOf(s, p), s, p * PerPage)
                                         ELSE u \o PageOf(s, p) = s
<1> DEFINE got == PageOf(s, p)
           seen == (p - 1) * PerPage
           next == p * PerPage
           all == u \o got
<1>1. /\ seen \in Nat /\ next = seen + PerPage /\ got \in Seq(V) /\ Len(got) \in 0..PerPage
      /\ Len(got) = IF seen >= Len(s) THEN 0 ELSE Smaller(PerPage, Len(s) - seen)
      /\ \A m \in 1..Len(got) : got[m] = s[seen + m]
    BY PageIs, Zenon
<1>2. Len(u) = seen /\ seen <= Len(s) /\ \A i \in 1..seen : u[i] = s[i]
    BY Zenon DEF Begins
<1>3. PerPage \in Nat /\ PerPage > 0 /\ Len(s) \in Nat
    BY Repository
<1> HIDE DEF got, seen, next
<1>4. /\ seen + Len(got) <= Len(s)
      /\ Len(got) # PerPage => seen + Len(got) = Len(s)
    BY <1>1, <1>2, <1>3 DEF Smaller
<1>5. /\ all \in Seq(V) /\ Len(all) = seen + Len(got)
      /\ \A i \in 1..seen : all[i] = u[i]
      /\ \A m \in 1..Len(got) : all[seen + m] = got[m]
    <2>1. Len(u) \in Nat /\ Len(got) \in Nat /\ got \in Seq(V)
        BY <1>1
    <2>2. /\ all \in Seq(V) /\ Len(all) = Len(u) + Len(got)
          /\ \A i \in 1..Len(u) : all[i] = u[i]
          /\ \A m \in 1..Len(got) : all[m + Len(u)] = got[m]
        BY <2>1
    <2> HIDE DEF all
    <2>3. \A m \in 1..Len(got) : seen + m = m + seen
        BY <1>1
    <2> QED BY <1>2, <2>2, <2>3, Zenon
<1> HIDE DEF all
<1>6. \A i \in 1..(seen + Len(got)) : all[i] = s[i]
    <2> TAKE i \in 1..(seen + Len(got))
    <2>1. CASE i <= seen
        <3>1. i \in 1..seen
            BY <1>1, <2>1
        <3> QED BY <1>2, <1>5, <3>1, Zenon
    <2>2. CASE i > seen
        <3>1. i - seen \in 1..Len(got) /\ seen + (i - seen) = i
            BY <1>1, <2>2
        <3>2. all[seen + (i - seen)] = s[seen + (i - seen)]
            BY <1>1, <1>5, <3>1, Zenon
        <3> QED BY <3>1, <3>2
    <2> QED BY <1>1, <2>1, <2>2
<1>7. CASE Len(got) = PerPage
    <2>1. seen + Len(got) = next
        BY <1>1, <1>7, SMTT(30)
    <2>2. Begins(all, s, next)
        BY <1>4, <1>5, <1>6, <2>1, Zenon DEF Begins
    <2> QED BY <1>7, <2>2, Zenon DEF got, all, next
<1>8. CASE Len(got) # PerPage
    <2>1. Len(all) = Len(s) /\ \A i \in 1..Len(s) : all[i] = s[i]
        BY <1>4, <1>5, <1>6, <1>8
    <2>2. all = s
        BY <1>5, <2>1
    <2> QED BY <1>8, <2>2, Zenon DEF got, all
<1> QED BY <1>7, <1>8

\* The job's place in the lists lies behind the poll.
Passed(j, r) ==
    \/ RunStatus(r) = "queued" /\ (list = 2 \/ at = "done")
    \/ RunStatus(r) = "in_progress" /\ at = "done"
    \/ at = "count" /\ RunStatus(r) = Statuses[list] /\ r \notin Range(ids)
    \/ at = "count" /\ r = Head(ids) /\ j \in Shown(Visible(r), (page - 1) * PerPage)

Once(j, r, st) == IF j \in Matching /\ job[j] = st /\ Passed(j, r) THEN 1 ELSE 0

ListNow == Only(RunSeq, RunsIn(Statuses[list]))

\* While nothing moves, the runs listed are the first of the list, those to be counted are
\* some of it, and the jobs passed are counted once.
QuietInv ==
    steady = Jobs /\ at \in {"list", "count", "done"} =>
        /\ at = "list" => Begins(ids, ListNow, (page - 1) * PerPage)
        /\ at = "count" => IsInjective(ids) /\ Range(ids) \subseteq RunsIn(Statuses[list])
        /\ \A r \in Runs : \A j \in Range(JobSeq[r]) :
              tally.queued[j] = Once(j, r, "queued") /\ tally.running[j] = Once(j, r, "in_progress")

\* The list of a status: the runs in it, each once.
LEMMA ListNowIs ==
    /\ ListNow \in Seq(Runs) /\ IsInjective(ListNow) /\ Range(ListNow) = RunsIn(Statuses[list])
<1>1. RunSeq \in Seq(Runs) /\ IsInjective(RunSeq) /\ Range(RunSeq) = Runs
    BY Repository
<1>2. /\ ListNow \in Seq(Runs) /\ IsInjective(ListNow)
      /\ Range(ListNow) = Range(RunSeq) \cap RunsIn(Statuses[list])
    BY <1>1, OnlyIs, Zenon DEF ListNow
<1> QED BY <1>1, <1>2, Zenon DEF RunsIn

\* Before the first page nothing is listed.
LEMMA BeginsAtOnce ==
    \A s \in Seq(Runs) : Begins(<<>>, s, (1 - 1) * PerPage)
<1>1. (1 - 1) * PerPage = 0
    BY Repository
<1>2. \A s \in Seq(Runs) : Begins(<<>>, s, 0)
    BY DEF Begins
<1> QED BY <1>1, <1>2, Zenon

\* Where no job moves, what is counted stays right as long as the jobs passed stay the same.
LEMMA OnceSame ==
    ASSUME QuietInv, job' = job, steady' = steady, tally' = tally, at \in {"list", "count", "done"},
           \A r \in Runs : \A j \in Range(JobSeq[r]) : Passed(j, r)' <=> Passed(j, r),
           at' = "list" => Begins(ids, ListNow, (page - 1) * PerPage)',
           at' = "count" => (IsInjective(ids) /\ Range(ids) \subseteq RunsIn(Statuses[list]))'
    PROVE  QuietInv'
<1> SUFFICES ASSUME steady = Jobs
             PROVE  \A r \in Runs : \A j \in Range(JobSeq[r]) :
                       (tally.queued[j] = Once(j, r, "queued")
                        /\ tally.running[j] = Once(j, r, "in_progress"))'
    BY Zenon DEF QuietInv
<1>1. \A r \in Runs : \A j \in Range(JobSeq[r]) :
          tally.queued[j] = Once(j, r, "queued") /\ tally.running[j] = Once(j, r, "in_progress")
    BY Zenon DEF QuietInv
<1>2. \A r \in Runs : \A j \in Range(JobSeq[r]) : \A st : Once(j, r, st)' = Once(j, r, st)
    BY Zenon DEF Once
<1> QED BY <1>1, <1>2, Zenon

\* Listing a page of runs.
LEMMA QuietListed ==
    ASSUME TypeOK, QuietInv, GetRuns, steady = Jobs
    PROVE  QuietInv'
<1> DEFINE got == RunPage(Statuses[list], page)
           all == ids \o got
<1>1. /\ at = "list" /\ all \in Seq(Runs)
      /\ UNCHANGED <<job, steady, tally>>
      /\ \/ Len(got) = PerPage /\ ids' = all /\ page' = page + 1 /\ UNCHANGED <<at, list>>
         \/ Len(got) # PerPage /\ all = <<>> /\ NextStatus
         \/ /\ Len(got) # PerPage /\ all # <<>> /\ ids' = all /\ page' = 1
            /\ at' = "count" /\ list' = list
    BY GetRunsIs, Zenon
<1>2. page \in Nat \ {0} /\ list \in DOMAIN Statuses /\ list \in {1, 2} /\ ids \in Seq(Runs)
    BY DEF TypeOK, Statuses
<1>3. /\ ListNow \in Seq(Runs) /\ IsInjective(ListNow) /\ Range(ListNow) = RunsIn(Statuses[list])
    BY ListNowIs
<1>4. IF Len(got) = PerPage THEN Begins(all, ListNow, page * PerPage) ELSE all = ListNow
    <2>1. Begins(ids, ListNow, (page - 1) * PerPage)
        BY <1>1, Zenon DEF QuietInv
    <2>2. got = PageOf(ListNow, page)
        BY Zenon DEF RunPage, ListNow
    <2>3. IF Len(PageOf(ListNow, page)) = PerPage
          THEN Begins(ids \o PageOf(ListNow, page), ListNow, page * PerPage)
          ELSE ids \o PageOf(ListNow, page) = ListNow
        BY <1>2, <1>3, <2>1, BeginsMore
    <2> QED BY <2>2, <2>3, Zenon
<1>5. /\ \A r : RunStatus(r)' = RunStatus(r) /\ Visible(r)' = Visible(r)
      /\ \A st : RunsIn(st)' = RunsIn(st)
    BY <1>1, SameLists, Zenon
<1>6. Statuses[1] = "queued" /\ Statuses[2] = "in_progress"
    BY DEF Statuses
<1> HIDE DEF got, all
<1>7. CASE Len(got) = PerPage
    <2>1. at' = "list" /\ list' = list /\ ids' = all /\ page' = page + 1
        BY <1>1, <1>7, Zenon
    <2>2. \A r, j : Passed(j, r)' <=> Passed(j, r)
        BY <1>1, <1>5, <2>1 DEF Passed
    <2>3. ListNow' = ListNow
        BY <1>5, <2>1, Zenon DEF ListNow, Only
    <2>4. (page' - 1) * PerPage = page * PerPage
        BY <1>2, <2>1
    <2>5. Begins(ids, ListNow, (page - 1) * PerPage)'
        BY <1>4, <1>7, <2>1, <2>3, <2>4, Zenon DEF Begins
    <2> QED BY <1>1, <2>1, <2>2, <2>5, OnceSame
<1>8. CASE Len(got) # PerPage /\ all # <<>>
    <2>1. at' = "count" /\ list' = list /\ ids' = all /\ page' = 1 /\ all = ListNow
        BY <1>1, <1>4, <1>8, Zenon
    <2>2. \A r \in Runs : RunStatus(r) = Statuses[list] => r \in Range(ids')
        BY <1>3, <2>1, Zenon DEF RunsIn
    <2>3. \A r \in Runs : Shown(Visible(r), (page - 1) * PerPage)' = {}
        <3> TAKE r \in Runs
        <3>1. (page' - 1) * PerPage = 0
            BY <2>1, Repository
        <3>2. Shown(Visible(r), 0) = {}
            BY VisibleIs, ShownIs, Zenon
        <3> QED BY <1>5, <3>1, <3>2, Zenon DEF Shown
    <2>4. \A r \in Runs : \A j \in Range(JobSeq[r]) : Passed(j, r)' <=> Passed(j, r)
        BY <1>1, <1>5, <2>1, <2>2, <2>3 DEF Passed
    <2>5. (IsInjective(ids) /\ Range(ids) \subseteq RunsIn(Statuses[list]))'
        BY <1>3, <1>5, <2>1, Zenon DEF IsInjective, Range
    <2> QED BY <1>1, <2>1, <2>4, <2>5, OnceSame
<1>9. CASE Len(got) # PerPage /\ all = <<>>
    <2>1. ids' = <<>> /\ page' = 1 /\ \/ list = 1 /\ at' = "list" /\ list' = 2
                                      \/ list = 2 /\ at' = "done" /\ list' = list
        BY <1>1, <1>2, <1>9, NextStatusIs, Zenon
    <2>2. \A r \in Runs : RunStatus(r) # Statuses[list]
        <3>1. Range(ListNow) = {}
            BY <1>4, <1>9, SMTT(30) DEF Range
        <3> QED BY <1>3, <3>1, Zenon DEF RunsIn
    <2>3. \A r \in Runs : \A j \in Range(JobSeq[r]) : Passed(j, r)' <=> Passed(j, r)
        BY <1>1, <1>5, <1>6, <2>1, <2>2 DEF Passed
    <2>4. ListNow' \in Seq(Runs)
        <3>1. RunSeq \in Seq(Runs)
            BY Repository
        <3>2. Only(RunSeq, RunsIn(Statuses[list])') \in Seq(Runs)
            BY <3>1, OnlyIs
        <3> QED BY <3>2, Zenon DEF ListNow, Only
    <2>5. Begins(ids, ListNow, (page - 1) * PerPage)'
        BY <2>1, <2>4, BeginsAtOnce, Zenon DEF Begins
    <2> QED BY <1>1, <2>1, <2>3, <2>5, OnceSame, Zenon
<1> QED BY <1>7, <1>8, <1>9

\* Which jobs a page of a run's jobs passes: those on it, and no job twice.
LEMMA PassedMore ==
    ASSUME TypeOK, QuietInv, GetJobs, steady = Jobs,
           NEW r \in Runs, NEW j \in Range(JobSeq[r]), job[j] # "absent"
    PROVE  LET got == JobPage(Head(ids), page)
           IN  /\ Passed(j, r)' <=> Passed(j, r) \/ j \in Range(got)
               /\ ~(Passed(j, r) /\ j \in Range(got))
<1> DEFINE h == Head(ids)
           got == JobPage(h, page)
           seen == (page - 1) * PerPage
           next == page * PerPage
<1>1. /\ at = "count" /\ ids \in Seq(Runs) /\ ids # <<>> /\ h \in Runs
      /\ Range(got) \subseteq Range(JobSeq[h]) \cap Created
      /\ UNCHANGED <<job, steady>>
      /\ \/ Len(got) = PerPage /\ page' = page + 1 /\ UNCHANGED <<at, list, ids>>
         \/ Len(got) # PerPage /\ Len(ids) = 1 /\ NextStatus
         \/ /\ Len(got) # PerPage /\ Len(ids) # 1 /\ ids' = Tail(ids) /\ page' = 1
            /\ UNCHANGED <<at, list>>
    BY GetJobsIs, Zenon
<1>2. page \in Nat \ {0} /\ list \in DOMAIN Statuses /\ list \in {1, 2}
    BY DEF TypeOK, Statuses
<1>3. /\ Statuses[1] = "queued" /\ Statuses[2] = "in_progress"
    BY DEF Statuses
<1>4. IsInjective(ids) /\ Range(ids) \subseteq RunsIn(Statuses[list])
    BY <1>1, Zenon DEF QuietInv
<1>5. /\ Range(ids) = {h} \cup Range(Tail(ids)) /\ h \notin Range(Tail(ids))
      /\ Tail(ids) \in Seq(Runs) /\ Len(Tail(ids)) = Len(ids) - 1
    BY <1>1, <1>4, HeadTail, Zenon
<1>6. /\ RunStatus(r)' = RunStatus(r) /\ Visible(r)' = Visible(r)
    BY <1>1, SameLists, Zenon
<1>7. /\ Visible(r) \in Seq(Jobs) /\ IsInjective(Visible(r)) /\ j \in Range(Visible(r))
    BY VisibleIs
<1>8. RunStatus(h) = Statuses[list]
    BY <1>4, <1>5, Zenon DEF RunsIn
<1>9. page' = 1 => Shown(Visible(r), (page - 1) * PerPage)' = {}
    <2> SUFFICES ASSUME page' = 1 PROVE Shown(Visible(r), (page - 1) * PerPage)' = {}
        OBVIOUS
    <2>1. (page' - 1) * PerPage = 0
        BY Repository
    <2>2. Shown(Visible(r), 0) = {}
        BY <1>7, ShownIs, Zenon
    <2> QED BY <1>6, <2>1, <2>2, Zenon DEF Shown
<1>10. Len(ids) = 1 => Range(Tail(ids)) = {}
    <2> SUFFICES ASSUME Len(ids) = 1 PROVE Range(Tail(ids)) = {}
        OBVIOUS
    <2>1. \A t \in Seq(Runs) : Len(t) = 0 => t = <<>>
        OBVIOUS
    <2>2. Len(Tail(ids)) = 0
        BY <1>5
    <2>3. Tail(ids) = <<>>
        BY <1>5, <2>1, <2>2, Zenon
    <2> QED BY <2>3 DEF Range
<1>a. /\ Len(got) = PerPage => page' = page + 1 /\ at' = "count" /\ list' = list /\ ids' = ids
      /\ Len(got) # PerPage /\ Len(ids) # 1 =>
            ids' = Tail(ids) /\ page' = 1 /\ at' = "count" /\ list' = list
      /\ Len(got) # PerPage /\ Len(ids) = 1 =>
            page' = 1 /\ \/ list = 1 /\ at' = "list" /\ list' = 2
                         \/ list = 2 /\ at' = "done" /\ list' = 2
    BY <1>1, <1>2, NextStatusIs
<1> HIDE DEF got
<1>11. CASE r # h
    <2>1. j \notin Range(got)
        BY <1>1, <1>11, Repository, Zenon
    <2>2. r \in Range(ids) <=> r \in Range(Tail(ids))
        BY <1>5, <1>11, Zenon
    <2>3. Passed(j, r)' <=> Passed(j, r)
        <3>1. CASE Len(got) = PerPage
            <4>1. at' = at /\ list' = list /\ ids' = ids /\ r # Head(ids) /\ r # Head(ids')
                BY <1>1, <1>a, <1>11, <3>1, Zenon
            <4> HIDE DEF h
            <4> QED BY <1>6, <4>1, Zenon DEF Passed
        <3>2. CASE Len(got) # PerPage /\ Len(ids) # 1
            <4>1. at' = at /\ list' = list /\ ids' = Tail(ids) /\ page' = 1
                BY <1>1, <1>a, <3>2, Zenon
            <4>2. r # Head(ids)
                BY <1>11
            <4>3. r \in Range(ids') <=> r \in Range(ids)
                BY <2>2, <4>1, Zenon
            <4>4. j \notin Shown(Visible(r), (page - 1) * PerPage)'
                BY <1>9, <4>1, Zenon
            <4> HIDE DEF h
            <4> QED BY <1>6, <4>1, <4>2, <4>3, <4>4, Zenon DEF Passed
        <3>3. CASE Len(got) # PerPage /\ Len(ids) = 1
            <4>1. r \notin Range(ids) /\ r # Head(ids)
                BY <1>10, <1>11, <2>2, <3>3, Zenon
            <4>2. \/ list = 1 /\ at' = "list" /\ list' = 2
                  \/ list = 2 /\ at' = "done" /\ list' = 2
                BY <1>a, <3>3, Zenon
            <4> HIDE DEF h
            <4> QED BY <1>1, <1>3, <1>6, <4>1, <4>2 DEF Passed
        <3> QED BY <3>1, <3>2, <3>3, Zenon
    <2> QED BY <2>1, <2>3 DEF got
<1>12. CASE r = h
    <2>0. Turns(Visible(r), page, Jobs) /\ got = PageOf(Visible(r), page)
        BY <1>2, <1>7, <1>12, PageNext DEF got, JobPage, Visible
    <2>1. /\ Shown(Visible(r), next) = Shown(Visible(r), seen) \cup Range(got)
          /\ Shown(Visible(r), seen) \cap Range(got) = {} /\ next \in Nat
          /\ Len(got) = PerPage <=> next <= Len(Visible(r))
        BY <1>7, <2>0, Zenon DEF Turns
    <2>2. Passed(j, r) <=> j \in Shown(Visible(r), seen)
        BY <1>1, <1>2, <1>3, <1>5, <1>8, <1>12, SMTT(30) DEF Passed
    <2>3. CASE Len(got) = PerPage
        <3>1. at' = "count" /\ list' = list /\ ids' = ids /\ (page' - 1) * PerPage = next
            BY <1>2, <1>a, <2>3
        <3>2. Shown(Visible(r), (page - 1) * PerPage)' = Shown(Visible(r), next)
            BY <1>6, <3>1, Zenon DEF Shown
        <3>3. Passed(j, r)' <=> j \in Shown(Visible(r), next)
            BY <1>2, <1>3, <1>5, <1>6, <1>8, <1>12, <3>1, <3>2, SMTT(30) DEF Passed
        <3> QED BY <2>1, <2>2, <3>3, Zenon DEF got
    <2>4. CASE Len(got) # PerPage
        <3>1. j \in Shown(Visible(r), next)
            <4>1. Len(Visible(r)) \in Nat
                BY <1>7
            <4>2. Len(Visible(r)) <= next
                BY <2>1, <2>4, <4>1
            <4> QED BY <1>7, <2>1, <4>2, ShownIs, Zenon
        <3>2. Passed(j, r)'
            <4>1. CASE Len(ids) # 1
                <5>1. at' = "count" /\ ids' = Tail(ids) /\ list' = list
                    BY <1>a, <2>4, <4>1, ZenonT(30)
                <5> QED BY <1>5, <1>6, <1>8, <1>12, <5>1, Zenon DEF Passed
            <4>2. CASE Len(ids) = 1
                BY <1>3, <1>6, <1>8, <1>12, <1>a, <2>4, <4>2, SMTT(30) DEF Passed
            <4> QED BY <4>1, <4>2
        <3> QED BY <2>1, <2>2, <3>1, <3>2, Zenon DEF got
    <2> QED BY <2>3, <2>4
<1> QED BY <1>11, <1>12

\* Counting a page of jobs.
LEMMA QuietCounted ==
    ASSUME TypeOK, QuietInv, GetJobs, steady = Jobs
    PROVE  QuietInv'
<1> DEFINE h == Head(ids)
           got == JobPage(h, page)
           Hit(j, st) == IF j \in Range(got) \cap Matching /\ job[j] = st THEN 1 ELSE 0
<1>1. /\ at = "count" /\ ids \in Seq(Runs) /\ ids # <<>>
      /\ UNCHANGED <<job, steady>>
      /\ \A j \in Jobs : /\ tally'.queued[j] = tally.queued[j] + Hit(j, "queued")
                         /\ tally'.running[j] = tally.running[j] + Hit(j, "in_progress")
      /\ \/ Len(got) = PerPage /\ page' = page + 1 /\ UNCHANGED <<at, list, ids>>
         \/ Len(got) # PerPage /\ Len(ids) = 1 /\ NextStatus
         \/ /\ Len(got) # PerPage /\ Len(ids) # 1 /\ ids' = Tail(ids) /\ page' = 1
            /\ UNCHANGED <<at, list>>
    BY GetJobsIs, Zenon
<1>2. list \in DOMAIN Statuses
    BY DEF TypeOK
<1>3. /\ \A r \in Runs : \A j \in Range(JobSeq[r]) :
            tally.queued[j] = Once(j, r, "queued") /\ tally.running[j] = Once(j, r, "in_progress")
      /\ IsInjective(ids) /\ Range(ids) \subseteq RunsIn(Statuses[list])
    BY <1>1, Zenon DEF QuietInv
<1>4. \A r \in Runs : \A j \in Range(JobSeq[r]) : job[j] # "absent" =>
         /\ Passed(j, r)' <=> Passed(j, r) \/ j \in Range(got)
         /\ ~(Passed(j, r) /\ j \in Range(got))
    BY PassedMore, Zenon
<1> HIDE DEF h, got
<1>5. ASSUME NEW r \in Runs, NEW j \in Range(JobSeq[r]), NEW st \in {"queued", "in_progress"}
      PROVE  Once(j, r, st)' = Once(j, r, st) + Hit(j, st)
    <2>1. Once(j, r, st)' = IF j \in Matching /\ job[j] = st /\ Passed(j, r)' THEN 1 ELSE 0
        BY <1>1, Zenon DEF Once
    <2>2. CASE job[j] # st \/ j \notin Matching
        <3>1. Hit(j, st) = 0 /\ Once(j, r, st) = 0
            BY <2>2 DEF Once
        <3> QED BY <2>1, <2>2, <3>1
    <2>3. CASE job[j] = st /\ j \in Matching
        <3>1. job[j] # "absent"
            BY <2>3
        <3>2. /\ Passed(j, r)' <=> Passed(j, r) \/ j \in Range(got)
              /\ ~(Passed(j, r) /\ j \in Range(got))
            BY <1>4, <3>1, Zenon
        <3>3. /\ Once(j, r, st) = IF Passed(j, r) THEN 1 ELSE 0
              /\ Once(j, r, st)' = IF Passed(j, r)' THEN 1 ELSE 0
              /\ Hit(j, st) = IF j \in Range(got) THEN 1 ELSE 0
            BY <2>1, <2>3, Zenon DEF Once
        <3>4. CASE j \in Range(got)
            <4>1. ~Passed(j, r) /\ Passed(j, r)'
                BY <3>2, <3>4, Zenon
            <4> QED BY <3>3, <3>4, <4>1
        <3>5. CASE j \notin Range(got)
            <4>1. Passed(j, r)' <=> Passed(j, r)
                BY <3>2, <3>5, Zenon
            <4>2. Once(j, r, st)' = Once(j, r, st) /\ Once(j, r, st) \in {0, 1} /\ Hit(j, st) = 0
                BY <3>3, <3>5, <4>1
            <4> QED BY <4>2
        <3> QED BY <3>4, <3>5
    <2> QED BY <2>2, <2>3
<1>6. ASSUME NEW r \in Runs, NEW j \in Range(JobSeq[r])
      PROVE  (tally.queued[j] = Once(j, r, "queued") /\ tally.running[j] = Once(j, r, "in_progress"))'
    <2>1. j \in Jobs
        BY Repository, Zenon
    <2>2. /\ Once(j, r, "queued")' = Once(j, r, "queued") + Hit(j, "queued")
          /\ Once(j, r, "in_progress")' = Once(j, r, "in_progress") + Hit(j, "in_progress")
        BY <1>5
    <2> QED BY <1>1, <1>3, <2>1, <2>2, Zenon
<1>7. \/ at' = "count" /\ list' = list /\ (ids' = ids \/ ids' = Tail(ids))
      \/ at' \in {"list", "done"} /\ ids' = <<>> /\ page' = 1
    BY <1>1, <1>2, NextStatusIs
<1>8. at' = "count" => (IsInjective(ids) /\ Range(ids) \subseteq RunsIn(Statuses[list]))'
    <2> SUFFICES ASSUME at' = "count"
                 PROVE  (IsInjective(ids) /\ Range(ids) \subseteq RunsIn(Statuses[list]))'
        OBVIOUS
    <2>1. IsInjective(Tail(ids)) /\ Range(Tail(ids)) \subseteq Range(ids)
        BY <1>1, <1>3, HeadTail, Zenon
    <2>2. IsInjective(ids') /\ Range(ids') \subseteq RunsIn(Statuses[list]) /\ list' = list
        BY <1>3, <1>7, <2>1, Zenon
    <2>3. RunsIn(Statuses[list])' = RunsIn(Statuses[list])
        BY <1>1, <2>2, SameLists, Zenon
    <2> QED BY <2>2, <2>3, Zenon DEF IsInjective, Range
<1>9. at' = "list" => Begins(ids, ListNow, (page - 1) * PerPage)'
    <2> SUFFICES ASSUME at' = "list" PROVE Begins(ids, ListNow, (page - 1) * PerPage)'
        OBVIOUS
    <2>1. RunSeq \in Seq(Runs)
        BY Repository
    <2>2. Only(RunSeq, RunsIn(Statuses[list])') \in Seq(Runs)
        BY <2>1, OnlyIs
    <2>3. ListNow' \in Seq(Runs)
        BY <2>2, Zenon DEF ListNow, Only
    <2>4. ids' = <<>> /\ page' = 1
        BY <1>7
    <2> QED BY <2>3, <2>4, BeginsAtOnce, Zenon DEF Begins
<1> QED BY <1>6, <1>8, <1>9, Zenon DEF QuietInv

\* Every step keeps this.
LEMMA QuietStep == TypeOK /\ QuietInv /\ [Next]_vars => QuietInv'
<1> SUFFICES ASSUME TypeOK, QuietInv, [Next]_vars PROVE QuietInv'
    OBVIOUS
<1>0. TypeOK /\ steady \subseteq Jobs
    BY DEF TypeOK
<1>1. CASE Poll
    <2>1. at' = "list" /\ list' = 1 /\ page' = 1 /\ ids' = <<>> /\ tally' = NoTally
        BY <1>1, Zenon DEF Poll
    <2>2. \A j, r, st : Once(j, r, st)' = 0
        <3>1. \A j, r : ~Passed(j, r)'
            BY <2>1 DEF Passed
        <3> QED BY <3>1, Zenon DEF Once
    <2>3. \A r \in Runs : \A j \in Range(JobSeq[r]) : tally'.queued[j] = 0 /\ tally'.running[j] = 0
        <3>1. \A j \in Jobs : NoTally.queued[j] = 0 /\ NoTally.running[j] = 0
            BY DEF NoTally
        <3> QED BY <2>1, <3>1, Repository, Zenon
    <2>4. Begins(ids, ListNow, (page - 1) * PerPage)'
        <3>1. RunSeq \in Seq(Runs)
            BY Repository
        <3>2. Only(RunSeq, RunsIn(Statuses[list])') \in Seq(Runs)
            BY <3>1, OnlyIs
        <3>3. ListNow' \in Seq(Runs)
            BY <3>2, Zenon DEF ListNow, Only
        <3> QED BY <2>1, <3>3, BeginsAtOnce, Zenon DEF Begins
    <2>5. at' # "count"
        BY <2>1
    <2> QED BY <2>2, <2>3, <2>4, <2>5, Zenon DEF QuietInv
<1>2. CASE GetRuns
    <2>1. steady' = steady
        BY <1>2, Zenon DEF GetRuns, Got
    <2>2. CASE steady = Jobs
        BY <1>0, <1>2, <2>2, QuietListed
    <2> QED BY <2>1, <2>2, Zenon DEF QuietInv
<1>3. CASE GetJobs
    <2>1. steady' = steady
        BY <1>3, ZenonT(30) DEF GetJobs, Got
    <2>2. CASE steady = Jobs
        BY <1>0, <1>3, <2>2, QuietCounted
    <2> QED BY <2>1, <2>2, Zenon DEF QuietInv
<1>4. CASE at' = "failed"
    BY <1>4 DEF QuietInv
<1>5. CASE \E j \in Jobs : JobMoves(j)
    <2>1. PICK j \in Jobs : steady' = steady \ {j}
        BY <1>5, Zenon DEF JobMoves
    <2>2. steady' # Jobs
        BY <2>1, Zenon
    <2> QED BY <2>2, Zenon DEF QuietInv
<1>6. CASE UNCHANGED <<job, at, list, page, ids, tally, steady>>
    <2>1. /\ \A r : RunStatus(r)' = RunStatus(r) /\ Visible(r)' = Visible(r)
          /\ \A st : RunsIn(st)' = RunsIn(st)
        BY <1>6, SameLists, Zenon
    <2>2. \A r, j : Passed(j, r)' <=> Passed(j, r)
        BY <1>6, <2>1, Zenon DEF Passed, Shown
    <2>3. ListNow' = ListNow
        BY <1>6, <2>1, Zenon DEF ListNow, Only
    <2>4. Begins(ids, ListNow, (page - 1) * PerPage)' <=> Begins(ids, ListNow, (page - 1) * PerPage)
        BY <1>6, <2>3, Zenon DEF Begins
    <2>5. (IsInjective(ids) /\ Range(ids) \subseteq RunsIn(Statuses[list]))' <=>
            IsInjective(ids) /\ Range(ids) \subseteq RunsIn(Statuses[list])
        BY <1>6, <2>1, Zenon DEF IsInjective, Range
    <2>6. \A r, j, st : Once(j, r, st)' = Once(j, r, st)
        BY <1>6, <2>2, Zenon DEF Once
    <2> QED BY <1>6, <2>4, <2>5, <2>6, Zenon DEF QuietInv
<1> QED BY <1>1, <1>2, <1>3, <1>4, <1>5, <1>6, StepKinds, Zenon

\* A poll during which nothing moves counts every matching job that is queued or in progress
\* exactly once, under its status, however the pages divide the lists and whichever requests
\* are tried again (CurrentDemand, listRunIDs, countRunJobs, doWithRetry).
THEOREM QuietPollExact == Spec => []ExactWhenQuiet
<1>1. Init => QuietInv
    BY DEF Init, QuietInv
<1>2. QuietInv => ExactWhenQuiet
    <2> SUFFICES ASSUME QuietInv, at = "done", steady = Jobs, NEW j \in Jobs
                 PROVE  /\ tally.queued[j] = IF j \in Matching /\ job[j] = "queued" THEN 1 ELSE 0
                        /\ tally.running[j] = IF j \in Matching /\ job[j] = "in_progress" THEN 1 ELSE 0
        BY Zenon DEF ExactWhenQuiet
    <2>1. PICK r \in Runs : j \in Range(JobSeq[r])
        BY Repository, Zenon
    <2>2. tally.queued[j] = Once(j, r, "queued") /\ tally.running[j] = Once(j, r, "in_progress")
        BY <2>1 DEF QuietInv
    <2>3. job[j] = "queued" => RunStatus(r) \in {"queued", "in_progress"}
        BY <2>1, QueuedRun
    <2>4. job[j] = "in_progress" => RunStatus(r) = "in_progress"
        BY <2>1, RunningRun
    <2>5. job[j] \in {"queued", "in_progress"} => Passed(j, r)
        BY <2>3, <2>4 DEF Passed
    <2> QED BY <2>2, <2>5 DEF Once
<1> QED BY TypeInit, TypeNext, QuietStep, <1>1, <1>2, PTL DEF Spec
=============================================================================
