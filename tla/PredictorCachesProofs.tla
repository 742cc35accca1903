----------------------- MODULE PredictorCachesProofs -----------------------
(***************************************************************************)
(* Machine-checked proofs about the two caches behind the predictor, used  *)
(* by any number of workers, for any files, listings, capacity and number  *)
(* of retries.                                                             *)
(***************************************************************************)
EXTENDS PredictorCaches, SequenceTheorems, TLAPS

\* What a call in flight may rely on.  It and every other call in flight on the
\* same listing began no earlier than its horizon, so whatever they store is
\* recent enough for it; and an ETag it sent belongs to a payload still held,
\* or replaced by one of those.
CallInv(w) ==
    LET call == get[w]
        entry == listCache[call.url]
    IN  call.phase \in {"asked", "answered"} =>
        /\ call.horizon <= call.start /\ call.start <= version[call.url]
        /\ \A q \in Workers : InFlight(q, call.url) => call.horizon <= get[q].start
        /\ call.phase = "asked" /\ call.etag # NoETag =>
               entry.held /\ (entry.body = call.etag \/ entry.body >= call.horizon)
        /\ call.phase = "answered" /\ call.status = "ok" =>
               call.body >= call.start /\ call.etag \in {NoETag, call.body}
        /\ call.phase = "answered" /\ call.status = "notModified" =>
               entry.held /\ entry.body >= call.horizon

EntryInv(u) == listCache[u].held => listCache[u].etag \in {NoETag, listCache[u].body}

ListInv ==
    /\ ListTypeOK
    /\ FreshEnough
    /\ \A u \in Urls : EntryInv(u)
    /\ \A w \in Workers : CallInv(w)

-----------------------------------------------------------------------------
\* The shapes a call can have, by phase.
LEMMA CallShapes ==
    ASSUME ListTypeOK, NEW w \in Workers
    PROVE  /\ get[w].phase \in {"idle", "failed", "asked", "answered", "returned"}
           /\ get[w].phase = "asked" =>
                get[w] \in [phase: {"asked"}, url: Urls, start: Nat, horizon: Nat,
                            etag: Nat \cup {NoETag}]
           /\ get[w].phase = "answered" =>
                get[w] \in [phase: {"answered"}, url: Urls, start: Nat, horizon: Nat,
                            status: {"ok", "notModified"}, etag: Nat \cup {NoETag}, body: Nat]
           /\ get[w].phase = "returned" =>
                get[w] \in [phase: {"returned"}, body: Nat, horizon: Nat]
BY DEF ListTypeOK, Idle, Failed

\* Nothing is held or asked for at first.
LEMMA ListInvInit == ListInit => ListInv
BY DEF ListInit, ListInv, ListTypeOK, FreshEnough, EntryInv, CallInv, Idle, Failed, NoETag

\* A call that begins takes the oldest start as its horizon.
LEMMA ListInvAsk ==
    ASSUME ListInv, NEW w \in Workers, NEW u \in Urls, Ask(w, u)
    PROVE  ListInv'
<1>1. PICK horizon \in Starts(u) :
        /\ \A other \in Starts(u) : horizon <= other
        /\ get' = [get EXCEPT ![w] =
              [phase |-> "asked", url |-> u, start |-> version[u], horizon |-> horizon,
               etag |-> IF listCache[u].held THEN listCache[u].etag ELSE NoETag]]
  BY DEF Ask
<1>2. version' = version /\ listCache' = listCache /\ get[w].phase = "idle"
  BY DEF Ask
<1>3. version[u] \in Nat
  BY DEF ListInv, ListTypeOK
<1>4. \A q \in Workers : InFlight(q, u) => get[q].start \in Nat
  BY CallShapes DEF ListInv, InFlight
<1>5. horizon \in Nat /\ horizon <= version[u]
      /\ \A q \in Workers : InFlight(q, u) => horizon <= get[q].start
  BY <1>1, <1>3, <1>4 DEF Starts
<1>6. ListTypeOK'
  BY <1>1, <1>2, <1>3, <1>5 DEF ListInv, ListTypeOK
<1>7. FreshEnough'
  BY <1>1, <1>2 DEF ListInv, FreshEnough, ListTypeOK
<1>8. \A x \in Urls : EntryInv(x)'
  BY <1>2 DEF ListInv, EntryInv
<1>9. ASSUME NEW v \in Workers PROVE CallInv(v)'
  <2>1. CASE v = w
    BY <1>1, <1>2, <1>3, <1>5, <2>1 DEF ListInv, ListTypeOK, CallInv, EntryInv, InFlight
  <2>2. CASE v # w
    <3>1. get'[v] = get[v] /\ CallInv(v)
      BY <1>1, <2>2 DEF ListInv, ListTypeOK
    <3>2. \A q \in Workers : q # w => get'[q] = get[q]
      BY <1>1 DEF ListInv, ListTypeOK
    <3>3. get'[w].start = version[u] /\ get'[w].url = u
      BY <1>1 DEF ListInv, ListTypeOK
    <3>4. get[v].phase \in {"asked", "answered"} => get[v].horizon \in Nat /\ get[v].start \in Nat
      BY CallShapes DEF ListInv
    <3> QED
      BY <1>2, <1>3, <3>1, <3>2, <3>3, <3>4 DEF CallInv, InFlight
  <2> QED
    BY <2>1, <2>2
<1> QED
  BY <1>6, <1>7, <1>8, <1>9 DEF ListInv

\* An answer is about the version of this moment.
LEMMA ListInvServe ==
    ASSUME ListInv, NEW w \in Workers, Serve(w)
    PROVE  ListInv'
<1> DEFINE call == get[w]
           Answered(status, etag, body) ==
               [phase |-> "answered", url |-> call.url, start |-> call.start,
                horizon |-> call.horizon, status |-> status, etag |-> etag, body |-> body]
           now == version[call.url]
<1>1. version' = version /\ listCache' = listCache /\ call.phase = "asked"
  BY DEF Serve
<1>2. call \in [phase: {"asked"}, url: Urls, start: Nat, horizon: Nat, etag: Nat \cup {NoETag}]
  BY <1>1, CallShapes DEF ListInv
<1>3. now \in Nat /\ now # NoETag /\ listCache[call.url].body \in Nat
  BY <1>2 DEF ListInv, ListTypeOK, NoETag
<1>4. CallInv(w)
  BY DEF ListInv
<1>5. PICK result :
        /\ get' = [get EXCEPT ![w] = result]
        /\ \/ call.etag = now /\ result = Answered("notModified", NoETag, 0)
           \/ \E etag \in {now, NoETag} : result = Answered("ok", etag, now)
           \/ result = Failed
  BY DEF Serve
<1>6. get'[w] = result /\ \A q \in Workers : q # w => get'[q] = get[q]
  BY <1>5 DEF ListInv, ListTypeOK
<1>7. result.phase \in {"answered", "failed"}
      /\ (result.phase = "answered" =>
            /\ result.url = call.url /\ result.start = call.start /\ result.horizon = call.horizon
            /\ result.status \in {"ok", "notModified"}
            /\ result.status = "ok" => result.body = now /\ result.etag \in {now, NoETag}
            /\ result.status = "notModified" => call.etag = now)
  BY <1>5 DEF Failed
<1>8. ListTypeOK'
  BY <1>1, <1>2, <1>3, <1>5 DEF ListInv, ListTypeOK
<1>9. FreshEnough'
  BY <1>6, <1>7 DEF ListInv, FreshEnough
<1>10. \A x \in Urls : EntryInv(x)'
  BY <1>1 DEF ListInv, EntryInv
<1>11. ASSUME NEW v \in Workers PROVE CallInv(v)'
  <2>1. \A q \in Workers, u \in Urls : InFlight(q, u)' => InFlight(q, u) /\ get'[q].start = get[q].start
    BY <1>1, <1>6, <1>7 DEF InFlight
  <2>2. CASE v = w
    <3> DEFINE entry == listCache[call.url]
    <3>1. /\ call.horizon \in Nat /\ call.start \in Nat /\ call.url \in Urls
          /\ call.horizon <= call.start /\ call.start <= now
          /\ \A q \in Workers : InFlight(q, call.url) => call.horizon <= get[q].start
          /\ call.etag # NoETag => entry.held /\ (entry.body = call.etag \/ entry.body >= call.horizon)
      BY <1>1, <1>2, <1>4 DEF CallInv
    <3> HIDE DEF call, now
    <3>2. now >= call.start /\ now >= call.horizon
      BY <1>3, <3>1
    <3>3. call.etag = now => entry.held /\ entry.body >= call.horizon
      BY <1>3, <3>1, <3>2
    <3>4. CASE result.phase = "failed"
      BY <1>6, <2>2, <3>4, Zenon DEF CallInv
    <3>5. CASE result.phase = "answered"
      <4>1. \A q \in Workers, u \in Urls :
              InFlight(q, u)' /\ u = call.url => call.horizon <= get'[q].start
        BY <2>1, <3>1, Zenon
      <4>2. /\ get'[w].url = call.url /\ get'[w].start = call.start
            /\ get'[w].horizon = call.horizon /\ version'[call.url] = now
        BY <1>1, <1>6, <1>7, <3>5, Zenon DEF now
      <4>3. get'[w].horizon <= get'[w].start /\ get'[w].start <= version'[get'[w].url]
        BY <3>1, <4>2, Zenon
      <4>4. \A q \in Workers : InFlight(q, get[w].url)' => get'[w].horizon <= get'[q].start
        BY <3>1, <4>1, <4>2, Zenon
      <4>5. /\ get'[w].status = "ok" =>
                   get'[w].body >= get'[w].start /\ get'[w].etag \in {NoETag, get'[w].body}
            /\ get'[w].status = "notModified" =>
                   /\ listCache'[get'[w].url].held
                   /\ listCache'[get'[w].url].body >= get'[w].horizon
        BY <1>1, <1>6, <1>7, <3>2, <3>3, <3>5, <4>2
      <4> QED
        BY <1>6, <2>2, <3>5, <4>3, <4>4, <4>5, Zenon DEF CallInv
    <3> QED
      BY <1>7, <3>4, <3>5, Zenon
  <2>3. CASE v # w
    <3>1. get'[v] = get[v] /\ CallInv(v)
      BY <1>6, <2>3 DEF ListInv
    <3>2. get[v].phase \in {"asked", "answered"} => get[v].url \in Urls
      BY CallShapes DEF ListInv
    <3> QED
      BY <1>1, <2>1, <3>1, <3>2 DEF CallInv
  <2> QED
    BY <2>2, <2>3
<1> QED
  BY <1>8, <1>9, <1>10, <1>11 DEF ListInv

\* storeList replaces a payload by one the other calls can do with.
LEMMA ListInvReceiveOk ==
    ASSUME ListInv, NEW w \in Workers, ReceiveOk(w)
    PROVE  ListInv'
<1> DEFINE call == get[w]
           entry == [held |-> TRUE, etag |-> call.etag, body |-> call.body]
<1>1. /\ call.phase = "answered" /\ call.status = "ok" /\ version' = version
      /\ listCache' = [listCache EXCEPT ![call.url] = entry]
      /\ get' = [get EXCEPT ![w] = Returned(w, call.body)]
  BY DEF ReceiveOk
<1>2. call \in [phase: {"answered"}, url: Urls, start: Nat, horizon: Nat,
                status: {"ok", "notModified"}, etag: Nat \cup {NoETag}, body: Nat]
  BY <1>1, CallShapes DEF ListInv
<1>3. CallInv(w)
  BY DEF ListInv
<1>4. call.body >= call.start /\ call.horizon <= call.start /\ call.etag \in {NoETag, call.body}
  BY <1>1, <1>3 DEF CallInv
<1>5. /\ get'[w] = [phase |-> "returned", body |-> call.body, horizon |-> call.horizon]
      /\ \A q \in Workers : q # w => get'[q] = get[q]
      /\ listCache'[call.url] = entry
      /\ \A u \in Urls : u # call.url => listCache'[u] = listCache[u]
  BY <1>1, <1>2 DEF ListInv, ListTypeOK, Returned
<1>6. ListTypeOK'
  BY <1>1, <1>2 DEF ListInv, ListTypeOK, Returned
<1>7. FreshEnough'
  BY <1>2, <1>4, <1>5 DEF ListInv, FreshEnough
<1>8. \A u \in Urls : EntryInv(u)'
  BY <1>2, <1>4, <1>5 DEF ListInv, EntryInv
<1>9. ASSUME NEW v \in Workers PROVE CallInv(v)'
  <2>1. CASE v = w
    BY <1>5, <2>1 DEF CallInv
  <2>2. CASE v # w
    <3>1. get'[v] = get[v] /\ CallInv(v)
      BY <1>5, <2>2 DEF ListInv
    <3>2. \A q \in Workers, u \in Urls : InFlight(q, u)' => InFlight(q, u) /\ get'[q] = get[q]
      BY <1>5 DEF InFlight
    <3>3. SUFFICES ASSUME get[v].phase \in {"asked", "answered"} PROVE CallInv(v)'
      BY <3>1 DEF CallInv
    <3>4. get[v].url \in Urls /\ get[v].start \in Nat /\ get[v].horizon \in Nat
      BY <3>3, CallShapes DEF ListInv
    <3>5. CASE get[v].url = call.url
      <4>1. InFlight(w, get[v].url)
        BY <1>1, <3>5 DEF InFlight
      <4>2. get[v].horizon <= call.start
        BY <3>1, <3>3, <4>1 DEF CallInv
      <4>3. listCache'[get[v].url].held /\ listCache'[get[v].url].body >= get[v].horizon
        BY <1>2, <1>4, <1>5, <3>4, <3>5, <4>2
      <4> QED
        BY <1>1, <3>1, <3>2, <3>3, <3>4, <4>3 DEF CallInv
    <3>6. CASE get[v].url # call.url
      <4>1. listCache'[get[v].url] = listCache[get[v].url]
        BY <1>5, <3>4, <3>6
      <4> QED
        BY <1>1, <3>1, <3>2, <3>3, <3>4, <4>1, ZenonT(40) DEF CallInv
    <3> QED
      BY <3>5, <3>6
  <2> QED
    BY <2>1, <2>2
<1> QED
  BY <1>6, <1>7, <1>8, <1>9 DEF ListInv

\* A call that ends, or a caller that moves on, leaves fewer calls in flight.
LEMMA ListInvEnds ==
    ASSUME ListInv, NEW w \in Workers, ReceiveNotModified(w) \/ Took(w)
    PROVE  ListInv'
<1>1. version' = version /\ listCache' = listCache
  BY DEF ReceiveNotModified, Took
<1>2. PICK result :
        /\ get' = [get EXCEPT ![w] = result]
        /\ result \in {Idle, Failed} \cup [phase: {"returned"}, body: Nat, horizon: Nat]
        /\ result.phase = "returned" => result.body >= result.horizon
  <2>1. CASE Took(w)
    <3>1. get' = [get EXCEPT ![w] = Idle] /\ Idle.phase # "returned"
      BY <2>1 DEF Took, Idle
    <3> QED
      BY <3>1, Zenon
  <2>2. CASE ReceiveNotModified(w)
    <3>1. get[w].phase = "answered" /\ get[w].status = "notModified"
      BY <2>2 DEF ReceiveNotModified
    <3>2. get[w].url \in Urls /\ get[w].horizon \in Nat
      BY <3>1, CallShapes DEF ListInv
    <3>3. listCache[get[w].url].held /\ listCache[get[w].url].body >= get[w].horizon
      BY <3>1 DEF ListInv, CallInv
    <3>4. listCache[get[w].url].body \in Nat
      BY <3>2 DEF ListInv, ListTypeOK
    <3> DEFINE result == Returned(w, listCache[get[w].url].body)
    <3>5. get' = [get EXCEPT ![w] = result]
      BY <2>2, <3>3 DEF ReceiveNotModified
    <3>6. result \in [phase: {"returned"}, body: Nat, horizon: Nat] /\ result.body >= result.horizon
      BY <3>2, <3>3, <3>4 DEF Returned
    <3> HIDE DEF result
    <3> QED
      BY <3>5, <3>6, Zenon
  <2> QED
    BY <2>1, <2>2
<1>3. get'[w] = result /\ \A q \in Workers : q # w => get'[q] = get[q]
  BY <1>2 DEF ListInv, ListTypeOK
<1>4. result.phase \in {"idle", "failed", "returned"}
  BY <1>2 DEF Idle, Failed
<1>5. ListTypeOK'
  BY <1>1, <1>2 DEF ListInv, ListTypeOK
<1>6. FreshEnough'
  BY <1>2, <1>3 DEF ListInv, FreshEnough
<1>7. \A u \in Urls : EntryInv(u)'
  BY <1>1 DEF ListInv, EntryInv
<1>8. ASSUME NEW v \in Workers PROVE CallInv(v)'
  <2>1. CASE v = w
    BY <1>3, <1>4, <2>1 DEF CallInv
  <2>2. CASE v # w
    <3>1. CallInv(v) /\ get'[v] = get[v]
      BY <1>3, <2>2, Zenon DEF ListInv
    <3>2. \A q \in Workers, u \in Urls : InFlight(q, u)' => InFlight(q, u) /\ get'[q] = get[q]
      BY <1>3, <1>4, Zenon DEF InFlight
    <3>3. get[v].phase \in {"asked", "answered"} => get[v].url \in Urls
      BY CallShapes DEF ListInv
    <3> QED
      BY <1>1, <3>1, <3>2, <3>3, Zenon DEF CallInv
  <2> QED
    BY <2>1, <2>2
<1> QED
  BY <1>5, <1>6, <1>7, <1>8 DEF ListInv

\* GitHub only moves on.
LEMMA ListInvChange ==
    ASSUME ListInv, NEW u \in Urls, Change(u)
    PROVE  ListInv'
<1>1. get' = get /\ listCache' = listCache /\ version' = [version EXCEPT ![u] = @ + 1]
  BY DEF Change
<1>2. \A x \in Urls : version[x] \in Nat /\ version'[x] \in Nat /\ version[x] <= version'[x]
  BY <1>1 DEF ListInv, ListTypeOK
<1>3. ListTypeOK'
  BY <1>1 DEF ListInv, ListTypeOK
<1>4. ASSUME NEW v \in Workers PROVE CallInv(v)'
  <2>1. get[v].phase \in {"asked", "answered"} => get[v].url \in Urls /\ get[v].start \in Nat
    BY CallShapes DEF ListInv
  <2>2. CallInv(v)
    BY DEF ListInv
  <2>3. get[v].phase \in {"asked", "answered"} => get[v].start <= version'[get[v].url]
    <3>1. get[v].phase \in {"asked", "answered"} => get[v].start <= version[get[v].url]
      BY <2>2, Zenon DEF CallInv
    <3> QED
      BY <1>2, <2>1, <3>1
  <2> QED
    BY <1>1, <2>2, <2>3, Zenon DEF CallInv, InFlight
<1> QED
  BY <1>1, <1>3, <1>4 DEF ListInv, FreshEnough, EntryInv

\* The invariant is inductive.
LEMMA ListInvNext == ListInv /\ [ListNext]_listVars => ListInv'
<1> SUFFICES ASSUME ListInv, [ListNext]_listVars PROVE ListInv'
  OBVIOUS
<1>1. CASE UNCHANGED listVars
  BY <1>1 DEF listVars, ListInv, ListTypeOK, FreshEnough, EntryInv, CallInv, InFlight
<1>2. CASE ListNext
  BY <1>2, ListInvAsk, ListInvServe, ListInvReceiveOk, ListInvEnds, ListInvChange
     DEF ListNext, Receive
<1> QED
  BY <1>1, <1>2

-----------------------------------------------------------------------------
\* However the workers' requests interleave and however long GitHub takes, a
\* listing cachedGet returns is no older than the oldest call that was in
\* flight when it was asked for.
THEOREM ListingsFreshEnough == ListSpec => []FreshEnough
<1>1. ListInv => FreshEnough
  BY DEF ListInv
<1> QED
  BY <1>1, ListInvInit, ListInvNext, PTL DEF ListSpec

\* The "304 with no cached payload" error of cachedGet cannot occur.
THEOREM NotModifiedFindsPayload == ListSpec => []NotModifiedIsHeld
<1>1. ListInv => NotModifiedIsHeld
  BY DEF ListInv, CallInv, NotModifiedIsHeld
<1> QED
  BY <1>1, ListInvInit, ListInvNext, PTL DEF ListSpec

-----------------------------------------------------------------------------
(* Moving a key to the front of a list without duplicates.                 *)

\* No key is in the list twice: MoveToFront and PushFront keep it so.
Distinct(seq) == \A i, j \in 1..Len(seq) : seq[i] = seq[j] => i = j

\* The position a key of the list is found at.
LEMMA Position ==
    ASSUME NEW S, NEW s \in Seq(S), NEW p \in 1..Len(s), Distinct(s)
    PROVE  (CHOOSE i \in DOMAIN s : s[i] = s[p]) = p
<1>1. \E i \in DOMAIN s : s[i] = s[p]
  OBVIOUS
<1>2. (CHOOSE i \in DOMAIN s : s[i] = s[p]) \in DOMAIN s /\ s[CHOOSE i \in DOMAIN s : s[i] = s[p]] = s[p]
  BY <1>1, Zenon
<1> QED
  BY <1>2 DEF Distinct

\* A key that is not in the list is added in front.
LEMMA PushFront ==
    ASSUME NEW S, NEW s \in Seq(S), NEW k \in S, \A i \in 1..Len(s) : s[i] # k
    PROVE  /\ MoveToFront(s, k) \in Seq(S)
           /\ Len(MoveToFront(s, k)) = Len(s) + 1
           /\ MoveToFront(s, k)[1] = k
           /\ \A i \in 2..(Len(s) + 1) : MoveToFront(s, k)[i] = s[i - 1]
<1>1. MoveToFront(s, k) = <<k>> \o s
  BY DEF MoveToFront
<1> QED
  BY <1>1

\* t is s with what is at p put in front.
Promoted(t, s, p) ==
    /\ Len(t) = Len(s) /\ t[1] = s[p]
    /\ \A i \in 2..p : t[i] = s[i - 1]
    /\ \A i \in (p + 1)..Len(s) : t[i] = s[i]

\* One that is there changes places with those in front of it.
LEMMA Promote ==
    ASSUME NEW S, NEW s \in Seq(S), NEW p \in 1..Len(s), NEW k, s[p] = k, Distinct(s)
    PROVE  MoveToFront(s, k) \in Seq(S) /\ Promoted(MoveToFront(s, k), s, p)
<1>1. ~ \A i \in DOMAIN s : s[i] # s[p]
  OBVIOUS
<1>2. MoveToFront(s, s[p]) = [i \in DOMAIN s |-> IF i = 1 THEN s[p]
                                                ELSE IF i <= p THEN s[i - 1] ELSE s[i]]
  BY <1>1, Position, Zenon DEF MoveToFront
<1>3. DOMAIN s = 1..Len(s) /\ \A i \in 1..Len(s) : s[i] \in S
  OBVIOUS
<1>4. ASSUME NEW t, t = [i \in DOMAIN s |-> IF i = 1 THEN s[p]
                                           ELSE IF i <= p THEN s[i - 1] ELSE s[i]]
      PROVE  t \in Seq(S) /\ Promoted(t, s, p)
  BY <1>3, <1>4 DEF Promoted
<1> QED
  BY <1>2, <1>4, Zenon

\* Either way the list has no duplicates and the same keys and the moved one.
LEMMA MoveToFrontKeeps ==
    ASSUME NEW S, NEW s \in Seq(S), NEW k \in S, Distinct(s)
    PROVE  /\ MoveToFront(s, k) \in Seq(S)
           /\ Distinct(MoveToFront(s, k))
           /\ Range(MoveToFront(s, k)) = Range(s) \cup {k}
<1> DEFINE t == MoveToFront(s, k)
<1>1. CASE \A i \in 1..Len(s) : s[i] # k
  <2>1. /\ t \in Seq(S) /\ Len(t) = Len(s) + 1 /\ t[1] = k
        /\ \A i \in 2..(Len(s) + 1) : t[i] = s[i - 1]
    BY <1>1, PushFront
  <2> HIDE DEF t
  <2>2. \A i \in 2..Len(t) : t[i] # k
    BY <1>1, <2>1
  <2>3. ASSUME NEW i \in 2..Len(t), NEW j \in 2..Len(t), t[i] = t[j] PROVE i = j
    <3>1. s[i - 1] = s[j - 1] /\ i - 1 \in 1..Len(s) /\ j - 1 \in 1..Len(s)
      BY <2>1, <2>3
    <3> QED
      BY <3>1 DEF Distinct
  <2>4. \A i \in 1..Len(t) : i = 1 \/ i \in 2..Len(t)
    OBVIOUS
  <2>5. Distinct(t)
    BY <2>1, <2>2, <2>3, <2>4 DEF Distinct
  <2>6. ASSUME NEW i \in 1..Len(t) PROVE t[i] \in Range(s) \cup {k}
    <3>1. CASE i = 1
      BY <2>1, <3>1
    <3>2. CASE i \in 2..Len(t)
      <4>1. t[i] = s[i - 1] /\ i - 1 \in DOMAIN s
        BY <2>1, <3>2
      <4> QED
        BY <4>1 DEF Range
    <3> QED
      BY <2>4, <3>1, <3>2
  <2>7. ASSUME NEW i \in 1..Len(s) PROVE s[i] \in Range(t)
    <3>1. i + 1 \in DOMAIN t /\ t[i + 1] = s[(i + 1) - 1] /\ (i + 1) - 1 = i
      BY <2>1
    <3> QED
      BY <3>1 DEF Range
  <2>8. k \in Range(t)
    BY <2>1 DEF Range
  <2>9. Range(t) = Range(s) \cup {k}
    <3>1. \A x \in Range(t) : x \in Range(s) \cup {k}
      BY <2>1, <2>6 DEF Range
    <3>2. \A x \in Range(s) : x \in Range(t)
      BY <2>7 DEF Range
    <3> QED
      BY <2>8, <3>1, <3>2
  <2> QED
    BY <2>1, <2>5, <2>9 DEF t
<1>2. CASE \E p \in 1..Len(s) : s[p] = k
  <2>0. PICK p \in 1..Len(s) : s[p] = k
    BY <1>2
  <2>1. /\ t \in Seq(S) /\ Len(t) = Len(s) /\ t[1] = s[p]
        /\ \A i \in 2..p : t[i] = s[i - 1]
        /\ \A i \in (p + 1)..Len(s) : t[i] = s[i]
    <3>1. t \in Seq(S) /\ Promoted(t, s, p)
      BY <2>0, Promote, Zenon
    <3> HIDE DEF t
    <3> QED
      BY <3>1 DEF Promoted
  <2> HIDE DEF t
  <2> DEFINE from(i) == IF i = 1 THEN p ELSE IF i <= p THEN i - 1 ELSE i
  <2>2. ASSUME NEW i \in 1..Len(s) PROVE t[i] = s[from(i)] /\ from(i) \in 1..Len(s)
    <3>1. CASE i = 1
      BY <2>1, <3>1
    <3>2. CASE i \in 2..p
      BY <2>1, <3>2
    <3>3. CASE i \in (p + 1)..Len(s)
      BY <2>1, <3>3
    <3> QED
      BY <3>1, <3>2, <3>3
  <2>3. ASSUME NEW i \in 1..Len(s), NEW j \in 1..Len(s), t[i] = t[j] PROVE i = j
    <3>1. from(i) = from(j)
      <4> HIDE DEF from
      <4>1. /\ from(i) \in 1..Len(s) /\ from(j) \in 1..Len(s)
            /\ s[from(i)] = s[from(j)]
        BY <2>2, <2>3, Zenon
      <4> QED
        BY <4>1, Zenon DEF Distinct
    <3> QED
      BY <3>1
  <2>4. Range(t) \subseteq Range(s)
    <3>1. ASSUME NEW i \in DOMAIN t PROVE t[i] \in Range(s)
      <4>1. t[i] = s[from(i)] /\ from(i) \in DOMAIN s
        <5> HIDE DEF from
        <5> QED
          BY <2>1, <2>2
      <4> HIDE DEF from
      <4> QED
        BY <4>1 DEF Range
    <3> QED
      BY <3>1 DEF Range
  <2>5. ASSUME NEW i \in 1..Len(s) PROVE s[i] \in Range(t)
    <3>1. CASE i = p
      BY <2>1, <3>1 DEF Range
    <3>2. CASE i < p
      <4>1. i + 1 \in 2..p /\ t[i + 1] = s[i] /\ i + 1 \in 1..Len(t)
        BY <2>1, <3>2
      <4> QED
        BY <2>1, <4>1 DEF Range
    <3>3. CASE i > p
      BY <2>1, <3>3 DEF Range
    <3> QED
      BY <3>1, <3>2, <3>3
  <2>6. Range(s) \subseteq Range(t) /\ k \in Range(s)
    BY <2>0, <2>5 DEF Range
  <2> QED
    BY <2>1, <2>3, <2>4, <2>6 DEF t, Distinct
<1> QED
  BY <1>1, <1>2

\* The first n keys of a list, all of them if it has no more.
Prefix(s, n) == SubSeq(s, 1, IF Len(s) > n THEN n ELSE Len(s))

\* What a prefix is, key by key.
LEMMA PrefixIs ==
    ASSUME NEW S, NEW s \in Seq(S), NEW n \in Nat
    PROVE  /\ Prefix(s, n) \in Seq(S)
           /\ Len(Prefix(s, n)) = IF Len(s) > n THEN n ELSE Len(s)
           /\ \A i \in 1..Len(Prefix(s, n)) : Prefix(s, n)[i] = s[i]
BY DEF Prefix

\* Two lists that agree on their first n keys.
LEMMA SamePrefix ==
    ASSUME NEW S, NEW s \in Seq(S), NEW t \in Seq(S), NEW n \in Nat,
           Len(s) = Len(t) \/ (Len(s) >= n /\ Len(t) >= n),
           \A i \in 1..n : i <= Len(s) => s[i] = t[i]
    PROVE  Prefix(s, n) = Prefix(t, n)
<1>1. Len(Prefix(s, n)) = Len(Prefix(t, n)) /\ Prefix(s, n) \in Seq(S) /\ Prefix(t, n) \in Seq(S)
  BY PrefixIs
<1>2. \A i \in 1..Len(Prefix(s, n)) : Prefix(s, n)[i] = Prefix(t, n)[i]
  <2>1. Len(Prefix(s, n)) <= n /\ Len(Prefix(s, n)) <= Len(s)
    BY PrefixIs
  <2> QED
    BY <1>1, <2>1, PrefixIs
<1> QED
  BY <1>1, <1>2, SeqEqual

\* The list that is cut to the capacity and the history that is not stay in
\* step: moving a key to the front before or after cutting is the same.
LEMMA PrefixMoves ==
    ASSUME NEW S, NEW s \in Seq(S), NEW k \in S, NEW n \in Nat \ {0}, Distinct(s)
    PROVE  Prefix(MoveToFront(Prefix(s, n), k), n) = Prefix(MoveToFront(s, k), n)
<1> DEFINE u == Prefix(s, n)
<1>1. /\ u \in Seq(S) /\ Len(u) = (IF Len(s) > n THEN n ELSE Len(s))
      /\ \A i \in 1..Len(u) : u[i] = s[i]
  BY PrefixIs
<1> HIDE DEF u
<1>2. Distinct(u)
  BY <1>1 DEF Distinct
<1>3. CASE \E p \in 1..Len(u) : u[p] = k
  <2>1. PICK p \in 1..Len(u) : u[p] = k
    BY <1>3
  <2>2. p \in 1..Len(s) /\ s[p] = k
    BY <1>1, <2>1
  <2>3. /\ MoveToFront(u, k) \in Seq(S) /\ Len(MoveToFront(u, k)) = Len(u)
        /\ MoveToFront(u, k)[1] = k
        /\ \A i \in 2..p : MoveToFront(u, k)[i] = u[i - 1]
        /\ \A i \in (p + 1)..Len(u) : MoveToFront(u, k)[i] = u[i]
    <3>1. u \in Seq(S)
      BY <1>1
    <3>2. MoveToFront(u, k) \in Seq(S) /\ Promoted(MoveToFront(u, k), u, p)
      BY <1>2, <2>1, <3>1, Promote, Zenon
    <3> QED
      BY <2>1, <3>2 DEF Promoted
  <2>4. /\ MoveToFront(s, k) \in Seq(S) /\ Len(MoveToFront(s, k)) = Len(s)
        /\ MoveToFront(s, k)[1] = k
        /\ \A i \in 2..p : MoveToFront(s, k)[i] = s[i - 1]
        /\ \A i \in (p + 1)..Len(s) : MoveToFront(s, k)[i] = s[i]
    <3>1. MoveToFront(s, k) \in Seq(S) /\ Promoted(MoveToFront(s, k), s, p)
      BY <2>2, Promote, Zenon
    <3> QED
      BY <2>2, <3>1 DEF Promoted
  <2>5. ASSUME NEW i \in 1..Len(u) PROVE MoveToFront(u, k)[i] = MoveToFront(s, k)[i]
    <3>1. CASE i = 1
      BY <2>3, <2>4, <3>1
    <3>2. CASE i \in 2..p
      BY <1>1, <2>2, <2>3, <2>4, <3>2
    <3>3. CASE i \in (p + 1)..Len(u)
      BY <1>1, <2>3, <2>4, <3>3
    <3> QED
      BY <3>1, <3>2, <3>3
  <2>6. /\ Len(MoveToFront(u, k)) = Len(MoveToFront(s, k))
           \/ (Len(MoveToFront(u, k)) >= n /\ Len(MoveToFront(s, k)) >= n)
        /\ \A i \in 1..n : i <= Len(MoveToFront(u, k)) => MoveToFront(u, k)[i] = MoveToFront(s, k)[i]
    BY <1>1, <2>3, <2>4, <2>5
  <2>7. Prefix(MoveToFront(u, k), n) = Prefix(MoveToFront(s, k), n)
    BY <2>3, <2>4, <2>6, SamePrefix
  <2> QED
    BY <2>7 DEF u
<1>4. CASE \A i \in 1..Len(u) : u[i] # k
  <2>1. /\ MoveToFront(u, k) \in Seq(S) /\ Len(MoveToFront(u, k)) = Len(u) + 1
        /\ MoveToFront(u, k)[1] = k
        /\ \A i \in 2..(Len(u) + 1) : MoveToFront(u, k)[i] = u[i - 1]
    BY <1>1, <1>4, PushFront
  <2>2. /\ MoveToFront(s, k) \in Seq(S)
        /\ Len(MoveToFront(s, k)) = Len(u) + 1
           \/ (Len(u) = n /\ Len(MoveToFront(s, k)) >= n)
        /\ MoveToFront(s, k)[1] = k
        /\ \A i \in 2..n : i <= Len(u) + 1 => MoveToFront(s, k)[i] = s[i - 1]
    <3>1. CASE \A i \in 1..Len(s) : s[i] # k
      <4>1. /\ MoveToFront(s, k) \in Seq(S) /\ Len(MoveToFront(s, k)) = Len(s) + 1
            /\ MoveToFront(s, k)[1] = k
            /\ \A i \in 2..(Len(s) + 1) : MoveToFront(s, k)[i] = s[i - 1]
        BY <3>1, PushFront
      <4> QED
        BY <1>1, <4>1
    <3>2. CASE \E p \in 1..Len(s) : s[p] = k
      <4>1. PICK p \in 1..Len(s) : s[p] = k
        BY <3>2
      <4>2. p > n /\ Len(s) > n /\ Len(u) = n
        BY <1>1, <1>4, <4>1
      <4>3. /\ MoveToFront(s, k) \in Seq(S) /\ Len(MoveToFront(s, k)) = Len(s)
            /\ MoveToFront(s, k)[1] = k
            /\ \A i \in 2..p : MoveToFront(s, k)[i] = s[i - 1]
        <5>1. MoveToFront(s, k) \in Seq(S) /\ Promoted(MoveToFront(s, k), s, p)
          BY <4>1, Promote, Zenon
        <5> QED
          BY <4>1, <5>1 DEF Promoted
      <4> QED
        BY <4>2, <4>3
    <3> QED
      BY <3>1, <3>2
  <2>3. ASSUME NEW i \in 1..n, i <= Len(u) + 1 PROVE MoveToFront(u, k)[i] = MoveToFront(s, k)[i]
    <3>1. CASE i = 1
      BY <2>1, <2>2, <3>1
    <3>2. CASE i \in 2..n
      <4>1. MoveToFront(u, k)[i] = u[i - 1] /\ MoveToFront(s, k)[i] = s[i - 1]
        BY <1>1, <2>1, <2>2, <2>3, <3>2
      <4>2. i - 1 \in 1..Len(u)
        BY <1>1, <2>3, <3>2
      <4> QED
        BY <1>1, <4>1, <4>2
    <3> QED
      BY <3>1, <3>2
  <2>4. /\ Len(MoveToFront(u, k)) = Len(MoveToFront(s, k))
           \/ (Len(MoveToFront(u, k)) >= n /\ Len(MoveToFront(s, k)) >= n)
        /\ \A i \in 1..n : i <= Len(MoveToFront(u, k)) => MoveToFront(u, k)[i] = MoveToFront(s, k)[i]
    BY <1>1, <2>1, <2>2, <2>3
  <2>5. Prefix(MoveToFront(u, k), n) = Prefix(MoveToFront(s, k), n)
    BY <2>1, <2>2, <2>4, SamePrefix
  <2> QED
    BY <2>5 DEF u
<1> QED
  BY <1>3, <1>4

-----------------------------------------------------------------------------
(* The file cache.                                                         *)

\* What the calls of Fetch keep true: the history has no duplicates and the
\* list is its prefix; whatever is held under a key is the content of that
\* file; and so is what has been returned.
FetchInv ==
    /\ FetcherTypeOK
    /\ Distinct(recent)
    /\ CacheIsLRU
    /\ \A key \in DOMAIN cache : cache[key].body = key
    /\ RightContent

\* The shapes a call can have, by phase.
LEMMA FetchShapes ==
    ASSUME FetcherTypeOK, NEW w \in Workers
    PROVE  /\ fetch[w].phase = "sent" =>
                fetch[w] \in [phase: {"sent"}, file: Files, attempt: 0..MaxFetchRetries,
                              conditional: BOOLEAN]
           /\ fetch[w].phase = "backoff" =>
                fetch[w] \in [phase: {"backoff"}, file: Files, attempt: 0..(MaxFetchRetries - 1)]
BY DEF FetcherTypeOK, NoFetch, Error

\* The cache is empty and nobody fetches at first.
LEMMA FetchInvInit == FetcherInit => FetchInv
<1> SUFFICES ASSUME FetcherInit PROVE FetchInv
  OBVIOUS
<1>1. lru = <<>> /\ cache = <<>> /\ recent = <<>> /\ fetch = [w \in Workers |-> NoFetch]
  BY DEF FetcherInit
<1>2. DOMAIN cache = {} /\ Range(lru) = {}
  BY <1>1 DEF Range
<1>3. FetcherTypeOK
  BY <1>1, <1>2 DEF FetcherTypeOK
<1>4. CacheIsLRU
  BY <1>1, <1>2, FetcherAssumption DEF CacheIsLRU, FetcherAssumption
<1> QED
  BY <1>1, <1>2, <1>3, <1>4 DEF FetchInv, Distinct, RightContent, NoFetch

\* A step that changes one worker's call and leaves the cache alone.
LEMMA FetchInvCall ==
    ASSUME FetchInv, NEW w \in Workers, NEW call, UNCHANGED <<lru, cache, recent>>,
           fetch' = [fetch EXCEPT ![w] = call],
           call \in {NoFetch, Error}
               \cup [phase: {"sent"}, file: Files, attempt: 0..MaxFetchRetries, conditional: BOOLEAN]
               \cup [phase: {"backoff"}, file: Files, attempt: 0..(MaxFetchRetries - 1)]
    PROVE  FetchInv'
<1>1. FetcherTypeOK'
  BY DEF FetchInv, FetcherTypeOK
<1>2. call.phase # "returned"
  BY DEF NoFetch, Error
<1>3. RightContent'
  BY <1>2 DEF FetchInv, RightContent, FetcherTypeOK
<1> QED
  BY <1>1, <1>3 DEF FetchInv, CacheIsLRU

\* What the first lookup of an attempt finds.
LEMMA SentType ==
    ASSUME FetcherTypeOK, NEW file \in Files, NEW attempt \in 0..MaxFetchRetries
    PROVE  Sent(file, attempt) \in
               [phase: {"sent"}, file: Files, attempt: 0..MaxFetchRetries, conditional: BOOLEAN]
<1>1. (cacheKey(file) \in DOMAIN cache /\ cache[cacheKey(file)].etag) \in BOOLEAN
  OBVIOUS
<1> QED
  BY <1>1 DEF Sent

\* The steps of a call that do not touch the cache.
LEMMA FetchInvWaits ==
    ASSUME FetchInv, NEW w \in Workers,
           \/ \E file \in Files : Fetch(w, file)
           \/ \E why \in Failures : RequestFails(w, why)
           \/ Retry(w) \/ Cancelled(w) \/ FileTaken(w)
    PROVE  FetchInv'
<1> DEFINE Sents == [phase: {"sent"}, file: Files, attempt: 0..MaxFetchRetries,
                     conditional: BOOLEAN]
           Waits == [phase: {"backoff"}, file: Files, attempt: 0..(MaxFetchRetries - 1)]
<1>1. /\ FetcherTypeOK /\ UNCHANGED <<lru, cache, recent>> /\ MaxFetchRetries \in Nat
  BY FetcherAssumption DEF FetchInv, FetcherAssumption, Fetch, RequestFails, Retry, Cancelled, FileTaken
<1>2. PICK call : fetch' = [fetch EXCEPT ![w] = call] /\ call \in {NoFetch, Error} \cup Sents \cup Waits
  <2>1. CASE \E file \in Files : Fetch(w, file)
    <3>1. PICK file \in Files : fetch' = [fetch EXCEPT ![w] = Sent(file, 0)]
      BY <2>1 DEF Fetch
    <3>2. Sent(file, 0) \in Sents
      BY <1>1, SentType
    <3> QED
      BY <3>1, <3>2, Zenon
  <2>2. CASE Retry(w)
    <3>1. fetch[w].phase = "backoff" /\ fetch' = [fetch EXCEPT ![w] = Sent(fetch[w].file, fetch[w].attempt + 1)]
      BY <2>2 DEF Retry
    <3>2. fetch[w].file \in Files /\ fetch[w].attempt + 1 \in 0..MaxFetchRetries
      BY <1>1, <3>1, FetchShapes
    <3>3. Sent(fetch[w].file, fetch[w].attempt + 1) \in Sents
      BY <1>1, <3>2, SentType
    <3> QED
      BY <3>1, <3>3, Zenon
  <2>3. CASE Cancelled(w)
    BY <2>3, Zenon DEF Cancelled
  <2>4. CASE FileTaken(w)
    BY <2>4, Zenon DEF FileTaken
  <2>5. CASE \E why \in Failures : RequestFails(w, why)
    <3>1. PICK why \in Failures : RequestFails(w, why)
      BY <2>5
    <3>2. fetch[w].file \in Files /\ fetch[w].attempt \in 0..MaxFetchRetries
      BY <1>1, <3>1, FetchShapes DEF RequestFails
    <3>3. CASE why \in {"notFound", "other"} \/ fetch[w].attempt = MaxFetchRetries
      <4>1. fetch' = [fetch EXCEPT ![w] = Error]
        BY <3>1, <3>3 DEF RequestFails
      <4> QED
        BY <4>1, Zenon
    <3>4. CASE ~(why \in {"notFound", "other"} \/ fetch[w].attempt = MaxFetchRetries)
      <4>1. fetch[w].attempt + 1 \in 0..MaxFetchRetries /\ fetch[w].attempt \in 0..(MaxFetchRetries - 1)
        BY <1>1, <3>2, <3>4
      <4>2. Sent(fetch[w].file, fetch[w].attempt + 1) \in Sents
        BY <1>1, <3>2, <4>1, SentType
      <4> DEFINE wait == [phase |-> "backoff", file |-> fetch[w].file, attempt |-> fetch[w].attempt]
      <4>3. wait \in Waits
        BY <3>2, <4>1
      <4>4. \/ fetch' = [fetch EXCEPT ![w] = Sent(fetch[w].file, fetch[w].attempt + 1)]
            \/ fetch' = [fetch EXCEPT ![w] = wait]
        BY <3>1, <3>4 DEF RequestFails
      <4> HIDE DEF wait
      <4> QED
        BY <4>2, <4>3, <4>4, Zenon
    <3> QED
      BY <3>3, <3>4
  <2> QED
    BY <2>1, <2>2, <2>3, <2>4, <2>5
<1> QED
  BY <1>1, <1>2, FetchInvCall

\* A key that is used moves to the front of the list and of the history; what
\* is held is unchanged but for that key.
LEMMA LRUStep ==
    ASSUME FetchInv, NEW key \in Files, recent' = MoveToFront(recent, key),
           lru' = Prefix(MoveToFront(lru, key), Capacity),
           DOMAIN cache' = Range(lru')
    PROVE  /\ lru' \in Seq(Files) /\ recent' \in Seq(Files) /\ Distinct(recent')
           /\ CacheIsLRU'
           /\ DOMAIN cache' \subseteq DOMAIN cache \cup {key}
<1>0. Capacity \in Nat \ {0}
  BY FetcherAssumption DEF FetcherAssumption
<1>1. lru \in Seq(Files) /\ recent \in Seq(Files) /\ Distinct(recent) /\ lru = Prefix(recent, Capacity)
      /\ DOMAIN cache = Range(lru)
  BY DEF FetchInv, FetcherTypeOK, CacheIsLRU, Prefix
<1>2. Distinct(lru)
  BY <1>0, <1>1, PrefixIs DEF Distinct
<1>3. MoveToFront(lru, key) \in Seq(Files) /\ Range(MoveToFront(lru, key)) = Range(lru) \cup {key}
  BY <1>1, <1>2, MoveToFrontKeeps
<1>4. lru' \in Seq(Files) /\ Range(lru') \subseteq Range(MoveToFront(lru, key))
  BY <1>0, <1>3, PrefixIs DEF Range
<1>5. recent' \in Seq(Files) /\ Distinct(recent')
  BY <1>1, MoveToFrontKeeps
<1>6. lru' = Prefix(recent', Capacity)
  BY <1>0, <1>1, PrefixMoves
<1> QED
  BY <1>1, <1>3, <1>4, <1>5, <1>6 DEF CacheIsLRU, Prefix
\* A returned call with the right content.
LEMMA FetchInvDone ==
    ASSUME FetchInv, NEW w \in Workers, NEW file \in Files,
           fetch' = [fetch EXCEPT ![w] = [phase |-> "returned", file |-> file, body |-> file]]
    PROVE  /\ fetch' \in [Workers ->
                  {NoFetch, Error}
                  \cup [phase: {"sent"}, file: Files, attempt: 0..MaxFetchRetries, conditional: BOOLEAN]
                  \cup [phase: {"backoff"}, file: Files, attempt: 0..(MaxFetchRetries - 1)]
                  \cup [phase: {"returned"}, file: Files, body: Files]]
           /\ RightContent'
BY DEF FetchInv, FetcherTypeOK, RightContent

\* 200: the file is stored under its own key.
LEMMA FetchInvReceiveFile ==
    ASSUME FetchInv, NEW w \in Workers, ReceiveFile(w)
    PROVE  FetchInv'
<1> DEFINE file == fetch[w].file
           entry == [etag |-> file \notin Untagged, body |-> file]
<1>1. file \in Files
  BY FetchShapes DEF FetchInv, ReceiveFile
<1>2. /\ recent' = MoveToFront(recent, file)
      /\ lru' = Prefix(MoveToFront(lru, file), Capacity)
      /\ cache' = [k \in Range(lru') |-> IF k = file THEN entry ELSE cache[k]]
      /\ fetch' = [fetch EXCEPT ![w] = [phase |-> "returned", file |-> file, body |-> file]]
  BY DEF ReceiveFile, Store, cacheKey, Done, Prefix
<1>3. entry \in [etag: BOOLEAN, body: Files] /\ entry.body = file
  BY <1>1
<1> HIDE DEF file, entry
<1>4. DOMAIN cache' = Range(lru')
  BY <1>2
<1>5. /\ lru' \in Seq(Files) /\ recent' \in Seq(Files) /\ Distinct(recent')
      /\ CacheIsLRU' /\ DOMAIN cache' \subseteq DOMAIN cache \cup {file}
  BY <1>1, <1>2, <1>4, LRUStep
<1>6. ASSUME NEW key \in DOMAIN cache'
      PROVE  key \in Files /\ cache'[key] \in [etag: BOOLEAN, body: Files] /\ cache'[key].body = key
  <2>1. CASE key = file
    BY <1>1, <1>2, <1>3, <1>4, <2>1
  <2>2. CASE key # file
    <3>1. key \in DOMAIN cache /\ cache'[key] = cache[key]
      BY <1>2, <1>4, <1>5, <2>2
    <3> QED
      BY <3>1 DEF FetchInv, FetcherTypeOK
  <2> QED
    BY <2>1, <2>2
<1>7. FetcherTypeOK' /\ RightContent'
  <2>1. RightContent'
    BY <1>1, <1>2, FetchInvDone
  <2> QED
    BY <1>1, <1>2, <1>5, <1>6, <2>1, FetchInvDone DEF FetcherTypeOK
<1> QED
  BY <1>5, <1>6, <1>7 DEF FetchInv

\* 304: the entry, if it is still there, is the file's.
LEMMA FetchInvReceiveUnchanged ==
    ASSUME FetchInv, NEW w \in Workers, ReceiveUnchanged(w)
    PROVE  FetchInv'
<1> DEFINE file == fetch[w].file
<1>1. file \in Files /\ cache' = cache
  BY FetchShapes DEF FetchInv, ReceiveUnchanged
<1>2. CASE file \in DOMAIN cache
  <2>1. /\ recent' = MoveToFront(recent, file) /\ lru' = MoveToFront(lru, file)
        /\ fetch' = [fetch EXCEPT ![w] = Done(w, cache[file].body)]
    BY <1>2 DEF ReceiveUnchanged, cacheKey
  <2>2. fetch' = [fetch EXCEPT ![w] = [phase |-> "returned", file |-> file, body |-> file]]
    BY <1>2, <2>1 DEF FetchInv, Done
  <2> HIDE DEF file
  <2>3. lru \in Seq(Files) /\ Distinct(lru) /\ Len(lru) <= Capacity /\ Capacity \in Nat
    <3>1. Capacity \in Nat /\ recent \in Seq(Files) /\ lru = Prefix(recent, Capacity)
      BY FetcherAssumption DEF FetchInv, FetcherTypeOK, CacheIsLRU, Prefix, FetcherAssumption
    <3> QED
      BY <3>1, PrefixIs DEF FetchInv, Distinct
  <2>4. PICK p \in 1..Len(lru) : lru[p] = file
    BY <1>2, <2>3 DEF FetchInv, CacheIsLRU, Range
  <2>5. MoveToFront(lru, file) \in Seq(Files) /\ Len(MoveToFront(lru, file)) = Len(lru)
    <3>1. MoveToFront(lru, file) \in Seq(Files) /\ Promoted(MoveToFront(lru, file), lru, p)
      BY <2>3, <2>4, Promote, Zenon
    <3> QED
      BY <3>1 DEF Promoted
  <2>6. lru' = Prefix(MoveToFront(lru, file), Capacity)
    BY <2>1, <2>3, <2>5, SubSeqFull DEF Prefix
  <2>7. Range(lru') = Range(lru)
    <3>1. file \in Range(lru)
      BY <1>2 DEF FetchInv, CacheIsLRU
    <3>2. Range(MoveToFront(lru, file)) = Range(lru) \cup {file}
      BY <1>1, <2>3, MoveToFrontKeeps
    <3> QED
      BY <2>1, <3>1, <3>2
  <2>8. DOMAIN cache' = Range(lru')
    BY <1>1, <2>7 DEF FetchInv, CacheIsLRU
  <2>9. lru' \in Seq(Files) /\ recent' \in Seq(Files) /\ Distinct(recent') /\ CacheIsLRU'
    BY <1>1, <2>1, <2>6, <2>8, LRUStep
  <2>10. FetcherTypeOK' /\ RightContent'
    <3>1. RightContent'
      BY <1>1, <2>2, FetchInvDone
    <3> QED
      BY <1>1, <2>2, <2>9, <3>1, FetchInvDone DEF FetchInv, FetcherTypeOK
  <2> QED
    BY <1>1, <2>9, <2>10 DEF FetchInv
<1>3. CASE file \notin DOMAIN cache
  <2>1. UNCHANGED <<lru, cache, recent>> /\ fetch' = [fetch EXCEPT ![w] = Error]
    BY <1>3 DEF ReceiveUnchanged, cacheKey
  <2> QED
    BY <2>1, FetchInvCall
<1> QED
  BY <1>2, <1>3

-----------------------------------------------------------------------------
(* Both caches.                                                            *)

\* Both caches are empty at first.
LEMMA CachesInit == Init => ListInv /\ FetchInv
BY ListInvInit, FetchInvInit DEF Init

\* A step of either cache, or of neither, keeps both invariants.
LEMMA CachesNext == ListInv /\ FetchInv /\ [Next]_vars => (ListInv /\ FetchInv)'
<1> SUFFICES ASSUME ListInv, FetchInv, [Next]_vars PROVE ListInv' /\ FetchInv'
  OBVIOUS
<1>1. ASSUME UNCHANGED listVars PROVE ListInv'
  BY <1>1, ListInvNext
<1>2. ASSUME UNCHANGED fetcherVars PROVE FetchInv'
  BY <1>2 DEF fetcherVars, FetchInv, FetcherTypeOK, CacheIsLRU, RightContent
<1>3. CASE UNCHANGED vars
  BY <1>1, <1>2, <1>3 DEF vars
<1>4. ASSUME NEW w \in Workers, Lists(w) PROVE ListInv' /\ FetchInv'
  BY <1>2, <1>4, ListInvAsk DEF Lists
<1>5. ASSUME NEW w \in Workers, Fetches(w) PROVE ListInv' /\ FetchInv'
  BY <1>1, <1>5, FetchInvWaits DEF Fetches
<1>6. ASSUME NEW w \in Workers, Proceeds(w) PROVE ListInv' /\ FetchInv'
  <2>1. CASE (Serve(w) \/ Receive(w) \/ Took(w)) /\ UNCHANGED fetcherVars
    BY <1>2, <2>1, ListInvServe, ListInvReceiveOk, ListInvEnds DEF Receive
  <2>2. CASE (FetchStep(w) \/ FileTaken(w)) /\ UNCHANGED listVars
    BY <1>1, <2>2, FetchInvWaits, FetchInvReceiveFile, FetchInvReceiveUnchanged DEF FetchStep
  <2> QED
    BY <1>6, <2>1, <2>2 DEF Proceeds
<1>7. CASE (\E u \in Urls : Change(u)) /\ UNCHANGED fetcherVars
  BY <1>2, <1>7, ListInvChange
<1> QED
  BY <1>3, <1>4, <1>5, <1>6, <1>7 DEF Next

\* The list cache behaves as it would alone: what its workers fetch besides adds
\* no behaviour.
THEOREM ListsAsAlone == Spec => ListSpec
<1>1. Init => ListInit
  BY DEF Init
<1>2. [Next]_vars => [ListNext]_listVars
  BY Zenon DEF Next, Lists, Fetches, Proceeds, ListNext, vars
<1> QED
  BY <1>1, <1>2, PTL DEF Spec, ListSpec

\* So listings are fresh enough and a 304 finds its payload for workers that fetch
\* workflow files between their listings (cachedGet and Fetch).
THEOREM SharedListings == Spec => []FreshEnough /\ []NotModifiedIsHeld
  BY ListsAsAlone, ListingsFreshEnough, NotModifiedFindsPayload, PTL

\* The types of both caches: in particular Fetch makes no more than
\* MaxFetchRetries retries, whatever GitHub answers.
THEOREM CachesTypeCorrect == Spec => []TypeOK
<1>1. ListInv /\ FetchInv => TypeOK
  BY DEF ListInv, FetchInv, TypeOK
<1> QED
  BY <1>1, CachesInit, CachesNext, PTL DEF Spec

\* store and touchAndGet keep list and map in step, and evict the entry that
\* was used least recently, however the workers' fetches interleave.
THEOREM EvictsLeastRecent == Spec => []CacheIsLRU
<1>1. FetchInv => CacheIsLRU
  BY DEF FetchInv
<1> QED
  BY <1>1, CachesInit, CachesNext, PTL DEF Spec

\* Fetch returns the content of the file it was asked for, from GitHub or from
\* whatever entry other workers left.
THEOREM FetchesRightContent == Spec => []RightContent
<1>1. FetchInv => RightContent
  BY DEF FetchInv
<1> QED
  BY <1>1, CachesInit, CachesNext, PTL DEF Spec
=============================================================================
