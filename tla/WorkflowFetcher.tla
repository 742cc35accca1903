-------------------------- MODULE WorkflowFetcher --------------------------
(***************************************************************************)
(* workflowFetcher (internal/predictor/cache.go): workflow files fetched   *)
(* with conditional requests and retries through one LRU cache, shared by  *)
(* the predictor and the activity sampler of every reconcile worker.  The  *)
(* mutex covers a lookup or an update of the cache, never a request.       *)
(*                                                                         *)
(* A file is a pair <<path, ref>>: refs are commit SHAs, so its content    *)
(* never changes and the file itself stands for it.                        *)
(***************************************************************************)
EXTENDS Integers, Sequences, Functions, ReconcileWorkers

CONSTANTS
    Files,            \* the files they fetch
    Untagged,         \* those GitHub sends without an ETag
    Capacity,         \* entries the cache holds (256)
    MaxFetchRetries,  \* retries of one fetch (3)
    Failures          \* what may go wrong with a request, of the kinds below

ASSUME FetcherAssumption ==
    /\ Capacity \in Nat \ {0} /\ MaxFetchRetries \in Nat
    /\ Failures \subseteq {"notFound", "other", "forbidden", "limited", "server", "network"}

VARIABLES
    lru,     \* keys, the most recently used first
    cache,   \* function: key -> [etag, body]
    fetch,   \* worker -> its call of Fetch
    recent   \* history: every key ever stored, the latest use first

fetcherVars == <<lru, cache, fetch, recent>>

\* Mutant: the commit is left out of the key.
cacheKeyNoRef(file) == CHOOSE f \in Files : f[1] = file[1]

cacheKey(file) == file

\* list.PushFront of a key that is not there, list.MoveToFront of one that is.
MoveToFront(seq, key) ==
    IF \A i \in DOMAIN seq : seq[i] # key THEN <<key>> \o seq
    ELSE LET p == CHOOSE i \in DOMAIN seq : seq[i] = key
         IN  [i \in DOMAIN seq |-> IF i = 1 THEN key
                                  ELSE IF i <= p THEN seq[i - 1] ELSE seq[i]]

NoFetch == [phase |-> "idle"]

FetcherInit ==
    /\ lru = <<>> /\ cache = <<>> /\ recent = <<>>
    /\ fetch = [w \in Workers |-> NoFetch]

\* One attempt: cachedETag, which promotes nothing, and the request leaves.
Sent(file, attempt) ==
    [phase |-> "sent", file |-> file, attempt |-> attempt,
     conditional |-> cacheKey(file) \in DOMAIN cache /\ cache[cacheKey(file)].etag]

Fetch(w, file) ==
    /\ fetch[w].phase = "idle"
    /\ fetch' = [fetch EXCEPT ![w] = Sent(file, 0)]
    /\ UNCHANGED <<lru, cache, recent>>

Done(w, body) == [phase |-> "returned", file |-> fetch[w].file, body |-> body]
Error == [phase |-> "failed"]

\* Mutant: a stored key is not promoted.
StoreInPlace(key, etag, body) ==
    LET order == IF key \in DOMAIN cache THEN lru ELSE <<key>> \o lru
    IN  /\ lru' = SubSeq(order, 1, IF Len(order) > Capacity THEN Capacity ELSE Len(order))
        /\ cache' = [k \in Range(lru') |->
                        IF k = key THEN [etag |-> etag, body |-> body] ELSE cache[k]]

\* store: the entry is refreshed or added in front; from the back on, entries
\* beyond the capacity leave the list and the map.
Store(key, etag, body) ==
    LET order == MoveToFront(lru, key)
    IN  /\ lru' = SubSeq(order, 1, IF Len(order) > Capacity THEN Capacity ELSE Len(order))
        /\ cache' = [k \in Range(lru') |->
                        IF k = key THEN [etag |-> etag, body |-> body] ELSE cache[k]]

\* 200: the file is stored, with the ETag if there is one, and returned.
ReceiveFile(w) ==
    /\ fetch[w].phase = "sent"
    /\ LET key == cacheKey(fetch[w].file)
       IN  /\ Store(key, fetch[w].file \notin Untagged, fetch[w].file)
           /\ recent' = MoveToFront(recent, key)
    /\ fetch' = [fetch EXCEPT ![w] = Done(w, fetch[w].file)]

\* 304: touchAndGet, and an error if the entry was evicted in the meantime.
ReceiveUnchanged(w) ==
    /\ fetch[w].phase = "sent" /\ fetch[w].conditional
    /\ LET key == cacheKey(fetch[w].file)
       IN  IF key \in DOMAIN cache
           THEN /\ lru' = MoveToFront(lru, key)
                /\ recent' = MoveToFront(recent, key)
                /\ fetch' = [fetch EXCEPT ![w] = Done(w, cache[key].body)]
           ELSE /\ fetch' = [fetch EXCEPT ![w] = Error]
                /\ UNCHANGED <<lru, recent>>
    /\ UNCHANGED cache

\* Mutant: one attempt too many.
RequestFailsLate(w, why) ==
    /\ fetch[w].phase = "sent"
    /\ fetch' = [fetch EXCEPT ![w] =
           IF why \in {"notFound", "other"} \/ fetch[w].attempt > MaxFetchRetries
           THEN Error
           ELSE IF why = "forbidden"
                THEN Sent(fetch[w].file, fetch[w].attempt + 1)
                ELSE [phase |-> "backoff", file |-> fetch[w].file, attempt |-> fetch[w].attempt]]
    /\ UNCHANGED <<lru, cache, recent>>

\* A 404 or an unexpected status ends the call.  A network error, a rate limit
\* or a server error backs off while attempts remain.  A 403 without
\* Retry-After only leaves the switch, and the next attempt begins at once.
RequestFails(w, why) ==
    /\ fetch[w].phase = "sent"
    /\ fetch' = [fetch EXCEPT ![w] =
           IF why \in {"notFound", "other"} \/ fetch[w].attempt = MaxFetchRetries
           THEN Error
           ELSE IF why = "forbidden"
                THEN Sent(fetch[w].file, fetch[w].attempt + 1)
                ELSE [phase |-> "backoff", file |-> fetch[w].file, attempt |-> fetch[w].attempt]]
    /\ UNCHANGED <<lru, cache, recent>>

\* Mutant: a retry does not count.
RetryUncounted(w) ==
    /\ fetch[w].phase = "backoff"
    /\ fetch' = [fetch EXCEPT ![w] = Sent(fetch[w].file, fetch[w].attempt)]
    /\ UNCHANGED <<lru, cache, recent>>

\* The backoff timer fires.
Retry(w) ==
    /\ fetch[w].phase = "backoff"
    /\ fetch' = [fetch EXCEPT ![w] = Sent(fetch[w].file, fetch[w].attempt + 1)]
    /\ UNCHANGED <<lru, cache, recent>>

\* The context is cancelled during a backoff.
Cancelled(w) ==
    /\ fetch[w].phase = "backoff"
    /\ fetch' = [fetch EXCEPT ![w] = Error]
    /\ UNCHANGED <<lru, cache, recent>>

FileTaken(w) ==
    /\ fetch[w].phase \in {"returned", "failed"}
    /\ fetch' = [fetch EXCEPT ![w] = NoFetch]
    /\ UNCHANGED <<lru, cache, recent>>

FetchStep(w) ==
    \/ ReceiveFile(w) \/ ReceiveUnchanged(w)
    \/ \E why \in Failures : RequestFails(w, why)
    \/ Retry(w) \/ Cancelled(w)

-----------------------------------------------------------------------------
(* Properties.                                                             *)

FetcherTypeOK ==
    /\ lru \in Seq(Files) /\ recent \in Seq(Files)
    /\ DOMAIN cache \subseteq Files
    /\ \A key \in DOMAIN cache : cache[key] \in [etag: BOOLEAN, body: Files]
    /\ fetch \in [Workers ->
           {NoFetch, Error}
           \cup [phase: {"sent"}, file: Files, attempt: 0..MaxFetchRetries, conditional: BOOLEAN]
           \cup [phase: {"backoff"}, file: Files, attempt: 0..(MaxFetchRetries - 1)]
           \cup [phase: {"returned"}, file: Files, body: Files]]

\* The list and the map hold the same keys, those of the Capacity most recent
\* uses, so that no entry in use is evicted before one that is not.
CacheIsLRU ==
    /\ DOMAIN cache = Range(lru)
    /\ lru = SubSeq(recent, 1, IF Len(recent) > Capacity THEN Capacity ELSE Len(recent))

\* A fetch returns the content of the file it was asked for, also when the
\* entry came from another worker, was evicted and stored again meanwhile, or
\* belongs to the same path at another commit.
RightContent ==
    \A w \in Workers : fetch[w].phase = "returned" => fetch[w].body = fetch[w].file
=============================================================================
