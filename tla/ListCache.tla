----------------------------- MODULE ListCache -----------------------------
(***************************************************************************)
(* cachedGet of WorkflowNeedsGraph (internal/predictor/                    *)
(* workflow_needs_graph.go): conditional GETs of listings, answered from   *)
(* an ETag cache the reconcile workers share.  The mutex is taken for the  *)
(* lookup of the ETag and again to store or read the payload, never across *)
(* the request, so the requests of two workers interleave freely.          *)
(*                                                                         *)
(* A listing is abstracted to its version, which is also its ETag.         *)
(***************************************************************************)
EXTENDS Integers, ReconcileWorkers

CONSTANTS
    Urls,        \* the listing URLs they ask for
    MaxVersion   \* listings stop changing here

VARIABLES
    version,    \* what GitHub holds: URL -> version
    listCache,  \* URL -> [held, etag, body]; nothing is held under it at first
    get         \* worker -> its call of cachedGet

listVars == <<version, listCache, get>>

NoETag == -1
Idle == [phase |-> "idle"]
Failed == [phase |-> "failed"]
InFlight(w, u) == get[w].phase \in {"asked", "answered"} /\ get[w].url = u

\* The versions at which the calls now in flight, and one beginning now, began.
Starts(u) == {version[u]} \cup {get[q].start : q \in {w \in Workers : InFlight(w, u)}}

ListInit ==
    /\ version = [u \in Urls |-> 0]
    /\ listCache = [u \in Urls |-> [held |-> FALSE, etag |-> NoETag, body |-> 0]]
    /\ get = [w \in Workers |-> Idle]

\* The lookup of the ETag, and the request leaves.  "start" and "horizon" are
\* history: the version now, and the least one a call in flight began at.
Ask(w, u) ==
    /\ get[w].phase = "idle"
    /\ \E horizon \in Starts(u) :
         /\ \A other \in Starts(u) : horizon <= other
         /\ get' = [get EXCEPT ![w] =
                [phase |-> "asked", url |-> u, start |-> version[u], horizon |-> horizon,
                 etag |-> IF listCache[u].held THEN listCache[u].etag ELSE NoETag]]
    /\ UNCHANGED <<version, listCache>>

\* GitHub's answer: not modified, a payload (with or without an ETag), or a
\* network error or any other status, which fails the call.
Serve(w) ==
    /\ get[w].phase = "asked"
    /\ LET call == get[w]
           Answered(status, etag, body) ==
               [phase |-> "answered", url |-> call.url, start |-> call.start,
                horizon |-> call.horizon, status |-> status, etag |-> etag, body |-> body]
           now == version[call.url]
       IN  \/ /\ call.etag = now
              /\ get' = [get EXCEPT ![w] = Answered("notModified", NoETag, 0)]
           \/ /\ call.etag # now
              /\ \E etag \in {now, NoETag} :
                   get' = [get EXCEPT ![w] = Answered("ok", etag, now)]
           \/ get' = [get EXCEPT ![w] = Failed]
    /\ UNCHANGED <<version, listCache>>

Returned(w, body) ==
    [phase |-> "returned", body |-> body, horizon |-> get[w].horizon]

\* Mutant: the new ETag is stored with the old payload.
ReceiveOkKeepsBody(w) ==
    /\ get[w].phase = "answered" /\ get[w].status = "ok"
    /\ listCache' = [listCache EXCEPT ![get[w].url] =
                        [held |-> TRUE, etag |-> get[w].etag,
                         body |-> IF @.held THEN @.body ELSE get[w].body]]
    /\ get' = [get EXCEPT ![w] = Returned(w, get[w].body)]
    /\ UNCHANGED version

\* 200: storeList, and the payload is returned.
ReceiveOk(w) ==
    /\ get[w].phase = "answered" /\ get[w].status = "ok"
    /\ listCache' = [listCache EXCEPT ![get[w].url] =
                        [held |-> TRUE, etag |-> get[w].etag, body |-> get[w].body]]
    /\ get' = [get EXCEPT ![w] = Returned(w, get[w].body)]
    /\ UNCHANGED version

\* Mutant: a payload serves once.
ReceiveNotModifiedOnce(w) ==
    /\ get[w].phase = "answered" /\ get[w].status = "notModified"
    /\ get' = [get EXCEPT ![w] =
           IF listCache[get[w].url].held THEN Returned(w, listCache[get[w].url].body) ELSE Failed]
    /\ listCache' = [listCache EXCEPT ![get[w].url].held = FALSE]
    /\ UNCHANGED version

\* 304: whatever is stored under the URL by now is returned.
ReceiveNotModified(w) ==
    /\ get[w].phase = "answered" /\ get[w].status = "notModified"
    /\ get' = [get EXCEPT ![w] =
           IF listCache[get[w].url].held THEN Returned(w, listCache[get[w].url].body) ELSE Failed]
    /\ UNCHANGED <<version, listCache>>

Receive(w) == ReceiveOk(w) \/ ReceiveNotModified(w)

\* The caller takes the result and goes on.
Took(w) ==
    /\ get[w].phase \in {"returned", "failed"}
    /\ get' = [get EXCEPT ![w] = Idle]
    /\ UNCHANGED <<version, listCache>>

\* A run or a job changes, and with it the listing.
Change(u) ==
    /\ version[u] < MaxVersion
    /\ version' = [version EXCEPT ![u] = @ + 1]
    /\ UNCHANGED <<listCache, get>>

-----------------------------------------------------------------------------
(* Properties.                                                             *)

ListTypeOK ==
    /\ version \in [Urls -> Nat]
    /\ listCache \in [Urls -> [held: BOOLEAN, etag: Nat \cup {NoETag}, body: Nat]]
    /\ get \in [Workers ->
           {Idle, Failed}
           \cup [phase: {"asked"}, url: Urls, start: Nat, horizon: Nat, etag: Nat \cup {NoETag}]
           \cup [phase: {"answered"}, url: Urls, start: Nat, horizon: Nat,
                 status: {"ok", "notModified"}, etag: Nat \cup {NoETag}, body: Nat]
           \cup [phase: {"returned"}, body: Nat, horizon: Nat]]

\* A listing is never older than the oldest call that was in flight when it was
\* asked for, so one worker alone never sees a listing from before its own
\* call; a slower worker may store an older payload between the 304 and the
\* second lookup, but no older than that.
FreshEnough ==
    \A w \in Workers : get[w].phase = "returned" => get[w].body >= get[w].horizon

\* A 304 always finds its payload: entries are replaced but never dropped.
NotModifiedIsHeld ==
    \A w \in Workers :
        get[w].phase = "answered" /\ get[w].status = "notModified" => listCache[get[w].url].held

-----------------------------------------------------------------------------
ListNext ==
    \/ \E w \in Workers : (\E u \in Urls : Ask(w, u)) \/ Serve(w) \/ Receive(w) \/ Took(w)
    \/ \E u \in Urls : Change(u)

ListSpec == ListInit /\ [][ListNext]_listVars
=============================================================================
