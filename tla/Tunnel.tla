------------------------------- MODULE Tunnel -------------------------------
(***************************************************************************)
(* One GitHubApp: its reconciler (internal/controller/                     *)
(* githubapp_controller.go), the TunnelRegistry it drives and the          *)
(* TunnelClient goroutines the registry starts and cancels                 *)
(* (internal/webhook/tunnel.go).  The registry's mutex is held by the      *)
(* single reconcile worker, so a registry call is atomic but for the wait  *)
(* of stopLocked, during which the goroutines go on.                       *)
(***************************************************************************)
EXTENDS Integers, FiniteSets

CONSTANTS
    Clients,           \* bound: goroutines alive at once
    Urls,              \* relay URLs a user may ask for
    Ingress, NoURL,    \* mode ingress; mode tunnel without a relay URL
    Deleted,           \* there is no such GitHubApp
    NoClient,          \* no entry in the registry
    InitialBackoff, BackoffCap,
    Events,            \* what the environment does in an instance
    Asks               \* the specs its users choose from

\* What control reads of a GitHubAppSpec: the mode and, in tunnel mode, the URL.
Specs == Urls \cup {Ingress, NoURL, Deleted}

ASSUME TunnelAssumption ==
    /\ Urls # {} /\ Cardinality({Ingress, NoURL, Deleted}) = 3
    /\ Urls \cap {Ingress, NoURL, Deleted} = {} /\ NoClient \notin Clients
    /\ Events \subseteq {"secrets", "delivery", "break", "refuse", "restart", "settle"}
    /\ Asks \subseteq Specs /\ Asks # {}
    /\ InitialBackoff \in Nat \ {0} /\ BackoffCap \in Nat /\ InitialBackoff <= BackoffCap

VARIABLES
    app,        \* the GitHubApp's ingress in the API server
    cached,     \* the informer's copy of it
    current,    \* the informer's copy has the API server's resourceVersion
    status,     \* [reason, healthy] of its status
    queued,     \* a reconcile is queued, or its RequeueAfter will fire
    rec,        \* the reconcile under way: [at, spec, valid, out]
    entry,      \* the registry's client for the app
    client,     \* each goroutine: [at, url, cancelled, backoff]
    secrets,    \* both referenced Secrets exist
    lastDelivery, \* status.lastDelivery: "recent", or "stale": unset or out of webhookHealthyWindow
    settled     \* the environment changes no more

appVars == <<app, cached, current>>
world == <<secrets, lastDelivery, settled>>
vars == <<appVars, status, queued, rec, entry, client, world>>

\* The status of a GitHubApp no reconcile has written to.
NoStatus == [reason |-> "none", healthy |-> FALSE]
NotRunning == [at |-> "none", url |-> CHOOSE u \in Urls : TRUE, cancelled |-> FALSE,
               backoff |-> InitialBackoff]
Resting == [at |-> "idle", spec |-> Deleted, valid |-> FALSE, out |-> NoStatus]

\* The environment may still do e.
Event(e) == e \in Events /\ ~settled

Running == {c \in Clients : client[c].at # "none"}

\* setConnected: true from a successful dial until streamOnce returns.
Connected(c) == client[c].at \in {"stream", "handle"}

Init ==
    /\ app \in Asks /\ cached = app /\ current = TRUE
    /\ status = NoStatus
    /\ queued = TRUE /\ rec = Resting
    /\ entry = NoClient /\ client = [c \in Clients |-> NotRunning]
    /\ secrets = TRUE /\ lastDelivery = "stale" /\ settled = FALSE

-----------------------------------------------------------------------------
(* TunnelClient.Start: one goroutine.  Every wait also ends on ctx.Done(). *)

ClientStep(c, next) ==
    /\ client' = [client EXCEPT ![c] = next]
    /\ UNCHANGED <<appVars, status, queued, rec, entry, world>>

\* The goroutine sees its context cancelled: before or in a dial, at the next
\* line of the stream, or asleep.
Exit(c) ==
    /\ client[c].at \in {"dial", "stream", "sleep"} /\ client[c].cancelled
    /\ ClientStep(c, NotRunning)

Dial(c) ==
    /\ client[c].at = "dial" /\ ~client[c].cancelled
    /\ \/ ClientStep(c, [client[c] EXCEPT !.at = "stream"])
       \/ Event("break") /\ ClientStep(c, [client[c] EXCEPT !.at = "sleep"])

\* Mutant: the loop over lines does not look at the context.
FrameUnchecked(c) ==
    /\ client[c].at = "stream"
    /\ ClientStep(c, [client[c] EXCEPT !.at = "handle"])

\* A frame is complete; HandleFrame runs on this goroutine.
Frame(c) ==
    /\ client[c].at = "stream" /\ ~client[c].cancelled
    /\ ClientStep(c, [client[c] EXCEPT !.at = "handle"])

FrameHandled(c) ==
    /\ client[c].at = "handle"
    /\ ClientStep(c, [client[c] EXCEPT !.at = "stream"])

\* The relay closes the stream, which is no error; or reading fails.
StreamEnds(c) ==
    /\ client[c].at = "stream" /\ ~client[c].cancelled
    /\ Event("break")
    /\ \/ ClientStep(c, [client[c] EXCEPT !.at = "dial", !.backoff = InitialBackoff])
       \/ ClientStep(c, [client[c] EXCEPT !.at = "sleep"])

\* Mutant: the doubled delay is not capped.
WakeUncapped(c) ==
    /\ client[c].at = "sleep" /\ ~client[c].cancelled
    /\ ClientStep(c, [client[c] EXCEPT !.at = "dial", !.backoff = 2 * @])

Wake(c) ==
    /\ client[c].at = "sleep" /\ ~client[c].cancelled
    /\ ClientStep(c, [client[c] EXCEPT !.at = "dial",
                                       !.backoff = IF 2 * @ < BackoffCap THEN 2 * @ ELSE BackoffCap])

-----------------------------------------------------------------------------
(* TunnelRegistry: what its calls do to the entry and the goroutines.      *)

\* Mutant: Ensure keeps whatever tunnel it finds.
KeepsAny(url) == entry # NoClient /\ url \in Urls

\* Ensure leaves a tunnel at the same URL alone.
Keeps(url) == entry # NoClient /\ client[entry].url = url

\* startLocked
StartTunnel(url) ==
    \E c \in Clients \ Running :
        /\ entry' = c
        /\ client' = [client EXCEPT ![c] = [NotRunning EXCEPT !.at = "dial", !.url = url]]

\* Mutant: the entry is dropped without cancelling its goroutine.
CancelTunnelNot == UNCHANGED <<entry, client>>

\* stopLocked, up to its wait; nobody asks for the goroutine's URL any more.
CancelTunnel ==
    /\ client' = [client EXCEPT ![entry] = [NotRunning EXCEPT !.at = client[entry].at, !.cancelled = TRUE]]
    /\ UNCHANGED entry

-----------------------------------------------------------------------------
(* GitHubAppReconciler.Reconcile.                                          *)

\* All that is left is to write the status: the spec is read no more, and a status
\* that will be refused is as good as none.
Writing(valid, out) ==
    [Resting EXCEPT !.at = "write", !.valid = valid, !.out = IF valid THEN out ELSE NoStatus]

\* Get from the cache, then Ensure or Stop up to the wait for a goroutine.
Begin ==
    /\ rec.at = "idle" /\ queued /\ queued' = FALSE
    /\ LET go(at) == rec' = [rec EXCEPT !.at = at, !.spec = cached, !.valid = current]
       IN  \/ cached = Deleted /\ UNCHANGED <<rec, entry, client>>
           \/ /\ cached = NoURL
              /\ rec' = Writing(current, [status EXCEPT !.reason = "TunnelURLMissing"])
              /\ UNCHANGED <<entry, client>>
           \/ /\ cached \in Urls \cup {Ingress} /\ entry # NoClient /\ ~Keeps(cached)
              /\ CancelTunnel /\ go("stopping")
           \/ cached \in Urls /\ entry = NoClient /\ StartTunnel(cached) /\ go("secrets")
           \/ /\ (cached \in Urls /\ Keeps(cached)) \/ (cached = Ingress /\ entry = NoClient)
              /\ UNCHANGED <<entry, client>> /\ go("secrets")
    /\ UNCHANGED <<appVars, status, world>>

\* The goroutine is gone or two seconds are over: stopLocked forgets it.
Stopped ==
    /\ rec.at = "stopping" /\ rec' = [rec EXCEPT !.at = "secrets"]
    /\ IF rec.spec \in Urls THEN StartTunnel(rec.spec)
                            ELSE entry' = NoClient /\ UNCHANGED client
    /\ UNCHANGED <<appVars, status, queued, world>>

\* webhookHealthy: a recent delivery in ingress mode, a connected tunnel otherwise.
Healthy ==
    IF rec.spec = Ingress THEN lastDelivery = "recent"
    ELSE entry # NoClient /\ Connected(entry)

CheckSecrets ==
    /\ rec.at = "secrets"
    /\ rec' = Writing(rec.valid,
                  IF secrets THEN [reason |-> "Reconciled", healthy |-> Healthy]
                             ELSE [status EXCEPT !.reason = "SecretMissing"])
    /\ UNCHANGED <<appVars, status, queued, entry, client, world>>

\* Every outcome but NotFound comes back: RequeueAfter, or an error's retry.
Finish == queued' = TRUE

\* Status().Update: refused when the object has changed since it was read; an
\* update that changes nothing is none.
WriteStatus ==
    /\ rec.at = "write" /\ rec' = Resting /\ Finish
    /\ \/ /\ rec.valid /\ status' = rec.out
          /\ current' = (current /\ rec.out = status)
       \/ (~rec.valid \/ Event("refuse")) /\ UNCHANGED <<status, current>>
    /\ UNCHANGED <<app, cached, entry, client, world>>

-----------------------------------------------------------------------------
(* The cluster.                                                            *)

\* A user creates, edits or deletes the GitHubApp.
Edit(spec) ==
    /\ ~settled /\ spec # app /\ app' = spec /\ current' = FALSE
    /\ rec' = [rec EXCEPT !.valid = FALSE, !.out = NoStatus]
    /\ IF Deleted \in {app, spec} THEN status' = NoStatus /\ lastDelivery' = "stale"
                                  ELSE UNCHANGED <<status, lastDelivery>>
    /\ UNCHANGED <<cached, queued, entry, client, secrets, settled>>

\* A watch event reaches the informer and enqueues the app.
CacheSync ==
    /\ ~current /\ cached' = app /\ current' = TRUE /\ queued' = TRUE
    /\ UNCHANGED <<app, status, rec, entry, client, world>>

SecretsChange ==
    /\ Event("secrets") /\ secrets' = ~secrets
    /\ UNCHANGED <<appVars, status, queued, rec, entry, client, lastDelivery, settled>>

\* Someone other than this program writes status.lastDelivery of an app in ingress
\* mode, as the reconciler's test does.
LastDeliveryWritten ==
    /\ Event("delivery") /\ app = Ingress /\ lastDelivery' = "recent" /\ current' = FALSE
    /\ rec' = [rec EXCEPT !.valid = FALSE, !.out = NoStatus]
    /\ UNCHANGED <<app, cached, status, queued, entry, client, secrets, settled>>

\* webhookHealthyWindow passes without another.
LastDeliveryAges ==
    /\ lastDelivery = "recent" /\ lastDelivery' = "stale"
    /\ UNCHANGED <<appVars, status, queued, rec, entry, client, secrets, settled>>

Restart ==
    /\ Event("restart")
    /\ cached' = app /\ current' = TRUE /\ queued' = TRUE /\ rec' = Resting
    /\ entry' = NoClient /\ client' = [c \in Clients |-> NotRunning]
    /\ UNCHANGED <<app, status, world>>

Settle ==
    /\ Event("settle") /\ settled' = TRUE
    /\ UNCHANGED <<appVars, status, queued, rec, entry, client, secrets, lastDelivery>>

Reconcile == Begin \/ Stopped \/ CheckSecrets \/ WriteStatus
ClientNext(c) == Exit(c) \/ Dial(c) \/ Frame(c) \/ FrameHandled(c) \/ StreamEnds(c) \/ Wake(c)

Next ==
    \/ Reconcile \/ CacheSync
    \/ \E c \in Clients : ClientNext(c)
    \/ \E spec \in Asks : Edit(spec)
    \/ SecretsChange \/ LastDeliveryWritten \/ LastDeliveryAges \/ Restart \/ Settle

\* The work queue and the informer are served, and a goroutine that can go on
\* does: none of its waits is longer than BackoffCap or its context.
GoesOn(c) == Exit(c) \/ Dial(c) \/ FrameHandled(c) \/ Wake(c)

Fairness ==
    /\ WF_vars(Reconcile) /\ WF_vars(CacheSync) /\ \A c \in Clients : WF_vars(GoesOn(c))

Spec == Init /\ [][Next]_vars
FairSpec == Spec /\ Fairness /\ WF_vars(Settle)

-----------------------------------------------------------------------------
(* Properties.                                                             *)

Statuses == [reason: {"none", "Reconciled", "SecretMissing", "TunnelURLMissing"},
             healthy: BOOLEAN]
Reconciles == [at: {"idle", "stopping", "secrets", "write"}, spec: Specs, valid: BOOLEAN,
               out: Statuses]
Goroutines == [at: {"none", "dial", "stream", "handle", "sleep"}, url: Urls,
               cancelled: BOOLEAN, backoff: InitialBackoff..BackoffCap]

\* Every variable holds what the code's types allow; in particular the delay
\* between dials stays between initialBackoff and its cap.
TypeOK ==
    /\ app \in Specs /\ cached \in Specs /\ current \in BOOLEAN
    /\ status \in Statuses /\ queued \in BOOLEAN
    /\ rec \in Reconciles
    /\ entry \in Clients \cup {NoClient}
    /\ client \in [Clients -> Goroutines]
    /\ secrets \in BOOLEAN /\ settled \in BOOLEAN
    /\ lastDelivery \in {"stale", "recent"}

\* However Ensure, Stop, their two-second wait and the goroutines interleave, a
\* goroutine outside the registry has been told to stop, and the registered
\* one is alive and has not, unless the registry is just waiting for it.
OneTunnel ==
    /\ \A c \in Running : c # entry => client[c].cancelled
    /\ entry # NoClient /\ rec.at # "stopping" => entry \in Running /\ ~client[entry].cancelled

\* A goroutine that outlived stopLocked's wait hands on no further frame: frames
\* reach the receiver from the registered tunnel only.
SupersededIsQuiet ==
    [][\A c \in Clients : client[c].at = "stream" /\ client'[c].at = "handle" => c = entry]_vars

\* Once users and Secrets change no more and the relay stays up, the one goroutine
\* left is the one the spec asks for, the condition tells how the app stands, and
\* with the Secrets there webhookHealthy says connected in tunnel mode and, in ingress
\* mode, whether status.lastDelivery is recent: it turns false again although nothing
\* but time has changed ("expected webhookHealthy=false with stale lastDelivery", the
\* reconciler's test).
TunnelConverges ==
    <>[](settled =>
            /\ app \in Urls => /\ Running = {entry} /\ client[entry].url = app
                               /\ (secrets => status.healthy)
            /\ app = Ingress => /\ Running = {}
                                /\ (secrets => (status.healthy <=> lastDelivery = "recent"))
            /\ app # Deleted =>
                  status.reason = IF app = NoURL THEN "TunnelURLMissing"
                                  ELSE IF secrets THEN "Reconciled" ELSE "SecretMissing")
=============================================================================
