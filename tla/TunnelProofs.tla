---------------------------- MODULE TunnelProofs ----------------------------
(***************************************************************************)
(* One live tunnel per GitHubApp, and silence from the replaced ones, for  *)
(* any number of goroutines, URLs and failures.                            *)
(***************************************************************************)
EXTENDS Tunnel, TLAPS

\* While stopLocked waits, the goroutine it waits for is registered, and has been
\* told to stop unless it is gone already.
Waiting ==
    rec.at = "stopping" =>
        entry # NoClient /\ (client[entry].at # "none" => client[entry].cancelled)

\* A goroutine's context is cancelled by stopLocked, and the entry dropped or replaced
\* only after that: this makes OneTunnel inductive.
TunnelInv == TypeOK /\ OneTunnel /\ Waiting

\* A goroutine that is not running has the zero state.
LEMMA NotRunningType == 
    NotRunning \in Goroutines /\ NotRunning.at = "none" /\ ~NotRunning.cancelled
    BY TunnelAssumption DEF NotRunning, Goroutines

\* No reconcile is under way when the process starts.
LEMMA RestingType == NoStatus \in Statuses /\ Resting \in Reconciles /\ Resting.at = "idle"
    BY DEF Resting, NoStatus, Statuses, Reconciles, Specs

\* It holds before the first reconcile.
LEMMA TunnelInvInit == Init => TunnelInv
  <1> SUFFICES ASSUME Init  PROVE TunnelInv
    OBVIOUS
  <1>1. TypeOK
    <2>1. app \in Specs /\ cached \in Specs
      BY TunnelAssumption DEF Init
    <2>2. client \in [Clients -> Goroutines]
      BY NotRunningType DEF Init
    <2> QED  BY <2>1, <2>2, RestingType DEF Init, TypeOK
  <1>2. OneTunnel
    BY NotRunningType DEF Init, OneTunnel, Running
  <1>3. Waiting
    BY RestingType DEF Init, Waiting
  <1> QED  BY <1>1, <1>2, <1>3 DEF TunnelInv

\* What a goroutine's own step does: it keeps its context, or ends because that was
\* cancelled.
LEMMA ClientSteps ==
    ASSUME TypeOK, NEW c \in Clients, ClientNext(c)
    PROVE  /\ UNCHANGED <<appVars, status, queued, rec, entry, world>>
           /\ client' \in [Clients -> Goroutines]
           /\ \A d \in Clients : d # c => client'[d] = client[d]
           /\ client[c].at # "none"
           /\ \/ client'[c].at # "none" /\ client'[c].cancelled = client[c].cancelled
              \/ client'[c].at = "none" /\ client[c].cancelled
  <1>0. client \in [Clients -> Goroutines]
    BY DEF TypeOK
  <1>1. CASE Exit(c)
    BY <1>0, <1>1, NotRunningType DEF Exit, ClientStep
  <1>2. CASE Dial(c)
    BY <1>0, <1>2 DEF Dial, ClientStep, Goroutines
  <1>3. CASE Frame(c)
    BY <1>0, <1>3 DEF Frame, ClientStep, Goroutines
  <1>4. CASE FrameHandled(c)
    BY <1>0, <1>4 DEF FrameHandled, ClientStep, Goroutines
  <1>5. CASE StreamEnds(c)
    <2>1. InitialBackoff \in InitialBackoff..BackoffCap
      BY TunnelAssumption
    <2>2. CASE ClientStep(c, [client[c] EXCEPT !.at = "dial", !.backoff = InitialBackoff])
      BY <1>0, <1>5, <2>1, <2>2, ZenonT(40) DEF StreamEnds, ClientStep, Goroutines
    <2>3. CASE ClientStep(c, [client[c] EXCEPT !.at = "sleep"])
      BY <1>0, <1>5, <2>3 DEF StreamEnds, ClientStep, Goroutines
    <2> QED  BY <1>5, <2>2, <2>3 DEF StreamEnds
  <1>6. CASE Wake(c)
    <2> DEFINE b == client[c].backoff
               delay == IF 2 * b < BackoffCap THEN 2 * b ELSE BackoffCap
    <2>1. b \in InitialBackoff..BackoffCap
      BY <1>0 DEF Goroutines
    <2>2. delay \in InitialBackoff..BackoffCap
      BY <2>1, TunnelAssumption
    <2>3. ClientStep(c, [client[c] EXCEPT !.at = "dial", !.backoff = delay])
      BY <1>0, <1>6 DEF Wake, Goroutines
    <2>4. client[c].at = "sleep"
      BY <1>6 DEF Wake
    <2> HIDE DEF delay
    <2> QED  BY <1>0, <2>2, <2>3, <2>4 DEF ClientStep, Goroutines
  <1> QED  BY <1>1, <1>2, <1>3, <1>4, <1>5, <1>6 DEF ClientNext

\* Goroutines keep the invariant.
LEMMA TunnelInvClient ==
    ASSUME TunnelInv, NEW c \in Clients, ClientNext(c)
    PROVE  TunnelInv'
  <1> USE DEF TunnelInv
  <1>1. TypeOK'
    BY ClientSteps DEF TypeOK, appVars, world
  <1>2. OneTunnel'
    BY ClientSteps DEF TypeOK, OneTunnel, Running, appVars, world
  <1>3. Waiting'
    BY ClientSteps, TunnelAssumption DEF TypeOK, Waiting, appVars, world
  <1> QED  BY <1>1, <1>2, <1>3

\* A new goroutine is a free one, told nothing yet.
LEMMA Starting ==
    ASSUME TypeOK, NEW url \in Urls, StartTunnel(url)
    PROVE  /\ entry' \in Clients /\ client[entry'].at = "none"
           /\ client' \in [Clients -> Goroutines]
           /\ client'[entry'].at = "dial" /\ ~client'[entry'].cancelled
           /\ \A d \in Clients : d # entry' => client'[d] = client[d]
  <1> DEFINE next == [NotRunning EXCEPT !.at = "dial", !.url = url]
  <1>1. next \in Goroutines /\ next.at = "dial" /\ ~next.cancelled
    BY NotRunningType DEF Goroutines
  <1>2. PICK c \in Clients \ Running : entry' = c /\ client' = [client EXCEPT ![c] = next]
    BY DEF StartTunnel
  <1> HIDE DEF next
  <1> QED  BY <1>1, <1>2 DEF TypeOK, Running

\* Begin starts a goroutine only when none is registered, and otherwise tells the
\* registered one to stop or leaves it alone.
LEMMA TunnelInvBegin ==
    ASSUME TunnelInv, Begin
    PROVE  TunnelInv'
  <1> USE DEF TunnelInv
  <1>0. TypeOK /\ UNCHANGED <<app, cached, current, status, secrets, lastDelivery, settled>>
        /\ queued' = FALSE /\ rec.at = "idle"
    BY DEF Begin, appVars, world
  <1>1. CASE cached = Deleted /\ UNCHANGED <<rec, entry, client>>
    BY <1>0, <1>1 DEF TypeOK, OneTunnel, Waiting, Running
  <1>2. CASE /\ rec' = Writing(current, [status EXCEPT !.reason = "TunnelURLMissing"])
             /\ UNCHANGED <<entry, client>>
    <2>1. rec' \in Reconciles /\ rec'.at = "write"
      BY <1>0, <1>2, RestingType DEF TypeOK, Writing, Statuses, Reconciles
    <2> QED  BY <1>0, <1>2, <2>1 DEF TypeOK, OneTunnel, Waiting, Running
  <1> DEFINE Go(at) == rec' = [rec EXCEPT !.at = at, !.spec = cached, !.valid = current]
  <1>3. CASE entry # NoClient /\ CancelTunnel /\ Go("stopping")
    <2>1. rec' \in Reconciles /\ rec'.at = "stopping"
      BY <1>0, <1>3 DEF TypeOK, Reconciles
    <2> DEFINE next == [NotRunning EXCEPT !.at = client[entry].at, !.cancelled = TRUE]
    <2>2. next \in Goroutines /\ next.cancelled
      BY <1>0, <1>3, NotRunningType DEF TypeOK, Goroutines
    <2>3. /\ client' \in [Clients -> Goroutines] /\ entry' = entry
          /\ client'[entry].cancelled
          /\ \A d \in Clients : d # entry => client'[d] = client[d]
      BY <1>0, <1>3, <2>2 DEF TypeOK, CancelTunnel
    <2> QED  BY <1>0, <1>3, <2>1, <2>3 DEF TypeOK, OneTunnel, Waiting, Running
  <1>4. CASE cached \in Urls /\ entry = NoClient /\ StartTunnel(cached) /\ Go("secrets")
    <2>1. rec' \in Reconciles /\ rec'.at = "secrets"
      BY <1>0, <1>4 DEF TypeOK, Reconciles
    <2> QED  BY <1>0, <1>4, <2>1, Starting, TunnelAssumption DEF TypeOK, OneTunnel, Waiting, Running
  <1>5. CASE UNCHANGED <<entry, client>> /\ Go("secrets")
    <2>1. rec' \in Reconciles /\ rec'.at = "secrets"
      BY <1>0, <1>5 DEF TypeOK, Reconciles
    <2> QED  BY <1>0, <1>5, <2>1 DEF TypeOK, OneTunnel, Waiting, Running
  <1> QED  BY <1>1, <1>2, <1>3, <1>4, <1>5 DEF Begin

\* When the wait is over the old goroutine has been told to stop or is gone, so its
\* entry may be dropped or given to a new one.
LEMMA TunnelInvStopped ==
    ASSUME TunnelInv, Stopped
    PROVE  TunnelInv'
  <1> USE DEF TunnelInv
  <1>0. TypeOK /\ UNCHANGED <<app, cached, current, status, queued, secrets, lastDelivery, settled>>
        /\ rec.at = "stopping"
    BY DEF Stopped, appVars, world
  <1>1. rec' \in Reconciles /\ rec'.at = "secrets"
    BY <1>0 DEF Stopped, TypeOK, Reconciles
  <1>2. CASE rec.spec \in Urls /\ StartTunnel(rec.spec)
    BY <1>0, <1>1, <1>2, Starting, TunnelAssumption DEF TypeOK, OneTunnel, Waiting, Running
  <1>3. CASE entry' = NoClient /\ UNCHANGED client
    BY <1>0, <1>1, <1>3, TunnelAssumption DEF TypeOK, OneTunnel, Waiting, Running
  <1> QED  BY <1>2, <1>3 DEF Stopped

\* The steps that touch neither the registry nor a goroutine.
LEMMA TunnelInvOther ==
    ASSUME TunnelInv,
           \/ CheckSecrets \/ WriteStatus \/ CacheSync \/ SecretsChange \/ Settle
           \/ LastDeliveryWritten \/ LastDeliveryAges
           \/ \E spec \in Asks : Edit(spec)
    PROVE  TunnelInv'
  <1> USE DEF TunnelInv
  <1>0. TypeOK
    OBVIOUS
  <1>1. UNCHANGED <<entry, client>>
    BY DEF CheckSecrets, WriteStatus, CacheSync, SecretsChange, LastDeliveryWritten,
       LastDeliveryAges, Settle, Edit
  <1>2. TypeOK'
    <2>1. CASE CheckSecrets
      <3>1. rec' \in Reconciles
        <4> DEFINE out == IF secrets THEN [reason |-> "Reconciled", healthy |-> Healthy]
                                     ELSE [status EXCEPT !.reason = "SecretMissing"]
        <4>0. Healthy \in BOOLEAN
          BY DEF Healthy, Connected
        <4>1. out \in Statuses
          BY <1>0, <4>0 DEF TypeOK, Statuses
        <4>2. rec' = Writing(rec.valid, out)
          BY <2>1 DEF CheckSecrets
        <4> HIDE DEF out
        <4> QED  BY <1>0, <4>1, <4>2, RestingType DEF TypeOK, Writing, Reconciles
      <3> QED  BY <1>0, <2>1, <3>1 DEF TypeOK, CheckSecrets, appVars, world
    <2>2. CASE WriteStatus
      <3>1. status' \in Statuses /\ current' \in BOOLEAN
        BY <1>0, <2>2 DEF TypeOK, WriteStatus, Reconciles
      <3> QED  BY <1>0, <2>2, <3>1, RestingType DEF TypeOK, WriteStatus, Finish, world
    <2>3. CASE CacheSync
      BY <1>0, <2>3 DEF TypeOK, CacheSync, world
    <2>4. CASE SecretsChange
      BY <1>0, <2>4 DEF TypeOK, SecretsChange, appVars
    <2>5. CASE Settle
      BY <1>0, <2>5 DEF TypeOK, Settle, appVars
    <2>6. ASSUME NEW spec \in Asks, Edit(spec)  PROVE TypeOK'
      <3>1. rec' \in Reconciles
        BY <1>0, <2>6, RestingType DEF TypeOK, Edit, Reconciles
      <3>2. app' \in Specs /\ status' \in Statuses
        BY <1>0, <2>6, RestingType, TunnelAssumption DEF TypeOK, Edit
      <3>3. lastDelivery' \in {"stale", "recent"}
        BY <1>0, <2>6 DEF TypeOK, Edit
      <3> QED  BY <1>0, <2>6, <3>1, <3>2, <3>3 DEF TypeOK, Edit
    <2>7. CASE LastDeliveryWritten
      <3>1. rec' \in Reconciles
        BY <1>0, <2>7, RestingType DEF TypeOK, LastDeliveryWritten, Reconciles
      <3> QED  BY <1>0, <2>7, <3>1 DEF TypeOK, LastDeliveryWritten
    <2>8. CASE LastDeliveryAges
      BY <1>0, <2>8 DEF TypeOK, LastDeliveryAges, appVars
    <2> QED  BY <2>1, <2>2, <2>3, <2>4, <2>5, <2>6, <2>7, <2>8
  <1>3. rec'.at = "stopping" <=> rec.at = "stopping"
    <2>1. CASE CheckSecrets
      BY <1>0, <2>1, RestingType DEF CheckSecrets, Writing, Reconciles
    <2>2. CASE WriteStatus
      BY <2>2, RestingType DEF WriteStatus
    <2>3. CASE CacheSync \/ SecretsChange \/ LastDeliveryAges \/ Settle
      BY <2>3 DEF CacheSync, SecretsChange, LastDeliveryAges, Settle
    <2>4. CASE LastDeliveryWritten \/ \E spec \in Asks : Edit(spec)
      BY <1>0, <2>4 DEF LastDeliveryWritten, Edit, TypeOK, Reconciles
    <2> QED  BY <2>1, <2>2, <2>3, <2>4
  <1> QED  BY <1>1, <1>2, <1>3 DEF OneTunnel, Waiting, Running

\* Every step of the specification keeps the invariant.
LEMMA TunnelInvNext == TunnelInv /\ [Next]_vars => TunnelInv'
  <1> SUFFICES ASSUME TunnelInv, [Next]_vars  PROVE TunnelInv'
    OBVIOUS
  <1>1. CASE Begin
    BY <1>1, TunnelInvBegin
  <1>2. CASE Stopped
    BY <1>2, TunnelInvStopped
  <1>3. CASE \/ CheckSecrets \/ WriteStatus \/ CacheSync \/ SecretsChange \/ Settle
             \/ LastDeliveryWritten \/ LastDeliveryAges
             \/ \E spec \in Asks : Edit(spec)
    BY <1>3, TunnelInvOther
  <1>4. CASE \E c \in Clients : ClientNext(c)
    BY <1>4, TunnelInvClient
  <1>5. CASE Restart
    <2>1. client' \in [Clients -> Goroutines] /\ \A c \in Clients : client'[c] = NotRunning
      BY <1>5, NotRunningType DEF Restart
    <2> QED  BY <1>5, <2>1, NotRunningType, RestingType
             DEF TunnelInv, TypeOK, OneTunnel, Waiting, Running, Restart, world
  <1>6. CASE UNCHANGED vars
    BY <1>6 DEF TunnelInv, TypeOK, OneTunnel, Waiting, Running, vars, appVars, world
  <1> QED  BY <1>1, <1>2, <1>3, <1>4, <1>5, <1>6 DEF Next, Reconcile

\* The tunnel's variables are well typed, for any number of goroutines and URLs; in
\* particular the delay between dials never leaves its bounds.
THEOREM TunnelTypeCorrect == Spec => []TypeOK
  <1>1. TunnelInv => TypeOK
    BY DEF TunnelInv
  <1> QED  BY <1>1, TunnelInvInit, TunnelInvNext, PTL DEF Spec

\* One tunnel per GitHubApp: whatever order Ensure, Stop, their bounded wait and the
\* goroutines' exits come in, only the registered goroutine has not been told to stop.
THEOREM OneTunnelPerApp == Spec => []OneTunnel
  <1>1. TunnelInv => OneTunnel
    BY DEF TunnelInv
  <1> QED  BY <1>1, TunnelInvInit, TunnelInvNext, PTL DEF Spec

\* No replaced goroutine hands a frame to the receiver.
THEOREM OnlyRegisteredHandsOn == Spec => SupersededIsQuiet
  <1> DEFINE Quiet == \A c \in Clients :
                        client[c].at = "stream" /\ client'[c].at = "handle" => c = entry
  <1>1. TunnelInv /\ [Next]_vars => Quiet
    <2> SUFFICES ASSUME TunnelInv, [Next]_vars, NEW c \in Clients,
                        client[c].at = "stream", client'[c].at = "handle"
                 PROVE  c = entry
      OBVIOUS
    <2>0. client \in [Clients -> Goroutines] /\ entry \in Clients \cup {NoClient}
      BY DEF TunnelInv, TypeOK
    <2>1. ~client[c].cancelled
      <3>1. CASE \E d \in Clients : ClientNext(d)
        <4>1. PICK d \in Clients : ClientNext(d)
          BY <3>1
        <4>2. d = c
          BY <4>1, ClientSteps DEF TunnelInv
        <4> QED  BY <4>1, <4>2, <2>0, NotRunningType DEF ClientNext, ClientStep, Exit, Dial,
                    Frame, FrameHandled, StreamEnds, Wake, Goroutines
      <3>2. CASE Begin \/ Stopped
        <4>1. CASE \E url \in Urls : StartTunnel(url)
          BY <4>1, Starting DEF TunnelInv
        <4>2. CASE CancelTunnel
          BY <2>0, <4>2, NotRunningType DEF CancelTunnel, Goroutines
        <4>3. CASE UNCHANGED client
          BY <4>3
        <4> QED  BY <3>2, <4>1, <4>2, <4>3 DEF Begin, Stopped
      <3>3. CASE Restart
        BY <3>3, NotRunningType DEF Restart
      <3>4. CASE UNCHANGED client
        BY <3>4
      <3> QED  BY <3>1, <3>2, <3>3, <3>4 DEF Next, Reconcile, CheckSecrets, WriteStatus, CacheSync,
                  SecretsChange, LastDeliveryWritten, LastDeliveryAges, Settle, Edit, vars
    <2> QED  BY <2>0, <2>1 DEF TunnelInv, OneTunnel, Running
  <1> QED  BY <1>1, TunnelInvInit, TunnelInvNext, PTL DEF Spec, SupersededIsQuiet
=============================================================================
