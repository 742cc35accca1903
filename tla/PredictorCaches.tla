-------------------------- MODULE PredictorCaches --------------------------
(***************************************************************************)
(* The two caches behind the predictor and the activity sampler, used by   *)
(* the same reconcile workers: a worker lists runs and jobs and fetches    *)
(* workflow files, one call at a time.                                     *)
(***************************************************************************)
EXTENDS ListCache, WorkflowFetcher

vars == <<listVars, fetcherVars>>

\* The types of both caches; in particular no fetch makes more than
\* MaxFetchRetries retries.
TypeOK == ListTypeOK /\ FetcherTypeOK

Init == ListInit /\ FetcherInit

\* A worker's next call, of either kind, and the steps of the call it is in.
Lists(w) ==
    /\ fetch[w].phase = "idle"
    /\ \E u \in Urls : Ask(w, u)
    /\ UNCHANGED fetcherVars

Fetches(w) ==
    /\ get[w].phase = "idle"
    /\ \E file \in Files : Fetch(w, file)
    /\ UNCHANGED listVars

Proceeds(w) ==
    \/ (Serve(w) \/ Receive(w) \/ Took(w)) /\ UNCHANGED fetcherVars
    \/ (FetchStep(w) \/ FileTaken(w)) /\ UNCHANGED listVars

Next ==
    \/ \E w \in Workers : Lists(w) \/ Fetches(w) \/ Proceeds(w)
    \/ (\E u \in Urls : Change(u)) /\ UNCHANGED fetcherVars

\* GitHub answers, backoff timers fire and the scheduler runs every goroutine.
Spec == Init /\ [][Next]_vars /\ \A w \in Workers : WF_vars(Proceeds(w))

-----------------------------------------------------------------------------
\* Every call ends: retries are bounded whatever GitHub answers, and no worker
\* waits for another.
CallsEnd ==
    \A w \in Workers :
        (get[w].phase # "idle" \/ fetch[w].phase # "idle")
            ~> (get[w].phase = "idle" /\ fetch[w].phase = "idle")
=============================================================================
