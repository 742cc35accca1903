------------------------ MODULE RepositoryPollProofs ------------------------
(***************************************************************************)
(* Machine-checked proofs about what a reconcile asks of a repository, for *)
(* any repository, page size, number of retries and cap: the demand poll   *)
(* and the prediction after it, while runs and jobs move.                  *)
(***************************************************************************)
EXTENDS RepositoryPoll, DemandPollerProofs

-----------------------------------------------------------------------------
(* The demand poll of a reconcile.                                         *)

\* To the demand poll, every step is one of its own, a change at GitHub, or nothing.
LEMMA DemandStep == [PollNext]_<<vars, predictVars>> => [Next]_vars
<1> SUFFICES ASSUME [PollNext]_<<vars, predictVars>> PROVE [Next]_vars
    OBVIOUS
<1>1. CASE Demands
    BY <1>1, Zenon DEF Demands, Next
<1>2. CASE Predicts
    BY <1>2, Zenon DEF Predicts, Predict, ListActiveRuns, Listing, ListingFails, ContributeRun,
                       DropRun, Walked
<1>3. CASE \E j \in Jobs : RepositoryMoves(j)
    BY <1>3, Zenon DEF RepositoryMoves, Next
<1>4. CASE UNCHANGED <<vars, predictVars>>
    BY <1>4, Zenon
<1> QED BY <1>1, <1>2, <1>3, <1>4 DEF PollNext

\* A reconcile polls the demand as CurrentDemand alone would: the prediction that follows it
\* and the order in which jobs are created add no behaviour.
THEOREM PollsTheDemand == PollSpec => Spec
<1>1. PollInit => Init
    BY DEF PollInit
<1> QED BY <1>1, DemandStep, PTL DEF PollSpec, Spec

\* So in a reconcile too no job that waits throughout a poll is missed, and a poll during which
\* nothing moves is exact (CurrentDemand, listRunIDs, countRunJobs).
THEOREM DemandIsRight == PollSpec => []WaitingJobsCounted /\ []ExactWhenQuiet
  BY PollsTheDemand, WaitingNeverMissed, QuietPollExact, PTL

-----------------------------------------------------------------------------
(* Types.                                                                  *)

\* Nothing is predicted at first.
LEMMA Counts == NoJob \in [Jobs -> Nat]
  BY DEF NoJob

\* The first page of a list has its elements, all of them if it is no longer than a page.
LEMMA FirstPageIs ==
    ASSUME NEW V, NEW s \in Seq(V)
    PROVE  /\ FirstPage(s) \in Seq(V) /\ Range(FirstPage(s)) \subseteq Range(s)
           /\ (IsInjective(s) => IsInjective(FirstPage(s)))
           /\ (Len(s) <= DefaultPage => Range(FirstPage(s)) = Range(s))
<1> DEFINE n == Smaller(Len(s), DefaultPage)
<1>1. n \in 0..Len(s) /\ (Len(s) <= DefaultPage => n = Len(s))
    <2>1. Len(s) \in Nat /\ DefaultPage \in Nat
        BY PredictAssumption
    <2> QED BY <2>1 DEF Smaller
<1>2. FirstPage(s) = SubSeq(s, 1, n)
    BY DEF FirstPage
<1> HIDE DEF n
<1>3. /\ SubSeq(s, 1, n) \in Seq(V) /\ Range(SubSeq(s, 1, n)) \subseteq Range(s)
      /\ (IsInjective(s) => IsInjective(SubSeq(s, 1, n)))
      /\ (n = Len(s) => Range(SubSeq(s, 1, n)) = Range(s))
    BY <1>1, FirstIs, Zenon
<1> QED BY <1>1, <1>2, <1>3, Zenon

\* A listing adds the runs it shows to those found so far, up to the cap.
LEMMA ListingIs ==
    ASSUME PollTypeOK, ListActiveRuns
    PROVE  LET all == found \o Only(Listed, Runs \ Range(found))
               last == Len(found') = RunsCap \/ status = 5
           IN  /\ all \in Seq(Runs)
               /\ (Len(RunSeq) <= DefaultPage =>
                      Range(all) = Range(found) \cup RunsIn(ActiveStatuses[status]))
               /\ (IsInjective(found) => IsInjective(all) /\ IsInjective(found'))
               /\ found' \in Seq(Runs) /\ Range(found') \subseteq Range(all)
               /\ Len(found') = Smaller(Len(all), RunsCap)
               /\ (Len(all) <= RunsCap => Range(found') = Range(all))
               /\ phase' = IF ~last THEN "list" ELSE IF found' = <<>> THEN "over" ELSE "walk"
               /\ status' = IF last THEN 1 ELSE status + 1
               /\ UNCHANGED <<vars, predicted, still, dropped>>
<1> DEFINE fresh == Only(Listed, Runs \ Range(found))
           all == found \o fresh
<1>1. found \in Seq(Runs) /\ RunsCap \in Nat /\ RunsCap > 0
    BY PredictAssumption DEF PollTypeOK
<1>2. /\ Listed \in Seq(Runs) /\ IsInjective(Listed)
      /\ (Len(RunSeq) <= DefaultPage => Range(Listed) = RunsIn(ActiveStatuses[status]))
    <2> DEFINE s == Only(RunSeq, RunsIn(ActiveStatuses[status]))
    <2>1. RunSeq \in Seq(Runs) /\ IsInjective(RunSeq) /\ Range(RunSeq) = Runs
        BY Repository
    <2>2. /\ s \in Seq(Runs) /\ IsInjective(s) /\ Len(s) <= Len(RunSeq)
          /\ Range(s) = Range(RunSeq) \cap RunsIn(ActiveStatuses[status])
        BY <2>1, OnlyIs, Zenon
    <2>3. Range(s) = RunsIn(ActiveStatuses[status])
        BY <2>1, <2>2, Zenon DEF RunsIn
    <2>4. Listed = FirstPage(s)
        BY Zenon DEF Listed
    <2> HIDE DEF s
    <2>5. Len(RunSeq) <= DefaultPage => Len(s) <= DefaultPage
        <3>1. Len(s) \in Nat /\ Len(RunSeq) \in Nat /\ DefaultPage \in Nat
            BY <2>1, <2>2, PredictAssumption
        <3> QED BY <2>2, <3>1
    <2> QED BY <2>2, <2>3, <2>4, <2>5, FirstPageIs, Zenon
<1>3. /\ fresh \in Seq(Runs) /\ IsInjective(fresh)
      /\ Range(fresh) = Range(Listed) \cap (Runs \ Range(found))
    BY <1>2, OnlyIs, Zenon
<1> HIDE DEF fresh
<1>4. /\ all \in Seq(Runs) /\ Range(all) = Range(found) \cup Range(fresh)
      /\ IsInjective(found) => IsInjective(all)
    <2>1. Range(found) \cap Range(fresh) = {}
        BY <1>3, Zenon
    <2>2. found \in Seq(Runs) /\ fresh \in Seq(Runs) /\ IsInjective(fresh)
        BY <1>1, <1>3, Zenon
    <2>3. /\ all \in Seq(Runs) /\ Range(all) = Range(found) \cup Range(fresh)
          /\ (IsInjective(found) /\ IsInjective(fresh) /\ Range(found) \cap Range(fresh) = {}
                => IsInjective(all))
        BY <2>2, JoinIs, ZenonT(30)
    <2> HIDE DEF all
    <2> QED BY <2>1, <2>2, <2>3, Zenon
<1>5. Len(RunSeq) <= DefaultPage => Range(all) = Range(found) \cup RunsIn(ActiveStatuses[status])
    BY <1>2, <1>3, <1>4, Zenon DEF RunsIn
<1>6. Len(all) \in Nat
    BY <1>4
<1>7. Listing(all)
    BY Zenon DEF ListActiveRuns, fresh
<1> HIDE DEF all
<1> DEFINE n == Smaller(Len(all), RunsCap)
<1>8. n \in 0..Len(all) /\ (Len(all) <= RunsCap => n = Len(all))
    BY <1>1, <1>6 DEF Smaller
<1>9. found' = SubSeq(all, 1, n)
    BY <1>7, Zenon DEF Listing
<1> HIDE DEF n
<1>10. /\ found' \in Seq(Runs) /\ Len(found') = n /\ Range(found') \subseteq Range(all)
       /\ (IsInjective(all) => IsInjective(found'))
       /\ (Len(all) <= RunsCap => Range(found') = Range(all))
    BY <1>4, <1>8, <1>9, FirstIs, Zenon
<1>11. Len(ActiveStatuses) = 5
    BY DEF ActiveStatuses
<1> DEFINE last == Len(found') = RunsCap \/ status = 5
<1>12. /\ phase' = IF ~last THEN "list" ELSE IF found' = <<>> THEN "over" ELSE "walk"
       /\ status' = IF last THEN 1 ELSE status + 1
       /\ UNCHANGED <<vars, predicted, still, dropped>>
    BY <1>7, <1>9, <1>11, Zenon DEF Listing, n
<1> QED BY <1>4, <1>5, <1>10, <1>12, Zenon DEF all, fresh, n

\* The walk ends with its last run.
TypeInv == PollTypeOK /\ (phase = "walk" => found # <<>>)

\* Every step keeps the types.
LEMMA PollTypes == TypeInv /\ [PollNext]_<<vars, predictVars>> => TypeInv'
<1> SUFFICES ASSUME TypeInv, [PollNext]_<<vars, predictVars>> PROVE TypeInv'
    OBVIOUS
<1>p. PollTypeOK /\ (phase = "walk" => found # <<>>)
    BY DEF TypeInv
<1>0. TypeOK'
    <2>1. TypeOK
        BY <1>p DEF PollTypeOK
    <2> QED BY <2>1, DemandStep, TypeNext, Zenon
<1>1. CASE Demands
    <2>2. \/ /\ phase' = "rest" /\ predicted' = NoJob /\ still' = Jobs /\ dropped' = {}
             /\ UNCHANGED <<status, found>>
          \/ UNCHANGED predictVars
        BY <1>1, Zenon DEF Demands, predictVars
    <2> QED BY <1>0, <2>2, Counts DEF TypeInv, PollTypeOK, predictVars
<1>2. CASE Predict
    <2>1. /\ phase' = "list" /\ status' = 1 /\ found' = <<>> /\ predicted' = NoJob
          /\ still' = Jobs /\ dropped' = {}
        BY <1>2, Zenon DEF Predict
    <2>2. 1 \in DOMAIN ActiveStatuses /\ <<>> \in Seq(Runs) /\ Len(<<>>) <= RunsCap
        BY PredictAssumption DEF ActiveStatuses
    <2> QED BY <1>0, <2>1, <2>2, Counts DEF TypeInv, PollTypeOK
<1>3. CASE ListActiveRuns
    <2>1. /\ found' \in Seq(Runs)
          /\ phase' \in {"list", "over", "walk"} /\ (phase' = "walk" => found' # <<>>)
          /\ status' = 1 \/ (status # 5 /\ status' = status + 1)
          /\ UNCHANGED <<predicted, still, dropped>>
        BY <1>3, <1>p, ListingIs, Zenon
    <2>2. Len(found') <= RunsCap
        <3>1. \E n \in Nat : Len(found') = Smaller(n, RunsCap)
            <4> DEFINE all == found \o Only(Listed, Runs \ Range(found))
            <4>1. all \in Seq(Runs) /\ Len(found') = Smaller(Len(all), RunsCap)
                BY <1>3, <1>p, ListingIs, Zenon
            <4> HIDE DEF all
            <4>2. Len(all) \in Nat
                BY <4>1
            <4> QED BY <4>1, <4>2
        <3> QED BY <3>1, PredictAssumption DEF Smaller
    <2>3. status' \in DOMAIN ActiveStatuses
        BY <2>1 DEF TypeInv, PollTypeOK, ActiveStatuses
    <2> QED BY <1>0, <2>1, <2>2, <2>3, Zenon DEF TypeInv, PollTypeOK
<1>4. CASE ListingFails
    <2>1. /\ phase' = "broken" /\ found' = <<>> /\ status' = 1
          /\ UNCHANGED <<predicted, still, dropped>>
        BY <1>4, Zenon DEF ListingFails
    <2>2. 1 \in DOMAIN ActiveStatuses /\ <<>> \in Seq(Runs) /\ Len(<<>>) <= RunsCap
        BY PredictAssumption DEF ActiveStatuses
    <2> QED BY <1>0, <2>1, <2>2, Zenon DEF TypeInv, PollTypeOK
<1>5. CASE ContributeRun \/ DropRun
    <2>1. /\ found' = Tail(found) /\ UNCHANGED <<status, still>>
          /\ phase = "walk" /\ phase' = IF Len(found) = 1 THEN "over" ELSE phase
        BY <1>5, Zenon DEF ContributeRun, DropRun, Walked
    <2>2. found # <<>>
        BY <1>5, <1>p DEF ContributeRun, DropRun
    <2>3. Tail(found) \in Seq(Runs) /\ Len(Tail(found)) = Len(found) - 1 /\ Head(found) \in Runs
          /\ Len(found) \in Nat /\ (Len(found) # 1 => Tail(found) # <<>>)
        BY <1>p, <2>2, HeadTail, Zenon DEF PollTypeOK
    <2>4. predicted' \in [Jobs -> Nat]
        <3>1. CASE DropRun
            BY <3>1 DEF DropRun, TypeInv, PollTypeOK
        <3>2. CASE ContributeRun
            <4>1. PICK D : predicted' = [j \in Jobs |-> predicted[j] + IF j \in D THEN 1 ELSE 0]
                BY <3>2, Zenon DEF ContributeRun
            <4> QED BY <1>p, <4>1 DEF PollTypeOK
        <3> QED BY <1>5, <3>1, <3>2
    <2>5. dropped' \subseteq Runs
        BY <1>5, <2>3, Zenon DEF ContributeRun, DropRun, TypeInv, PollTypeOK
    <2>6. Len(found') <= RunsCap
        BY <1>p, <2>1, <2>3, PredictAssumption DEF PollTypeOK
    <2> QED BY <1>0, <2>1, <2>3, <2>4, <2>5, <2>6, Zenon DEF TypeInv, PollTypeOK
<1>6. CASE \E j \in Jobs : RepositoryMoves(j)
    <2> PICK j \in Jobs : RepositoryMoves(j)
        BY <1>6
    <2>1. still' = still \ {j} /\ UNCHANGED <<phase, status, found, predicted, dropped>>
        BY DEF RepositoryMoves
    <2> QED BY <1>0, <1>p, <2>1, Zenon DEF TypeInv, PollTypeOK
<1>7. CASE UNCHANGED <<vars, predictVars>>
    BY <1>0, <1>7, Zenon DEF TypeInv, PollTypeOK, predictVars
<1> QED BY <1>1, <1>2, <1>3, <1>4, <1>5, <1>6, <1>7, SMTT(30) DEF PollNext, Predicts

\* The types hold at first.
LEMMA TypesInit == PollInit => TypeInv
<1> SUFFICES ASSUME PollInit PROVE TypeInv
    OBVIOUS
<1>1. 1 \in DOMAIN ActiveStatuses /\ <<>> \in Seq(Runs) /\ Len(<<>>) <= RunsCap
    BY PredictAssumption DEF ActiveStatuses
<1>2. TypeOK
    BY TypeInit DEF PollInit
<1> QED BY <1>1, <1>2, Counts DEF PollInit, TypeInv, PollTypeOK

\* Every variable of the demand poll and of the prediction has its type, whatever fails,
\* is retried or moves on between two requests (CurrentDemand, Predict).
THEOREM PollTypeCorrect == PollSpec => []PollTypeOK
<1>1. TypeInv => PollTypeOK
    BY DEF TypeInv
<1> QED BY TypesInit, PollTypes, <1>1, PTL DEF PollSpec

-----------------------------------------------------------------------------
(* Each job is predicted once, and not both counted and predicted.         *)

\* The job is about to appear, by the listing of this moment.
Soon(r, j) == j \in Range(JobSeq[r]) /\ j \notin ListJobs(r) /\ Needs[j] \subseteq ListJobs(r)

\* One run of the walk.
LEMMA WalkIs ==
    ASSUME TypeInv, ContributeRun \/ DropRun
    PROVE  /\ phase = "walk" /\ found \in Seq(Runs) /\ found # <<>> /\ found' = Tail(found)
           /\ phase' = IF Len(found) = 1 THEN "over" ELSE "walk"
           /\ UNCHANGED <<vars, status, still>>
           /\ \/ /\ dropped' = dropped
                 /\ \A j \in Jobs :
                       predicted'[j] = predicted[j] + IF Soon(Head(found), j) THEN 1 ELSE 0
              \/ dropped' = dropped \cup {Head(found)} /\ predicted' = predicted
<1>1. /\ phase = "walk" /\ found \in Seq(Runs) /\ found # <<>> /\ found' = Tail(found)
      /\ phase' = IF Len(found) = 1 THEN "over" ELSE "walk"
      /\ UNCHANGED <<vars, status, still>>
    BY Zenon DEF TypeInv, PollTypeOK, ContributeRun, DropRun, Walked
<1>2. CASE ContributeRun
    <2> DEFINE r == Head(found)
               imminent == {j \in Range(JobSeq[r]) : Imminent(Workflow(r), j, ListJobs(r))}
    <2>1. predicted' = [j \in Jobs |-> predicted[j] + IF j \in imminent THEN 1 ELSE 0]
          /\ dropped' = dropped
        BY <1>2, Zenon DEF ContributeRun
    <2>2. \A j : j \in imminent <=> Soon(r, j)
        <3> TAKE j
        <3>1. ASSUME j \in Range(JobSeq[r]) PROVE Workflow(r)[j].needs = Needs[j]
            BY <3>1 DEF Workflow
        <3> QED BY <3>1, Zenon DEF Imminent, allMaterialized, Soon
    <2> HIDE DEF imminent
    <2>3. \A j \in Jobs : predicted'[j] = predicted[j] + IF j \in imminent THEN 1 ELSE 0
        BY <2>1
    <2> QED BY <1>1, <2>1, <2>2, <2>3, Zenon
<1>3. CASE DropRun
    BY <1>1, <1>3, Zenon DEF DropRun
<1> QED BY <1>2, <1>3

\* The runs found are distinct, and no job of a run still to be walked is predicted.
OnceInv ==
    /\ PredictedOnce
    /\ phase \in {"list", "walk"} => IsInjective(found)
    /\ phase = "list" => \A j \in Jobs : predicted[j] = 0
    /\ phase = "walk" => \A r \in Range(found) : \A j \in Range(JobSeq[r]) : predicted[j] = 0

\* Every step keeps this.
LEMMA OnceStep == TypeInv /\ OnceInv /\ [PollNext]_<<vars, predictVars>> => OnceInv'
<1> SUFFICES ASSUME TypeInv, OnceInv, [PollNext]_<<vars, predictVars>> PROVE OnceInv'
    OBVIOUS
<1>0. NoJob \in [Jobs -> Nat] /\ (\A j \in Jobs : NoJob[j] = 0) /\ IsInjective(<<>>)
    BY DEF NoJob, IsInjective
<1>a. predicted \in [Jobs -> Nat] /\ PollTypeOK
    BY DEF TypeInv, PollTypeOK
<1>1. CASE Demands
    <2>1. (phase' = "rest" /\ predicted' = NoJob) \/ UNCHANGED predictVars
        BY <1>1, Zenon DEF Demands, predictVars
    <2>2. CASE phase' = "rest" /\ predicted' = NoJob
        BY <1>0, <2>2 DEF OnceInv, PredictedOnce
    <2>3. CASE UNCHANGED predictVars
        BY <2>3, Zenon DEF OnceInv, PredictedOnce, predictVars
    <2> QED BY <2>1, <2>2, <2>3
<1>2. CASE Predict
    <2>1. phase' = "list" /\ found' = <<>> /\ predicted' = NoJob
        BY <1>2, SMTT(30) DEF Predict
    <2> QED BY <1>0, <2>1 DEF OnceInv, PredictedOnce
<1>3. CASE ListActiveRuns
    <2>1. phase = "list"
        BY <1>3 DEF ListActiveRuns
    <2>2. /\ IsInjective(found) => IsInjective(found')
          /\ found' \in Seq(Runs) /\ phase' \in {"list", "over", "walk"} /\ predicted' = predicted
        BY <1>3, <1>a, ListingIs, Zenon
    <2>3. IsInjective(found') /\ \A j \in Jobs : predicted'[j] = 0
        BY <2>1, <2>2 DEF OnceInv
    <2>4. \A r \in Range(found') : \A j \in Range(JobSeq[r]) : predicted'[j] = 0
        <3>1. Range(found') \subseteq Runs
            BY <2>2, SMTT(30) DEF Range
        <3> QED BY <2>3, <3>1, Repository, Zenon
    <2> QED BY <2>2, <2>3, <2>4 DEF OnceInv, PredictedOnce
<1>4. CASE ListingFails
    BY <1>4, SMTT(30) DEF ListingFails, OnceInv, PredictedOnce
<1>5. CASE ContributeRun \/ DropRun
    <2>1. /\ phase = "walk" /\ found \in Seq(Runs) /\ found # <<>> /\ found' = Tail(found)
          /\ phase' \in {"over", "walk"}
          /\ \/ \A j \in Jobs : predicted'[j] = predicted[j] + IF Soon(Head(found), j) THEN 1 ELSE 0
             \/ predicted' = predicted
        BY <1>5, WalkIs, Zenon
    <2>2. /\ IsInjective(found) /\ \A r \in Range(found) : \A j \in Range(JobSeq[r]) : predicted[j] = 0
        BY <2>1, Zenon DEF OnceInv
    <2>3. /\ Head(found) \in Runs /\ Range(found) = {Head(found)} \cup Range(found')
          /\ IsInjective(found') /\ Head(found) \notin Range(found')
        BY <2>1, <2>2, HeadTail, Zenon
    <2>4. \A j \in Jobs :
             \/ predicted'[j] = predicted[j]
             \/ j \in Range(JobSeq[Head(found)]) /\ predicted[j] = 0 /\ predicted'[j] = 1
        <3>1. CASE predicted' = predicted
            BY <3>1, SMTT(30)
        <3>2. CASE \A j \in Jobs : predicted'[j] = predicted[j] + IF Soon(Head(found), j) THEN 1 ELSE 0
            BY <1>a, <2>2, <2>3, <3>2, SMTT(30) DEF Soon
        <3> QED BY <2>1, <3>1, <3>2
    <2>5. PredictedOnce'
        BY <1>a, <2>4 DEF OnceInv, PredictedOnce
    <2>6. \A r \in Range(found') : \A j \in Range(JobSeq[r]) : predicted'[j] = 0
        <3> SUFFICES ASSUME NEW r \in Range(found'), NEW j \in Range(JobSeq[r]) PROVE predicted'[j] = 0
            OBVIOUS
        <3>1. r \in Range(found) /\ r # Head(found) /\ predicted[j] = 0
            BY <2>2, <2>3, Zenon
        <3>2. Range(found) \subseteq Runs
            BY <2>1 DEF Range
        <3>3. j \in Jobs /\ j \notin Range(JobSeq[Head(found)])
            BY <2>3, <3>1, <3>2, Repository, Zenon
        <3> QED BY <2>4, <3>1, <3>3, SMTT(30)
    <2> QED BY <2>1, <2>3, <2>5, <2>6 DEF OnceInv
<1>6. CASE \E j \in Jobs : RepositoryMoves(j)
    BY <1>6, Zenon DEF RepositoryMoves, OnceInv, PredictedOnce
<1>7. CASE UNCHANGED <<vars, predictVars>>
    BY <1>7, Zenon DEF OnceInv, PredictedOnce, predictVars
<1> QED BY <1>1, <1>2, <1>3, <1>4, <1>5, <1>6, <1>7, SMTT(30) DEF PollNext, Predicts

\* No job is predicted twice, although a run may be in two of the listings of a
\* prediction and jobs move between them (listActiveRuns, Predict).
THEOREM NoJobPredictedTwice == PollSpec => []PredictedOnce
<1>1. PollInit => OnceInv
    BY DEF PollInit, OnceInv, PredictedOnce, NoJob
<1>2. OnceInv => PredictedOnce
    BY DEF OnceInv
<1> QED BY TypesInit, PollTypes, OnceStep, <1>1, <1>2, PTL DEF PollSpec

\* What a job that does not change is counted and predicted as, it is.
CountedExist == \A j \in steady : tally.queued[j] + tally.running[j] > 0 => job[j] # "absent"
PredictedAbsent ==
    \A r \in Runs : AllShown(r) => \A j \in (steady \cap Range(JobSeq[r])) \ Renamed :
        predicted[j] > 0 => job[j] = "absent"
BothInv == CountedExist /\ PredictedAbsent

\* What listJobs reads of a run whose jobs are all on the page.
LEMMA ListJobsIs ==
    ASSUME NEW r \in Runs, AllShown(r)
    PROVE  ListJobs(r) = (Range(JobSeq[r]) \cap Created) \ Renamed
<1> DEFINE s == Only(JobSeq[r], Created)
<1>0. JobSeq[r] \in Seq(Jobs)
    BY Repository
<1>1. s \in Seq(Jobs) /\ Range(s) = Range(JobSeq[r]) \cap Created
    BY <1>0, OnlyIs, Zenon
<1>2. ListJobs(r) = Range(FirstPage(s)) \ Renamed /\ Len(s) <= DefaultPage
    BY Zenon DEF ListJobs, AllShown
<1> HIDE DEF s
<1> QED BY <1>1, <1>2, FirstPageIs, Zenon

\* The page on which all jobs are had all jobs before another was created.
LEMMA ShownBefore ==
    ASSUME NEW r \in Runs, Created \subseteq Created', AllShown(r)'
    PROVE  AllShown(r)
<1> DEFINE s == Only(JobSeq[r], Created)
           t == Only(JobSeq[r], Created')
<1>1. JobSeq[r] \in Seq(Jobs)
    BY Repository
<1>2. /\ s \in Seq(Jobs) /\ t \in Seq(Jobs) /\ MovesBack(s, t)
    BY <1>1, OnlyIs, OnlyGrows, Zenon
<1>3. Len(t) <= DefaultPage
    BY DEF AllShown
<1>4. Len(s) <= DefaultPage => AllShown(r)
    BY Zenon DEF AllShown
<1> HIDE DEF s, t
<1>5. Len(s) \in Nat /\ Len(t) \in Nat /\ DefaultPage \in Nat
    BY <1>2, PredictAssumption
<1>6. ASSUME Len(s) > 0 PROVE Len(s) <= Len(t)
    <2>1. Len(s) \in 1..Len(s)
        BY <1>5, <1>6
    <2>2. PICK b \in 1..Len(t) : b >= Len(s)
        BY <1>2, <2>1, Zenon DEF MovesBack
    <2> QED BY <1>5, <2>2
<1> QED BY <1>3, <1>4, <1>5, <1>6

\* Every step keeps this.
LEMMA BothStep == TypeInv /\ BothInv /\ [PollNext]_<<vars, predictVars>> => BothInv'
<1> SUFFICES ASSUME TypeInv, CountedExist, PredictedAbsent, [PollNext]_<<vars, predictVars>>
             PROVE  CountedExist' /\ PredictedAbsent'
    BY DEF BothInv
<1>0. /\ \A j \in Jobs : NoJob[j] = 0 /\ NoTally.queued[j] = 0 /\ NoTally.running[j] = 0
    BY SMTT(30) DEF NoJob, NoTally
<1>a. /\ TypeOK /\ PollTypeOK /\ predicted \in [Jobs -> Nat] /\ steady \subseteq Jobs
      /\ tally.queued \in [Jobs -> Nat] /\ tally.running \in [Jobs -> Nat]
    BY SMTT(30) DEF TypeInv, PollTypeOK, TypeOK
<1>b. ASSUME job' = job PROVE \A r : AllShown(r)' <=> AllShown(r)
    BY <1>b, SameLists, Zenon DEF AllShown, Visible
<1>c. ASSUME UNCHANGED <<job, steady, predicted>> PROVE PredictedAbsent'
    BY <1>b, <1>c, Zenon DEF PredictedAbsent
<1>d. ASSUME UNCHANGED <<job, steady, tally>> PROVE CountedExist'
    BY <1>d, Zenon DEF CountedExist
<1>e. ASSUME tally' = NoTally, steady' \subseteq Jobs PROVE CountedExist'
    BY <1>0, <1>e DEF CountedExist
<1>f. ASSUME predicted' = NoJob, steady' \subseteq Jobs PROVE PredictedAbsent'
    <2>1. \A j \in steady' : ~(predicted'[j] > 0)
        BY <1>0, <1>f
    <2> QED BY <2>1, Zenon DEF PredictedAbsent
<1>1. CASE Demands
    <2>1. CASE Poll /\ predicted' = NoJob
        <3>1. tally' = NoTally /\ steady' = Jobs /\ predicted' = NoJob
            BY <2>1 DEF Poll
        <3> QED BY <1>e, <1>f, <3>1, Zenon
    <2>2. CASE GetRuns /\ predicted' = predicted
        <3>1. UNCHANGED <<job, steady, tally, predicted>>
            BY <2>2, Zenon DEF GetRuns, Got
        <3> QED BY <1>c, <1>d, <3>1, Zenon
    <2>3. CASE GetJobs /\ predicted' = predicted
        <3>1. /\ UNCHANGED <<job, steady>>
              /\ Range(JobPage(Head(ids), page)) \subseteq Created
              /\ \A j \in Jobs :
                    /\ tally'.queued[j] = tally.queued[j] +
                          IF j \in Range(JobPage(Head(ids), page)) \cap Matching /\ job[j] = "queued" THEN 1 ELSE 0
                    /\ tally'.running[j] = tally.running[j] +
                          IF j \in Range(JobPage(Head(ids), page)) \cap Matching /\ job[j] = "in_progress" THEN 1 ELSE 0
            BY <1>a, <2>3, GetJobsIs, Zenon
        <3>2. \A j \in Jobs : j \notin Created =>
                 tally'.queued[j] = tally.queued[j] /\ tally'.running[j] = tally.running[j]
            BY <1>a, <3>1
        <3>3. \A j \in Jobs : j \in Created <=> job[j] # "absent"
            BY Zenon DEF Created
        <3>4. CountedExist'
            BY <1>a, <3>1, <3>2, <3>3, Zenon DEF CountedExist
        <3> QED BY <1>c, <2>3, <3>1, <3>4, Zenon
    <2>4. CASE (\E kind \in FailureKinds : RequestFails(kind)) /\ predicted' = predicted
        <3>1. UNCHANGED <<job, steady>> /\ (tally' = tally \/ tally' = NoTally)
            BY <2>4, Zenon DEF RequestFails, loopVars
        <3>2. steady' \subseteq Jobs
            BY <1>a, <3>1, Zenon
        <3> QED BY <1>c, <1>d, <1>e, <2>4, <3>1, <3>2, Zenon
    <2> QED BY <1>1, <2>1, <2>2, <2>3, <2>4, Zenon DEF Demands
<1>2. CASE Predict
    <2>1. UNCHANGED <<job, steady, tally>> /\ predicted' = NoJob
        BY <1>2, Zenon DEF Predict, vars, loopVars
    <2>2. steady' \subseteq Jobs
        BY <1>a, <2>1, Zenon
    <2> QED BY <1>d, <1>f, <2>1, <2>2, Zenon
<1>3. CASE ListActiveRuns \/ ListingFails
    <2>1. UNCHANGED vars /\ predicted' = predicted
        BY <1>3, Zenon DEF ListActiveRuns, Listing, ListingFails
    <2>2. UNCHANGED <<job, steady, tally>>
        BY <2>1, Zenon DEF vars, loopVars
    <2> QED BY <1>c, <1>d, <2>1, <2>2, Zenon
<1>5. CASE ContributeRun \/ DropRun
    <2>1. /\ UNCHANGED vars
          /\ \/ \A j \in Jobs : predicted'[j] = predicted[j] + IF Soon(Head(found), j) THEN 1 ELSE 0
             \/ predicted' = predicted
        BY <1>5, WalkIs, Zenon
    <2>2. UNCHANGED <<job, steady, tally>>
        BY <2>1, Zenon DEF vars, loopVars
    <2>3. \A r \in Runs : AllShown(r) => \A j \in (steady \cap Range(JobSeq[r])) \ Renamed :
             predicted'[j] > 0 => job[j] = "absent"
        <3> SUFFICES ASSUME NEW r \in Runs, AllShown(r),
                            NEW j \in (steady \cap Range(JobSeq[r])) \ Renamed,
                            predicted'[j] > 0, predicted'[j] # predicted[j]
                     PROVE  job[j] = "absent"
            BY Zenon DEF PredictedAbsent
        <3>1. Soon(Head(found), j) /\ j \in Jobs
            BY <1>a, <2>1
        <3>2. Head(found) \in Runs
            BY <1>5, WalkIs, HeadTail, Zenon
        <3>3. Head(found) = r
            BY <3>1, <3>2, Repository, Zenon DEF Soon
        <3>4. j \notin ListJobs(r)
            BY <3>1, <3>3, Zenon DEF Soon
        <3> QED BY <3>1, <3>4, ListJobsIs, Zenon DEF Created
    <2>4. PredictedAbsent'
        BY <1>b, <2>2, <2>3, Zenon DEF PredictedAbsent
    <2> QED BY <1>d, <2>2, <2>4, Zenon
<1>6. CASE \E j \in Jobs : RepositoryMoves(j)
    <2> PICK k \in Jobs : RepositoryMoves(k)
        BY <1>6
    <2>1. /\ \A j \in Jobs \ {k} : job'[j] = job[j]
          /\ job'[k] # "absent"
          /\ steady' = steady \ {k} /\ UNCHANGED <<tally, predicted>>
        <3>1. JobMoves(k) /\ predicted' = predicted
            BY DEF RepositoryMoves
        <3>2. PICK to \in {"waiting", "queued", "in_progress", "completed"} : job' = [job EXCEPT ![k] = to]
            BY <3>1 DEF JobMoves
        <3>3. steady' = steady \ {k} /\ tally' = tally
            BY <3>1, Zenon DEF JobMoves, loopVars
        <3>4. job \in [Jobs -> {"absent", "waiting", "queued", "in_progress", "completed"}]
            BY <1>a DEF TypeOK
        <3>5. job'[k] = to /\ \A j \in Jobs \ {k} : job'[j] = job[j]
            BY <3>2, <3>4, SMTT(30)
        <3> QED BY <3>1, <3>3, <3>5, SMTT(30)
    <2>2. Created \subseteq Created'
        BY <2>1, Zenon DEF Created
    <2>3. \A r \in Runs : AllShown(r)' => AllShown(r)
        BY <2>2, ShownBefore, Zenon
    <2>4. \A j \in steady' : j \in steady /\ job'[j] = job[j]
        BY <1>a, <2>1, Zenon
    <2>5. CountedExist'
        BY <2>1, <2>4, Zenon DEF CountedExist
    <2>6. PredictedAbsent'
        BY <2>1, <2>3, <2>4, Zenon DEF PredictedAbsent
    <2> QED BY <2>5, <2>6
<1>7. CASE UNCHANGED <<vars, predictVars>>
    <2>1. UNCHANGED <<job, steady, tally, predicted>>
        BY <1>7, Zenon DEF vars, loopVars, predictVars
    <2> QED BY <1>c, <1>d, <2>1, Zenon
<1> QED BY <1>1, <1>2, <1>3, <1>5, <1>6, <1>7, SMTT(30) DEF PollNext, Predicts

\* A job that stays as it is during a reconcile, of a run whose jobs are all on the page that
\* listJobs reads, is not both in the demand and in the prediction, however the two polls
\* meet the other jobs and whichever are created in between (contributeRun, countRunJobs).
THEOREM NothingOwnedTwice == PollSpec => []NothingInBoth
<1>1. PollInit => BothInv
    <2> SUFFICES ASSUME PollInit PROVE BothInv
        OBVIOUS
    <2>1. tally = NoTally /\ predicted = NoJob /\ steady = Jobs
        BY DEF PollInit, Init
    <2>2. \A j \in Jobs : ~(tally.queued[j] + tally.running[j] > 0) /\ ~(predicted[j] > 0)
        BY <2>1 DEF NoJob, NoTally
    <2> QED BY <2>1, <2>2, Zenon DEF BothInv, CountedExist, PredictedAbsent
<1>2. TypeInv /\ BothInv => NothingInBoth
    <2> SUFFICES ASSUME TypeInv, BothInv, NEW r \in Runs, AllShown(r),
                        NEW j \in (steady \cap Range(JobSeq[r])) \ Renamed
                 PROVE  predicted[j] = 0 \/ tally.queued[j] + tally.running[j] = 0
        BY Zenon DEF NothingInBoth
    <2>1. /\ predicted[j] \in Nat /\ tally.queued[j] \in Nat /\ tally.running[j] \in Nat
        <3>1. /\ predicted \in [Jobs -> Nat] /\ steady \subseteq Jobs
              /\ tally.queued \in [Jobs -> Nat] /\ tally.running \in [Jobs -> Nat]
            BY DEF TypeInv, PollTypeOK, TypeOK
        <3> QED BY <3>1
    <2>2. ~(predicted[j] > 0 /\ tally.queued[j] + tally.running[j] > 0)
        BY Zenon DEF BothInv, CountedExist, PredictedAbsent
    <2> QED BY <2>1, <2>2
<1> QED BY TypesInit, PollTypes, BothStep, <1>1, <1>2, PTL DEF PollSpec

-----------------------------------------------------------------------------
(* A run that holds still is predicted exactly.                            *)

\* f numbers the elements of 1..m with different numbers up to n.
Numbers(f, m, n) ==
    /\ f \in [1..m -> 1..n]
    /\ \A i, j \in 1..m : f[i] = f[j] => i = j

\* There are not more of them than numbers.
LEMMA Pigeonhole ==
    ASSUME NEW n \in Nat, NEW m \in Nat, NEW f, Numbers(f, m, n)
    PROVE  m <= n
<1> DEFINE Fits(k) == \A a \in Nat : \A g : Numbers(g, a, k) => a <= k
           G == {k \in Nat : Fits(k)}
<1>1. 0 \in G
    <2>1. ASSUME NEW a \in Nat, NEW g, Numbers(g, a, 0) PROVE a <= 0
        <3> SUFFICES ASSUME a > 0 PROVE FALSE
            OBVIOUS
        <3>1. 1 \in 1..a
            OBVIOUS
        <3>2. g[1] \in 1..0
            BY <2>1, <3>1 DEF Numbers
        <3> QED BY <3>2
    <2>2. Fits(0)
        BY <2>1, Zenon
    <2> QED BY <2>2
<1>2. ASSUME NEW k \in 1..n, k - 1 \in G PROVE k \in G
    <2>0. Fits(k - 1)
        BY <1>2, Zenon
    <2>1. ASSUME NEW a \in Nat, NEW g, Numbers(g, a, k) PROVE a <= k
        <3> SUFFICES ASSUME a > 0 PROVE a <= k
            OBVIOUS
        <3> DEFINE h == [i \in 1..(a - 1) |-> IF g[i] = k THEN g[a] ELSE g[i]]
        <3>1. /\ \A i \in 1..(a - 1) : i \in 1..a /\ i # a
              /\ a \in 1..a /\ a - 1 \in Nat
            OBVIOUS
        <3>2. /\ \A i \in 1..a : g[i] \in 1..k
              /\ \A i, j \in 1..a : g[i] = g[j] => i = j
            BY <2>1 DEF Numbers
        <3>3. ASSUME NEW i \in 1..(a - 1) PROVE h[i] \in 1..(k - 1)
            <4>1. g[i] \in 1..k /\ g[a] \in 1..k /\ g[i] # g[a]
                BY <3>1, <3>2
            <4>2. h[i] = IF g[i] = k THEN g[a] ELSE g[i]
                OBVIOUS
            <4> HIDE DEF h
            <4> QED BY <4>1, <4>2
        <3>4. ASSUME NEW i \in 1..(a - 1), NEW j \in 1..(a - 1), h[i] = h[j] PROVE i = j
            <4>1. /\ h[i] = IF g[i] = k THEN g[a] ELSE g[i]
                  /\ h[j] = IF g[j] = k THEN g[a] ELSE g[j]
                OBVIOUS
            <4>2. g[i] # g[a] /\ g[j] # g[a]
                BY <3>1, <3>2
            <4>3. g[i] = g[j]
                <5> HIDE DEF h
                <5> QED BY <3>4, <4>1, <4>2, Zenon
            <4> QED BY <3>1, <3>2, <4>3
        <3>5. Numbers(h, a - 1, k - 1)
            BY <3>3, <3>4 DEF Numbers
        <3> HIDE DEF h
        <3>6. a - 1 <= k - 1
            <4> HIDE DEF G
            <4> QED BY <2>0, <3>1, <3>5, Zenon
        <3> QED BY <3>6
    <2>2. Fits(k)
        BY <2>1, Zenon
    <2> HIDE DEF Fits
    <2> QED BY <2>2
<1>3. Fits(n)
    <2> HIDE DEF G, Fits
    <2>1. \A i \in 0..n : i \in G
        BY <1>1, <1>2, UpTo, Zenon
    <2>2. n \in 0..n
        OBVIOUS
    <2> QED BY <2>1, <2>2, Zenon DEF G
<1> QED BY <1>3, Zenon

UsesAll(f, n) == \A k \in 1..n : \E i \in 1..n : f[i] = k

\* As many as there are numbers use all of them.
LEMMA AllUsed ==
    ASSUME NEW n \in Nat, NEW f, Numbers(f, n, n)
    PROVE  UsesAll(f, n)
<1> SUFFICES ASSUME NEW k \in 1..n, \A i \in 1..n : f[i] # k PROVE FALSE
    BY Zenon DEF UsesAll
<1> DEFINE g == [i \in 1..n |-> IF f[i] = n THEN k ELSE f[i]]
<1>1. /\ \A i \in 1..n : f[i] \in 1..n
      /\ \A i, j \in 1..n : f[i] = f[j] => i = j
    BY DEF Numbers
<1>2. ASSUME NEW i \in 1..n PROVE g[i] \in 1..(n - 1)
    <2>1. f[i] \in 1..n /\ f[i] # k /\ g[i] = IF f[i] = n THEN k ELSE f[i]
        BY <1>1
    <2> HIDE DEF g
    <2> QED BY <2>1
<1>3. ASSUME NEW i \in 1..n, NEW j \in 1..n, g[i] = g[j] PROVE i = j
    <2>1. /\ g[i] = IF f[i] = n THEN k ELSE f[i]
          /\ g[j] = IF f[j] = n THEN k ELSE f[j]
        OBVIOUS
    <2>2. f[i] = f[j]
        <3> HIDE DEF g
        <3> QED BY <1>3, <2>1, Zenon
    <2> QED BY <1>1, <2>2
<1>4. Numbers(g, n, n - 1)
    BY <1>2, <1>3 DEF Numbers
<1>5. n - 1 \in Nat
    OBVIOUS
<1> HIDE DEF g
<1>6. n <= n - 1
    BY <1>4, <1>5, Pigeonhole, Zenon
<1> QED BY <1>6

\* A list without repetition is no longer than the list of all runs, and has all of them
\* when it is as long.
LEMMA Distinct ==
    ASSUME NEW s \in Seq(Runs), IsInjective(s)
    PROVE  Len(s) <= Len(RunSeq) /\ (Len(s) = Len(RunSeq) => Range(s) = Runs)
<1> DEFINE n == Len(RunSeq)
           m == Len(s)
           f == [i \in 1..m |-> CHOOSE k \in 1..n : RunSeq[k] = s[i]]
<1>1. /\ n \in Nat /\ \A r \in Runs : \E k \in 1..n : RunSeq[k] = r
      /\ \A k \in 1..n : RunSeq[k] \in Runs
    <2>1. RunSeq \in Seq(Runs) /\ DOMAIN RunSeq = 1..n
        BY Repository
    <2>2. \A r \in Runs : \E k \in 1..n : RunSeq[k] = r
        BY <2>1, Zenon DEF Runs, Range
    <2> QED BY <2>1, <2>2
<1>2. m \in Nat /\ DOMAIN s = 1..m /\ \A i \in 1..m : s[i] \in Runs
    OBVIOUS
<1> HIDE DEF n, m
<1>3. \A i \in 1..m : f[i] \in 1..n /\ RunSeq[f[i]] = s[i]
    BY <1>1, <1>2, Zenon
<1>4. \A i, j \in 1..m : s[i] = s[j] => i = j
    BY <1>2 DEF IsInjective
<1>5. Numbers(f, m, n)
    <2>1. f \in [1..m -> 1..n]
        BY <1>3
    <2> HIDE DEF f
    <2> QED BY <1>3, <1>4, <2>1, ZenonT(40) DEF Numbers
<1> HIDE DEF f
<1>6. m <= n
    BY <1>1, <1>2, <1>5, Pigeonhole, Zenon
<1>7. ASSUME m = n PROVE Range(s) = Runs
    <2>1. ASSUME NEW r \in Runs PROVE r \in Range(s)
        <3>1. PICK k \in 1..n : RunSeq[k] = r
            BY <1>1, Zenon
        <3>2. Numbers(f, n, n)
            BY <1>5, <1>7
        <3>3. PICK i \in 1..n : f[i] = k
            <4>1. n \in Nat
                BY <1>1
            <4>2. UsesAll(f, n)
                BY <3>2, <4>1, AllUsed, Zenon
            <4> QED BY <3>1, <4>2, Zenon DEF UsesAll
        <3>4. i \in 1..m
            BY <1>7
        <3> QED BY <1>2, <1>3, <3>1, <3>3, <3>4, Zenon DEF Range
    <2>2. ASSUME NEW r \in Range(s) PROVE r \in Runs
        BY <1>2, <2>2, Zenon DEF Range
    <2> QED BY <2>1, <2>2, Zenon
<1> QED BY <1>6, <1>7, Zenon DEF m, n

Going == {"queued", "in_progress", "waiting"}
Quiet(r) == Range(JobSeq[r]) \subseteq still

\* Exactly the jobs of the run that are about to appear are predicted.
Foretold(r) ==
    \A j \in Range(JobSeq[r]) : predicted[j] = 1 <=> RunStatus(r) \in Going /\ Soon(r, j)

FewRuns == Len(RunSeq) <= RunsCap /\ Len(RunSeq) <= DefaultPage

\* A run that holds still is found by the listing of its status, and foretold when it has
\* been walked or was not found.
ExactInv ==
    FewRuns =>
        /\ phase = "list" => \A r \in Runs : Quiet(r) =>
              (r \in Range(found) <=> \E k \in 1..(status - 1) : RunStatus(r) = ActiveStatuses[k])
        /\ phase = "walk" => \A r \in Runs \ dropped : Quiet(r) =>
              /\ r \in Range(found) => RunStatus(r) \in Going
              /\ r \notin Range(found) => Foretold(r)
        /\ phase = "over" => \A r \in Runs \ dropped : Quiet(r) => Foretold(r)

\* A list is filtered alike by sets that agree on its elements.
LEMMA OnlyAgrees ==
    ASSUME NEW V, NEW s \in Seq(V), NEW S, NEW S2, \A x \in Range(s) : x \in S <=> x \in S2
    PROVE  Only(s, S) = Only(s, S2)
<1>1. \A i \in 0..Len(s) : i = 0 \/ s[i] \in Range(s)
    BY DEF Range
<1>2. \A g : \A i \in 0..Len(s) : Added(s, S, g, i) = Added(s, S2, g, i)
    BY <1>1, Zenon DEF Added
<1>3. \A g : [i \in 0..Len(s) |-> Added(s, S, g, i)] = [i \in 0..Len(s) |-> Added(s, S2, g, i)]
    BY <1>2, Zenon
<1>4. Kept(s, S) = Kept(s, S2)
    BY <1>3, Zenon DEF Kept
<1>5. Only(s, S) = Kept(s, S)[Len(s)] /\ Only(s, S2) = Kept(s, S2)[Len(s)]
    BY KeptIs
<1> QED BY <1>4, <1>5, Zenon

\* A run whose jobs stay as they are keeps its status and what is about to appear.
LEMMA SameRun ==
    ASSUME NEW r \in Runs, \A j \in Range(JobSeq[r]) : job'[j] = job[j]
    PROVE  RunStatus(r)' = RunStatus(r) /\ \A j : Soon(r, j)' <=> Soon(r, j)
<1>1. JobSeq[r] \in Seq(Jobs)
    BY Repository
<1>2. RunStatus(r)' = RunStatus(r)
    BY SameStatus
<1>3. ListJobs(r)' = ListJobs(r)
    <2>1. \A j \in Range(JobSeq[r]) : j \in Created <=> j \in Created'
        BY Zenon DEF Created
    <2>2. Only(JobSeq[r], Created) = Only(JobSeq[r], Created')
        BY <1>1, <2>1, OnlyAgrees, Zenon
    <2> QED BY <2>2, Zenon DEF ListJobs
<1> QED BY <1>2, <1>3, Zenon DEF Soon

\* The statuses a run can have.
LEMMA StatusIs ==
    ASSUME NEW r
    PROVE  /\ RunStatus(r) \in {"absent", "completed", "waiting", "queued", "in_progress"}
           /\ (\E k \in 1..5 : RunStatus(r) = ActiveStatuses[k]) <=> RunStatus(r) \in Going
<1>1. RunStatus(r) \in {"absent", "completed", "waiting", "queued", "in_progress"}
    BY Zenon DEF RunStatus
<1>2. /\ ActiveStatuses[1] = "in_progress" /\ ActiveStatuses[2] = "queued"
      /\ ActiveStatuses[3] = "pending" /\ ActiveStatuses[4] = "requested"
      /\ ActiveStatuses[5] = "waiting"
    BY DEF ActiveStatuses
<1>3. \A k \in 1..5 : k = 1 \/ k = 2 \/ k = 3 \/ k = 4 \/ k = 5
    OBVIOUS
<1>4. 1 \in 1..5 /\ 2 \in 1..5 /\ 5 \in 1..5
    OBVIOUS
<1> HIDE DEF ActiveStatuses
<1>5. ASSUME NEW k \in 1..5, RunStatus(r) = ActiveStatuses[k] PROVE RunStatus(r) \in Going
    BY <1>1, <1>2, <1>3, <1>5 DEF Going
<1>6. ASSUME RunStatus(r) \in Going PROVE \E k \in 1..5 : RunStatus(r) = ActiveStatuses[k]
    BY <1>2, <1>4, <1>6 DEF Going
<1> QED BY <1>1, <1>5, <1>6, Zenon

\* The end of the listings: what was not found is not going on.
LEMMA ExactListed ==
    ASSUME TypeInv, OnceInv, ExactInv, FewRuns, ListActiveRuns
    PROVE  ExactInv'
<1>1. phase = "list" /\ found \in Seq(Runs) /\ status \in 1..5
    BY DEF ListActiveRuns, TypeInv, PollTypeOK, ActiveStatuses
<1> DEFINE all == found \o Only(Listed, Runs \ Range(found))
           last == Len(found') = RunsCap \/ status = 5
<1>2. /\ all \in Seq(Runs) /\ Range(all) = Range(found) \cup RunsIn(ActiveStatuses[status])
      /\ (IsInjective(found) => IsInjective(all) /\ IsInjective(found'))
      /\ found' \in Seq(Runs)
      /\ (Len(all) <= RunsCap => Range(found') = Range(all))
      /\ phase' = IF ~last THEN "list" ELSE IF found' = <<>> THEN "over" ELSE "walk"
      /\ status' = IF last THEN 1 ELSE status + 1
      /\ UNCHANGED <<vars, predicted, still, dropped>>
    BY ListingIs, Zenon DEF TypeInv, FewRuns
<1> HIDE DEF all
<1>3. IsInjective(all) /\ IsInjective(found')
    BY <1>1, <1>2, Zenon DEF OnceInv
<1>4. Len(all) <= Len(RunSeq) /\ Len(found') <= Len(RunSeq)
      /\ (Len(found') = Len(RunSeq) => Range(found') = Runs)
    BY <1>2, <1>3, Distinct, Zenon
<1>5. /\ Range(found') = Range(found) \cup RunsIn(ActiveStatuses[status])
      /\ Len(found') = RunsCap => Range(found') = Runs
    <2>1. Len(all) \in Nat /\ Len(found') \in Nat /\ Len(RunSeq) \in Nat /\ RunsCap \in Nat
        BY <1>2, Repository, PredictAssumption
    <2>2. Len(all) <= RunsCap /\ (Len(found') = RunsCap => Len(found') = Len(RunSeq))
        BY <1>4, <2>1 DEF FewRuns
    <2> QED BY <1>2, <1>4, <2>2, ZenonT(30)
<1>6. job' = job
    BY <1>2, Zenon DEF vars
<1>7. \A r \in Runs : RunStatus(r)' = RunStatus(r) /\ (\A j : Soon(r, j)' <=> Soon(r, j))
             /\ (Quiet(r)' <=> Quiet(r))
    BY <1>2, <1>6, SameRun, Zenon DEF Quiet
<1>8. \A r \in Runs : Quiet(r) =>
         (r \in Range(found') <=> \E k \in 1..status : RunStatus(r) = ActiveStatuses[k])
    <2> SUFFICES ASSUME NEW r \in Runs, Quiet(r)
                 PROVE  r \in Range(found') <=> \E k \in 1..status : RunStatus(r) = ActiveStatuses[k]
        BY Zenon
    <2>1. r \in Range(found) <=> \E k \in 1..(status - 1) : RunStatus(r) = ActiveStatuses[k]
        BY <1>1, Zenon DEF ExactInv
    <2>2. r \in Range(found') <=> (r \in Range(found) \/ RunStatus(r) = ActiveStatuses[status])
        BY <1>5, Zenon DEF RunsIn
    <2>3. \A k : k \in 1..status <=> (k \in 1..(status - 1) \/ k = status)
        BY <1>1
    <2> QED BY <2>1, <2>2, <2>3, Zenon
<1>9. CASE ~last
    <2>1. phase' = "list" /\ status' - 1 = status
        BY <1>1, <1>2, <1>9
    <2>2. \A r \in Runs : Quiet(r)' =>
         (r \in Range(found') <=> \E k \in 1..(status' - 1) : RunStatus(r)' = ActiveStatuses[k])
        BY <1>7, <1>8, <2>1, Zenon
    <2> QED BY <2>1, <2>2 DEF ExactInv
<1>10. CASE last
    <2>1. ASSUME NEW r \in Runs, Quiet(r) PROVE r \in Range(found') <=> RunStatus(r) \in Going
        <3>1. r \in Range(found') => RunStatus(r) \in Going
            <4> SUFFICES ASSUME r \in Range(found') PROVE RunStatus(r) \in Going
                OBVIOUS
            <4>1. PICK k \in 1..status : RunStatus(r) = ActiveStatuses[k]
                BY <1>8, <2>1, Zenon
            <4>2. k \in 1..5
                BY <1>1
            <4> QED BY <4>1, <4>2, StatusIs, Zenon
        <3>2. CASE Len(found') = RunsCap
            BY <1>5, <3>1, <3>2, Zenon
        <3>3. CASE status = 5
            BY <1>8, <2>1, <3>3, StatusIs, Zenon
        <3> QED BY <1>10, <3>2, <3>3
    <2>2. \A j \in Jobs : predicted[j] = 0
        BY <1>1 DEF OnceInv
    <2>3. ASSUME NEW r \in Runs, Quiet(r), r \notin Range(found') PROVE Foretold(r)'
        <3>1. RunStatus(r)' \notin Going
            BY <1>7, <2>1, <2>3, ZenonT(30)
        <3>2. \A j \in Range(JobSeq[r]) : predicted'[j] # 1
            BY <1>2, <2>2, Repository, SMTT(30)
        <3> QED BY <3>1, <3>2, Zenon DEF Foretold
    <2>4. /\ phase' \in {"over", "walk"} /\ (phase' = "over" => found' = <<>>)
        BY <1>2, <1>10
    <2>5. found' = <<>> => Range(found') = {}
        BY DEF Range
    <2>6. /\ phase' = "walk" => \A r \in Runs \ dropped' : Quiet(r)' =>
              /\ r \in Range(found') => RunStatus(r)' \in Going
              /\ r \notin Range(found') => Foretold(r)'
          /\ phase' = "over" => \A r \in Runs \ dropped' : Quiet(r)' => Foretold(r)'
        BY <1>7, <2>1, <2>3, <2>4, <2>5, Zenon
    <2> QED BY <2>4, <2>6 DEF ExactInv
<1> QED BY <1>9, <1>10

\* One run of the walk is foretold, or dropped; the others are as they were.
LEMMA ExactWalked ==
    ASSUME TypeInv, OnceInv, ExactInv, FewRuns, ContributeRun \/ DropRun
    PROVE  ExactInv'
<1> DEFINE h == Head(found)
<1>1. /\ phase = "walk" /\ found \in Seq(Runs) /\ found # <<>> /\ found' = Tail(found)
      /\ phase' = IF Len(found) = 1 THEN "over" ELSE "walk"
      /\ UNCHANGED <<vars, status, still>>
      /\ \/ /\ dropped' = dropped
            /\ \A j \in Jobs : predicted'[j] = predicted[j] + IF Soon(h, j) THEN 1 ELSE 0
         \/ dropped' = dropped \cup {h} /\ predicted' = predicted
    BY WalkIs, Zenon
<1>2. IsInjective(found) /\ \A r \in Range(found) : \A j \in Range(JobSeq[r]) : predicted[j] = 0
    BY <1>1, Zenon DEF OnceInv
<1>3. /\ h \in Runs /\ Range(found) = {h} \cup Range(found') /\ h \notin Range(found')
      /\ Len(found') = Len(found) - 1 /\ Len(found) \in Nat /\ found' \in Seq(Runs)
    BY <1>1, <1>2, HeadTail, Zenon
<1> HIDE DEF h
<1>4. \A r \in Runs : RunStatus(r)' = RunStatus(r) /\ (\A j : Soon(r, j)' <=> Soon(r, j))
             /\ (Quiet(r)' <=> Quiet(r))
    BY <1>1, SameRun, Zenon DEF Quiet, vars
<1>5. ASSUME NEW r \in Runs \ dropped', Quiet(r)
      PROVE  /\ r \in Range(found') => RunStatus(r) \in Going
             /\ r \notin Range(found') => Foretold(r)'
    <2>0. r \in Runs \ dropped
        BY <1>1, <1>5, Zenon
    <2>1. /\ r \in Range(found) => RunStatus(r) \in Going
          /\ r \notin Range(found) => Foretold(r)
        BY <1>1, <1>5, <2>0, Zenon DEF ExactInv
    <2>2. CASE r = h
        <3>1. /\ r \in Range(found) /\ RunStatus(r) \in Going /\ r \notin Range(found')
            BY <1>3, <2>1, <2>2, Zenon
        <3>2. \A j \in Jobs : predicted'[j] = predicted[j] + IF Soon(r, j) THEN 1 ELSE 0
            BY <1>1, <1>5, <2>2, Zenon
        <3>3. \A j \in Range(JobSeq[r]) : j \in Jobs /\ predicted[j] = 0
            BY <1>2, <2>0, <3>1, Repository, Zenon
        <3>4. \A j \in Range(JobSeq[r]) : predicted'[j] = 1 <=> Soon(r, j)
            BY <3>2, <3>3
        <3> QED BY <1>4, <3>1, <3>4, Zenon DEF Foretold
    <2>3. CASE r # h
        <3>1. \A j \in Range(JobSeq[r]) : j \in Jobs /\ ~Soon(h, j)
            BY <1>3, <2>0, <2>3, Repository, Zenon DEF Soon
        <3>2. \A j \in Range(JobSeq[r]) : predicted'[j] = predicted[j]
            <4>1. predicted \in [Jobs -> Nat]
                BY DEF TypeInv, PollTypeOK
            <4> QED BY <1>1, <3>1, <4>1
        <3>3. Foretold(r) => Foretold(r)'
            <4> SUFFICES ASSUME Foretold(r), NEW j \in Range(JobSeq[r])
                         PROVE  predicted'[j] = 1 <=> RunStatus(r)' \in Going /\ Soon(r, j)'
                BY Zenon DEF Foretold
            <4>1. predicted[j] = 1 <=> RunStatus(r) \in Going /\ Soon(r, j)
                BY Zenon DEF Foretold
            <4>2. predicted'[j] = predicted[j]
                BY <3>2, Zenon
            <4> QED BY <1>4, <4>1, <4>2, Zenon
        <3> QED BY <1>3, <2>1, <2>3, <3>3, Zenon
    <2> QED BY <2>2, <2>3
<1>6. phase' = "over" => Range(found') = {}
    <2>1. phase' = "over" => Len(found') = 0
        BY <1>1, <1>3
    <2>2. Len(found') = 0 => found' = <<>>
        BY <1>3
    <2>3. found' = <<>> => Range(found') = {}
        BY DEF Range
    <2> QED BY <2>1, <2>2, <2>3, Zenon
<1>7. phase' \in {"over", "walk"}
    BY <1>1
<1>8. /\ phase' = "walk" => \A r \in Runs \ dropped' : Quiet(r)' =>
              /\ r \in Range(found') => RunStatus(r)' \in Going
              /\ r \notin Range(found') => Foretold(r)'
      /\ phase' = "over" => \A r \in Runs \ dropped' : Quiet(r)' => Foretold(r)'
    BY <1>4, <1>5, <1>6, Zenon
<1> QED BY <1>7, <1>8 DEF ExactInv

\* Every step keeps this.
LEMMA ExactStep == TypeInv /\ OnceInv /\ ExactInv /\ [PollNext]_<<vars, predictVars>> => ExactInv'
<1> SUFFICES ASSUME TypeInv, OnceInv, ExactInv, [PollNext]_<<vars, predictVars>>,
                    FewRuns
             PROVE  ExactInv'
    BY DEF ExactInv
<1>f. ASSUME NEW r \in Runs, \A j \in Range(JobSeq[r]) : job'[j] = job[j], predicted' = predicted
      PROVE  RunStatus(r)' = RunStatus(r) /\ (Foretold(r)' <=> Foretold(r))
    BY <1>f, SameRun, Zenon DEF Foretold
<1>u. ASSUME job' = job, UNCHANGED predictVars PROVE ExactInv'
    <2>1. \A r \in Runs : RunStatus(r)' = RunStatus(r) /\ (Foretold(r)' <=> Foretold(r)) /\ (Quiet(r)' <=> Quiet(r))
        BY <1>f, <1>u, Zenon DEF Quiet, predictVars
    <2>2. UNCHANGED <<phase, status, found, dropped>>
        BY <1>u, Zenon DEF predictVars
    <2> QED BY <2>1, <2>2, Zenon DEF ExactInv
<1>1. CASE Demands
    <2>1. phase' = "rest" \/ (job' = job /\ UNCHANGED predictVars)
        BY <1>1, Zenon DEF Demands, predictVars, GetRuns, GetJobs, Got, RequestFails
    <2> QED BY <1>u, <2>1 DEF ExactInv
<1>2. CASE Predict
    <2>1. phase' = "list" /\ status' = 1 /\ found' = <<>>
        BY <1>2 DEF Predict
    <2>2. Range(<<>>) = {} /\ 1..(1 - 1) = {}
        BY DEF Range
    <2> QED BY <2>1, <2>2 DEF ExactInv
<1>3. CASE ListActiveRuns
    BY <1>3, ExactListed
<1>4. CASE ListingFails
    BY <1>4 DEF ListingFails, ExactInv
<1>5. CASE ContributeRun \/ DropRun
    BY <1>5, ExactWalked
<1>6. CASE \E j \in Jobs : RepositoryMoves(j)
    <2> PICK k \in Jobs : RepositoryMoves(k)
        BY <1>6
    <2>1. /\ \A j \in Jobs \ {k} : job'[j] = job[j]
          /\ still' = still \ {k} /\ UNCHANGED <<phase, status, found, predicted, dropped>>
        <3>1. JobMoves(k) /\ still' = still \ {k} /\ UNCHANGED <<phase, status, found, predicted, dropped>>
            BY DEF RepositoryMoves
        <3>2. PICK to : job' = [job EXCEPT ![k] = to]
            BY <3>1, Zenon DEF JobMoves
        <3>3. job \in [Jobs -> {"absent", "waiting", "queued", "in_progress", "completed"}]
            BY DEF TypeInv, PollTypeOK, TypeOK
        <3> QED BY <3>1, <3>2, <3>3
    <2>2. \A r \in Runs : Quiet(r)' =>
             Quiet(r) /\ RunStatus(r)' = RunStatus(r) /\ (Foretold(r)' <=> Foretold(r))
        <3> SUFFICES ASSUME NEW r \in Runs, Quiet(r)'
                     PROVE  Quiet(r) /\ RunStatus(r)' = RunStatus(r) /\ (Foretold(r)' <=> Foretold(r))
            BY Zenon
        <3>1. Quiet(r) /\ \A j \in Range(JobSeq[r]) : j # k
            BY <2>1, Zenon DEF Quiet
        <3>2. \A j \in Range(JobSeq[r]) : job'[j] = job[j]
            BY <2>1, <3>1, Repository, Zenon
        <3> QED BY <1>f, <2>1, <3>1, <3>2, Zenon
    <2> QED BY <2>1, <2>2, Zenon DEF ExactInv
<1>7. CASE UNCHANGED <<vars, predictVars>>
    BY <1>7, <1>u, Zenon DEF vars
<1> QED BY <1>1, <1>2, <1>3, <1>4, <1>5, <1>6, <1>7, SMTT(30) DEF PollNext, Predicts

\* Where the runs are no more than the cap and one page, of a run that does not change while
\* Predict runs and whose jobs are on one page, exactly the jobs about to appear are
\* predicted, whatever happens to the other runs and however many of them are dropped; for a
\* job that is listed, with what it needs, under its ID (listActiveRuns, contributeRun).
THEOREM StillRunsForetold == PollSpec => []PredictionExact
<1>1. PollInit => OnceInv
    BY DEF PollInit, OnceInv, PredictedOnce, NoJob
<1>2. PollInit => ExactInv
    BY DEF PollInit, ExactInv
<1>3. ExactInv => PredictionExact
    <2> SUFFICES ASSUME ExactInv, phase = "over", Len(RunSeq) <= Smaller(RunsCap, DefaultPage),
                        NEW r \in Runs \ dropped, Quiet(r), AllShown(r),
                        NEW j \in Range(JobSeq[r]), ({j} \cup Needs[j]) \cap Renamed = {}
                 PROVE  predicted[j] = 1 <=> AboutToAppear(r, j)
        BY Zenon DEF PredictionExact, Quiet
    <2>0. FewRuns
        <3>1. Len(RunSeq) \in Nat /\ RunsCap \in Nat /\ DefaultPage \in Nat
            BY Repository, PredictAssumption
        <3> QED BY <3>1 DEF FewRuns, Smaller
    <2>1. predicted[j] = 1 <=> RunStatus(r) \in Going /\ Soon(r, j)
        BY <2>0, Zenon DEF ExactInv, Foretold
    <2>2. Needs[j] \subseteq Range(JobSeq[r]) /\ j \in Jobs
        BY PredictAssumption, Repository, Zenon
    <2>3. ListJobs(r) = (Range(JobSeq[r]) \cap Created) \ Renamed
        BY ListJobsIs, Zenon
    <2>4. Soon(r, j) <=> job[j] = "absent" /\ Needs[j] \subseteq Created
        BY <2>2, <2>3, Zenon DEF Soon, Created
    <2> QED BY <2>1, <2>4, Zenon DEF AboutToAppear, Going
<1> QED BY TypesInit, PollTypes, OnceStep, ExactStep, <1>1, <1>2, <1>3, PTL DEF PollSpec
=============================================================================
