SPECIFICATION PollSpec
CONSTANTS
    RunSeq <- RunList
    JobSeq <- JobLists
    Matching <- Wanted
    PerPage = 2
    MaxRetries = 1
    Failures = {"transient", "limited", "forbidden", "fatal"}
    Needs <- After
    Renamed = {"n2"}
    RunsCap = 2
    DefaultPage = 2
INVARIANTS
    PollTypeOK
    ExactWhenQuiet
    WaitingJobsCounted
    PredictedOnce
    NothingInBoth
    PredictionExact
