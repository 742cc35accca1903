SPECIFICATION FairSpec
CONSTANTS
    on = on
    off = off
    gpu = gpu
    Policies = {on, off}
    Name <- OwnNames
    Config <- Configs
    Keys = {gpu}
    Kinds <- RunKinds
    RunsCap = 2
    ActiveWindow = 1
    SampleWindow = 2
    SampleTime = 1
    MaxJobs = 1
INVARIANTS
    TypeOK
    WindowBounded
PROPERTIES
    SampleHasCause
    ActivityDrains
