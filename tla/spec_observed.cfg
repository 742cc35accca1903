SPECIFICATION FairSpec
CONSTANTS
    Specs <- Brittle
    MaxFloor = 2
    Bases = {0, 2}
    Signals = {0}
    BackendCaps <- OneCap
    Uncapped = Uncapped
    TicksPerSecond = 1
    AgeCap = 1
    Events = {"source", "getFloor", "getMax", "status", "crash", "specEdit", "delete", "settle"}
PROPERTIES
    SpecObserved
