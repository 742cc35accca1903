SPECIFICATION Spec
CONSTANTS
    Specs <- SteadyOnly
    MaxFloor = 2
    Bases = {0, 2}
    Signals = {2}
    BackendCaps <- NoCap
    Uncapped = Uncapped
    TicksPerSecond = 2
    AgeCap = 3
    Events = {"demand", "getFloor", "predictor", "setFloorLost", "status", "crash", "staleCache", "backendEdit"}
INVARIANTS
    TypeOK
    GapExplained
PROPERTIES
    CooldownHolds
    PatchKeepsPromise
