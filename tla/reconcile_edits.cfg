SPECIFICATION Spec
CONSTANTS
    Specs <- Edited
    MaxFloor = 2
    Bases = {0}
    Signals = {0, 2}
    BackendCaps <- NoCap
    Uncapped = Uncapped
    TicksPerSecond = 1
    AgeCap = 1
    Events = {"getFloor", "setFloor", "setFloorLost", "backendEdit", "predictor", "activity", "status", "crash", "touch", "specEdit", "signal"}
INVARIANTS
    StaleStatusIsPending
    CountsMoves
    GapExplained
PROPERTIES
    AppliedIsActual
    PatchKeepsPromise
