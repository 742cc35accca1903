SPECIFICATION FairSpec
CONSTANTS
    Specs <- PatientOnly
    MaxFloor = 2
    Bases = {0, 2}
    Signals = {0}
    BackendCaps <- OneCap
    Uncapped = Uncapped
    TicksPerSecond = 1
    AgeCap = 2
    Events = {"source", "demand", "getFloor", "setFloorLost", "status", "crash", "signal", "backendEdit", "settle"}
PROPERTIES
    FloorConverges
