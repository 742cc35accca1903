SPECIFICATION Spec
CONSTANTS
    Specs <- SteadyOnly
    MaxFloor = 2
    Bases = {0, 1, 2}
    Signals = {0}
    BackendCaps <- NoCap
    Uncapped = Uncapped
    TicksPerSecond = 2
    AgeCap = 3
    Events = {"status", "signal"}
PROPERTIES
    CooldownAlways
