SPECIFICATION Spec
CONSTANTS
    Weekdays <- Days
    HoursPerDay = 2
    MinutesPerHour = 2
    ZoneOffset <- Offsets
    Admitted <- AdmittedWindows
    Schedules <- TwoWindows
    NoMatrix = NoMatrix
    MaxReusableDepth = 2
CHECK_DEADLOCK FALSE
INVARIANTS
    BaseIsLargestActive
    MatrixIsGitHubs
    WalkIsAllChains
