SPECIFICATION Spec
CONSTANTS
    job1 = job1
    job2 = job2
    push = push
    garbled = garbled
    repo = repo
    gpu = gpu
    Ids = {job1, push, garbled}
    Handlers = {h1, h2}
    Payload <- Bodies
    Repos = {repo}
    NoRepo = NoRepo
    Labels = {gpu}
    GuardSize = 2
    GuardTTL = 1
    AgeCap = 2
    MaxSends = 2
    ActiveWindow = 1
SYMMETRY HandlerSymmetry
INVARIANTS
    TypeOK
    CountedOnce
    AcceptedIsRecorded
PROPERTIES
    ImplementsWindow
