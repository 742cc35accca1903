SPECIFICATION Spec
CONSTANTS
    job1 = job1
    job2 = job2
    push = push
    garbled = garbled
    repo = repo
    gpu = gpu
    Ids = {job1, job2}
    Handlers = {h1}
    Payload <- Bodies
    Repos = {repo}
    NoRepo = NoRepo
    Labels = {gpu}
    GuardSize = 2
    GuardTTL = 1
    AgeCap = 2
    MaxSends = 1
    ActiveWindow = 1
INVARIANTS
    ContributionIsRecent
