SPECIFICATION Spec
CONSTANTS
    Workers = {w1, w2}
    Urls = {runs}
    MaxVersion = 1
    Files <- ThreeFiles
    Untagged <- NoETagForLib
    Capacity = 2
    MaxFetchRetries = 1
    Failures = {"notFound", "forbidden", "limited"}
INVARIANTS
    TypeOK
    FreshEnough
    NotModifiedIsHeld
    CacheIsLRU
    RightContent
PROPERTIES
    CallsEnd
