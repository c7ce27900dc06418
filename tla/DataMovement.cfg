SPECIFICATION DataSpec
CONSTANTS
    d1 = d1
    s1 = s1
    s2 = s2
    s3 = s3
    Files = {d1}
    StorageServices = {s1, s2, s3}
    Staged <- MCStaged
    Down = {}
    MaxCalls = 3
INVARIANTS
    PendingIsUnderWay
    RegistryIsTruthful
PROPERTIES
    CopiesAreReported
CHECK_DEADLOCK FALSE
