CONSTANTS
    big = big  small1 = small1  small2 = small2
    pre = pre  b = b  s1 = s1  s2 = s2
    AnyHost = AnyHost
    Hosts = {1}
    NumCores <- MCNumCores
    RamCapacity <- MCRamCapacity
    FlopRate <- MCFlopRate
    Jobs = {big, small1, small2}
    Workunits = {pre, b, s1, s2}
    JobOf <- MCJobOf
    ParentsOf <- MCParentsOf
    WithoutTask = {pre}
    MinCores <- MCMinCores
    MaxCores <- MCMaxCores
    Ram <- MCRam
    RequiredHost <- MCRequiredHost
    RequiredCores <- MCRequiredCores
    FailingWorkunits = {s2}
    Resubmittable = {small1, small2}
    Terminable = {small1}
    Unreliable = {1}
    TerminateWhenAllDown = TRUE
    MaxTroubles = 2
    WordSize = 16
SPECIFICATION FairSpec
INVARIANTS
    ResourcesAccounted
    JobsAreTracked
    WorkConserving
PROPERTIES
    EveryJobEnds
CHECK_DEADLOCK FALSE
