CONSTANTS
    c = c
    Identifiers = {1, 2, 3}
    WorkflowFiles = {f}
    NoFileTask = NoFileTask
    ClusterOf <- MCClusterOf
    NoCluster = NoCluster
    Redundant = {TRUE, FALSE}
    MaxParallel = 2
    MaxRemovals = 1
    MaxClock = 3
SPECIFICATION GraphSpec
INVARIANTS
    GraphIsSound
    ReadyWhenParentsCompleted
    CompletionDateIsLast
CHECK_DEADLOCK FALSE
