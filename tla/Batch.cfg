CONSTANTS
 a=a b=b c=c d=d
 Jobs = {a, b, c, d}
 NumNodes = 2
 Nodes <- BackfillNodes
 RequestedTime <- BackfillRequestedTime
 MayFail = {c}
 Terminable = {b}
 Resolution = 2
 Latency = 0
 LastSubmission = 3
 MaxClock = 20
 Horizon = 14
 WordSize = 16
SPECIFICATION FairSpec
INVARIANTS
 NodesAccounted
 NoLostJob
PROPERTIES
 PromisesKept
 EveryJobEnds
CHECK_DEADLOCK FALSE
