CONSTANTS
 Nowhere = Nowhere
 a=a b=b c=c d=d small=small large=large
 Jobs = {a, b, c, d}
 Services = {small, large}
 InitialServices = {large}
 Cores <- PoolCores
 MinCores <- PoolMinCores
 MaxCores <- PoolMaxCores
 Priority <- PoolPriority
 MayFail = {c}
 MayStop = TRUE
SPECIFICATION FairSpec
INVARIANTS
 NoLostJob
 NegotiationIsOn
PROPERTIES
 EndsUnlessUnavailable
CHECK_DEADLOCK FALSE
