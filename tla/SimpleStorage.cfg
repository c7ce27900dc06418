CONSTANTS
 home=home cache=cache short=short long=long c1=c1 c2=c2
 Services = {home, cache}
 Files = {short, long}
 Clients = {c1, c2}
 Capacity <- DiskCapacity
 Size <- FileSize
 Staged <- AtHome
 MaxConnections = 1
 Routes <- BothWays
 Unlucky = {c1, c2}
 Impatient = {c1, c2}
 Requests <- TwoEach
SPECIFICATION FairSpec
INVARIANTS
 SpaceAccounted
 ConnectionsUsed
PROPERTIES
 EveryRequestEnds
CHECK_DEADLOCK FALSE
