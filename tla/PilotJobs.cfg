CONSTANTS
 p1=p1 q1=q1 s1=s1 i1=i1
 Pilots = {p1, q1}
 Standards = {s1}
 Inner = {i1}
 PilotOf <- MCPilotOf
 ThroughHTCondor = {q1}
 NumHosts = 2
 NumCores = 2
 NumNodes <- MCNumNodes
 CoresPerNode <- MCCoresPerNode
 HostSelection = "FIRSTFIT"
 Terminable = {p1}
 Stoppable = {p1}
 BatchMayStop = TRUE
SPECIFICATION FairSpec
INVARIANTS
 NodesAccounted
 EventsInOrder
PROPERTIES
 InnerJobsEnd
CHECK_DEADLOCK FALSE
