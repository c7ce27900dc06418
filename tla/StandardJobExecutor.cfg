CONSTANTS
    pre = pre  in = in  out = out  clean = clean  post = post
    PreOverhead = pre
    PreFileCopies = in
    PostFileCopies = out
    Cleanup = clean
    PostOverhead = post
    AllCores = AllCores
    Tasks = {1, 2, 3}
    Parents <- MCParents
    JobShapes <- MCJobShapes
    Hosts = {1, 2}
    HostCores <- MCHostCores
    HostRam <- MCHostRam
    Requests <- MCRequests
    MinCores <- MCMinCores
    MaxCores <- MCMaxCores
    Ram <- MCRam
    TopLevel <- MCTopLevel
    Flops <- MCFlops
    MaximumCores = TRUE
    TaskSelection = "maximum_flops"
    ScratchSpace = TRUE
    PartOfPilotJob = FALSE
    CopiedToScratch <- MCCopiedToScratch
    ScratchIn <- MCScratchIn
    ScratchOut <- MCScratchOut
    Failing = {1, out}
    Unreliable = {1, 2}
    MaxHostFailures = 2
    WordSize = 16
SPECIFICATION FairSpec
INVARIANTS
    RunningIsInOrder
    EndedJobIsQuiet
PROPERTIES
    JobEnds
CHECK_DEADLOCK FALSE
