CONSTANTS
 wide=wide slim=slim giant=giant h1=h1 h2=h2
 Nowhere = Nowhere
 VMs = {wide, slim, giant}
 Hosts = {h1, h2}
 Cores <- MCCores
 Capacity <- MCCapacity
 Unreliable = {h1}
 CanMigrate = TRUE
 MaxRequests = 6
 MaxPending = 2
SPECIFICATION VMFairSpec
INVARIANTS
 CoresAccounted
 LiveVMIsServed
PROPERTIES
 LostVMsAreReclaimed
CHECK_DEADLOCK FALSE
