SPECIFICATION OfflineSpec
CONSTANTS
  Processes = {p1, p2}
  None = None
  Tool = gapctl
  MaxInode = 2
  MaxWritten = 2
INVARIANTS
  WritersHoldLock
  ServingIsReachable
  ServingHasLog
  RecoveryIsExact
PROPERTIES
  IdentityIsStable
  
