SPECIFICATION BackupSpec
CONSTANTS
  RangeSize = 2
  MaxRevision = 5
  MaxFaults = 1
INVARIANTS
  
  PublishedIsWhole
  PublicationIsHonest
PROPERTY
  ForeignIsKept
