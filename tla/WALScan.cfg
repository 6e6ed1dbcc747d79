SPECIFICATION WALScanSpec
CONSTANTS
  Contents <- MCContents
  Reserved = 3
  MaxFrame = 9
  MaxBatchOperations = 2
  DamageValues = {0, 1, 2, 3, 8, 9, 77}
INVARIANTS
  CrashedLogScans
  DamageIsNotSilent
