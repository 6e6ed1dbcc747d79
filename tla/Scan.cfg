SPECIFICATION ScanSpec
CONSTANTS
  ScanKeys <- MCScanKeys
  ScanPrefixes <- MCScanPrefixes
  Bytes <- MCBytes
  MaxScanBytes = 3
  Limits = {1, 2}
  HeaderBytes = 1
  MaxRequestID = 2
  MaxTime = 2
  MaxRevision = 2
INVARIANTS
  ScanIsPointInTime
  RecoverySnapshotIsExact
