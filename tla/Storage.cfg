SPECIFICATION StorageSpec
CONSTANTS
  RangeSize = 1
  MaxRevision = 3
  k1 = k1
  k2 = k2
  Keys <- MCKeys
  Batches <- MCBatches
INVARIANTS
  VisibleIsReplay
  DurabilityEvidence
  AuthorityAlwaysIntact
  IssuedWithinReservation
PROPERTY ImplementsDurableKV
