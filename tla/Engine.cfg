SPECIFICATION FairEngineSpec
CONSTANTS
  Callers = {c1, c2}
  Readers = {r1}
  Lease = lease
  Data = data
  MaxTime = 3
  MaxRevision = 3
  TTL = 2
  QueueCapacity = 2
  MaxBatchOperations = 1
INVARIANTS
  LeaseExclusion
  ExpiredStaysExpired
  HeapMatchesRecords
PROPERTIES
  FencedWrites
  EveryCallReturns
  ExpiredIsRemoved
