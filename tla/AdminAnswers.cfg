SPECIFICATION AdminSpec
CONSTANTS
  Requests = {r1, r2}
  MaxRevision = 2
  None = None
INVARIANT AuditFailureIsTold
