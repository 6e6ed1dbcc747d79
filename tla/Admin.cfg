SPECIFICATION AdminSpec
CONSTANTS
  Requests = {r1, r2, r3}
  MaxRevision = 3
  None = None
SYMMETRY MCSymmetry
INVARIANTS
  
  
  SuccessIsAudited
  GenerationsAgree
PROPERTY CompactionHasDurableCurrent
