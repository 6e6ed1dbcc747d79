SPECIFICATION ConnClientSpec
CONSTANTS
  c1 = c1
  c2 = c2
  p1 = p1
  Calls <- MCCalls
  Reusing <- MCReusing
  RequestID <- MCRequestID
  MaxClients = 1
  IdleTimeout = TRUE
  None = None
INVARIANTS
  RepliesCorrelate
  
  CloseLeaksNothing
PROPERTY CloseInterrupts
