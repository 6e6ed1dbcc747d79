SPECIFICATION ConnServerSpec
CONSTANTS
  c1 = c1
  c2 = c2
  p1 = p1
  Calls <- MCPair
  Reusing <- MCPairReusing
  RequestID <- MCRequestID
  MaxClients = 2
  IdleTimeout = FALSE
  None = None
PROPERTY ShutdownStops
