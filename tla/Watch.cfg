SPECIFICATION FairWatchSpec
CONSTANTS
  w1 = w1
  c = c
  a = a
  b = b
  Watchers = {w1}
  Matches <- MCMatches
  Groups <- MCGroups
  MaxCommits = 3
  WatchBufferEvents = 3
  MaxHistoryEvents = 3
  MaxWatchClients = 1
  SocketFrames = 1
INVARIANTS
  HistoryIsSuffix
  StreamIsExact
  LagReportsBoundary
  BufferAccounting
  RegisteredOrEnding
PROPERTY DeliveredOrEnded
