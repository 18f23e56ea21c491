SPECIFICATION FairSpec
CONSTANTS
  MaxUnread = 3
INVARIANTS
  TypeOK
  ThreadUsesOpenSocket
PROPERTIES
  OneLoop
  StopReturns
  DataWakesAgent
