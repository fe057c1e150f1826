SPECIFICATION FairSpec
CONSTANTS
  c1 = c1
  c2 = c2
  c3 = c3
  Clients <- Two
  MaxConnections = 1
  CounterMax = 1
  HasShutdown = TRUE
  AcceptBound = 0
INVARIANT DispatchCounted
PROPERTIES SilentClientReleased QueuedIsAnswered StopIsHonoured
