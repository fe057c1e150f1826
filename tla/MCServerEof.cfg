SPECIFICATION Spec
CONSTANTS
  c1 = c1
  c2 = c2
  c3 = c3
  Clients <- Two
  MaxConnections = 1
  CounterMax = 9
  HasShutdown = FALSE
  AcceptBound = 4
CONSTRAINT Bounded
INVARIANT RefusedSeesEof
