SPECIFICATION Spec
CONSTANTS
  c1 = c1
  c2 = c2
  c3 = c3
  Clients <- Three
  MaxConnections = 2
  CounterMax = 9
  HasShutdown = TRUE
  AcceptBound = 4
SYMMETRY Sym
CONSTRAINT Bounded
INVARIANTS TypeOK PermitsConserved ActiveTracksTasks DispatchCounted
PROPERTY ImplementsLimit
