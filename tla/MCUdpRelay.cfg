SPECIFICATION FairSpec
CONSTANTS
  a1 = a1
  a2 = a2
  t1 = t1
  t2 = t2
  None = None
  Endpoints <- AllEndpoints
  PeerHost <- ClientHost
  MaxTargets = 2
  MaxDatagram = 2
  Header = 1
  CounterMax = 2
INVARIANTS TypeOK RelaysForClientOnly TableIsBounded BytesAreMoved
PROPERTIES LockIsForEver EndIsCounted ControlEndsRelay
