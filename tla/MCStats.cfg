SPECIFICATION Spec
CONSTANTS
  t1 = t1
  t2 = t2
  Tasks <- TwoTasks
  Counters <- TwoCounters
  RingMax = 2
  MaxClock = 1
  MaxErrors = 3
SYMMETRY Sym
INVARIANTS TypeOK RingIsLastErrors FailuresAreRecorded PageCountsItsErrors
