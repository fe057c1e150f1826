SPECIFICATION Spec
CONSTANTS
  Versions <- TwoVersions
  Candidates <- SomeOptions
INVARIANTS TypeOK CommandsKeepTheirWord
PROPERTIES UnitIsBacked EntryIsBacked
