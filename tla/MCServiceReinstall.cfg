SPECIFICATION Spec
CONSTANTS
  Versions <- TwoVersions
  Candidates <- SomeOptions
INVARIANT InstallTakesEffect
