SPECIFICATION FairSpec
CONSTANTS
  BufMax = 1
  MaxData = 2
INVARIANTS TypeOK AuthenticatedBeforeUse RepliesAreTruthful StreamsAreIntact CleanEndIsComplete AuthFailuresCounted
PROPERTIES HandshakeEnds EofIsForwarded
