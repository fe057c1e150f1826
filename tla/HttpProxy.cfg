SPECIFICATION FairSpec
CONSTANTS
  BufMax = 1
  HeaderMax = 3
  ChunkMax = 2
  MaxData = 2
INVARIANTS TypeOK UpstreamIsEarned StreamsAreIntact AnswersAreTruthful CleanEndIsComplete
PROPERTY RequestEnds
