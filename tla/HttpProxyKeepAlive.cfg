SPECIFICATION Spec
CONSTANTS
  BufMax = 1
  HeaderMax = 3
  ChunkMax = 2
  MaxData = 1
INVARIANT RequestsAreRewritten
