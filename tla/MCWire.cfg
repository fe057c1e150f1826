SPECIFICATION Spec
CONSTANTS
  Utf8 <- IsUtf8
  Addresses <- SampleAddresses
  Payloads <- SamplePayloads
  Buffers <- SampleBuffers
  Chunks <- SampleChunks
INVARIANTS DatagramsRoundTrip ReadersAgree
CHECK_DEADLOCK FALSE
