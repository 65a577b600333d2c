SPECIFICATION FairSpec
CONSTANTS
  MaxChunks = 3
  MaxUpdates = 2
  MaxResets = 1
INVARIANTS TypeOK NothingUnsent ChunksCoalesce OneOrderedStream
PROPERTY CallsReturn
CHECK_DEADLOCK FALSE
