SPECIFICATION FairSpec
CONSTANTS
  i1 = i1
  i2 = i2
  r1 = r1
  s1 = s1
  s2 = s2
  InReqs = {}
  OutReqs = {r1}
  Streams = {s1}
  StreamsOf <- OutStreams
  Declared <- OutLengths
  None = None
  MaxInflight = 1
  MaxStreamBuffers = 1
  MaxStreamSize = 1
  MaxRetained = 2
  Timeout = 2
  MaxChunk = 1
  MaxFrames = 4
INVARIANT NoOrphanRequest
PROPERTIES ImplementsPipeRequests DeadRelayIsDropped
CHECK_DEADLOCK FALSE
