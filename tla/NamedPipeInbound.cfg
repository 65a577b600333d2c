SPECIFICATION Spec
CONSTANTS
  i1 = i1
  i2 = i2
  r1 = r1
  s1 = s1
  s2 = s2
  InReqs = {i1, i2}
  OutReqs = {}
  Streams = {s1, s2}
  StreamsOf <- InStreams
  Declared <- InLengths
  None = None
  MaxInflight = 1
  MaxStreamBuffers = 2
  MaxStreamSize = 2
  MaxRetained = 3
  Timeout = 1
  MaxChunk = 2
  MaxFrames = 5
INVARIANTS
  TypeOK
  BudgetsHold
  NoReadyMessageWaits
  AnsweredOnce
CHECK_DEADLOCK FALSE
