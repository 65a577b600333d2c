SPECIFICATION FairSpec
CONSTANTS
  c1 = c1
  c2 = c2
  graph = graph
  github = github
  MaxTurns = 3
  MaxOverlap = 2
  Conversations <- MCConversations
  Home = c1
  Route <- MCRoute
  MaxAttempts = 1
  None = None
INVARIANTS
  TypeOK
  SessionIsWhatUserKnows
  RunsSignedIn
  ResumesOnce
  TruthfulReply
PROPERTY TurnsEnd
CHECK_DEADLOCK FALSE
