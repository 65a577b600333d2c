SPECIFICATION FairSpec
CONSTANTS
  typing = typing
  sending = sending
  buffering = buffering
  Together <- MCTogether
  Turns <- MCTurns
  ExpectReplies <- MCExpectReplies
  Kinds <- MCKinds
  MaxTimers <- MCMaxTimers
  MaxSends <- MCMaxSends
  MaxUpdates <- MCMaxUpdates
  Attempts = 2
  None = None
INVARIANTS
  TypeOK
  TranscriptSurvives
  NoTypingBehindMessage
  LoggedWasDelivered
PROPERTY
  TurnsComeToRest
CHECK_DEADLOCK FALSE
