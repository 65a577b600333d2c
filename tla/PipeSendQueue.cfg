SPECIFICATION FairSpec
CONSTANTS
  t1 = t1
  t2 = t2
  Turns <- MCTurns
  MaxConcurrent = 1
  MaxQueued = 2
  MaxBatch = 2
  MaxSends = 3
INVARIANTS
  TypeOK
  SlotsAreUsed
  AllOrNothing
  RelayOrder
PROPERTY EverySendSettles
CHECK_DEADLOCK FALSE
