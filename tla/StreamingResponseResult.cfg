SPECIFICATION Spec
CONSTANTS
  MaxChunks = 3
  MaxUpdates = 2
  MaxResets = 1
INVARIANT ResultIsTrue
CHECK_DEADLOCK FALSE
