SPECIFICATION Spec
CONSTANTS
  start1 = start1
  start2 = start2
  stop1 = stop1
  stop2 = stop2
  Starts = {start1, start2}
  Stops = {stop1, stop2}
  Conns = {1, 2, 3}
  Initial = Initial
  None = None
  MaxStrays = 2
PROPERTY ReadyMeansConnected
CHECK_DEADLOCK FALSE
