SPECIFICATION Spec
CONSTANTS
  d1 = d1
  Devices = {d1}
  None = None
INVARIANT PausedMeansClosed
CHECK_DEADLOCK FALSE
