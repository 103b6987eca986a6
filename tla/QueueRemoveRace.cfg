SPECIFICATION Spec
CONSTANTS
  a = a
  b = b
  c = c
  Tracks = {a, b, c}
  MaxQueue = 2
  Scenarios <- Removing
INVARIANTS
  IndexInRange
CHECK_DEADLOCK FALSE
