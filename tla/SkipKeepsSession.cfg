SPECIFICATION Spec
CONSTANTS
  a = a
  b = b
  c = c
  Tracks = {a, b, c}
  MaxQueue = 3
  Scenarios <- GivingUp
INVARIANTS
  HistoryIsOfCurrent
CHECK_DEADLOCK FALSE
