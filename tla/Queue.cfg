SPECIFICATION FairSpec
CONSTANTS
  a = a
  b = b
  c = c
  Tracks = {a, b, c}
  MaxQueue = 3
  Scenarios <- MCScenarios
INVARIANTS
  IndexInRange
  HeardIsCurrent
  HistoryIsOfCurrent
PROPERTIES
  EditsKeepCurrent
  AcknowledgedSurvives
  TimerHoldsTrack
  SkipTriesAll
  SkipEnds
CHECK_DEADLOCK FALSE
