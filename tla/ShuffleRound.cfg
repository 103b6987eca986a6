SPECIFICATION Spec
CONSTANTS
  Tracks = {a, b, c}
  MaxQueue = 4
INVARIANTS
  StopsWhenComplete
PROPERTIES
  OncePerRound
  NoRepeatAcrossRounds
CHECK_DEADLOCK FALSE
