SPECIFICATION Spec
CONSTANTS
  k1 = k1
  k2 = k2
  Callers = {c1, c2, c3}
  Keys = {k1, k2}
  Size <- Sizes
  Limits = {2, 3}
  NoKey = NoKey
SYMMETRY Symmetry
INVARIANTS
  LeaseHasFile
  ConvertedOnce
  TurnIsNotLost
  ClearedStaysAway
  ClearedIsRemoved
  LimitHolds
  TrimIsLoop
