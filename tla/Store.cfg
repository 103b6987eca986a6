SPECIFICATION Spec
CONSTANTS
  v1 = v1
  v2 = v2
  music = music
  radio = radio
  mix = mix
  best = best
  rules = rules
  s1 = s1
  w1 = w1
  w2 = w2
  Tracks = {1, 2, 3, 4}
  Sources = {music, radio}
  Lists = {mix, best}
  RuleSets = {rules}
  Values = {v1, v2}
  DefaultLimit = v1
  Separators = {"plain", "split"}
  DefaultSeparators = "plain"
  PlayIDs = {s1}
  Keep = 2
  Seeds <- MCSeeds
  SourceOf <- MCSourceOf
  Duration <- MCDuration
  ArtistsOf <- MCArtistsOf
  Writers = {w1, w2}
  Scenarios <- MCScenarios
  Times = {1, 2}
INVARIANTS
  DiskIsMemory
  SessionCountsOnce
PROPERTIES
  ImplementsLibrary
SYMMETRY Alike
CHECK_DEADLOCK FALSE
