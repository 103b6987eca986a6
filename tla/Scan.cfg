SPECIFICATION FairSpec
CONSTANTS
  main = main
  nas = nas
  a = a
  b = b
  c = c
  Sources = {main, nas}
  Files = {a, b, c}
  SourceOf <- MCSourceOf
  Contents = {1, 2}
  Albums <- MCAlbums
  Separators = {"plain", "split"}
  NoAlbum = "none"
  Pictured = {a}
  Disks <- MCDisks
  Libraries <- MCLibraries
  Scenarios <- MCScenarios
  MaxTracks = 4
INVARIANTS
  EditsSurviveScan
  OneTrackPerFile
  ScanReflectsDisk
PROPERTIES
  OnlyAbsentGoMissing
  ScanEnds
CHECK_DEADLOCK FALSE
