CONSTANTS
  Fold <- MCFold
  Within <- MCWithin
  TagNames <- MCTagNames
  TagOf <- MCTagOf
  TagText <- MCTagText
  Same <- MCSame
  Rules <- MCRules
  Members <- MCMembers
  Shuffled <- MCShuffled
  Bytes <- PageBytes
  Libraries <- MCLibraries
  Scenarios <- MCScenarios
  Answers <- LibraryAnswers
  Refusal <- Refused
  Unknown = 0
  DefaultSize = 2
  MaxSize = 3
  Window = 3
  HomeSize = 2
  RuleNodes = 4
  RuleDepth = 2
  Handlers = {1, 2}
  MaxEntries = 2
  MaxBytes = 6
SPECIFICATION Spec
INVARIANTS
  PageIsOfSnapshot
  CacheIsAccounted
  ListsAreWhole
  GroupsAreDetails
CHECK_DEADLOCK FALSE
