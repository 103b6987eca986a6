SPECIFICATION FairSpec
CONSTANTS
  MaxStarts = 2
  MaxRequests = 2
  EndCap = 1
  Continuous = TRUE
INVARIANTS
  OneTransport
  ReplyMeansQuiet
  ClosedStaysQuiet
  SessionIsCurrent
PROPERTIES
  ImplementsTransport
  LoadingResolves
  CloseCompletes
CHECK_DEADLOCK FALSE
