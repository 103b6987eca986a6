CONSTANTS
  Wrap = 3
  Window = 2
  First = {2}
  MaxFrames = 4
  MaxRequests = 1
SPECIFICATION FairSpec
INVARIANT AudioIsSafe
PROPERTY SessionEnds
CHECK_DEADLOCK FALSE
