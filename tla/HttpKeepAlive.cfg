SPECIFICATION Spec
CONSTANTS
  NRequests = 2
  Bad = {}
  Async = {}
  RequestLen = 2
  ResponseLen = 2
  Threshold = 2
  SndBuf = 1
  Resets = FALSE
CHECK_DEADLOCK FALSE
INVARIANT KeptAlive
