SPECIFICATION FairSpec
CONSTANTS
  NRequests = 5
  Bad = {5}
  Async = {3}
  RequestLen = 2
  ResponseLen = 2
  Threshold = 2
  SndBuf = 3
  Resets = TRUE
CHECK_DEADLOCK FALSE
INVARIANTS
  TypeOK
  AnsweredInOrder
  RefsCounted
  NoRequestForgotten
PROPERTIES
  RequestsServed
  ImplementsResponder
  ClosedIsSilent
