SPECIFICATION Spec
CONSTANTS
  c1 = c1
  c2 = c2
  Conns = {c1, c2}
  Byte = 4
  MaxPayload = 4
  Codecs = {1, 2}
  AcceptMax = 1
  Rooms = {3, 10}
  Failures = TRUE
  Clients <- Programs
  PoolSize = 2
  SqSize = 2
  RecvSize = 6
INVARIANTS
  TypeOK
  RepliesInOrder
  NoPacketForgotten
  ListedIsOpen
  SlotsExclusive
  OneRecvAtTail
  RecvHasRoom
  InFlightIsReal
PROPERTY ThreadsStop
CHECK_DEADLOCK FALSE
