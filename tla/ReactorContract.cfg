SPECIFICATION FairSpec
CONSTANTS
  d1 = d1
  d2 = d2
  d3 = d3
  f1 = f1
  f2 = f2
  f3 = f3
  f4 = f4
  NULL = NULL
  Descs = {d1, d2}
  Fds = {f1, f2}
  Tabled = {f1, f2}
  NSlots = 2
  SqSize = 3
  Batch = 2
  Masks <- ReadWrite
  OpenMasks <- ReadWrite
  Remasked = {d2}
  ForeignMask = FALSE
  PeerBits <- InOut
  Failing = FALSE
CHECK_DEADLOCK FALSE
PROPERTIES
  ReadsServed
  WritesServed
  ClosedIsReleased
