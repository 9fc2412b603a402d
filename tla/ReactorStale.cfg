SPECIFICATION Spec
CONSTANTS
  d1 = d1
  d2 = d2
  d3 = d3
  f1 = f1
  f2 = f2
  f3 = f3
  f4 = f4
  NULL = NULL
  Descs = {d1, d2}
  Fds = {f1}
  Tabled = {f1}
  NSlots = 1
  SqSize = 2
  Batch = 2
  Masks <- ReadWrite
  OpenMasks <- ReadWrite
  Remasked = {}
  ForeignMask = FALSE
  PeerBits <- InOnly
  Failing = FALSE
CHECK_DEADLOCK FALSE
INVARIANT NoStaleDispatch
