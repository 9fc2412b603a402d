SPECIFICATION Spec
CONSTANTS
  d1 = d1
  d2 = d2
  d3 = d3
  f1 = f1
  f2 = f2
  f3 = f3
  f4 = f4
  NULL = NULL
  Descs = {d1, d2, d3}
  Fds = {f1, f2, f3, f4}
  Tabled = {f1, f2, f3}
  NSlots = 2
  SqSize = 2
  Batch = 2
  Masks <- ReadWrite
  OpenMasks <- ReadOnly
  Remasked = {d3}
  ForeignMask = TRUE
  PeerBits <- InOnly
  Failing = TRUE
SYMMETRY Sym12
CHECK_DEADLOCK FALSE
INVARIANTS
  TypeOK
  SlotOwnership
  Watched
  InFlightIsBacked
  AtMostTwoPolls
PROPERTY OpenIsRegistered
