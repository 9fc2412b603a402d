SPECIFICATION Spec
CONSTANTS
  NCpus = 3
  MaxSignals = 3
CHECK_DEADLOCK FALSE
INVARIANTS
  TypeOK
  NoFault
  EverythingReturned
  SignalsHeard
  SupervisesAll
  ServesAndTold
