SPECIFICATION FairSpec
CONSTANTS
  Parent = Parent
  N = 2
  Servers = {"http", "binary"}
  Failures = TRUE
CHECK_DEADLOCK FALSE
INVARIANTS
  TypeOK
  StartedInTurn
  BinaryJoinsAll
PROPERTIES
  ParentReleased
  HttpWorkerStops
  ParentFollows
