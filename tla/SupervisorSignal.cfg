SPECIFICATION FairSpec
CONSTANTS
  Parent = Parent
  N = 1
  Servers = {"binary"}
  Failures = FALSE
CHECK_DEADLOCK FALSE
PROPERTY SignalEndsLoop
