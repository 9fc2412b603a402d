SPECIFICATION FairSpec
CONSTANTS
  Parent = Parent
  N = 1
  Servers = {"http"}
  Failures = FALSE
CHECK_DEADLOCK FALSE
PROPERTY ShutdownEndsParent
