CONSTANTS
  Ids = {1}
  Worlds <- MCCutWorlds
  MaxMessages = 1
SPECIFICATION Spec
INVARIANT ReadFailureCloses
CHECK_DEADLOCK FALSE
