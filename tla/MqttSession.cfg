CONSTANTS
  Ids = {1}
  Worlds <- MCWorlds
  MaxMessages = 1
SPECIFICATION Spec
INVARIANTS InStep ClosedForCause
CHECK_DEADLOCK FALSE
