CONSTANTS
  BUF_SIZE = 4
  Segments = {1, 2, 3, 5}
  Lengths = {1, 2, 4}
  MaxBytes = 11
  MAX_LOGS = 4
  MaxPushes = 9
  MaxFailures = 4
SPECIFICATION Spec
INVARIANTS TypeOK KeptReadable LogOrder
PROPERTIES StartEnds ImplementsFifo
CHECK_DEADLOCK FALSE
