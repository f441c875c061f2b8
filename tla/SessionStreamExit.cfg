SPECIFICATION Spec
CONSTANTS
  Client = {c1}
  MaxData = 2
  PipeSize = 2
  HighWater = 1
INVARIANTS
  AllOutputBeforeExit
CHECK_DEADLOCK FALSE
