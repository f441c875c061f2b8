\* Two clients, two pieces of output; a client is full at one unread event, so
\* that every event can pause the output.
SPECIFICATION FairSpec
CONSTANTS
  Client = {c1, c2}
  MaxData = 2
  PipeSize = 2
  HighWater = 1
INVARIANTS
  NoGap
  PauseHasReason
  ExitOnceAndLast
PROPERTIES
  OutputFlows
  AttachEnds
CHECK_DEADLOCK FALSE
