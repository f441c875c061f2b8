\* Three frames and a Kill over a pipe of two buffers and a stream that is full at
\* two; a Write frame of two bytes pauses stdin, one byte less resumes it.
SPECIFICATION FairSpec
CONSTANTS
  MaxFrames = 3
  QueueLimit = 2
  PipeSize = 2
  HighWater = 2
  ChunkSize = 2
  HighMark = 2
  LowMark = 1
  HardLimit = 100
INVARIANTS
  InputInStep
  PtyInOrder
  BacklogBounded
PROPERTIES
  SubprocessEnds
CHECK_DEADLOCK FALSE
