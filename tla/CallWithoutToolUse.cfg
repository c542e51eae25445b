SPECIFICATION Spec
CONSTANTS
  Frames <- MCFrames
  MaxFrames = 4
INVARIANTS
  CallMeansToolUse
\* a stream that has ended makes no further step
CHECK_DEADLOCK FALSE
