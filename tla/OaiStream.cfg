SPECIFICATION Spec
CONSTANTS
  Frames <- MCFrames
  MaxFrames = 5
INVARIANTS
  NoTruncatedAnswer
  LogFaithful
PROPERTIES
  KeepsContract
\* a stream that has ended makes no further step
CHECK_DEADLOCK FALSE
