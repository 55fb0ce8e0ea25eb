SPECIFICATION Spec
CONSTANTS
  Short = 1
  Long = 2
  Limit = 2
  MaxFrames = 1
  MaxWrites = 1
INVARIANTS FramesWhole
CHECK_DEADLOCK FALSE
