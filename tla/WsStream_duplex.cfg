SPECIFICATION Spec
CONSTANTS
  Short = 1
  Long = 3
  Limit = 3
  MaxFrames = 3
  MaxWrites = 2
INVARIANTS WritersInv InOrder RejectsExactly
CHECK_DEADLOCK FALSE
