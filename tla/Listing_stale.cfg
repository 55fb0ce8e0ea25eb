SPECIFICATION ListSpec
CONSTANTS
  N = 3
  PageSize = 2
  MaxPages = 2
  MaxListings = 2
  MaxChanges = 1
  MaxFaults = 1
INVARIANTS NeverTruncated
CHECK_DEADLOCK FALSE
