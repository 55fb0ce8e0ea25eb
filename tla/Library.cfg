SPECIFICATION LibrarySpec
CONSTANTS
  Rows = {0, 1, 2}
  Types <- Every
  MaxFields = 2
  GoValues <- SomeValues
  Registries = {ra, rb}
  ra = ra
  rb = rb
  MsgTypes = {20, 21}
  MaxRegistrations = 3
  MaxPart = 3
  MaxArgument = 2
  MaxBase = 5
  N = 5
  PageSize = 2
  MaxPages = 2
  MaxListings = 2
  MaxChanges = 2
  MaxFaults = 1
INVARIANTS
  WholeIsKept CutIsNoticed
  CustomIsKept TablesAgree
  ParsedIsText SentIsMeant
  FreshIsRight
CHECK_DEADLOCK FALSE
