SPECIFICATION Spec
CONSTANTS
  c1 = c1
  c2 = c2
  k1 = k1
  k2 = k2
  p1 = p1
  Calls = {}
  Controls = {k1,k2}
  Posts = {p1}
  NoOp = NoOp
  Failure = Failure
  CtlType <- OneType
SYMMETRY Symmetric
INVARIANTS IInv StaleNeedsError
PROPERTIES TornIsFinal PromiseSpec
