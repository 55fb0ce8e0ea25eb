SPECIFICATION FairSpec
CONSTANTS
  c1 = c1
  c2 = c2
  k1 = k1
  k2 = k2
  p1 = p1
  Calls = {c1}
  Controls = {k1}
  Posts = {}
  NoOp = NoOp
  Failure = Failure
  CtlType <- OneType
INVARIANTS CallsCorrelate NoAnswerLost
PROPERTIES CancelUnblocks DisconnectUnblocks
