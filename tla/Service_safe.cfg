SPECIFICATION Spec
CONSTANTS
  k1 = k1
  r1 = r1
  r2 = r2
  x1 = x1
  a = a
  b = b
  Connectors = {k1}
  Runners = {r1}
  Closers = {x1}
  Conns = {a, b}
  NoConn = NoConn
  Nobody = Nobody
  Delays = 3
CHECK_DEADLOCK FALSE
SYMMETRY Symmetric
INVARIANTS SInv OneConnection NoLeak GateOrder RunnerLeavesNothing BackoffFollowsSchedule
