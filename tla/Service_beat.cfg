SPECIFICATION Spec
CONSTANTS
  k1 = k1
  r1 = r1
  r2 = r2
  x1 = x1
  a = a
  b = b
  Connectors = {}
  Runners = {r1}
  Closers = {}
  Conns = {a, b}
  NoConn = NoConn
  Nobody = Nobody
  Delays = 3
CHECK_DEADLOCK FALSE
INVARIANTS HeartbeatsGoOn
