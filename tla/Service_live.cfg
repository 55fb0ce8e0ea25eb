SPECIFICATION ConnectingSpec
CONSTANTS
  k1 = k1
  r1 = r1
  r2 = r2
  x1 = x1
  a = a
  b = b
  Connectors = {k1}
  Runners = {r1}
  Closers = {}
  Conns = {a}
  NoConn = NoConn
  Nobody = Nobody
  Delays = 3
  HeaderLimit = 3
  Behind = 3
INVARIANTS NothingLeftBehind StreamIntact
CHECK_DEADLOCK FALSE
PROPERTIES GateOpens RunnerStops RunnerReconnects DialEnds
