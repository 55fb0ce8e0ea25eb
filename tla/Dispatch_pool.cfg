SPECIFICATION ReaderSpec
CONSTANTS
  q1 = q1
  q2 = q2
  u1 = u1
  x1 = x1
  g1 = g1
  Requests = {q1, q2}
  Nesting = {q1, q2}
  Unparsed = {u1}
  Malformed = {x1}
  Events = {}
  Pings = {g1}
  NoMsg = NoMsg
  Capacity = 2
CHECK_DEADLOCK FALSE
INVARIANTS PoolInv AnsweredOnce
PROPERTIES EventsRunOrClose ReaderReturns NestedAnswered SlotsReturn
