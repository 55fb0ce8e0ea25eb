SPECIFICATION Spec
CONSTANTS
  a1 = a1
  a2 = a2
  o1 = o1
  NoOp = NoOp
  Logins = {a1,a2}
  Logouts = {o1}
  Kinds = {"newDevice"}
  MaxRounds = 1
  MaxFaults = 0
INVARIANTS SubmitNamesChallenge
CHECK_DEADLOCK FALSE
