SPECIFICATION FairSpec
CONSTANTS
  a1 = a1
  a2 = a2
  o1 = o1
  NoOp = NoOp
  Logins = {a1,a2}
  Logouts = {o1}
  Kinds = {"mfa"}
  MaxRounds = 2
  MaxFaults = 1
CHECK_DEADLOCK FALSE
INVARIANTS SessionInv SubmitNamesChallenge SessionKept
PROPERTIES SlotReturns
