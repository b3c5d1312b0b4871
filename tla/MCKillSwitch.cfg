SPECIFICATION KillSpec
CONSTANTS
  None = None
  Maker = Maker
  Checker = Checker
  c1 = c1
  c2 = c2
  c3 = c3
  Operators <- MCOperators
  Ids <- MCIds
  Asks <- MCAsks
  Switch <- MCSwitch
INVARIANTS StopIsKept
PROPERTIES StopReachesPayments
