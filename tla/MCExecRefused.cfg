SPECIFICATION Spec
CONSTANTS
  p1 = p1
  p2 = p2
  p3 = p3
  r1 = r1
  r2 = r2
  r3 = r3
  r4 = r4
  acct = acct
  Accounts = {acct}
  Target <- MCTarget
  AccountOf <- MCAccountOf
  NumActions <- MCNumActions
  Plans = {p1}
  Requests = {r1, r2}
  MaxActions = 1
  RateLimit = 2
  MaxInFlight = 2
  HasExecutor = TRUE
  RollbackEnabled = FALSE
  HasMarker = TRUE
  DBFaults = FALSE
  Crashes = FALSE
INVARIANT RefusedRunsNothing
CHECK_DEADLOCK FALSE
