SPECIFICATION FairSpec
CONSTANTS
  p1 = p1
  p2 = p2
  p3 = p3
  r1 = r1
  r2 = r2
  r3 = r3
  r4 = r4
  acct = acct
  Accounts = {acct}
  Target <- MCTarget
  AccountOf <- MCAccountOf
  NumActions <- MCNumActions
  Plans = {p1}
  Requests = {r1, r2}
  MaxActions = 2
  RateLimit = 1
  MaxInFlight = 2
  HasExecutor = TRUE
  RollbackEnabled = TRUE
  HasMarker = TRUE
  DBFaults = TRUE
  Crashes = TRUE
INVARIANTS AuditTruthful NoCallBeforeApproval SingleBegin
PROPERTIES NoResurrection AbandonedIsLeft RequestEnds
CHECK_DEADLOCK FALSE
