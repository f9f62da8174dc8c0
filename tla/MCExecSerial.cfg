SPECIFICATION ViewSpec
CONSTANTS
  p1 = p1
  p2 = p2
  p3 = p3
  r1 = r1
  r2 = r2
  r3 = r3
  r4 = r4
  acct = acct
  Unread = Unread
  Accounts = {acct}
  Target <- MCTarget
  AccountOf <- MCAccountOf
  NumActions <- MCNumActions
  Plans = {p1, p2}
  Requests = {r1, r2, r3}
  MaxActions = 3
  RateLimit = 1
  MaxInFlight = 1
  HasExecutor = TRUE
  RollbackEnabled = TRUE
  HasMarker = TRUE
  DBFaults = FALSE
  Crashes = TRUE
INVARIANTS StatusMatchesAudit TrailNotBehindStatus
PROPERTY LedgerSpec
CHECK_DEADLOCK FALSE
