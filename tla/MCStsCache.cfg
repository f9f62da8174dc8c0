SPECIFICATION FairSpec
CONSTANTS
  g1 = g1
  g2 = g2
  g3 = g3
  a1 = a1
  None = None
  Gets = {g1, g2, g3}
  Accounts = {a1}
  AccountOf <- MCAccountOf
INVARIANTS OneAssumeRole NoDroppedToken
PROPERTY GetEnds
CHECK_DEADLOCK FALSE
