SPECIFICATION FairSpec
CONSTANTS
  t1 = t1
  t2 = t2
  t3 = t3
  t4 = t4
  k1 = k1
  k2 = k2
  None = None
  Tasks = {t1, t2, t3, t4}
  Keys = {k1, k2}
  KeyOf <- MCKeyOf
  Cancels = TRUE
INVARIANTS SingleFetch NoStaleFuture
PROPERTY GetEnds
CHECK_DEADLOCK FALSE
