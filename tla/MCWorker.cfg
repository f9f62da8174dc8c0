SPECIFICATION LifecycleFairSpec
CONSTANTS
  e1 = e1
  e2 = e2
  u1 = u1
  u2 = u2
  NoEvent = NoEvent
  NoRequest = NoRequest
  Events = {e2}
  Stamped = {}
  Stamp <- MCStamp
  MaxStamp = 1
  Users = {u1}
  Wanted = {"open", "acknowledged", "resolved"}
  MaxRows = 2
  BatchSize = 1
  DBFaults = FALSE
  c1 = c1
  c2 = c2
  l1 = l1
  l2 = l2
  Callers = {c1, c2}
  Free = Free
  Loops = {l1, l2}
  NoLoop = NoLoop
INVARIANTS OneLoop StopJoins
PROPERTIES AlertSpec CallsEnd RunningWorkerDrains
CHECK_DEADLOCK FALSE
