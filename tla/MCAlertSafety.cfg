SPECIFICATION Spec
CONSTANTS
  e1 = e1
  e2 = e2
  u1 = u1
  u2 = u2
  NoEvent = NoEvent
  NoRequest = NoRequest
  Events = {e1, e2}
  Stamped = {e1}
  Stamp <- MCStamp
  MaxStamp = 1
  Users = {u1, u2}
  Wanted <- Targets
  MaxRows = 2
  BatchSize = 1
  DBFaults = TRUE
  INVARIANTS OneRowPerStampedEvent AckedIsStored VerdictNeedsAck
PROPERTY OnlyLateWriteReopens
CHECK_DEADLOCK FALSE
