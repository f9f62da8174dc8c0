SPECIFICATION FairSpec
CONSTANTS
  c1 = c1
  c2 = c2
  p1 = p1
  p2 = p2
  None = None
  Clients = {c1, c2}
  Publishers = {p1, p2}
  Capacity = 2
  MaxEvents <- MCMaxEvents
INVARIANT NoSendOnClosed
PROPERTIES StreamSpec PublishEnds ClosedLeaves
CHECK_DEADLOCK FALSE
