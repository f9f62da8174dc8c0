SPECIFICATION GateFairSpec
CONSTANTS
  describe = describe
  list = list
  restart = restart
  invented = invented
  NoPlan = NoPlan
  READ_ONLY_TOOLS = {describe, list}
  WRITE_TOOLS = {restart}
  UnlistedTools = {invented}
  maxToolIterations = 3
  MaxUses = 2
  Dims <- MCDims
  Scores = {0, 3, 4}
  MaxSamples = 2
  PassThreshold = 18
  WarnFloor = 17
INVARIANTS BooksMatchConversation PreconditionsWereObserved PlanOfCleanRun VerdictMatchesCards
PROPERTY RunEnds
CHECK_DEADLOCK FALSE
