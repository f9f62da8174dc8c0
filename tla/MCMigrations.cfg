SPECIFICATION FairSpec
CONSTANTS
  s1 = s1
  s2 = s2
  s3 = s3
  Servers = {s1, s2, s3}
  NumFiles = 3
  Plain = {1}
  Defects = {{}, {1}, {3}}
  Release <- MCRelease
  MaxFaults = 1
INVARIANTS NeverHalfMigrated RecordedInOrder AppliedOnce
PROPERTY AllComeUp
CHECK_DEADLOCK FALSE
