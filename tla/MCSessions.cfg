SPECIFICATION FairSessionSpec
CONSTANTS
  ann = ann
  bob = bob
  s1 = s1
  s2 = s2
  s3 = s3
  s4 = s4
  here = here
  there = there
  None = None
  User = {ann, bob}
  SessionId = {s1, s2, s3}
  Address = {here, there}
  AccessTicks = 1
  RefreshTicks = 2
  WindowTicks = 1
  MaxFailures = 2
  MaxCount = 3
CHECK_DEADLOCK FALSE
INVARIANTS
  OneLiveSession
  TokenUsedOnce
  FailuresBounded
PROPERTIES
  OverForGood
  LetInAgain
