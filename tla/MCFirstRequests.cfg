SPECIFICATION FairLimiterSpec
CONSTANTS
  r1 = r1
  r2 = r2
  r3 = r3
  Task <- MCTask
  Limit = 3
  MaxCount = 3
INVARIANT FirstRequestsSucceed
CHECK_DEADLOCK FALSE
