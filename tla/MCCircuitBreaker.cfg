SPECIFICATION FairSpec
CONSTANTS
  job = job
  http1 = http1
  http2 = http2
  Caller <- MCCaller
  HttpCaller <- MCHttpCaller
  FailureThreshold = 2
  SuccessThreshold = 2
  Timeout = 1
  MaxAttempts = 2
INVARIANT TypeOK
PROPERTIES
  OpenKeepsItsTime
  OnlySuccessCloses
  CallsReturn
  RecoversWhenUp
CHECK_DEADLOCK FALSE
