SPECIFICATION FairSpec
CONSTANTS
  payments = payments
  ws1 = ws1
  ws2 = ws2
  None = None
  Category <- MCCategory
  Socket <- MCSocket
  Callbacks <- MCCallbacks
  NoCallbacks <- MCNoCallbacks
  MaxReconnectAttempts = 1
  Keep = 1
  MaxId = 3
INVARIANTS
  OneLiveSocket
PROPERTIES
  MutedStaysSilent
  NothingComesBack
  EventuallyTrimmed
CHECK_DEADLOCK FALSE
