SPECIFICATION Spec
CONSTANTS
  u1 = u1
  u2 = u2
  silent = silent
  h1 = h1
  h2 = h2
  short = short
  NoAddress = NoAddress
  NoEpoch = NoEpoch
  Address <- MCAddress
  Signer <- MCSigner
  Hash <- MCHash
  Bytes <- MCBytes
  MaxEpoch = 3
  MaxTime = 2
  MaxVersion = 2
INVARIANTS
  TypeOK
  ReadersAgree
PROPERTIES
  AnswersStand
  SwitchesHold
  ImplementsLedger
CHECK_DEADLOCK FALSE
