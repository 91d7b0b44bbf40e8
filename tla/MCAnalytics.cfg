SPECIFICATION Spec
CONSTANTS
  u1 = u1
  u2 = u2
  gov = gov
  h1 = h1
  h2 = h2
  NoAddress = NoAddress
  Address <- MCAddress
  Signer <- MCSigner
  Hash <- MCHash
  MaxEpoch = 3
  MaxTime = 2
SYMMETRY Symmetry
INVARIANTS
  TypeOK
  LatestEpochIsLast
PROPERTIES
  PausedLedgerIsFrozen
  ImplementsLedger
CHECK_DEADLOCK FALSE
