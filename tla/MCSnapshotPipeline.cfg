SPECIFICATION FairSpec
CONSTANTS
  r1 = r1
  r2 = r2
  u1 = u1
  h1 = h1
  h2 = h2
  other = other
  NoAddress = NoAddress
  NoEpoch = NoEpoch
  Request <- MCRequest
  Address <- MCAddress
  Signer <- MCAddress
  OwnHash <- MCOwnHash
  OtherHash <- MCOtherHash
  MaxEpoch = 2
  MaxI64 = 1
  MaxTime = 0
  MaxVersion = 1
INVARIANTS
  TypeOK
  VerifiedIsAnchored
  AnchoredIsStored
PROPERTY RequestsEnd
CHECK_DEADLOCK FALSE
