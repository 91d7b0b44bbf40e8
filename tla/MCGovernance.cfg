SPECIFICATION Spec
CONSTANTS
  s1 = s1
  s2 = s2
  s3 = s3
  analytics = analytics
  pause = pause
  NoAddress = NoAddress
  Address <- MCAddress
  Signer <- MCSigner
  Contract <- MCContract
  Action <- MCAction
  Quorums <- MCQuorums
  VotingPeriods <- MCVotingPeriods
  MaxU64 = 3
  MaxProposals = 2
SYMMETRY Symmetry
INVARIANTS
  TypeOK
  TallyCountsBallots
  DecisionStands
  EmptyWindowNeverPasses
PROPERTIES
  BallotsAreFinal
  ImplementsReferendum
CHECK_DEADLOCK FALSE
