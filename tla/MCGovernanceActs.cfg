SPECIFICATION Spec
CONSTANTS
  u1 = u1
  h1 = h1
  GovernanceAddress = GovernanceAddress
  AnalyticsAddress = AnalyticsAddress
  NoAddress = NoAddress
  User <- MCUser
  Target <- MCTarget
  ProposedAdmin <- MCProposedAdmin
  Hash <- MCHash
  Quorums = {1}
  VotingPeriods = {1}
  MaxTime = 1
  MaxProposals = 2
  MaxEpoch = 1
PROPERTY
  GovernanceActsByProposal
CHECK_DEADLOCK FALSE
