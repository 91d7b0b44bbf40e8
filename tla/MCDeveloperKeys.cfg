SPECIFICATION Spec
CONSTANTS
  alice = alice
  bob = bob
  None = None
  Account <- MCAccount
  MaxKey = 2
  MaxOrphans = 1
  MaxLists = 1
SYMMETRY Wallets
INVARIANTS
  ReplacedKeyIsDead
  OnlyItsOwnerRevokes
  LoadingEnds
CHECK_DEADLOCK FALSE
