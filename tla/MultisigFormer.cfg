CONSTANTS
  Wallets = {w1}
  People = {p1, p2}
  Regular = Regular
  Undeployed = Undeployed
  NoWallet = NoWallet
  MaxBlocks = 5
  MaxCrashes = 1
SPECIFICATION Spec
INVARIANTS
  FormerOwnersAreComplete
CHECK_DEADLOCK FALSE
