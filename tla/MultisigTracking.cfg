CONSTANTS
  Wallets = {w1}
  People = {p1, p2}
  Regular = Regular
  Undeployed = Undeployed
  NoWallet = NoWallet
  MaxBlocks = 6
  MaxCrashes = 1
SPECIFICATION Spec
INVARIANTS
  TypeOK
  TrackedOwnersAreRecent
  TrackedOwnersConverge
  FormerOwnersWereRemoved
  NoReportedOwnerForgotten
CHECK_DEADLOCK FALSE
