CONSTANTS
  OclIds = {o1, o2}
  Addresses = {w1, w2, safe}
  NoOwner = NoOwner
  Safes = {safe}
  Regular = Regular
  People = {w1, w2}
  Files = {f1, f2}
  DataRoom = DataRoom
  Levels = {"holder", "admin"}
  NoLevel = NoLevel
  Removed = Removed
  NoChange = NoChange
  MaxEvents = 3
  MaxSafeEvents = 2
  MaxCrashes = 1
SYMMETRY Symmetry
SPECIFICATION MCSpec
INVARIANTS
  TypeOK
  FormerOwnersLoseTheRoom
  RemovedFilesAreRevoked
  MembersKeepTheRoom
  OnlyMembersHaveTheRoom
PROPERTIES
  GrantsOnlyToOwners
  GrantsGoToAccounts
  AddedFilesAreGranted
CHECK_DEADLOCK FALSE
