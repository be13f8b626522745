CONSTANTS
  OclIds = {o1}
  Addresses = {w1, w2, safe}
  NoOwner = NoOwner
  Safes = {safe}
  Regular = Regular
  People = {w1, w2}
  Files = {f1, f2}
  DataRoom = DataRoom
  Levels = {"holder", "admin"}
  NoLevel = NoLevel
  Removed = Removed
  NoChange = NoChange
  MaxEvents = 3
  MaxSafeEvents = 0
  MaxCrashes = 1
SPECIFICATION Spec
INVARIANTS
  FormerOwnersLoseFiles
CHECK_DEADLOCK FALSE
