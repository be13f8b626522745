CONSTANTS
  OclIds = {o1, o2}
  Addresses = {a1, a2}
  NoOwner = NoOwner
  NoOcl = NoOcl
  MaxBlocks = 5
  MaxCrashes = 1
SPECIFICATION MCSpec
INVARIANTS
  TypeOK
  CurrentIsOnChainOwner
  PreviousLostTheToken
  NoServedOwnerForgotten
PROPERTIES
  DiffIsNetChange
  ImplementsMirror
  CatchesUp
CHECK_DEADLOCK FALSE
