CONSTANTS
  LastBlock = 8
  LastWindow = 2
SPECIFICATION Spec
INVARIANTS
  TypeOK
  ChunksAreContiguous
  SuccessIsComplete
  WorkIsBounded
PROPERTIES
  WorkShrinks
CHECK_DEADLOCK FALSE
