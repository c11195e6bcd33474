CONSTANTS
  Byte = {1, 2}
  Junk = 0
  Strings <- MCStrings
  Sizes = {0, 1, 2, 3}
  MaxTotal = 5
  ReallocFails = TRUE
  ShrinkFails = FALSE
SPECIFICATION Spec
CHECK_DEADLOCK FALSE
INVARIANTS
  TypeOK
  NothingLost
  DataPointer
PROPERTIES
  ImplementsDeque
