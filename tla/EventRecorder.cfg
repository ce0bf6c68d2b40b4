SPECIFICATION FairSpec
CONSTANTS
  Stores = {s1, s2}
  PendingCap = 2
  WriteDeltas = TRUE
  MaxLines = 4
  MaxFailures = 2
INVARIANT
  TypeOK
  NothingLost
  OnceInOrder
  ParentIsTurn
PROPERTIES
  BufferDrains
CHECK_DEADLOCK FALSE
