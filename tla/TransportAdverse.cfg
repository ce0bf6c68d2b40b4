SPECIFICATION Spec
CONSTANTS
  BufferSize = 2
  OutboxLimit = 2
  HalfOpen = TRUE
  Greets = TRUE
  MaxConn = 3
  MaxEmit = 3
  MaxSend = 0
INVARIANTS
  NewestIsBound
  MissedWithinRepeats
PROPERTIES
  GapOrComplete
CHECK_DEADLOCK FALSE
