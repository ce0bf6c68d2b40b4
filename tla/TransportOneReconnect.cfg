SPECIFICATION Spec
CONSTANTS
  BufferSize = 2
  OutboxLimit = 2
  HalfOpen = FALSE
  Greets = TRUE
  MaxConn = 2
  MaxEmit = 4
  MaxSend = 0
INVARIANTS
  MissedAreReplayed
CHECK_DEADLOCK FALSE
