SPECIFICATION FairSpec
CONSTANTS
  BufferSize = 2
  OutboxLimit = 2
  HalfOpen = FALSE
  Greets = FALSE
  MaxConn = 3
  MaxEmit = 0
  MaxSend = 3
INVARIANTS
  TypeOK
  OneSocketOrTimer
  EnvelopesOnceInOrder
  OutcomeMatchesExecution
PROPERTIES
  ExpiresOnlyWhenGone
  OutboxFlushed
CHECK_DEADLOCK FALSE
