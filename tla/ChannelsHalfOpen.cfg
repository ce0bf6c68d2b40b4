SPECIFICATION Spec
CONSTANTS
  Keys = {k1, k2}
  Channels = {a}
  HalfOpen = TRUE
  MaxConn = 3
  MaxRunner = 1
  MaxCalls = 1
INVARIANTS
  NoForeignChannel
  BroadcastReaches
CHECK_DEADLOCK FALSE
