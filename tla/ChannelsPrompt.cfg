SPECIFICATION Spec
CONSTANTS
  Keys = {k1}
  Channels = {a}
  HalfOpen = FALSE
  MaxConn = 3
  MaxRunner = 3
  MaxCalls = 2
INVARIANTS
  IndexesAgree
  StillSubscribed
  ExpiredForgotten
  OneProcess
CHECK_DEADLOCK FALSE
