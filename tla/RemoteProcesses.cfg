SPECIFICATION FairSpec
CONSTANTS
  Procs = {p1}
  Ops = {o1}
  OutboxLimit = 2
  MaxConns = 2
  MaxLines = 2
  MaxRestarts = 1
INVARIANT
  TypeOK
  CurrentIsNewest
  OkMeansExecuted
  NoSilentLoss
PROPERTIES
  IsProcessStream
  ExitArrives
CHECK_DEADLOCK FALSE
