SPECIFICATION FairSpec
CONSTANTS
  MaxRunners = 2
  MaxCalls = 2
  Entry = 1
INVARIANT
  OneProcessPerSession
  JoinSeesCommands
  ClosedStaysClosed
PROPERTIES
  EveryCallEnds
CHECK_DEADLOCK FALSE
