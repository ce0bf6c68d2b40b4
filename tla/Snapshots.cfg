SPECIFICATION FairSpec
CONSTANTS
  Windows = {w1, w2}
  MaxTrees = 2
  MaxConns = 2
  MaxChanges = 1
  MaxEntries = 2
  MaxFailures = 1
INVARIANT
  SubscriptionsAgree
  Fresh
PROPERTIES
  SnapshotArrives
CHECK_DEADLOCK FALSE
