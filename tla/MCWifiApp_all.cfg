SPECIFICATION FairSpec
CONSTANTS
  MaxRetry = 2
  MaxSets = 3
  MaxDrops = 3
INVARIANTS AttemptsBounded
PROPERTIES KeepsTrying WaiterReturns
CHECK_DEADLOCK FALSE
