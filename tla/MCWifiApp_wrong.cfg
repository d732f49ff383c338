SPECIFICATION FairSpec
CONSTANTS
  MaxRetry = 2
  MaxSets = 1
  MaxDrops = 0
PROPERTIES ConnectReturns
CHECK_DEADLOCK FALSE
