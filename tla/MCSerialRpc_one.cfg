SPECIFICATION FairSpec
CONSTANTS
  BufSize = 3
  QMax = 3
  Window = 1
  MaxFrags = 3
  MaxRequests = 4
  MaxRestarts = 0
  MaxEvents = 4
PROPERTIES ImplementsRpcChannel AnsweredOrStuck
CHECK_DEADLOCK FALSE
