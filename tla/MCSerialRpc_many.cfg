SPECIFICATION FairSpec
CONSTANTS
  BufSize = 2
  QMax = 2
  Window = 2
  MaxFrags = 2
  MaxRequests = 3
  MaxRestarts = 1
  MaxEvents = 1
INVARIANTS TypeOK OneRequestPerMessage PartsOnceInOrder QueuedRequestHoldsBuffer
PROPERTIES BufferComesFree
CHECK_DEADLOCK FALSE
