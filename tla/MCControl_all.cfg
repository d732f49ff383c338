SPECIFICATION Spec
CONSTANTS
  Timers = {t1, t2, t3}
  NoTimer = NoTimer
  CommandLimit = 3
  QueueLimit = 2
  MaxRequests = 5
  MaxEvents = 1
INVARIANT RestartsIntoImage
PROPERTIES MonitorStops HeartbeatStops ActivationRestarts
CHECK_DEADLOCK FALSE
