SPECIFICATION Spec
CONSTANTS
  Configs = {c1, c2}
  NoConfig = NoConfig
  MaxRequests = 8
  MaxLosses = 1
INVARIANTS UnappliedIsRemembered SettledAgrees
PROPERTIES CachedIsApplied ConnectIsAnswered
CHECK_DEADLOCK FALSE
