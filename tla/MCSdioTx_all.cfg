SPECIFICATION FairSpec
CONSTANTS
  Wifi = Wifi
  Pserial = Pserial
  Resetter = Resetter
  TxDone = TxDone
  NoBlock = NoBlock
  TxQ = 2
  Spare = 2
  Writers <- MCWriters
  MaxFailures = 1
INVARIANTS BlockHasOneOwner PlacesAccounted
PROPERTIES SendersGetThrough AnnouncedAfterOpen
CHECK_DEADLOCK FALSE
