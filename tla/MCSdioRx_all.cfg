SPECIFICATION FairSpec
CONSTANTS
  Buffers = 4
  Serial = Serial
  Bt = Bt
  Others = Others
  Bad = Bad
  NoPacket = NoPacket
  Configs <- MCConfigs
INVARIANTS RoomForPacket BuffersAccounted PermitsMatchQueues
PROPERTIES ThrottlingEnds SerialNotStarved
