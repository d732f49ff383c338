CONSTANTS
  Size = 4
  Window = 1
  Width = 12
  p1 = p1
  p2 = p2
  NoPacket = NoPacket
  Payloads <- MCPayloads
  Seqs <- MCAllSeqs
SPECIFICATION FairSpec
INVARIANTS WithinOneLap
PROPERTIES OnTimeOrOneLapLate FreshPacketSurvives HeadLeaves ImplementsReorderWindow
