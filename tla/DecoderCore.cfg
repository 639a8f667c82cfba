SPECIFICATION FairSpec
CONSTANTS
  NumPackets = 3
  SegmentOf <- TwoSegments
  Delay = 1
  MaxFrames = 2
  MaxSeeks = 2
  MaxControls = 1
INVARIANTS
  TypeOK
  BothSleepJustly
PROPERTIES
  ServesFrames
  DecodingEnds
