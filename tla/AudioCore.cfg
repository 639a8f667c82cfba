SPECIFICATION FairSpec
CONSTANTS
  Setups <- MCSetups
  Length = 3
  QueueSize = 2
  DeviceSize = 1
  MaxSeeks = 1
INVARIANTS
  TypeOK
  AoSleepsJustly
  DeviceIsRight
PROPERTIES
  PlaybackEnds
CHECK_DEADLOCK FALSE
