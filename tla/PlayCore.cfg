SPECIFICATION Spec
CONSTANTS
  Setups <- Cases
  VideoLengths = {3, 4}
  Keyframes = {0, 2}
  AudioSpans <- MCSpans
  QueueSize = 2
  Targets = {1, 4}
  Amounts <- MCAmounts
  MaxCommands = 2
INVARIANT TypeOK
PROPERTIES RestartIsExact PlaybackGoesOn
CHECK_DEADLOCK FALSE
