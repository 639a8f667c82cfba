SPECIFICATION FairSpec
CONSTANTS
  MaxImages = 2
  MaxDraws = 2
  MaxShots = 1
  Advanced <- BothModes
INVARIANTS
  TypeOK
  ContextOutlivesUse
  ApplicationIsTold
PROPERTY EverybodyReturns
