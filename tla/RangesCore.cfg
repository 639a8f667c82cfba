SPECIFICATION Spec
CONSTANTS
  Types <- MCTypes
  File <- MCFile
  MaxRanges = 2
  Setups <- MCSetups
INVARIANTS
  TypeOK
  CacheIsTrue
CHECK_DEADLOCK FALSE
