SPECIFICATION FairSpec
CONSTANTS
  w1 = w1
  w2 = w2
  w3 = w3
  j1 = j1
  j2 = j2
  none = none
  Workers <- MCWorkers
  Jobs = {j1, j2}
  None = none
  InitThreads = {0, 1}
  MinThreads = 1
  MaxThreads = 2
  MaxWork = 2
INVARIANTS
  TypeOK
  NoJobSleptOver
PROPERTIES
  PoolDelivers
CHECK_DEADLOCK FALSE
