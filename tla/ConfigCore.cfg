SPECIFICATION Spec
CONSTANTS
  vo = vo
  core = core
  none = none
  UpdateCaches = {vo}
  NextCaches = {core}
  RootCache = core
  None = none
  NumGroups = 3
  OptCount <- MCOptCount
  Start <- MCStart
  GroupCount <- MCGroupCount
  Values = {0, 1}
  Default = 0
  MaxTs = 2
INVARIANTS
  TypeOK
  StampTellsData
  UpdateSeesAll
  NoLateCallback
  NextLosesOnlyRaces
