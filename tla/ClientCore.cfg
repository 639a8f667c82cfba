SPECIFICATION FairSpec
CONSTANTS
  h1 = h1
  h2 = h2
  p1 = p1
  p2 = p2
  Handles = {h1, h2}
  Props = {p1, p2}
  Values = {"a", "b"}
  MaxEvents = 2
  Setups <- MCSetups
INVARIANTS
  TypeOK
  HandlesOutliveUse
  ClientsMissNothing
PROPERTIES
  PlayerEnds
CHECK_DEADLOCK FALSE
