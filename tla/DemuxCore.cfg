SPECIFICATION FairSpec
CONSTANTS
  v = v
  a = a
  sub = sub
  Streams = {v, a, sub}
  Subs = {sub}
  File <- MCFile
  Starts <- MCStarts
  Targets <- MCTargets
  MaxForward = 2
  MinSecs = 1
  MaxCommands = 2
  Seekables = {TRUE, FALSE}
INVARIANTS
  TypeOK
  StreamsAreComplete
PROPERTIES
  NobodyWaitsForEver
CHECK_DEADLOCK FALSE
