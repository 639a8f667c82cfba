SPECIFICATION FairSpec
CONSTANTS
  t1 = t1
  t2 = t2
  target = target
  none = none
  Threads = {t1, t2}
  Target = target
  None = none
  Fns = {}
  Never = 2
  MaxItems = 1
  HookSets = {{}, {"wakeup_fn"}, {"onlock_fn"}}
PROPERTIES
  CallersReturn
