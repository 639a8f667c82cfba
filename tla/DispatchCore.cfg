SPECIFICATION Spec
CONSTANTS
  t1 = t1
  t2 = t2
  t3 = t3
  target = target
  none = none
  f1 = f1
  Threads = {t1, t2, t3}
  Target = target
  None = none
  Fns = {f1}
  Never = 2
  MaxItems = 2
  HookSets = {{}, {"wakeup_fn"}}
SYMMETRY MCSymmetry
INVARIANTS
  TypeOK
  TargetIsOwned
  NobodyWaitsInVain
PROPERTIES
  ImplementsService
