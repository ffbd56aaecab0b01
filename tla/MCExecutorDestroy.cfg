SPECIFICATION Spec
CONSTANTS
  t1 = t1
  t2 = t2
  NoTask = NoTask
  Tasks <- OneTask
  MaxFaults = 0
  MaxMisses = 0
INVARIANT
  DestroyedWhenDrained
CHECK_DEADLOCK FALSE
