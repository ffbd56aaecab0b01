SPECIFICATION FairSpec
CONSTANTS
  t1 = t1
  t2 = t2
  NoTask = NoTask
  Tasks <- OneTask
  MaxFaults = 2
  MaxMisses = 1
INVARIANTS
  OrphansAreReported
PROPERTIES
  EveryTaskSettles ShutdownCompletes
CHECK_DEADLOCK FALSE
