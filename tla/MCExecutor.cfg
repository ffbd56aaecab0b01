SPECIFICATION Spec
CONSTANTS
  t1 = t1
  t2 = t2
  NoTask = NoTask
  Tasks <- TwoTasks
  MaxFaults = 0
  MaxMisses = 0
INVARIANTS
  TypeOK EventsTellTheTruth CanceledIsConfirmed CompletedIsConfirmed
  OrphansAreReported LateAcceptanceIsCanceled OneTaskAtATime
SYMMETRY TaskSymmetry
CHECK_DEADLOCK FALSE
