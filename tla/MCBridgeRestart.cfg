SPECIFICATION Spec
CONSTANTS
  g1 = g1
  g2 = g2
  p1 = p1
  NoGoal = NoGoal
  Goals <- MCGoals
  Payloads <- MCPayloads
  DeviceModes <- TwoModes
  GoalIds <- AppGoalIds
  StopIdMin = 3
  WireIdMax = 4
  CacheCapacity = 3
  MaxRestarts = 1
INVARIANTS
  CarriedAtMostOnce CompletedIsCarried
SYMMETRY GoalSymmetry
CHECK_DEADLOCK FALSE
