SPECIFICATION MCSpec
CONSTANTS
  g1 = g1
  g2 = g2
  p1 = p1
  NoGoal = NoGoal
  Goals <- MCGoals
  Payloads <- MCPayloads
  DeviceModes <- MCModes
  GoalIds <- AppGoalIds
  StopIdMin = 3
  WireIdMax = 4
  CacheCapacity = 2
  MaxRestarts = 0
INVARIANTS
  TypeOK SingleFlight CarriedAtMostOnce CompletedIsCarried ConfirmedStop
  CancelIsLegal LatchMatchesResult
PROPERTIES
  KeepsPromise StopAckAnswersStop EveryGoalSettles
CHECK_DEADLOCK FALSE
