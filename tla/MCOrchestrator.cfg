SPECIFICATION FairSpec
CONSTANTS
  w1 = w1
  w2 = w2
  w3 = w3
  NoGoal = NoGoal
  Goals <- TwoGoals
  MaxLoad = 5
INVARIANTS
  TypeOK ResultIsConfirmed UnsettledTaskIsReported LateTaskIsCanceled
  ExitLeavesNoWorkflow
PROPERTIES
  AcceptedCancelWins EverythingSettles
CHECK_DEADLOCK FALSE
