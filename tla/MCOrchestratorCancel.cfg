SPECIFICATION Spec
CONSTANTS
  w1 = w1
  w2 = w2
  w3 = w3
  NoGoal = NoGoal
  Goals <- ThreeGoals
  MaxLoad = 6
PROPERTY
  AcceptedCancelWins
SYMMETRY GoalSymmetry
CHECK_DEADLOCK FALSE
