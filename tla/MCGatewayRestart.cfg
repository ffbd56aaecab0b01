SPECIFICATION Spec
CONSTANTS
  r1 = r1
  r2 = r2
  k1 = k1
  k2 = k2
  c1 = c1
  c2 = c2
  NoTask = NoTask
  NoId = NoId
  Ids <- TwoIds
  Tasks <- OneTask
  Calls <- TwoCalls
  Outcomes <- TwoOutcomes
  Capacity = 1
  LedgerCapacity = 1
  MaxRestarts = 1
  MaxExpiries = 1
  MaxResolutions = 1
  MaxShutdowns = 0
INVARIANTS
  AtMostOneDispatch RowsCarryTheAnswer
SYMMETRY GatewaySymmetry
CHECK_DEADLOCK FALSE
