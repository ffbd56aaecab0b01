SPECIFICATION Spec
CONSTANTS
  r1 = r1
  r2 = r2
  k1 = k1
  k2 = k2
  c1 = c1
  c2 = c2
  NoTask = NoTask
  NoId = NoId
  Ids <- TwoIds
  Tasks <- TwoTasks
  Calls <- TwoCalls
  Outcomes <- TwoOutcomes
  Capacity = 1
  LedgerCapacity = 1
  MaxRestarts = 0
  MaxExpiries = 0
  MaxResolutions = 0
  MaxShutdowns = 1
INVARIANTS
  TypeOK NoCancelLost ActiveStaysVisible
  MemoryAgreesWithLedger ShutdownLeavesNoOrphan
SYMMETRY GatewaySymmetry
CHECK_DEADLOCK FALSE
