SPECIFICATION FairSpec
CONSTANTS
  m1 = m1
  m2 = m2
  NoMarker = NoMarker
  Markers <- TwoMarkers
  ConfirmFrames = 2
  RearmFrames = 3
  ReadLimit = 2
  MaxFrames = 6
  MaxWorkflows = 2
INVARIANTS
  ExitCancelsWorkflow
PROPERTIES
  TriggersOnSighting AdapterExits
CHECK_DEADLOCK FALSE
