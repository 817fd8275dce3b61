SPECIFICATION FairSpec
CONSTANTS
  Models <- MCModels
  HighFloor = 2
  HighToken = 1
  LowFloor = 1
  LowToken = 2
  MaxIterations = 2
INVARIANTS
  CountsAddUp
  SplitBestOfPrefixes
  CurLayerIsLayer
PROPERTY
  RoutingEnds
CHECK_DEADLOCK FALSE
