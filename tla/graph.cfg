SPECIFICATION FairSpec
CONSTANTS
  Layers <- DenseThenMoE
  num_shared_expert = 1
  num_total_device = 4
  ne_tp_dg = 2
  e_tp_dg = 4
  Durations = {0, 1}
INVARIANTS
  SyncedTogether
  MarksAreUsed
  CountsOfThisLayer
PROPERTIES
  ClocksMoveAtSync
  IterationEnds
