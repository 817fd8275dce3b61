SPECIFICATION Spec
CONSTANTS
  Systems <- SmallSystems
  Capacities = {30, 100, 200, 400, 800, 1100, 1500}
  BatchSizes = {4, 12, 20}
  WordSpan = 65536
INVARIANT ResidentFits
INVARIANT NotOverCautious
CHECK_DEADLOCK FALSE
