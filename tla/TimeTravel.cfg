CONSTANTS
  Irqs = {1}
  Frames = {"f", "g"}
  Steps = 3
  Costs = {1}
  Stride = 1
  MaxSnaps = 2
  LogMax = 3
  EthMax = 2
  MaxEvents = 2
  After = {}
SPECIFICATION Spec
INVARIANTS SeekExact
PROPERTIES  BackInTime
CHECK_DEADLOCK FALSE
