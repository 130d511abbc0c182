CONSTANTS
  Irqs = {1}
  Frames = {"f"}
  Steps = 2
  Costs = {0, 1}
  Stride = 1
  MaxSnaps = 2
  LogMax = 1
  EthMax = 1
  MaxEvents = 2
  After = {"run", "inject"}
SPECIFICATION FairSpec
INVARIANTS TypeOK SnapsSpaced FramesMatch
PROPERTIES CallReturns
CHECK_DEADLOCK FALSE
