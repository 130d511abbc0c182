CONSTANTS
  Pcs = {0, 1, 2}
  Blocks = 2
  MaxLen = 2
  Threshold = 2
  Capacity = 6
  Unit = 2
  Slack = 1
  Codes <- NativeCodes
  MaxSteps = 3
SPECIFICATION Spec
INVARIANTS TypeOK LookupSound ThunksApart WithinBuffer NoOvershoot FreshCode EstimatedIsWhole
CHECK_DEADLOCK FALSE
