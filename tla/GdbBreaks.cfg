CONSTANTS
  Addrs = {1, 2}
  Flow <- MCFlow
  Terminators = {2}
  Handlers = {2}
  BpMax = 2
  MaxLen = 2
  MaxSteps = 4
  MaxSent = 6
SPECIFICATION Spec
CHECK_DEADLOCK FALSE
PROPERTY BreaksAlways
