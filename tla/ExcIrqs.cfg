CONSTANTS
  Irqs = {0, 1}
  Prios = {0, 1}
  Ram = {5, 6}
  MspInit = 7
  PspInit = 4
  MaxPush = 0
  ItMax = 1
  NvicWired = TRUE
  Uses = {"basepri", "undefined"}
SPECIFICATION Spec
INVARIANTS TypeOK ActiveIsRunning
PROPERTIES NoInterruptDropped
