CONSTANTS
  Irqs = {0}
  Prios = {0}
  Ram = {3, 4, 5, 6}
  MspInit = 7
  PspInit = 4
  MaxPush = 0
  ItMax = 0
  NvicWired = TRUE
  Uses = {"nested"}
SPECIFICATION Spec
INVARIANT HandlerCodeInHandlerMode
