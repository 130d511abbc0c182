CONSTANTS
  Irqs = {0}
  Prios = {0}
  Ram = {3, 5, 6}
  MspInit = 7
  PspInit = 4
  MaxPush = 2
  ItMax = 0
  NvicWired = TRUE
  Uses = {"psp"}
SPECIFICATION Spec
INVARIANTS ControlIntegrity LiveWordsIntact StackDiscipline
PROPERTIES ThreadResumes
