SPECIFICATION FairSpec
CONSTANTS
  MaxLen = 2
  Reloads = {0, 3}
  MaxRun = 4
  Native = TRUE
INVARIANTS
  TypeOK
  TickExact
  OneReloadPerChain
  PendsvPrompt
  RunExact
PROPERTY
  RunReturns
