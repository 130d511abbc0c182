CONSTANTS
  Sign = 128
  Width = 8
  Regions <- MCRegions
  SramBase = 64
  Blocks <- MCBlocks
  Starts <- MCStarts
SPECIFICATION Spec
CHECK_DEADLOCK FALSE
INVARIANT CalleeSaved
PROPERTIES RunsAsInterpreted Returns
