CONSTANTS
  Sign = 128
  Width = 8
  Regions <- MCRegions
  Blocks <- MCBlocks
  Starts <- MCStarts
SPECIFICATION Spec
CHECK_DEADLOCK FALSE
PROPERTIES SumsExact ShiftsExact ProductsExact BitsExact ItExact AccessExact RoundTripExact
