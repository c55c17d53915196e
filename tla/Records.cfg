CONSTANTS
  Values <- TwoValues
  Handles = {h1, h2}
  None = None
  SemMax = 2
  Wrap = 16777216
  Times <- TwoTimes
  Jitter = 47
  Pauses = {1000, 16777424}
  Skips = {1, 60}
  Lapses = {208, 5000}
  MaxFaults = 1
SPECIFICATION RecSpec
INVARIANTS NoHandleLost LogKept FileServes TimeIsRight HoldsFields
PROPERTIES FunctionsAgree CompilesRight VisitsOnce
CHECK_DEADLOCK FALSE
