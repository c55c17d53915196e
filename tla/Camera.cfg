CONSTANTS
  SemMax = 1
  PtpSteps <- Back
  FOCUS_MAX = 0
  MaxDelta = 3
  Setups <- MCSetups
  JobMax = 2
  Shooters = {"bracket", "stack"}
  MaxCount = 5
  MaxStep = 3
  StartAEs = {3}
  Pending = 2
  Refuses = TRUE
SPECIFICATION CamSpec
INVARIANTS OneCommand MovesAsAsked OneRelease BracketSymmetric
PROPERTIES StackEnds BracketEnds
CHECK_DEADLOCK FALSE
