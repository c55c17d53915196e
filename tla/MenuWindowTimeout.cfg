CONSTANTS
  NoDialog = NoDialog
  Dialogs = {d1, d2}
  SemMax = 1
  TimeoutTime = 2
  HideTimes = {}
SPECIFICATION FairWindow
PROPERTIES IdleMenuTimesOut
CHECK_DEADLOCK FALSE
