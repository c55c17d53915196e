CONSTANTS
  NoDialog = NoDialog
  Dialogs = {d1, d2}
  SemMax = 1
  TimeoutTime = 2
  HideTimes = {2}
SPECIFICATION FairWindow
INVARIANTS DialogsTracked
PROPERTIES TaskServes
CHECK_DEADLOCK FALSE
