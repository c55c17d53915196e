CONSTANTS
  Built <- SomeTasks
  Kinds <- SomeKinds
  Objs = {1, 2}
  MaxQueue = 1
  Width = 2
  None = None
  TimedStart = 3
  MaxPicks = 5
SPECIFICATION SysSpec
INVARIANTS BootOrdered EventsKept EntriesSettle
PROPERTIES ShutdownEnds Hears
CHECK_DEADLOCK FALSE
