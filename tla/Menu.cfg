CONSTANTS
  NULL = NULL
  m1 = m1
  m2 = m2
  m3 = m3
  e1 = e1
  e2 = e2
  e3 = e3
  audio = audio
  debug = debug
  brack = brack
  boot = boot
  sounddev = sounddev
  Menus <- MCMenus
  Entries <- MCEntries
  Names <- MCNames
  Adders <- MCAdders
  AddCalls <- MCAddCalls
  Boot = boot
  Gui = gui
SPECIFICATION FairSpec
INVARIANTS MutualExclusion ListsIntact
PROPERTIES ImplementsMenuList CallsComplete
CHECK_DEADLOCK FALSE
