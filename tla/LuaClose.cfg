\* The finalizers of lua_close and a collector that was marking.
CONSTANTS
  Objs <- MCObjs
  Main = 0
  Families <- MCFamilies
SPECIFICATION GCSpec
INVARIANTS NeverDangles
