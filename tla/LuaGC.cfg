\* The collector's steps in any order with those of small programs.
CONSTANTS
  Objs <- MCObjs
  Main = 0
  Families <- MCFamilies
SPECIFICATION GCSpec
INVARIANTS NoDangling TriColour
PROPERTIES FinalizedOnce Collected
