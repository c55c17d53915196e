SPECIFICATION Spec
CONSTANTS
  main = main
  Coroutines = {c1,c2}
  BASIC_CI_SIZE = 2
  LUAI_MAXCALLS = 5
  LUAI_MAXCCALLS = 3
  EXTRACCALLS = 1
  MaxNative = 8
INVARIANTS DepthCounted StacksAgree StatusHonest
SYMMETRY Sym
