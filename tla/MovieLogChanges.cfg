CONSTANTS
  Values = {0, 1}
  Handles = {h1, h2}
  None = None
  SemMax = 2
SPECIFICATION Spec
INVARIANT ChangesKnown
