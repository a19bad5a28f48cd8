SPECIFICATION Spec
CONSTANTS
  c1 = c1
  c2 = c2
  Ids = {i1}
  Clients = {c1, c2}
  None = None
  CodeTTL = 1
  AccessTTL = 2
  MaxTokens = 4
SYMMETRY ClientSymmetry
INVARIANTS
  OneAccessPerCode
  EndedStaysEnded
CHECK_DEADLOCK FALSE
