CONSTANTS
  Node = {a, b, c}
  None = None
  Cmd = {x}
  Mode = "prevote"
  Deaf = {}
  MaxTerm = 2
  MaxLog = 0
  MaxInFlight = 3
SPECIFICATION Spec
SYMMETRY Sym
VIEW View
INVARIANTS ElectionSafety
CHECK_DEADLOCK FALSE
