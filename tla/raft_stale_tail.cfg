CONSTANTS
  Node = {a, b, c}
  None = None
  Cmd = {x}
  Mode = "baseline"
  Deaf = {}
  MaxTerm = 2
  MaxLog = 1
  MaxInFlight = 2
SPECIFICATION Spec
SYMMETRY Sym
VIEW View
PROPERTIES CommitNeedsMajority
CHECK_DEADLOCK FALSE
