CONSTANTS
  a = a
  Node = {a, b, c}
  None = None
  Cmd = {x}
  Mode = "crossfault"
  Deaf = {a}
  MaxTerm = 2
  MaxLog = 1
  MaxInFlight = 2
SPECIFICATION Spec
SYMMETRY Sym
VIEW View
PROPERTIES OneWayNodeCannotDisrupt
CHECK_DEADLOCK FALSE
