CONSTANTS
  Node = {a, b, c}
  None = None
  Cmd = {x}
  Mode = "prevote"
  Deaf = {}
  MaxTerm = 2
  MaxLog = 0
  MaxInFlight = 2
SPECIFICATION Spec
SYMMETRY Sym
VIEW View
CONSTRAINT FewElections
INVARIANTS NextIndexSet OnlyForgottenVotesSplit ElectionInv
CHECK_DEADLOCK FALSE
