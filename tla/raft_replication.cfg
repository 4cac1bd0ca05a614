CONSTANTS
  Node = {a, b, c}
  None = None
  Cmd = {x}
  Mode = "baseline"
  Deaf = {}
  MaxTerm = 2
  MaxLog = 2
  MaxInFlight = 2
SPECIFICATION CommitSpec
SYMMETRY Sym
VIEW CommitView
CONSTRAINT OneCommit
INVARIANTS TypeOK ElectionSafety NeverForgets LogMatching LogInv
           CommitInv CommittedAgree LeadersHoldCommitted
PROPERTIES LeaderAppendOnly CommittedKept
CHECK_DEADLOCK FALSE
