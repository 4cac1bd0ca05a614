CONSTANTS
  Mode = "crossfault"
  Peer = {p, q, r, s}
  ElectionTimeout = 2
  HeartbeatInterval = 2
  MaxQuiet = 8
SPECIFICATION Spec
SYMMETRY Sym
INVARIANTS NoTimerIsDue LeaderIsHeard TimerInv
CHECK_DEADLOCK FALSE
