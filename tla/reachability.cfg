CONSTANTS
  N = 3
  Aws = {1}
  BaseDelay = 1
  CrossDelay = 1
  MaxFaults = 2
  ElectionTimeout = 3
  ProbeInterval = 2
  HeartbeatInterval = 3
  Leaders = {1}
  MaxDelay = 4
SPECIFICATION FairSpec
INVARIANTS TypeOK FirstHand MergesAgree NoFalseAlarm WorkingEdges
PROPERTIES ViewsRecover DeafNodeDeclines RelaysKeepReaching
