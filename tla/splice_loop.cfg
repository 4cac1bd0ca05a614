CONSTANTS
  Cmd = {x, y}
  Logs <- ShortLogs
  Batches <- ShortLogs
SPECIFICATION Spec
INVARIANTS SpliceResult SpliceInv
PROPERTIES IndexIsPosition
CHECK_DEADLOCK FALSE
