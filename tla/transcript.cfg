CONSTANTS
  MaxSeq = 5
SPECIFICATION Spec
INVARIANTS TypeOK GapsCountBreaks
PROPERTIES Implements
CHECK_DEADLOCK FALSE
