CONSTANTS
  MaxSeq = 5
SPECIFICATION Spec
PROPERTIES GapMeansLoss
CHECK_DEADLOCK FALSE
