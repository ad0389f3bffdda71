SPECIFICATION FairSpec
CONSTANTS
  Threshold = 3
  Window = 2
  Timeout = 4
  MaxEdges = 8
INVARIANT
  NeverStuckPresent
PROPERTIES
  BurstIsDense
  DetectionIsReported
  AbsenceIsReported
