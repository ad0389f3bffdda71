SPECIFICATION FairSpec
CONSTANTS
  Priority <- FlatPriority
  MedDepth = 1
  LowDepth = 1
  SemMax = 3
  MaxSends <- FlatSends
  MaxRecords = 1
INVARIANTS
  NoLostWakeup
CHECK_DEADLOCK FALSE
