SPECIFICATION Spec
CONSTANTS
  NFields = 2
  MaxCalls = 3
  MaxSwitches = 1
  MaxBreaks = 1
  MaxOthers = 1
INVARIANTS
  ConnTypeOK
  ResultIsEarned
  PunctualResult
  NoDeadObject
PROPERTIES
  TearDownEnds
  Recovers
CHECK_DEADLOCK FALSE
