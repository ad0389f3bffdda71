SPECIFICATION Spec
CONSTANTS
  MaxDay = 7
  MaxGap = 7
  MaxResets = 1
  SyncDays = {0, 4, 7}
  MaxSyncs = 1
  MaxFailures = 1
  QueryDays = {4}
  QueryLength = 1
  MaxQueries = 1
INVARIANTS
  OnlyRevisitedDaysAreLost
  OneDayPerSlot
  QueryIsComplete
CHECK_DEADLOCK FALSE
