SPECIFICATION FairSpec
CONSTANTS
  Priority <- FirmwarePriority
  MedDepth = 2
  LowDepth = 2
  SemMax = 5
  MaxSends <- LinkSends
  MaxRecords = 2
INVARIANTS
  TypeOK
  TokenAccounting
  TxWakesToAnItem
  MailboxNeverOverwritten
  SemaphoreNeverSaturates
PROPERTIES
  ImplementsLink
  QueuesDrain
CHECK_DEADLOCK FALSE
