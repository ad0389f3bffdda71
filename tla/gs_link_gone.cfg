SPECIFICATION Spec
CONSTANTS
  Clients = {c1, c2}
  NoClient = none
  Records = 3
  MaxPolls = 3
  Buffer = 2
  Backlog = 2
  MaxQueries = 2
INVARIANTS
  ClientGoneIsHarmless
CHECK_DEADLOCK FALSE
