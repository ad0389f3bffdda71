SPECIFICATION FleetSpec
CONSTANTS
  Serials = {s1, s2, s3}
  Missions = {m}
  None = none
  MaxPast = 2
  MaxInbox = 1
INVARIANTS
  LinksAreMutual
  MissionWhileAssigned
