SPECIFICATION Spec
CONSTANTS
  MaxLevel = 1
  MaxChanges = 1
  MaxCommands = 1
  MaxFiles = 2
  MaxMissed = 1
INVARIANTS LocksAreOrdered AliveIsAnnounced
PROPERTY EventuallyTruthful
