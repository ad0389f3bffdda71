SPECIFICATION FairSpec
CONSTANTS
  Payloads = {a, b}
  Default = default
  Erased = erased
  Sets = {"SET_TEMP_NORMAL", "SET_TEMP_WARNING", "SET_BATT_WARNING"}
  FlashFails = TRUE
  MaxFrames = 2
  MaxResets = 2
INVARIANTS
  NoTornRead
  FlashAgrees
PROPERTIES
  MonitorGetsLimits
  ImplementsAtomicLimits
