SPECIFICATION AlarmSpec
INVARIANTS
  ButtonCanSilence
  BuzzerHasCause
  ErrorIsHeard
