----------------------------- MODULE AtomicLimits -----------------------------
(***************************************************************************)
(* What the thresholds promise to those who use them: a command replaces   *)
(* all the fields it carries at once, a reading sees all of one setting,   *)
(* and never one that is still being saved.  A boot brings back what is    *)
(* stored.  A save that succeeds stores the setting; while it lasts, and   *)
(* when it fails, what is stored may be the defaults or the new setting    *)
(* with some fields erased, but never fields of two settings.              *)
(***************************************************************************)
CONSTANTS
  Fields,     \* the thresholds
  Groups,     \* the sets of thresholds that one command carries
  Payloads,   \* what a command can set them to
  Defaults,   \* the setting of a board that has nothing stored
  Erased,     \* what a field reads as that was not stored
  Nothing     \* of a setting before the boot, of a reading before the first

VARIABLES
  up,        \* has the board booted since the last reset?
  inForce,   \* the setting
  got,       \* what was read last
  stored,    \* what a boot would bring back
  saving,    \* is a save under way?
  failed     \* has the last save failed?

vars == <<up, inForce, got, stored, saving, failed>>

Boot ==
  /\ ~up
  /\ up' = TRUE
  /\ inForce' = stored
  /\ \/ UNCHANGED saving /\ failed' = FALSE
     \/ stored = Defaults /\ saving' = TRUE /\ UNCHANGED failed
  /\ UNCHANGED <<got, stored>>

Command ==
  /\ up /\ ~saving
  /\ \E group \in Groups, v \in Payloads :
       inForce' = [f \in Fields |-> IF f \in group THEN v ELSE inForce[f]]
  /\ saving' = TRUE
  /\ UNCHANGED <<up, got, stored, failed>>

Read ==
  /\ up /\ ~saving
  /\ got' = inForce
  /\ UNCHANGED <<up, inForce, stored, saving, failed>>

SaveGoesOn ==
  /\ saving
  /\ \/ stored' = Defaults
     \/ /\ DOMAIN stored' = Fields
        /\ \A f \in Fields : stored'[f] \in {inForce[f], Erased}
  /\ UNCHANGED <<up, inForce, got, saving, failed>>

SaveEnds ==
  /\ saving
  /\ saving' = FALSE
  /\ \/ stored' = inForce /\ failed' = FALSE
     \/ UNCHANGED stored /\ failed' = TRUE
  /\ UNCHANGED <<up, inForce, got>>

Crash ==
  /\ up' = FALSE
  /\ inForce' = Nothing
  /\ got' = Nothing
  /\ saving' = FALSE
  /\ UNCHANGED <<stored, failed>>

Init ==
  /\ ~up /\ ~saving /\ ~failed
  /\ inForce = Nothing
  /\ got = Nothing
  /\ stored = Defaults

Next == Boot \/ Command \/ Read \/ SaveGoesOn \/ SaveEnds \/ Crash

Spec == Init /\ [][Next]_vars
=============================================================================
