----------------------------- MODULE MCCommTx -----------------------------
(* Instances of CommTx for TLC. *)
EXTENDS CommTx

\* osPriorityNormal and osPriorityAboveNormal, as the firmware sets them
FirmwarePriority == [t \in Tasks |-> IF t \in {"tx", "rx"} THEN 2 ELSE 1]
\* all tasks at one priority: what the code does when nothing protects it
FlatPriority == [t \in Tasks |-> 1]

\* bounds: calls of comm_send() by each task
Calls(ka, mon, obj, rx) ==
  [t \in Senders |-> CASE t = "keepalive" -> ka [] t = "monitor" -> mon
                       [] t = "objdet" -> obj    [] t = "rx" -> rx]
Sends     == Calls(2, 1, 1, 3)
LinkSends == Calls(2, 1, 1, 2)
FlatSends == Calls(3, 1, 0, 2)
=============================================================================
