--------------------------- MODULE ObjectDetection ---------------------------
(***************************************************************************)
(* LNC/Core/Src/objectdetection.c: presence by recency.  The IR receiver's *)
(* interrupt filters edges into bursts, zeroes TIM5 on an edge of a        *)
(* confirmed burst and, while no object is present, raises a thread flag;  *)
(* TIM5's interrupt raises another after Timeout ticks without one;        *)
(* objdet_task turns the flags into event_object_detected/cleared.         *)
(*                                                                         *)
(* Interrupts and time go on while the task is delayed: it shares its      *)
(* priority, and its handlers wait for the SD card, which a query can keep *)
(* for as long as it scans.  An edge here is one that passed the spacing   *)
(* test (l. 75-93), which a rejected edge leaves without further effect.   *)
(***************************************************************************)
EXTENDS Naturals, Sequences

CONSTANTS
  Threshold,  \* BURST_THRESHOLD
  Window,     \* BURST_WINDOW_MS, in ticks
  Timeout,    \* TIM5's period, in ticks
  MaxEdges    \* bound: accepted edges

ASSUME ObjectDetectionAssumption ==
  /\ Threshold \in Nat \ {0}
  /\ Window \in Nat \ {0}
  /\ Timeout \in Nat \ {0}
  /\ MaxEdges \in Nat

VARIABLES
  present,     \* g_objdet.present
  flags,       \* objdet_task's pending thread flags
  countdown,   \* TIM5's counter
  burstAge,    \* ticks since burst_first_edge_tick, at most Window + 1
  burstCount,  \* burst_edge_count, at most Threshold
  pc,          \* where objdet_task is
  got,         \* its local `flags`
  edges,       \* history: age of the last Threshold accepted edges
  quiet,       \* history: ticks since a burst last refreshed, at most Timeout
  seen         \* accepted edges so far (bounded by MaxEdges)

filter == <<countdown, burstAge, burstCount>>
task   == <<pc, got>>
vars == <<present, flags, filter, task, edges, quiet, seen>>

Smaller(a, b) == IF a <= b THEN a ELSE b

-----------------------------------------------------------------------------
(* Interrupts *)

CountsOn ==   \* mutant: a new burst goes on counting where the last one stopped
  Smaller(burstCount + 1, Threshold)

\* burst_edge_count after this edge: a new burst, or one more of this one.
NewCount ==
  IF burstAge > Window THEN 1 ELSE Smaller(burstCount + 1, Threshold)

OnEdge ==
  /\ seen < MaxEdges
  /\ seen' = seen + 1
  /\ burstAge' = IF burstAge > Window THEN 0 ELSE burstAge
  /\ burstCount' = NewCount
  /\ edges' = Append(IF Len(edges) < Threshold THEN edges ELSE Tail(edges), 0)
  /\ IF NewCount < Threshold
       THEN UNCHANGED <<countdown, flags, quiet>>
       ELSE /\ countdown' = 0
            /\ quiet' = 0
            /\ flags' = IF present THEN flags ELSE flags \cup {"EDGE"}
  /\ UNCHANGED <<present, task>>

\* One tick of time; TIM5 runs whether an object is present or not, and its
\* update interrupt is objdet_on_timeout().
Tick ==
  /\ burstAge' = Smaller(burstAge + 1, Window + 1)
  /\ edges' = [i \in DOMAIN edges |-> Smaller(edges[i] + 1, Window + 1)]
  /\ quiet' = Smaller(quiet + 1, Timeout)
  /\ countdown' = IF countdown + 1 = Timeout THEN 0 ELSE countdown + 1
  /\ flags' = IF countdown + 1 = Timeout THEN flags \cup {"TIMEOUT"} ELSE flags
  /\ UNCHANGED <<present, burstCount, task, seen>>

-----------------------------------------------------------------------------
(* objdet_task *)

WaitsForEdgeOnly ==   \* mutant: TIMEOUT is left out of the flags waited for
  /\ pc = "wait"
  /\ "EDGE" \in flags
  /\ got' = flags
  /\ flags' = {}
  /\ pc' = "edge"
  /\ UNCHANGED <<present, filter, edges, quiet, seen>>

\* osThreadFlagsWait() returns the raised flags and clears them.
Wake ==
  /\ pc = "wait"
  /\ flags # {}
  /\ got' = flags
  /\ flags' = {}
  /\ pc' = "edge"
  /\ UNCHANGED <<present, filter, edges, quiet, seen>>

TimeoutFirst ==   \* mutant: a pending timeout hides the edge
  /\ pc = "edge"
  /\ IF "EDGE" \in got /\ "TIMEOUT" \notin got /\ ~present
       THEN present' = TRUE /\ pc' = "detected"
       ELSE pc' = "timeout" /\ UNCHANGED present
  /\ UNCHANGED <<flags, filter, got, edges, quiet, seen>>

HandleEdge ==
  /\ pc = "edge"
  /\ IF "EDGE" \in got /\ ~present
       THEN present' = TRUE /\ pc' = "detected"
       ELSE pc' = "timeout" /\ UNCHANGED present
  /\ UNCHANGED <<flags, filter, got, edges, quiet, seen>>

HandleTimeout ==
  /\ pc = "timeout"
  /\ IF "TIMEOUT" \in got /\ present
       THEN present' = FALSE /\ pc' = "cleared"
       ELSE pc' = "wait" /\ UNCHANGED present
  /\ UNCHANGED <<flags, filter, got, edges, quiet, seen>>

ElseIf ==   \* mutant: `else if` where the code tests both flags
  /\ \/ pc = "detected" /\ pc' = "wait"
     \/ pc = "cleared" /\ pc' = "wait"
  /\ UNCHANGED <<present, flags, filter, got, edges, quiet, seen>>

\* event_object_detected() / event_object_cleared() returns.
EventReturns ==
  /\ \/ pc = "detected" /\ pc' = "timeout"
     \/ pc = "cleared" /\ pc' = "wait"
  /\ UNCHANGED <<present, flags, filter, got, edges, quiet, seen>>

-----------------------------------------------------------------------------
\* objdet_create()
Init ==
  /\ present = FALSE
  /\ flags = {}
  /\ countdown = 0
  /\ burstAge = 0
  /\ burstCount = 0
  /\ pc = "wait"
  /\ got = {}
  /\ edges = << >>
  /\ quiet = Timeout
  /\ seen = 0

TaskStep == Wake \/ HandleEdge \/ HandleTimeout \/ EventReturns
Next == OnEdge \/ Tick \/ TaskStep

Spec == Init /\ [][Next]_vars

\* Time passes, and the task gets the CPU and the SD card in the end.
FairSpec == Spec /\ WF_vars(Tick) /\ WF_vars(TaskStep)

-----------------------------------------------------------------------------
(* Properties *)

TypeOK ==
  /\ present \in BOOLEAN
  /\ flags \subseteq {"EDGE", "TIMEOUT"}
  /\ countdown \in 0..Timeout - 1
  /\ burstAge \in 0..Window + 1
  /\ burstCount \in 0..Threshold
  /\ pc \in {"wait", "edge", "detected", "timeout", "cleared"}
  /\ got \subseteq {"EDGE", "TIMEOUT"}
  /\ edges \in Seq(0..Window + 1)
  /\ Len(edges) <= Threshold
  /\ quiet \in 0..Timeout
  /\ seen \in 0..MaxEdges

\* Only the counts of one window confirm a burst: an edge that refreshes TIM5
\* is the last of Threshold edges no more than Window ticks old.  ("require at
\* least BURST_THRESHOLD edges within BURST_WINDOW_MS of each other before
\* accepting it as real", objectdetection.c:23-24)
BurstIsDense ==
  [][quiet' = 0 /\ seen' > seen =>
       /\ Len(edges') = Threshold
       /\ \A i \in 1..Threshold : edges'[i] <= Window]_vars

\* An object is never left standing: if no burst has refreshed TIM5 for the
\* whole timeout and the task sleeps, its TIMEOUT flag is raised.
NeverStuckPresent ==
  present /\ quiet = Timeout /\ pc = "wait" => "TIMEOUT" \in flags

\* An edge of a confirmed burst that found no object present is never lost,
\* not even when a timeout is pending with it: the task goes on to report an
\* object.
DetectionIsReported == "EDGE" \in flags ~> present

\* When the edges stop (there are at most MaxEdges of them) the object is
\* eventually reported as gone, whatever the task was doing when TIM5 expired.
AbsenceIsReported == present ~> ~present

\* "Every edge on PB10 refreshes a 10 s hardware countdown (TIM5); if nothing
\* refreshes it in time, the object is considered gone." (objectdetection.h:5-7)
ClearedOnlyWhenQuiet == [][present /\ ~present' => quiet = Timeout]_vars
=============================================================================
