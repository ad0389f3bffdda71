------------------------ MODULE ObjectAlarmProofs ------------------------
(***************************************************************************)
(* Theorems about what objdet_task sees and what is heard of it.           *)
(* ObjectDetection: type correctness, NeverStuckPresent and BurstIsDense,  *)
(* for every threshold, window, timeout and number of edges.  Alarm: type  *)
(* correctness, ButtonCanSilence, BuzzerHasCause and ErrorIsHeard, in      *)
(* every order of the statements of the handlers, the button and the note  *)
(* timer.                                                                  *)
(***************************************************************************)
EXTENDS ObjectDetection, Alarm, SequenceTheorems, TLAPS

\* The length and the elements of the history of edges after an edge: at most
\* Threshold of them, each an age.
LEMMA EdgesAppend ==
  ASSUME NEW n \in Nat \ {0}, NEW S, NEW x \in S, NEW s \in Seq(S), Len(s) <= n
  PROVE  LET r == Append(IF Len(s) < n THEN s ELSE Tail(s), x)
         IN  r \in Seq(S) /\ Len(r) <= n
<1>1. CASE Len(s) < n
  BY <1>1
<1>2. CASE ~(Len(s) < n)
  <2>1. s # << >> /\ Len(s) = n
    BY <1>2
  <2>2. Tail(s) \in Seq(S) /\ Len(Tail(s)) = n - 1
    BY <2>1
  <2> QED
    BY <1>2, <2>2
<1> QED
  BY <1>1, <1>2

\* The ages of the edges stay ages when a tick passes.
LEMMA EdgesAge ==
  ASSUME NEW w \in Nat, NEW s \in Seq(0..w)
  PROVE  LET r == [i \in DOMAIN s |-> Smaller(s[i] + 1, w)]
         IN  r \in Seq(0..w) /\ Len(r) = Len(s)
<1> DEFINE r == [i \in DOMAIN s |-> Smaller(s[i] + 1, w)]
<1>1. DOMAIN s = 1..Len(s) /\ Len(s) \in Nat
  OBVIOUS
<1>2. \A i \in 1..Len(s) : Smaller(s[i] + 1, w) \in 0..w
  <2> TAKE i \in 1..Len(s)
  <2>1. s[i] \in 0..w
    OBVIOUS
  <2> QED
    BY <2>1 DEF Smaller
<1>3. r \in [1..Len(s) -> 0..w]
  BY <1>1, <1>2
<1>4. r \in Seq(0..w)
  BY <1>1, <1>3
<1>5. Len(r) = Len(s)
  BY <1>1, <1>3
<1> QED
  BY <1>4, <1>5

-----------------------------------------------------------------------------
\* NeverStuckPresent made inductive.  While the last refresh is less than the
\* timeout ago, TIM5's counter says how long ago it was; once it is not, the
\* TIMEOUT it has raised is still pending for whatever is, or is about to be,
\* taken for present.
TimerAgrees == quiet < Timeout => countdown = quiet

HasTimeout == "TIMEOUT" \in flags
HoldsTimeout == "TIMEOUT" \in got /\ pc \in {"edge", "detected", "timeout"}

Awaited ==
  quiet = Timeout =>
    /\ present => HasTimeout \/ HoldsTimeout
    /\ "EDGE" \in flags => HasTimeout
    /\ pc = "edge" /\ "EDGE" \in got => HasTimeout \/ "TIMEOUT" \in got

IInv == TypeOK /\ TimerAgrees /\ Awaited

\* The inductive invariant holds initially.
LEMMA IInvInit == Init => IInv
<1> SUFFICES ASSUME Init PROVE IInv
  OBVIOUS
<1> USE ObjectDetectionAssumption
<1>1. edges \in Seq(0..Window + 1) /\ Len(edges) <= Threshold
  BY DEF Init
<1>2. TypeOK
  <2>1. /\ countdown \in 0..Timeout - 1 /\ burstAge \in 0..Window + 1
        /\ burstCount \in 0..Threshold /\ quiet \in 0..Timeout
        /\ seen \in 0..MaxEdges
    BY DEF Init
  <2>2. /\ present \in BOOLEAN /\ flags \subseteq {"EDGE", "TIMEOUT"}
        /\ got \subseteq {"EDGE", "TIMEOUT"}
        /\ pc \in {"wait", "edge", "detected", "timeout", "cleared"}
    BY Zenon DEF Init
  <2> QED
    BY <1>1, <2>1, <2>2 DEF TypeOK
<1>3. TimerAgrees /\ Awaited
  BY DEF Init, TimerAgrees, Awaited
<1> QED
  BY <1>2, <1>3 DEF IInv

\* Every step preserves the types.
LEMMA TypeStep == TypeOK /\ [Next]_vars => TypeOK'
<1> SUFFICES ASSUME TypeOK, [Next]_vars PROVE TypeOK'
  OBVIOUS
<1> USE ObjectDetectionAssumption
<1>1. CASE OnEdge
  <2>1. burstCount' \in 0..Threshold /\ burstAge' \in 0..Window + 1
    BY <1>1 DEF OnEdge, NewCount, Smaller, TypeOK
  <2>2. edges' \in Seq(0..Window + 1) /\ Len(edges') <= Threshold
    <3>1. 0 \in 0..Window + 1
      OBVIOUS
    <3> QED
      BY <1>1, <3>1, EdgesAppend DEF OnEdge, TypeOK
  <2>3. countdown' \in 0..Timeout - 1 /\ quiet' \in 0..Timeout
    BY <1>1 DEF OnEdge, TypeOK
  <2>4. seen' \in 0..MaxEdges
    BY <1>1 DEF OnEdge, TypeOK
  <2>5. flags' \subseteq {"EDGE", "TIMEOUT"}
    <3>1. flags' = flags \/ flags' = flags \cup {"EDGE"}
      BY <1>1 DEF OnEdge
    <3> QED
      BY <3>1 DEF TypeOK
  <2> QED
    BY <1>1, <2>1, <2>2, <2>3, <2>4, <2>5 DEF OnEdge, TypeOK, task
<1>2. CASE Tick
  <2>1. burstAge' \in 0..Window + 1 /\ quiet' \in 0..Timeout
    BY <1>2 DEF Tick, Smaller, TypeOK
  <2>2. edges' \in Seq(0..Window + 1) /\ Len(edges') <= Threshold
    <3>1. Window + 1 \in Nat
      OBVIOUS
    <3> QED
      BY <1>2, <3>1, EdgesAge DEF Tick, TypeOK
  <2>3. countdown' \in 0..Timeout - 1
    BY <1>2 DEF Tick, TypeOK
  <2>4. flags' \subseteq {"EDGE", "TIMEOUT"}
    BY <1>2 DEF Tick, TypeOK
  <2> QED
    BY <1>2, <2>1, <2>2, <2>3, <2>4 DEF Tick, TypeOK, task
<1>3. CASE TaskStep
  BY <1>3 DEF TaskStep, Wake, HandleEdge, HandleTimeout, EventReturns, TypeOK, filter
<1>4. CASE UNCHANGED vars
  BY <1>4 DEF vars, filter, task, TypeOK
<1> QED
  BY <1>1, <1>2, <1>3, <1>4 DEF Next

\* Every step preserves the inductive invariant.
LEMMA IInvStep == IInv /\ [Next]_vars => IInv'
<1> SUFFICES ASSUME IInv, [Next]_vars PROVE IInv'
  OBVIOUS
<1> USE ObjectDetectionAssumption
<1>t. TypeOK /\ TypeOK'
  BY TypeStep DEF IInv
<1>1. CASE OnEdge
  <2>1. TimerAgrees'
    BY <1>1, <1>t DEF OnEdge, IInv, TimerAgrees, TypeOK
  <2>2. Awaited'
    BY <1>1, <1>t DEF OnEdge, IInv, Awaited, HasTimeout, HoldsTimeout, TypeOK, task
  <2> QED
    BY <1>t, <2>1, <2>2 DEF IInv
<1>2. CASE Tick
  <2>1. TimerAgrees'
    BY <1>2, <1>t DEF Tick, Smaller, IInv, TimerAgrees, TypeOK
  <2>2. Awaited'
    <3>1. CASE quiet = Timeout
      BY <1>2, <1>t, <3>1
         DEF Tick, Smaller, IInv, Awaited, HasTimeout, HoldsTimeout, TypeOK, task
    <3>2. CASE quiet < Timeout
      BY <1>2, <1>t, <3>2
         DEF Tick, Smaller, IInv, TimerAgrees, Awaited, HasTimeout, HoldsTimeout,
             TypeOK, task
    <3> QED
      BY <1>t, <3>1, <3>2 DEF TypeOK
  <2> QED
    BY <1>t, <2>1, <2>2 DEF IInv
<1>3. CASE Wake
  BY <1>3, <1>t
     DEF Wake, IInv, TimerAgrees, Awaited, HasTimeout, HoldsTimeout, TypeOK, filter
<1>4. CASE HandleEdge
  BY <1>4, <1>t
     DEF HandleEdge, IInv, TimerAgrees, Awaited, HasTimeout, HoldsTimeout, TypeOK, filter
<1>5. CASE HandleTimeout
  BY <1>5, <1>t
     DEF HandleTimeout, IInv, TimerAgrees, Awaited, HasTimeout, HoldsTimeout, TypeOK, filter
<1>6. CASE EventReturns
  BY <1>6, <1>t
     DEF EventReturns, IInv, TimerAgrees, Awaited, HasTimeout, HoldsTimeout, TypeOK, filter
<1>7. CASE UNCHANGED vars
  BY <1>7, <1>t
     DEF vars, IInv, TimerAgrees, Awaited, HasTimeout, HoldsTimeout, filter, task
<1> QED
  BY <1>1, <1>2, <1>3, <1>4, <1>5, <1>6, <1>7 DEF Next, TaskStep

\* The variables of objectdetection.c keep their types; in particular TIM5's
\* counter stays below its period.
THEOREM TypeCorrect == Spec => []TypeOK
<1>1. Init => TypeOK
  BY IInvInit DEF IInv
<1> QED
  BY <1>1, TypeStep, PTL DEF Spec

\* An object is never left standing: whenever no burst has refreshed TIM5 for
\* the whole timeout and objdet_task sleeps, a TIMEOUT is pending that will
\* wake it, for every timeout and however long the task was delayed.
THEOREM NeverStuck == Spec => []NeverStuckPresent
<1>1. IInv => NeverStuckPresent
  BY DEF IInv, Awaited, HasTimeout, HoldsTimeout, NeverStuckPresent
<1> QED
  BY <1>1, IInvInit, IInvStep, PTL DEF Spec
-----------------------------------------------------------------------------
\* BurstIsDense rests on what the filter's two variables say of the edges: the
\* last burstCount of them are no older than the first of the present window, and
\* TIM5 has been refreshed in this tick only by a window that is full.
WindowAgrees ==
  burstAge <= Window =>
    /\ burstCount <= Len(edges)
    /\ \A i \in 1..Len(edges) : i > Len(edges) - burstCount => edges[i] <= burstAge

JustRefreshed == quiet = 0 => burstAge <= Window /\ burstCount = Threshold

BurstInv == TypeOK /\ WindowAgrees /\ JustRefreshed

\* The history of edges after an edge, element by element.
LEMMA LastEdges ==
  ASSUME NEW n \in Nat \ {0}, NEW S, NEW x \in S, NEW s \in Seq(S), Len(s) <= n
  PROVE  LET r == Append(IF Len(s) < n THEN s ELSE Tail(s), x)
         IN  /\ Len(r) = IF Len(s) < n THEN Len(s) + 1 ELSE n
             /\ r[Len(r)] = x
             /\ \A i \in 1..Len(r) - 1 : r[i] = IF Len(s) < n THEN s[i] ELSE s[i + 1]
<1>1. CASE Len(s) < n
  BY <1>1
<1>2. CASE ~(Len(s) < n)
  <2> DEFINE t == Tail(s)
  <2>1. Len(s) = n /\ t \in Seq(S) /\ Len(t) = n - 1 /\ \A i \in 1..n - 1 : t[i] = s[i + 1]
    BY <1>2
  <2> HIDE DEF t
  <2>2. /\ Len(Append(t, x)) = n /\ Append(t, x)[n] = x
        /\ \A i \in 1..n - 1 : Append(t, x)[i] = t[i]
    BY <2>1
  <2> QED
    BY <1>2, <2>1, <2>2 DEF t
<1> QED
  BY <1>1, <1>2

\* When the first edge is forgotten the others are one place further down.
LEMMA Shifted ==
  ASSUME NEW n \in Nat, NEW i \in Nat, NEW b \in Nat, NEW c \in Nat,
         i <= n - 1, i > n - c, c <= b + 1
  PROVE  i + 1 \in 1..n /\ i + 1 > n - b
OBVIOUS

LEMMA BurstEdge == ASSUME BurstInv, OnEdge PROVE WindowAgrees' /\ JustRefreshed'
<1> USE ObjectDetectionAssumption
<1> DEFINE s == edges
           r == edges'
<1>1. /\ s \in Seq(0..Window + 1) /\ Len(s) \in Nat /\ Len(s) <= Threshold
      /\ burstAge \in 0..Window + 1 /\ burstCount \in 0..Threshold
  BY DEF BurstInv, TypeOK
<1>2. /\ burstAge' = IF burstAge > Window THEN 0 ELSE burstAge
      /\ burstCount' = IF burstAge > Window THEN 1 ELSE Smaller(burstCount + 1, Threshold)
      /\ r = Append(IF Len(s) < Threshold THEN s ELSE Tail(s), 0)
      /\ burstCount' < Threshold => quiet' = quiet
  BY DEF OnEdge, NewCount
<1>3. burstAge <= Window =>
        /\ burstCount <= Len(s)
        /\ \A i \in 1..Len(s) : i > Len(s) - burstCount => s[i] <= burstAge
  BY DEF BurstInv, WindowAgrees
<1>4. burstAge' <= Window /\ burstAge' \in Nat /\ burstCount' \in Nat /\ burstCount' <= Threshold
  BY <1>1, <1>2 DEF Smaller
<1>5. JustRefreshed'
  BY <1>1, <1>2, <1>4 DEF BurstInv, JustRefreshed, Smaller
<1> HIDE DEF s, r
<1>6. /\ Len(r) = IF Len(s) < Threshold THEN Len(s) + 1 ELSE Threshold
      /\ r[Len(r)] = 0
      /\ \A i \in 1..Len(r) - 1 : r[i] = IF Len(s) < Threshold THEN s[i] ELSE s[i + 1]
  <2>1. 0 \in 0..Window + 1
    OBVIOUS
  <2> QED
    BY <1>1, <1>2, <2>1, LastEdges
<1>7. burstCount' <= Len(r)
  BY <1>1, <1>2, <1>3, <1>6 DEF Smaller
<1>8. ASSUME NEW i \in 1..Len(r), i > Len(r) - burstCount' PROVE r[i] <= burstAge'
  <2>1. CASE i = Len(r)
    BY <1>4, <1>6, <2>1
  <2>2. CASE i # Len(r)
    <3>1. i \in 1..Len(r) - 1 /\ burstAge <= Window /\ burstAge' = burstAge
      BY <1>1, <1>2, <1>6, <1>8, <2>2
    <3>2. CASE Len(s) < Threshold
      <4>1. i \in 1..Len(s) /\ i > Len(s) - burstCount /\ r[i] = s[i]
        BY <1>1, <1>2, <1>6, <1>8, <3>1, <3>2 DEF Smaller
      <4> QED
        BY <1>3, <3>1, <4>1
    <3>3. CASE ~(Len(s) < Threshold)
      <4>1. i + 1 \in 1..Len(s) /\ i + 1 > Len(s) - burstCount /\ r[i] = s[i + 1]
        <5>1. Len(s) = Threshold /\ Len(r) = Threshold
          BY <1>1, <1>6, <3>3
        <5>2. burstCount' <= burstCount + 1
          BY <1>1, <1>2, <3>1 DEF Smaller
        <5>3. i \in Nat /\ i + 1 \in 1..Len(s) /\ i + 1 > Len(s) - burstCount
          <6>1. i \in Nat /\ i <= Threshold - 1 /\ i > Threshold - burstCount'
            BY <1>8, <3>1, <5>1
          <6>2. burstCount \in Nat /\ burstCount' \in Nat /\ Threshold \in Nat
            BY <1>1, <1>4
          <6> HIDE DEF s
          <6>3. i + 1 \in 1..Threshold /\ i + 1 > Threshold - burstCount
            BY <5>2, <6>1, <6>2, Shifted
          <6> QED
            BY <5>1, <6>1, <6>3
        <5> QED
          BY <1>6, <3>1, <3>3, <5>3
      <4> QED
        BY <1>3, <3>1, <4>1
    <3> QED
      BY <3>2, <3>3
  <2> QED
    BY <2>1, <2>2
<1> QED
  BY <1>5, <1>7, <1>8 DEF WindowAgrees, r

LEMMA BurstTick == ASSUME BurstInv, Tick PROVE WindowAgrees' /\ JustRefreshed'
<1> USE ObjectDetectionAssumption
<1>1. /\ edges \in Seq(0..Window + 1) /\ burstAge \in 0..Window + 1
      /\ burstCount \in 0..Threshold /\ quiet \in 0..Timeout
  BY DEF BurstInv, TypeOK
<1>2. /\ burstAge' = Smaller(burstAge + 1, Window + 1) /\ burstCount' = burstCount
      /\ edges' = [i \in DOMAIN edges |-> Smaller(edges[i] + 1, Window + 1)]
      /\ quiet' = Smaller(quiet + 1, Timeout)
  BY DEF Tick, filter
<1>3. JustRefreshed'
  BY <1>1, <1>2 DEF JustRefreshed, Smaller
<1>4. Len(edges') = Len(edges) /\ Len(edges) \in Nat
  <2>1. Window + 1 \in Nat
    OBVIOUS
  <2> QED
    BY <1>1, <1>2, <2>1, EdgesAge
<1>5. \A i \in 1..Len(edges) : /\ edges[i] \in 0..Window + 1
                               /\ edges'[i] = Smaller(edges[i] + 1, Window + 1)
  BY <1>1, <1>2
<1>6. WindowAgrees'
  <2> SUFFICES ASSUME burstAge' <= Window
               PROVE  /\ burstCount <= Len(edges)
                      /\ \A i \in 1..Len(edges) :
                           i > Len(edges) - burstCount => edges'[i] <= burstAge'
    BY <1>2, <1>4 DEF WindowAgrees
  <2>1. burstAge <= Window /\ burstAge' = burstAge + 1
    BY <1>1, <1>2 DEF Smaller
  <2>2. /\ burstCount <= Len(edges)
        /\ \A i \in 1..Len(edges) : i > Len(edges) - burstCount => edges[i] <= burstAge
    BY <2>1 DEF BurstInv, WindowAgrees
  <2>3. ASSUME NEW i \in 1..Len(edges), i > Len(edges) - burstCount
        PROVE  edges'[i] <= burstAge'
    <3>1. edges[i] <= burstAge /\ edges[i] \in 0..Window + 1
      BY <1>5, <2>2, <2>3
    <3>2. edges'[i] = edges[i] + 1
      BY <1>1, <1>5, <2>1, <3>1 DEF Smaller
    <3> QED
      BY <1>1, <2>1, <3>1, <3>2
  <2> QED
    BY <2>2, <2>3
<1> QED
  BY <1>3, <1>6

\* An edge that refreshes TIM5 is the last of Threshold edges no more than Window
\* old, wherever the windows of the filter begin (objdet_on_edge()).
THEOREM BurstDense == Spec => BurstIsDense
<1>1. Init => BurstInv
  <2> SUFFICES ASSUME Init PROVE BurstInv
    OBVIOUS
  <2>1. TypeOK
    BY IInvInit DEF IInv
  <2> QED
    BY <2>1, ObjectDetectionAssumption DEF Init, BurstInv, WindowAgrees, JustRefreshed
<1>2. BurstInv /\ [Next]_vars => BurstInv'
  <2> SUFFICES ASSUME BurstInv, [Next]_vars PROVE BurstInv'
    OBVIOUS
  <2>1. TypeOK'
    BY TypeStep DEF BurstInv
  <2>2. CASE TaskStep \/ UNCHANGED vars
    <3>1. UNCHANGED <<burstAge, burstCount, edges, quiet>>
      BY <2>2 DEF TaskStep, Wake, HandleEdge, HandleTimeout, EventReturns, vars, filter
    <3> QED
      BY <2>1, <3>1 DEF BurstInv, WindowAgrees, JustRefreshed
  <2> QED
    BY <2>1, <2>2, BurstEdge, BurstTick DEF BurstInv, Next
<1>3. BurstInv /\ BurstInv' /\ [Next]_vars =>
        [quiet' = 0 /\ seen' > seen =>
           /\ Len(edges') = Threshold
           /\ \A i \in 1..Threshold : edges'[i] <= Window]_vars
  <2> SUFFICES ASSUME BurstInv', quiet' = 0
               PROVE  /\ Len(edges') = Threshold
                      /\ \A i \in 1..Threshold : edges'[i] <= Window
    OBVIOUS
  <2>1. /\ edges' \in Seq(0..Window + 1) /\ Len(edges') <= Threshold /\ Len(edges') \in Nat
        /\ burstAge' \in 0..Window + 1
    BY DEF BurstInv, TypeOK
  <2>2. /\ burstAge' <= Window /\ Threshold <= Len(edges')
        /\ \A i \in 1..Len(edges') : i > Len(edges') - Threshold => edges'[i] <= burstAge'
    BY DEF BurstInv, WindowAgrees, JustRefreshed
  <2>3. Len(edges') = Threshold /\ \A i \in 1..Threshold : edges'[i] \in 0..Window + 1
    BY <2>1, <2>2, ObjectDetectionAssumption
  <2> QED
    BY <2>1, <2>2, <2>3, ObjectDetectionAssumption
<1> QED
  BY <1>1, <1>2, <1>3, PTL DEF Spec, BurstIsDense

-----------------------------------------------------------------------------
(* Alarm: what a task still has to execute, and what sounds for which cause *)

\* The handlers as whole texts.  Of each kind there is one text per task, and
\* in the monitor's `new` is the mode that it tells.
Text(t, kind, new) ==
  CASE t = "monitor" /\ kind = "start" ->
         <<Set("bz.alarm"), Clear("bz.sonar"), Clear("bz.step"), Play("low"),
           Set("channel"), Set("irq"), Set("ev.alarm"), Set("ev.essential"), Tell("ERROR")>>
    [] t = "monitor" /\ kind = "stop" ->
         <<Clear("bz.alarm"), Clear("bz.sonar"), Clear("channel"), Clear("irq"),
           Clear("ev.alarm"), Clear("ev.essential"), Tell(new)>>
    [] t = "monitor" /\ kind = "raise" -> <<AlarmStart, Set("ev.essential"), Tell("ERROR")>>
    [] t = "monitor" /\ kind = "lower" -> <<AlarmStop, Clear("ev.essential"), Tell(new)>>
    [] t = "monitor" /\ kind = "tell"  -> <<Tell(new)>>
    [] t = "objdet" /\ kind = "start" ->
         <<Clear("bz.alarm"), Set("bz.sonar"), Clear("bz.gap"), Play("ping"),
           Set("channel"), Set("irq"), Set("ev.sonar"), Set("led"), Tell("detected")>>
    [] t = "objdet" /\ kind = "stop" ->
         <<Clear("bz.alarm"), Clear("bz.sonar"), Clear("channel"), Clear("irq"),
           Clear("ev.sonar"), Clear("led"), Tell("cleared")>>

\* A place of task t: the k-th statement of such a text.
Places(t) ==
  [kind : {"start", "stop"} \cup IF t = "monitor" THEN {"raise", "lower", "tell"} ELSE {},
   new : Modes, k : 1..10]

\* Task t is at p: what it still executes is the text from there on.
At(t, p) ==
  LET text == Text(t, p.kind, p.new)
  IN  p.k <= Len(text) + 1 /\ todo[t] = SubSeq(text, p.k, Len(text))

\* The flag of event.c that the button tests for task t's pattern, and which statement
\* of Buzzer_Stop() clears a flag of buzzer.c or the channel.
Flag(t) == IF t = "monitor" THEN "ev.alarm" ELSE "ev.sonar"
Position(f) == IF f = "bz.alarm" THEN 1 ELSE IF f = "bz.sonar" THEN 2 ELSE 3

\* A task about to set its flag, and one about to clear it.
WillFlag(p)  == p.kind = "start" /\ p.k <= 7
WillClear(p) == \/ p.kind = "stop" /\ p.k <= 5
                \/ p.kind = "lower" /\ p.k = 1

\* Task t answers for flag f of the buzzer: it is about to set its own flag in event.c,
\* or has set it and is not past the statement that clears f on the way to clearing it.
Answers(t, p, f) ==
  \/ WillFlag(p)
  \/ on[Flag(t)] /\ ~(p.kind = "stop" /\ p.k <= 5 /\ p.k > Position(f))

\* With the monitor at m and objdet_task at o: whatever sounds has a task that answers
\* for it, the siren always the monitor and the ping objdet_task; and a flag that is set,
\* or about to be, has a cause, or a task on its way to clear it.
Excused(m, o) ==
  /\ on["bz.alarm"] => Answers("monitor", m, "bz.alarm")
  /\ on["bz.sonar"] => Answers("objdet", o, "bz.sonar")
  /\ on["channel"]  => Answers("monitor", m, "channel") \/ Answers("objdet", o, "channel")
  /\ WillFlag(m) \/ m.kind = "raise" => mode = "ERROR"
  /\ WillFlag(o) => presence
  /\ on["ev.alarm"] => mode = "ERROR" \/ WillClear(m)
  /\ on["ev.sonar"] => presence \/ WillClear(o)

AlarmTypes ==
  /\ on \in [Flags -> BOOLEAN]
  /\ todo \in [Handlers -> Seq(Statements)]
  /\ mode \in Modes \cup {"UNKNOWN"}
  /\ presence \in BOOLEAN

\* Together they are inductive.
AlarmInv ==
  AlarmTypes /\ \E m \in Places("monitor"), o \in Places("objdet") :
             At("monitor", m) /\ At("objdet", o) /\ Excused(m, o)

-----------------------------------------------------------------------------
\* How long a text is.
\* Everything that is written in a handler is a statement.
LEMMA Written ==
  /\ \A f \in Flags : Set(f) \in Statements /\ Clear(f) \in Statements
  /\ \A n \in Tones : Play(n) \in Statements
  /\ \A e \in Modes \cup {"detected", "cleared"} : Tell(e) \in Statements
  /\ AlarmStart \in Statements /\ AlarmStop \in Statements
  BY DEF Statements, Set, Clear, Play, Tell

Size(kind) == IF kind = "start" THEN 9 ELSE IF kind = "stop" THEN 7
              ELSE IF kind = "tell" THEN 1 ELSE 3

\* What a text is: its length, and the statement at each place that the argument is about.
LEMMA Texts ==
  ASSUME NEW t \in Handlers, NEW p \in Places(t)
  PROVE  LET text == Text(t, p.kind, p.new)
         IN  /\ text \in Seq(Statements)
             /\ Len(text) = Size(p.kind)
<1>0. Modes = {"NORMAL", "WARNING", "ERROR"}
  BY DEF Modes
<1>1. /\ \A f \in Flags : Set(f) \in Statements /\ Clear(f) \in Statements
      /\ \A n \in Tones : Play(n) \in Statements
      /\ \A e \in Modes \cup {"detected", "cleared"} : Tell(e) \in Statements
      /\ AlarmStart \in Statements /\ AlarmStop \in Statements
  BY Written
<1>2. /\ t \in {"monitor", "objdet"} /\ p.new \in Modes
      /\ p.kind \in {"start", "stop", "raise", "lower", "tell"}
      /\ t = "objdet" => p.kind \in {"start", "stop"}
  BY DEF Handlers, Places
<1> USE <1>0, <1>1, <1>2
<1>3. CASE t = "monitor" /\ p.kind = "start"
  BY <1>3 DEF Size, Text, Flags, Tones
<1>4. CASE t = "monitor" /\ p.kind = "stop"
  BY <1>4 DEF Size, Text, Flags, Tones
<1>5. CASE t = "monitor" /\ p.kind = "raise"
  BY <1>5 DEF Size, Text, Flags, Tones
<1>6. CASE t = "monitor" /\ p.kind = "lower"
  BY <1>6 DEF Size, Text, Flags, Tones
<1>7. CASE t = "monitor" /\ p.kind = "tell"
  BY <1>7 DEF Size, Text, Flags, Tones
<1>8. CASE t = "objdet" /\ p.kind = "start"
  BY <1>8 DEF Size, Text, Flags, Tones
<1>9. CASE t = "objdet" /\ p.kind = "stop"
  BY <1>9 DEF Size, Text, Flags, Tones
<1> QED
  BY <1>3, <1>4, <1>5, <1>6, <1>7, <1>8, <1>9

\* The statement at place p.
Current(t, p) == Text(t, p.kind, p.new)[p.k]

\* What the statement at a place can be, as far as the argument needs it.
LEMMA Says ==
  ASSUME NEW t \in Handlers, NEW p \in Places(t), p.k <= Len(Text(t, p.kind, p.new))
  PROVE  LET x == Current(t, p)
         IN  /\ \A f \in {"bz.alarm", "bz.sonar", "channel"} :
                  /\ x = Set(f) => p.kind = "start" /\ p.k < 7
                  /\ p.kind = "stop" /\ p.k = Position(f) => x = Clear(f)
             /\ x = Set("bz.alarm") => t = "monitor"
             /\ x = Set("bz.sonar") => t = "objdet"
             /\ \A g \in {"ev.alarm", "ev.sonar"} :
                  /\ x = Set(g) => g = Flag(t) /\ p.kind = "start" /\ p.k = 7
                  /\ x = Clear(g) => g = Flag(t) /\ p.kind = "stop" /\ p.k = 5
             /\ p.kind = "start" /\ p.k = 7 => x = Set(Flag(t))
             /\ p.kind = "stop" /\ p.k = 5 => x = Clear(Flag(t))
             /\ x.do = "alarm_start" <=> p.kind = "raise" /\ p.k = 1
             /\ x.do = "alarm_stop_if_active" <=> p.kind = "lower" /\ p.k = 1
<1>2. /\ t \in {"monitor", "objdet"} /\ p.new \in Modes /\ p.k \in 1..10
      /\ p.kind \in {"start", "stop", "raise", "lower", "tell"}
      /\ t = "objdet" => p.kind \in {"start", "stop"}
  BY DEF Handlers, Places
<1>0. p.k <= Size(p.kind)
  BY Texts
<1>1. AlarmStart.do = "alarm_start" /\ AlarmStop.do = "alarm_stop_if_active"
  BY Zenon DEF AlarmStart, AlarmStop
<1> USE <1>0, <1>1, <1>2 DEF Size, Position, Flag, Set, Clear, Play, Tell
<1>3. CASE t = "monitor" /\ p.kind = "start"
  <2>1. p.k \in 1..9
    BY <1>3
  <2>2. \/ p.k = 1 /\ Current(t, p) = Set("bz.alarm")
        \/ p.k = 2 /\ Current(t, p) = Clear("bz.sonar")
        \/ p.k = 3 /\ Current(t, p) = Clear("bz.step")
        \/ p.k = 4 /\ Current(t, p) = Play("low")
        \/ p.k = 5 /\ Current(t, p) = Set("channel")
        \/ p.k = 6 /\ Current(t, p) = Set("irq")
        \/ p.k = 7 /\ Current(t, p) = Set("ev.alarm")
        \/ p.k = 8 /\ Current(t, p) = Set("ev.essential")
        \/ p.k = 9 /\ Current(t, p) = Tell("ERROR")
    BY <1>3, <2>1 DEF Current, Text
  <2> QED
    BY <1>3, <2>2
<1>4. CASE t = "monitor" /\ p.kind = "stop"
  <2>1. p.k \in 1..7
    BY <1>4
  <2>2. \/ p.k = 1 /\ Current(t, p) = Clear("bz.alarm")
        \/ p.k = 2 /\ Current(t, p) = Clear("bz.sonar")
        \/ p.k = 3 /\ Current(t, p) = Clear("channel")
        \/ p.k = 4 /\ Current(t, p) = Clear("irq")
        \/ p.k = 5 /\ Current(t, p) = Clear("ev.alarm")
        \/ p.k = 6 /\ Current(t, p) = Clear("ev.essential")
        \/ p.k = 7 /\ Current(t, p) = Tell(p.new)
    BY <1>4, <2>1 DEF Current, Text
  <2> QED
    BY <1>4, <2>2
<1>5. CASE t = "monitor" /\ p.kind = "raise"
  <2>1. p.k \in 1..3
    BY <1>5
  <2>2. \/ p.k = 1 /\ Current(t, p) = AlarmStart
        \/ p.k = 2 /\ Current(t, p) = Set("ev.essential")
        \/ p.k = 3 /\ Current(t, p) = Tell("ERROR")
    BY <1>5, <2>1 DEF Current, Text
  <2> QED
    BY <1>5, <2>2
<1>6. CASE t = "monitor" /\ p.kind = "lower"
  <2>1. p.k \in 1..3
    BY <1>6
  <2>2. \/ p.k = 1 /\ Current(t, p) = AlarmStop
        \/ p.k = 2 /\ Current(t, p) = Clear("ev.essential")
        \/ p.k = 3 /\ Current(t, p) = Tell(p.new)
    BY <1>6, <2>1 DEF Current, Text
  <2> QED
    BY <1>6, <2>2
<1>7. CASE t = "monitor" /\ p.kind = "tell"
  <2>1. p.k = 1
    BY <1>7
  <2> QED
    BY <1>7, <2>1 DEF Current, Text
<1>8. CASE t = "objdet" /\ p.kind = "start"
  <2>1. p.k \in 1..9
    BY <1>8
  <2>2. \/ p.k = 1 /\ Current(t, p) = Clear("bz.alarm")
        \/ p.k = 2 /\ Current(t, p) = Set("bz.sonar")
        \/ p.k = 3 /\ Current(t, p) = Clear("bz.gap")
        \/ p.k = 4 /\ Current(t, p) = Play("ping")
        \/ p.k = 5 /\ Current(t, p) = Set("channel")
        \/ p.k = 6 /\ Current(t, p) = Set("irq")
        \/ p.k = 7 /\ Current(t, p) = Set("ev.sonar")
        \/ p.k = 8 /\ Current(t, p) = Set("led")
        \/ p.k = 9 /\ Current(t, p) = Tell("detected")
    BY <1>8, <2>1 DEF Current, Text
  <2> QED
    BY <1>8, <2>2
<1>9. CASE t = "objdet" /\ p.kind = "stop"
  <2>1. p.k \in 1..7
    BY <1>9
  <2>2. \/ p.k = 1 /\ Current(t, p) = Clear("bz.alarm")
        \/ p.k = 2 /\ Current(t, p) = Clear("bz.sonar")
        \/ p.k = 3 /\ Current(t, p) = Clear("channel")
        \/ p.k = 4 /\ Current(t, p) = Clear("irq")
        \/ p.k = 5 /\ Current(t, p) = Clear("ev.sonar")
        \/ p.k = 6 /\ Current(t, p) = Clear("led")
        \/ p.k = 7 /\ Current(t, p) = Tell("cleared")
    BY <1>9, <2>1 DEF Current, Text
  <2> QED
    BY <1>9, <2>2
<1> QED
  BY <1>3, <1>4, <1>5, <1>6, <1>7, <1>8, <1>9

\* The place after p.
NextPlace(p) == [p EXCEPT !.k = @ + 1]

\* A handler that is not done is at a statement, and goes on to the next.
LEMMA Going ==
  ASSUME NEW t \in Handlers, NEW p \in Places(t), At(t, p)
  PROVE  /\ todo[t] = << >> <=> p.k = Len(Text(t, p.kind, p.new)) + 1
         /\ todo[t] # << >> => /\ p.k <= Len(Text(t, p.kind, p.new))
                               /\ Head(todo[t]) = Current(t, p)
                               /\ NextPlace(p) \in Places(t)
                               /\ NextPlace(p).kind = p.kind /\ NextPlace(p).k = p.k + 1
                               /\ todo'[t] = Tail(todo[t]) => At(t, NextPlace(p))'
<1> DEFINE text == Text(t, p.kind, p.new)
           n == Len(text)
           Goal == /\ todo[t] = << >> <=> p.k = n + 1
                   /\ todo[t] # << >> => /\ p.k <= n
                                         /\ Head(todo[t]) = Current(t, p)
                                         /\ NextPlace(p) \in Places(t)
                                         /\ NextPlace(p).kind = p.kind /\ NextPlace(p).k = p.k + 1
                                         /\ todo'[t] = Tail(todo[t]) => At(t, NextPlace(p))'
<1> SUFFICES Goal
  OBVIOUS
<1>0. p.kind \in {"start", "stop", "raise", "lower", "tell"}
  BY DEF Places, Handlers
<1>1. text \in Seq(Statements) /\ n \in 1..9
  <2>1. Size(p.kind) \in 1..9
    BY <1>0 DEF Size
  <2> QED
    BY <2>1, Texts
<1>2. /\ p.k \in 1..10 /\ p.k <= n + 1 /\ todo[t] = SubSeq(text, p.k, n)
  BY DEF Places, At, n, text
<1>3. /\ NextPlace(p).kind = p.kind /\ NextPlace(p).k = p.k + 1 /\ NextPlace(p).new = p.new
  BY DEF NextPlace, Places
<1>4. p.k + 1 \in 1..10 => NextPlace(p) \in Places(t)
  BY DEF NextPlace, Places
<1> HIDE DEF n, text
<1>5. CASE p.k = n + 1
  <2>1. todo[t] = << >>
    BY <1>1, <1>2, <1>5, SubSeqEmpty
  <2> QED
    BY <1>5, <2>1
<1>6. CASE p.k <= n
  <2>1. p.k \in 1..n /\ n \in p.k..n
    BY <1>1, <1>2, <1>6
  <2>2. Head(todo[t]) = text[p.k] /\ Tail(todo[t]) = SubSeq(text, p.k + 1, n)
    BY <1>1, <1>2, <2>1, HeadTailOfSubSeq DEF n
  <2>3. todo[t] # << >>
    <3>1. \A i \in p.k..n : text[i] \in Statements
      <4>1. \A i \in p.k..n : i \in 1..n
        BY <1>1, <1>2
      <4> QED
        BY <1>1, <4>1, ElementOfSeq DEF n
    <3>2. Len(todo[t]) = n - p.k + 1
      BY <1>1, <1>2, <1>6, <3>1, SubSeqProperties
    <3>3. n - p.k + 1 # 0
      <4>1. n \in Nat /\ p.k \in Nat
        BY <1>1, <1>2
      <4> QED
        BY <4>1, <1>6
    <3> QED
      BY <3>2, <3>3, EmptySeq
  <2>4. todo'[t] = Tail(todo[t]) => At(t, NextPlace(p))'
    <3>1. p.k + 1 <= n + 1
      BY <1>1, <1>2, <1>6
    <3>2. Text(t, NextPlace(p).kind, NextPlace(p).new) = text
      BY <1>3 DEF text
    <3>3. At(t, NextPlace(p))' <=> p.k + 1 <= n + 1 /\ todo'[t] = SubSeq(text, p.k + 1, n)
      BY <1>3, <3>2 DEF At, n
    <3> QED
      BY <2>2, <3>1, <3>3
  <2>5. NextPlace(p) \in Places(t) /\ p.k # n + 1
    BY <1>1, <1>2, <1>4, <1>6
  <2>6. Current(t, p) = text[p.k]
    BY DEF Current, text
  <2> QED
    BY <1>3, <1>6, <2>2, <2>3, <2>4, <2>5, <2>6
<1>7. p.k = n + 1 \/ p.k <= n
  BY <1>1, <1>2
<1> HIDE DEF Goal
<1> QED
  BY <1>5, <1>6, <1>7

-----------------------------------------------------------------------------
\* The flags that the argument is about.
Heard == {"bz.alarm", "bz.sonar", "channel", "ev.alarm", "ev.sonar"}

\* A task that has come to p, the other staying where it is.
LEMMA Moved ==
  ASSUME NEW m \in Places("monitor"), NEW o \in Places("objdet"),
         At("monitor", m), At("objdet", o), AlarmTypes',
         NEW t \in Handlers, NEW p \in Places(t), At(t, p)',
         \A u \in Handlers \ {t} : todo'[u] = todo[u],
         Excused(IF t = "monitor" THEN p ELSE m, IF t = "objdet" THEN p ELSE o)'
  PROVE  AlarmInv'
<1>1. CASE t = "monitor"
  <2>1. At("objdet", o)'
    BY <1>1 DEF At, Handlers
  <2>2. Excused(p, o)' /\ p \in Places("monitor") /\ At("monitor", p)'
    BY <1>1
  <2> QED
    BY <2>1, <2>2 DEF AlarmInv
<1>2. CASE t = "objdet"
  <2>1. At("monitor", m)'
    BY <1>2 DEF At, Handlers
  <2>2. Excused(m, p)' /\ p \in Places("objdet") /\ At("objdet", p)'
    BY <1>2
  <2> QED
    BY <2>1, <2>2 DEF AlarmInv
<1> QED
  BY <1>1, <1>2 DEF Handlers

\* What a task's next statement leaves of the invariant.
LEMMA Said ==
  ASSUME NEW m \in Places("monitor"), NEW o \in Places("objdet"),
         AlarmTypes, AlarmTypes', Excused(m, o),
         At("monitor", m), At("objdet", o),
         NEW t \in Handlers, todo[t] # << >>, Continue(t, << >>), UNCHANGED <<mode, presence>>,
         \A g \in Heard : on'[g] <=> \/ Head(todo[t]) = Set(g)
                                     \/ on[g] /\ Head(todo[t]) # Clear(g),
         Head(todo[t]).do = "alarm_stop_if_active" => ~on["ev.alarm"]
  PROVE  AlarmInv'
<1> DEFINE p == IF t = "monitor" THEN m ELSE o
           q == NextPlace(p)
           h == Head(todo[t])
<1>1. p \in Places(t) /\ At(t, p)
  BY DEF Handlers
<1>2. /\ p.k <= Len(Text(t, p.kind, p.new)) /\ h = Current(t, p)
      /\ q \in Places(t) /\ q.kind = p.kind /\ q.k = p.k + 1
      /\ todo'[t] = Tail(todo[t]) => At(t, q)'
  BY <1>1, Going
<1>3. todo'[t] = Tail(todo[t]) /\ \A u \in Handlers \ {t} : todo'[u] = todo[u]
  <2>1. todo[t] \in Seq(Statements)
    BY DEF AlarmTypes
  <2>2. Tail(todo[t]) \in Seq(Statements)
    BY <2>1, HeadTailProperties
  <2>3. << >> \o Tail(todo[t]) = Tail(todo[t])
    BY <2>2, ConcatEmptySeq
  <2> QED
    BY <2>3 DEF Continue, AlarmTypes
<1>4. /\ \A f \in {"bz.alarm", "bz.sonar", "channel"} :
           /\ h = Set(f) => p.kind = "start" /\ p.k < 7
           /\ p.kind = "stop" /\ p.k = Position(f) => h = Clear(f)
      /\ h = Set("bz.alarm") => t = "monitor"
      /\ h = Set("bz.sonar") => t = "objdet"
      /\ \A g \in {"ev.alarm", "ev.sonar"} :
           /\ h = Set(g) => g = Flag(t) /\ p.kind = "start" /\ p.k = 7
           /\ h = Clear(g) => g = Flag(t) /\ p.kind = "stop" /\ p.k = 5
      /\ p.kind = "start" /\ p.k = 7 => h = Set(Flag(t))
      /\ p.kind = "stop" /\ p.k = 5 => h = Clear(Flag(t))
      /\ p.kind = "lower" /\ p.k = 1 => h.do = "alarm_stop_if_active"
  BY <1>1, <1>2, Says
<1>5. /\ p.k \in 1..10 /\ p.kind \in {"start", "stop", "raise", "lower", "tell"}
      /\ t = "objdet" => p.kind \in {"start", "stop"}
  BY <1>1 DEF Places, Handlers
<1>6. CASE t = "monitor"
  <2>1. p = m /\ Flag(t) = "ev.alarm"
    BY <1>6 DEF Flag
  <2> HIDE DEF h, q, p
  <2>2. Excused(q, o)'
    BY <1>2, <1>4, <1>5, <1>6, <2>1
    DEF Excused, Answers, WillFlag, WillClear, Flag, Position, Heard, h
  <2> QED
    BY <1>2, <1>3, <1>6, <2>2, Moved
<1>7. CASE t = "objdet"
  <2>1. p = o /\ Flag(t) = "ev.sonar"
    BY <1>7 DEF Flag
  <2> HIDE DEF h, q, p
  <2>2. Excused(m, q)'
    BY <1>2, <1>4, <1>5, <1>7, <2>1
    DEF Excused, Answers, WillFlag, WillClear, Flag, Position, Heard, h
  <2> QED
    BY <1>2, <1>3, <1>7, <2>2, Moved
<1> QED
  BY <1>6, <1>7 DEF Handlers

\* Statements are told apart by what they do and to what.
LEMMA Distinct ==
  ASSUME NEW h \in Statements
  PROVE  /\ h.do \in {"set", "clear"} => h.what \in Flags
         /\ \A g \in Flags : /\ h = Set(g) <=> h.do = "set" /\ h.what = g
                             /\ h = Clear(g) <=> h.do = "clear" /\ h.what = g
         /\ h.do = "play" => h.what \in Tones
         /\ h.do = "alarm_start" => h = AlarmStart
         /\ h.do = "alarm_stop_if_active" => h = AlarmStop
         /\ h.do \in {"set", "clear", "play", "tell", "alarm_start", "alarm_stop_if_active"}
<1>1. AlarmStart.do = "alarm_start" /\ AlarmStop.do = "alarm_stop_if_active"
  BY Zenon DEF AlarmStart, AlarmStop
<1> QED
  BY <1>1 DEF Statements, Set, Clear

\* A handler that is not done has a first statement, and others after it.
LEMMA HeadIs ==
  ASSUME AlarmTypes, NEW t \in Handlers, todo[t] # << >>
  PROVE  Head(todo[t]) \in Statements /\ Tail(todo[t]) \in Seq(Statements)
  BY HeadTailProperties DEF AlarmTypes

\* What a task has left once its statement is done: `more`, and then the others.
LEMMA Continues ==
  ASSUME AlarmTypes, NEW t \in Handlers, todo[t] # << >>,
         NEW more \in Seq(Statements), Continue(t, more)
  PROVE  /\ todo' \in [Handlers -> Seq(Statements)]
         /\ todo'[t] = more \o Tail(todo[t])
         /\ \A u \in Handlers \ {t} : todo'[u] = todo[u]
<1>1. more \o Tail(todo[t]) \in Seq(Statements)
  BY HeadIs, ConcatProperties
<1> QED
  BY <1>1 DEF Continue, AlarmTypes

\* Most statements leave no more to be done.
LEMMA Empty == << >> \in Seq(Statements)
  BY EmptySeq

\* The five statements, each of which leaves the invariant as it was.
LEMMA StoreFlagKeeps == ASSUME AlarmInv, NEW t \in Handlers, StoreFlag(t) PROVE AlarmInv'
<1> DEFINE h == Head(todo[t])
           v == h.do = "set"
<1>0. PICK m \in Places("monitor"), o \in Places("objdet") :
        At("monitor", m) /\ At("objdet", o) /\ Excused(m, o)
  BY DEF AlarmInv
<1>1. /\ AlarmTypes /\ todo[t] # << >> /\ h.do \in {"set", "clear"} /\ Continue(t, << >>)
      /\ UNCHANGED <<mode, presence>>
      /\ on' = [on EXCEPT ![h.what] = v, !["counter"] = Counts(h.what, v)]
  BY DEF AlarmInv, StoreFlag, Doing
<1>2. h \in Statements
  BY <1>1, HeadIs
<1>3. /\ h.what \in Flags
      /\ \A g \in Flags : /\ h = Set(g) <=> h.do = "set" /\ h.what = g
                          /\ h = Clear(g) <=> h.do = "clear" /\ h.what = g
  BY <1>1, <1>2, Distinct
<1> HIDE DEF h
<1>4. Heard \subseteq Flags /\ "counter" \in Flags \ Heard
  BY DEF Heard, Flags
<1>5. on \in [Flags -> BOOLEAN] /\ v \in BOOLEAN /\ Counts(h.what, v) \in BOOLEAN
  BY <1>1, <1>3, <1>4 DEF AlarmTypes, Counts, Flags
<1>6. on' \in [Flags -> BOOLEAN]
  BY <1>1, <1>3, <1>5
<1>7. \A g \in Heard : on'[g] = IF g = h.what THEN v ELSE on[g]
  BY <1>1, <1>3, <1>4, <1>5
<1>8. \A g \in Heard : on'[g] <=> h = Set(g) \/ (on[g] /\ h # Clear(g))
  <2> SUFFICES ASSUME NEW g \in Heard PROVE on'[g] <=> h = Set(g) \/ (on[g] /\ h # Clear(g))
    OBVIOUS
  <2>1. /\ h = Set(g) <=> h.do = "set" /\ h.what = g
        /\ h = Clear(g) <=> h.do = "clear" /\ h.what = g
    <3>1. g \in Flags
      BY <1>4
    <3> QED
      BY <1>3, <3>1, Zenon
  <2>2. CASE g = h.what
    BY <1>1, <1>7, <2>1, <2>2
  <2>3. CASE g # h.what
    BY <1>7, <2>1, <2>3
  <2> QED
    BY <2>2, <2>3
<1>9. AlarmTypes'
  BY <1>1, <1>6, Continues, Empty DEF AlarmTypes
<1>10. h.do # "alarm_stop_if_active"
  BY <1>1
<1> QED
  BY <1>0, <1>1, <1>8, <1>9, <1>10, Said DEF h

\* A statement that stores no flag, and that is not the test of an alarm to be stopped.
LEMMA OthersKeep ==
  ASSUME AlarmInv, NEW t \in Handlers, todo[t] # << >>, Continue(t, << >>),
         UNCHANGED <<on, mode, presence>>, Head(todo[t]).do \notin {"set", "clear"},
         Head(todo[t]).do = "alarm_stop_if_active" => ~on["ev.alarm"]
  PROVE  AlarmInv'
<1>0. PICK m \in Places("monitor"), o \in Places("objdet") :
        At("monitor", m) /\ At("objdet", o) /\ Excused(m, o)
  BY DEF AlarmInv
<1>1. AlarmTypes /\ AlarmTypes'
  BY Continues, Empty DEF AlarmInv, AlarmTypes
<1>2. \A g \in Heard : Head(todo[t]) # Set(g) /\ Head(todo[t]) # Clear(g)
  <2> SUFFICES ASSUME NEW g \in Heard
               PROVE  Head(todo[t]) # Set(g) /\ Head(todo[t]) # Clear(g)
    OBVIOUS
  <2>1. /\ Head(todo[t]) = Set(g) => Head(todo[t]).do = "set"
        /\ Head(todo[t]) = Clear(g) => Head(todo[t]).do = "clear"
    BY DEF Set, Clear
  <2> QED
    BY <2>1
<1> QED
  BY <1>0, <1>1, <1>2, Said

LEMMA LoadNoteKeeps == ASSUME AlarmInv, NEW t \in Handlers, LoadNote(t) PROVE AlarmInv'
  BY OthersKeep DEF LoadNote, Doing

LEMMA ReportKeeps == ASSUME AlarmInv, NEW t \in Handlers, Report(t) PROVE AlarmInv'
  BY OthersKeep DEF Report, Doing

\* Two sequences one after the other.
LEMMA Joined ==
  ASSUME NEW S, NEW s \in Seq(S), NEW r \in Seq(S), NEW u \in Seq(S), Len(u) = Len(s) + Len(r),
         \A i \in 1..Len(s) : u[i] = s[i], \A i \in 1..Len(r) : u[Len(s) + i] = r[i]
  PROVE  s \o r = u
<1> DEFINE n == Len(s)  l == Len(r)
<1>1. n \in Nat /\ l \in Nat
  BY LenProperties
<1>2. /\ s \o r \in Seq(S) /\ Len(s \o r) = n + l
      /\ \A i \in 1..n + l : (s \o r)[i] = IF i <= n THEN s[i] ELSE r[i - n]
  BY ConcatProperties
<1>3. /\ Len(u) = n + l /\ \A i \in 1..n : u[i] = s[i]
      /\ \A i \in 1..l : u[n + i] = r[i]
  OBVIOUS
<1> HIDE DEF n, l
<1>4. ASSUME NEW i \in 1..n + l
      PROVE  (s \o r)[i] = u[i]
  <2>1. CASE i <= n
    BY <1>1, <1>2, <1>3, <2>1
  <2>2. CASE ~(i <= n)
    <3>1. i - n \in 1..l /\ n + (i - n) = i
      BY <1>1, <2>2
    <3> QED
      BY <1>1, <1>2, <1>3, <2>2, <3>1
  <2> QED
    BY <2>1, <2>2
<1> QED
  BY <1>2, <1>3, <1>4, SeqEqual

\* The functions of buzzer.c and event.c, written out.
LEMMA StartSiren ==
  BuzzerStartAlarm = <<Set("bz.alarm"), Clear("bz.sonar"), Clear("bz.step"), Play("low"),
                       Set("channel"), Set("irq")>>
<1> DEFINE s == <<Set("bz.alarm"), Clear("bz.sonar"), Clear("bz.step")>>
           r == <<Play("low"), Set("channel"), Set("irq")>>
           u == <<Set("bz.alarm"), Clear("bz.sonar"), Clear("bz.step"), Play("low"),
                  Set("channel"), Set("irq")>>
<1>1. /\ s \in Seq(Statements) /\ r \in Seq(Statements) /\ u \in Seq(Statements)
      /\ Len(s) = 3 /\ Len(r) = 3 /\ Len(u) = 6
  BY Written DEF Flags, Tones, Modes
<1>2. /\ \A i \in 1..3 : u[i] = s[i]
      /\ \A i \in 1..3 : u[3 + i] = r[i]
  OBVIOUS
<1>3. BuzzerStartAlarm = s \o r
  BY DEF BuzzerStartAlarm, ArmNote
<1> HIDE DEF s, r, u
<1>4. /\ Len(u) = Len(s) + Len(r)
      /\ \A i \in 1..Len(s) : u[i] = s[i]
      /\ \A i \in 1..Len(r) : u[Len(s) + i] = r[i]
  BY <1>1, <1>2
<1>5. BuzzerStartAlarm = u
  BY <1>1, <1>3, <1>4, Joined
<1> QED
  BY <1>5 DEF u

LEMMA FlagSiren ==
  StartAndFlag = <<Set("bz.alarm"), Clear("bz.sonar"), Clear("bz.step"), Play("low"),
                   Set("channel"), Set("irq"), Set("ev.alarm")>>
<1> DEFINE s == <<Set("bz.alarm"), Clear("bz.sonar"), Clear("bz.step"), Play("low"),
                  Set("channel"), Set("irq")>>
           r == <<Set("ev.alarm")>>
           u == <<Set("bz.alarm"), Clear("bz.sonar"), Clear("bz.step"), Play("low"),
                  Set("channel"), Set("irq"), Set("ev.alarm")>>
<1>1. /\ s \in Seq(Statements) /\ r \in Seq(Statements) /\ u \in Seq(Statements)
      /\ Len(s) = 6 /\ Len(r) = 1 /\ Len(u) = 7
  BY Written DEF Flags, Tones, Modes
<1>2. /\ \A i \in 1..6 : u[i] = s[i]
      /\ \A i \in 1..1 : u[6 + i] = r[i]
  OBVIOUS
<1>3. StartAndFlag = s \o r
  BY StartSiren DEF StartAndFlag
<1> HIDE DEF s, r, u
<1>4. /\ Len(u) = Len(s) + Len(r)
      /\ \A i \in 1..Len(s) : u[i] = s[i]
      /\ \A i \in 1..Len(r) : u[Len(s) + i] = r[i]
  BY <1>1, <1>2
<1>5. StartAndFlag = u
  BY <1>1, <1>3, <1>4, Joined
<1> QED
  BY <1>5 DEF u

LEMMA WholeSiren ==
  StartAndFlag \o <<Set("ev.essential"), Tell("ERROR")>> = <<Set("bz.alarm"),
                                                       Clear("bz.sonar"),
                                                       Clear("bz.step"), Play("low"),
                                                       Set("channel"), Set("irq"),
                                                       Set("ev.alarm"),
                                                       Set("ev.essential"),
                                                       Tell("ERROR")>>
<1> DEFINE s == <<Set("bz.alarm"), Clear("bz.sonar"), Clear("bz.step"), Play("low"),
                  Set("channel"), Set("irq"), Set("ev.alarm")>>
           r == <<Set("ev.essential"), Tell("ERROR")>>
           u == <<Set("bz.alarm"), Clear("bz.sonar"), Clear("bz.step"), Play("low"),
                  Set("channel"), Set("irq"), Set("ev.alarm"), Set("ev.essential"),
                  Tell("ERROR")>>
<1>1. /\ s \in Seq(Statements) /\ r \in Seq(Statements) /\ u \in Seq(Statements)
      /\ Len(s) = 7 /\ Len(r) = 2 /\ Len(u) = 9
  BY Written DEF Flags, Tones, Modes
<1>2. /\ \A i \in 1..7 : u[i] = s[i]
      /\ \A i \in 1..2 : u[7 + i] = r[i]
  OBVIOUS
<1>3. StartAndFlag \o <<Set("ev.essential"), Tell("ERROR")>> = s \o r
  BY FlagSiren
<1> HIDE DEF s, r, u
<1>4. /\ Len(u) = Len(s) + Len(r)
      /\ \A i \in 1..Len(s) : u[i] = s[i]
      /\ \A i \in 1..Len(r) : u[Len(s) + i] = r[i]
  BY <1>1, <1>2
<1>5. StartAndFlag \o <<Set("ev.essential"), Tell("ERROR")>> = u
  BY <1>1, <1>3, <1>4, Joined
<1> QED
  BY <1>5 DEF u

LEMMA StopSiren ==
  BuzzerStop \o <<Clear("ev.alarm")>> = <<Clear("bz.alarm"), Clear("bz.sonar"),
                                      Clear("channel"), Clear("irq"),
                                      Clear("ev.alarm")>>
<1> DEFINE s == <<Clear("bz.alarm"), Clear("bz.sonar"), Clear("channel"), Clear("irq")>>
           r == <<Clear("ev.alarm")>>
           u == <<Clear("bz.alarm"), Clear("bz.sonar"), Clear("channel"), Clear("irq"),
                  Clear("ev.alarm")>>
<1>1. /\ s \in Seq(Statements) /\ r \in Seq(Statements) /\ u \in Seq(Statements)
      /\ Len(s) = 4 /\ Len(r) = 1 /\ Len(u) = 5
  BY Written DEF Flags, Tones, Modes
<1>2. /\ \A i \in 1..4 : u[i] = s[i]
      /\ \A i \in 1..1 : u[4 + i] = r[i]
  OBVIOUS
<1>3. BuzzerStop \o <<Clear("ev.alarm")>> = s \o r
  BY DEF BuzzerStop
<1> HIDE DEF s, r, u
<1>4. /\ Len(u) = Len(s) + Len(r)
      /\ \A i \in 1..Len(s) : u[i] = s[i]
      /\ \A i \in 1..Len(r) : u[Len(s) + i] = r[i]
  BY <1>1, <1>2
<1>5. BuzzerStop \o <<Clear("ev.alarm")>> = u
  BY <1>1, <1>3, <1>4, Joined
<1> QED
  BY <1>5 DEF u

LEMMA WholeStop ==
  ASSUME NEW new \in Modes
  PROVE  (BuzzerStop \o <<Clear("ev.alarm")>>) \o <<Clear("ev.essential"), Tell(new)>>
           = <<Clear("bz.alarm"), Clear("bz.sonar"), Clear("channel"), Clear("irq"),
               Clear("ev.alarm"), Clear("ev.essential"), Tell(new)>>
<1> DEFINE s == <<Clear("bz.alarm"), Clear("bz.sonar"), Clear("channel"), Clear("irq"),
                  Clear("ev.alarm")>>
           r == <<Clear("ev.essential"), Tell(new)>>
           u == <<Clear("bz.alarm"), Clear("bz.sonar"), Clear("channel"), Clear("irq"),
                  Clear("ev.alarm"), Clear("ev.essential"), Tell(new)>>
<1>1. /\ s \in Seq(Statements) /\ r \in Seq(Statements) /\ u \in Seq(Statements)
      /\ Len(s) = 5 /\ Len(r) = 2 /\ Len(u) = 7
  BY Written DEF Flags, Tones, Modes
<1>2. /\ \A i \in 1..5 : u[i] = s[i]
      /\ \A i \in 1..2 : u[5 + i] = r[i]
  OBVIOUS
<1>3. (BuzzerStop \o <<Clear("ev.alarm")>>) \o <<Clear("ev.essential"), Tell(new)>> = s \o r
  BY StopSiren
<1> HIDE DEF s, r, u
<1>4. /\ Len(u) = Len(s) + Len(r)
      /\ \A i \in 1..Len(s) : u[i] = s[i]
      /\ \A i \in 1..Len(r) : u[Len(s) + i] = r[i]
  BY <1>1, <1>2
<1>5. (BuzzerStop \o <<Clear("ev.alarm")>>) \o <<Clear("ev.essential"), Tell(new)>> = u
  BY <1>1, <1>3, <1>4, Joined
<1> QED
  BY <1>5 DEF u

LEMMA ToError ==
  <<AlarmStart, Set("ev.essential")>> \o <<Tell("ERROR")>> = <<AlarmStart,
                                                         Set("ev.essential"),
                                                         Tell("ERROR")>>
<1> DEFINE s == <<AlarmStart, Set("ev.essential")>>
           r == <<Tell("ERROR")>>
           u == <<AlarmStart, Set("ev.essential"), Tell("ERROR")>>
<1>1. /\ s \in Seq(Statements) /\ r \in Seq(Statements) /\ u \in Seq(Statements)
      /\ Len(s) = 2 /\ Len(r) = 1 /\ Len(u) = 3
  BY Written DEF Flags, Tones, Modes
<1>2. /\ \A i \in 1..2 : u[i] = s[i]
      /\ \A i \in 1..1 : u[2 + i] = r[i]
  OBVIOUS
<1>3. <<AlarmStart, Set("ev.essential")>> \o <<Tell("ERROR")>> = s \o r
  OBVIOUS
<1> HIDE DEF s, r, u
<1>4. /\ Len(u) = Len(s) + Len(r)
      /\ \A i \in 1..Len(s) : u[i] = s[i]
      /\ \A i \in 1..Len(r) : u[Len(s) + i] = r[i]
  BY <1>1, <1>2
<1>5. <<AlarmStart, Set("ev.essential")>> \o <<Tell("ERROR")>> = u
  BY <1>1, <1>3, <1>4, Joined
<1> QED
  BY <1>5 DEF u

LEMMA FromError ==
  ASSUME NEW new \in Modes
  PROVE  <<AlarmStop, Clear("ev.essential")>> \o <<Tell(new)>> = <<AlarmStop,
                                                             Clear("ev.essential"),
                                                             Tell(new)>>
<1> DEFINE s == <<AlarmStop, Clear("ev.essential")>>
           r == <<Tell(new)>>
           u == <<AlarmStop, Clear("ev.essential"), Tell(new)>>
<1>1. /\ s \in Seq(Statements) /\ r \in Seq(Statements) /\ u \in Seq(Statements)
      /\ Len(s) = 2 /\ Len(r) = 1 /\ Len(u) = 3
  BY Written DEF Flags, Tones, Modes
<1>2. /\ \A i \in 1..2 : u[i] = s[i]
      /\ \A i \in 1..1 : u[2 + i] = r[i]
  OBVIOUS
<1>3. <<AlarmStop, Clear("ev.essential")>> \o <<Tell(new)>> = s \o r
  OBVIOUS
<1> HIDE DEF s, r, u
<1>4. /\ Len(u) = Len(s) + Len(r)
      /\ \A i \in 1..Len(s) : u[i] = s[i]
      /\ \A i \in 1..Len(r) : u[Len(s) + i] = r[i]
  BY <1>1, <1>2
<1>5. <<AlarmStop, Clear("ev.essential")>> \o <<Tell(new)>> = u
  BY <1>1, <1>3, <1>4, Joined
<1> QED
  BY <1>5 DEF u

LEMMA StartPing ==
  BuzzerStartSonar = <<Clear("bz.alarm"), Set("bz.sonar"), Clear("bz.gap"), Play("ping"),
                       Set("channel"), Set("irq")>>
<1> DEFINE s == <<Clear("bz.alarm"), Set("bz.sonar"), Clear("bz.gap")>>
           r == <<Play("ping"), Set("channel"), Set("irq")>>
           u == <<Clear("bz.alarm"), Set("bz.sonar"), Clear("bz.gap"), Play("ping"),
                  Set("channel"), Set("irq")>>
<1>1. /\ s \in Seq(Statements) /\ r \in Seq(Statements) /\ u \in Seq(Statements)
      /\ Len(s) = 3 /\ Len(r) = 3 /\ Len(u) = 6
  BY Written DEF Flags, Tones, Modes
<1>2. /\ \A i \in 1..3 : u[i] = s[i]
      /\ \A i \in 1..3 : u[3 + i] = r[i]
  OBVIOUS
<1>3. BuzzerStartSonar = s \o r
  BY DEF BuzzerStartSonar, ArmNote
<1> HIDE DEF s, r, u
<1>4. /\ Len(u) = Len(s) + Len(r)
      /\ \A i \in 1..Len(s) : u[i] = s[i]
      /\ \A i \in 1..Len(r) : u[Len(s) + i] = r[i]
  BY <1>1, <1>2
<1>5. BuzzerStartSonar = u
  BY <1>1, <1>3, <1>4, Joined
<1> QED
  BY <1>5 DEF u

LEMMA WholePing ==
  EventObjectDetected = <<Clear("bz.alarm"), Set("bz.sonar"), Clear("bz.gap"),
                          Play("ping"), Set("channel"), Set("irq"), Set("ev.sonar"),
                          Set("led"), Tell("detected")>>
<1> DEFINE s == <<Clear("bz.alarm"), Set("bz.sonar"), Clear("bz.gap"), Play("ping"),
                  Set("channel"), Set("irq")>>
           r == <<Set("ev.sonar"), Set("led"), Tell("detected")>>
           u == <<Clear("bz.alarm"), Set("bz.sonar"), Clear("bz.gap"), Play("ping"),
                  Set("channel"), Set("irq"), Set("ev.sonar"), Set("led"),
                  Tell("detected")>>
<1>1. /\ s \in Seq(Statements) /\ r \in Seq(Statements) /\ u \in Seq(Statements)
      /\ Len(s) = 6 /\ Len(r) = 3 /\ Len(u) = 9
  BY Written DEF Flags, Tones, Modes
<1>2. /\ \A i \in 1..6 : u[i] = s[i]
      /\ \A i \in 1..3 : u[6 + i] = r[i]
  OBVIOUS
<1>3. EventObjectDetected = s \o r
  BY StartPing DEF EventObjectDetected
<1> HIDE DEF s, r, u
<1>4. /\ Len(u) = Len(s) + Len(r)
      /\ \A i \in 1..Len(s) : u[i] = s[i]
      /\ \A i \in 1..Len(r) : u[Len(s) + i] = r[i]
  BY <1>1, <1>2
<1>5. EventObjectDetected = u
  BY <1>1, <1>3, <1>4, Joined
<1> QED
  BY <1>5 DEF u

LEMMA WholeRest ==
  EventObjectCleared = <<Clear("bz.alarm"), Clear("bz.sonar"), Clear("channel"),
                         Clear("irq"), Clear("ev.sonar"), Clear("led"), Tell("cleared")>>
<1> DEFINE s == <<Clear("bz.alarm"), Clear("bz.sonar"), Clear("channel"), Clear("irq")>>
           r == <<Clear("ev.sonar"), Clear("led"), Tell("cleared")>>
           u == <<Clear("bz.alarm"), Clear("bz.sonar"), Clear("channel"), Clear("irq"),
                  Clear("ev.sonar"), Clear("led"), Tell("cleared")>>
<1>1. /\ s \in Seq(Statements) /\ r \in Seq(Statements) /\ u \in Seq(Statements)
      /\ Len(s) = 4 /\ Len(r) = 3 /\ Len(u) = 7
  BY Written DEF Flags, Tones, Modes
<1>2. /\ \A i \in 1..4 : u[i] = s[i]
      /\ \A i \in 1..3 : u[4 + i] = r[i]
  OBVIOUS
<1>3. EventObjectCleared = s \o r
  BY DEF EventObjectCleared, BuzzerStop
<1> HIDE DEF s, r, u
<1>4. /\ Len(u) = Len(s) + Len(r)
      /\ \A i \in 1..Len(s) : u[i] = s[i]
      /\ \A i \in 1..Len(r) : u[Len(s) + i] = r[i]
  BY <1>1, <1>2
<1>5. EventObjectCleared = u
  BY <1>1, <1>3, <1>4, Joined
<1> QED
  BY <1>5 DEF u

\* The second and the third of three.
LEMMA TailOfThree ==
  ASSUME NEW a \in Statements, NEW b \in Statements, NEW c \in Statements
  PROVE  Tail(<<a, b, c>>) = <<b, c>>
<1> DEFINE s == <<a, b, c>>
           r == <<b, c>>
<1>1. s \in Seq(Statements) /\ r \in Seq(Statements) /\ Len(s) = 3 /\ Len(r) = 2
  OBVIOUS
<1>2. s # << >> /\ \A i \in 1..2 : s[i + 1] = r[i]
  OBVIOUS
<1> HIDE DEF s, r
<1>3. Tail(s) \in Seq(Statements) /\ Len(Tail(s)) = 2 /\ \A i \in 1..2 : Tail(s)[i] = r[i]
  <2>1. /\ Tail(s) \in Seq(Statements) /\ Len(Tail(s)) = Len(s) - 1
        /\ \A i \in 1..Len(Tail(s)) : Tail(s)[i] = s[i + 1]
    BY <1>1, <1>2, HeadTailProperties
  <2>2. Len(Tail(s)) = 2
    BY <1>1, <2>1
  <2> QED
    BY <1>2, <2>1, <2>2
<1>4. Tail(s) = r
  BY <1>1, <1>3, SeqEqual
<1> QED
  BY <1>4 DEF s, r

\* What is left after the test of event_mode_changed().
LEMMA Rest ==
  ASSUME NEW p \in Places("monitor"), At("monitor", p), p.k = 1
  PROVE  /\ p.kind = "raise" => Tail(todo["monitor"]) = <<Set("ev.essential"), Tell("ERROR")>>
         /\ p.kind = "lower" => Tail(todo["monitor"]) = <<Clear("ev.essential"), Tell(p.new)>>
<1> DEFINE text == Text("monitor", p.kind, p.new)
<1>1. text \in Seq(Statements) /\ SubSeq(text, 1, Len(text)) = text
  BY Texts, SubSeqFull DEF Handlers
<1>2. todo["monitor"] = text
  BY <1>1 DEF At
<1>3. CASE p.kind = "raise"
  <2>1. text = <<AlarmStart, Set("ev.essential"), Tell("ERROR")>>
    BY <1>3 DEF Text
  <2>2. /\ AlarmStart \in Statements /\ Set("ev.essential") \in Statements
        /\ Tell("ERROR") \in Statements
    BY Written DEF Flags, Modes, Places
  <2>3. Tail(<<AlarmStart, Set("ev.essential"), Tell("ERROR")>>)
          = <<Set("ev.essential"), Tell("ERROR")>>
    BY <2>2, TailOfThree
  <2> QED
    BY <1>2, <1>3, <2>1, <2>3
<1>4. CASE p.kind = "lower"
  <2>1. text = <<AlarmStop, Clear("ev.essential"), Tell(p.new)>>
    BY <1>4 DEF Text
  <2>2. /\ AlarmStop \in Statements /\ Clear("ev.essential") \in Statements
        /\ Tell(p.new) \in Statements
    BY Written DEF Flags, Modes, Places
  <2>3. Tail(<<AlarmStop, Clear("ev.essential"), Tell(p.new)>>)
          = <<Clear("ev.essential"), Tell(p.new)>>
    BY <2>2, TailOfThree
  <2> QED
    BY <1>2, <1>4, <2>1, <2>3
<1> QED
  BY <1>3, <1>4

\* The start of a text: all of it is still to be done.
LEMMA Begins ==
  ASSUME NEW t \in Handlers, NEW p \in Places(t), p.k = 1,
         todo'[t] = Text(t, p.kind, p.new)
  PROVE  At(t, p)'
<1> DEFINE text == Text(t, p.kind, p.new)
           n == Len(text)
<1>1. text \in Seq(Statements) /\ n \in Nat /\ SubSeq(text, 1, n) = text
  BY Texts, LenProperties, SubSeqFull
<1>2. At(t, p)' <=> 1 <= n + 1 /\ todo'[t] = SubSeq(text, 1, n)
  BY DEF At
<1> HIDE DEF n
<1> QED
  BY <1>1, <1>2

\* The siren is started unless its flag is set already.
LEMMA TestAlarmStartKeeps ==
  ASSUME AlarmInv, NEW t \in Handlers, TestAlarmStart(t) PROVE AlarmInv'
<1>1. /\ AlarmTypes /\ todo[t] # << >> /\ UNCHANGED <<on, mode, presence>>
      /\ Head(todo[t]).do = "alarm_start"
  BY DEF AlarmInv, TestAlarmStart, Doing
<1>2. CASE on["ev.alarm"]
  BY <1>1, <1>2, OthersKeep DEF TestAlarmStart
<1>3. CASE ~on["ev.alarm"]
  <2>0. PICK m \in Places("monitor"), o \in Places("objdet") :
          At("monitor", m) /\ At("objdet", o) /\ Excused(m, o)
    BY DEF AlarmInv
  <2> DEFINE p == [kind |-> "start", new |-> "ERROR", k |-> 1]
             q == IF t = "monitor" THEN m ELSE o
  <2>1. q \in Places(t) /\ At(t, q)
    BY <2>0 DEF Handlers
  <2>2. /\ q.k <= Len(Text(t, q.kind, q.new)) /\ Head(todo[t]) = Current(t, q)
    BY <1>1, <2>1, Going
  <2>3. q.kind = "raise" /\ q.k = 1
    BY <1>1, <2>1, <2>2, Says
  <2>4. t = "monitor" /\ q = m
    BY <2>1, <2>3 DEF Handlers, Places
  <2>5. Continue(t, StartAndFlag)
    BY <1>3 DEF TestAlarmStart
  <2>6. Tail(todo[t]) = <<Set("ev.essential"), Tell("ERROR")>>
    BY <2>1, <2>3, <2>4, Rest
  <2>7. StartAndFlag \in Seq(Statements)
    BY FlagSiren, Written DEF Flags, Tones
  <2>8. /\ todo' \in [Handlers -> Seq(Statements)]
        /\ todo'[t] = Text("monitor", "start", "ERROR")
        /\ \A u \in Handlers \ {t} : todo'[u] = todo[u]
    BY <1>1, <2>5, <2>6, <2>7, Continues, WholeSiren DEF Text
  <2>9. p \in Places("monitor") /\ p.k = 1 /\ p.kind = "start" /\ p.new = "ERROR"
    BY DEF Places, Modes
  <2>10. Excused(p, o)'
    BY <1>1, <1>3, <2>0, <2>3, <2>4
    DEF Excused, Answers, WillFlag, WillClear, Flag, Position
  <2>11. AlarmTypes'
    BY <1>1, <2>8 DEF AlarmTypes
  <2> HIDE DEF p, q
  <2>12. At("monitor", p)'
    BY <2>4, <2>8, <2>9, Begins
  <2> QED
    BY <2>0, <2>4, <2>8, <2>9, <2>10, <2>11, <2>12, Moved
<1> QED
  BY <1>2, <1>3

\* The alarm is stopped if its flag is set; if it is not, the siren is silent already.
LEMMA TestAlarmStopKeeps ==
  ASSUME AlarmInv, NEW t \in Handlers, TestAlarmStop(t) PROVE AlarmInv'
<1>1. /\ AlarmTypes /\ todo[t] # << >> /\ UNCHANGED <<on, mode, presence>>
      /\ Head(todo[t]).do = "alarm_stop_if_active"
  BY DEF AlarmInv, TestAlarmStop, Doing
<1>2. CASE ~on["ev.alarm"]
  BY <1>1, <1>2, OthersKeep DEF TestAlarmStop
<1>3. CASE on["ev.alarm"]
  <2>0. PICK m \in Places("monitor"), o \in Places("objdet") :
          At("monitor", m) /\ At("objdet", o) /\ Excused(m, o)
    BY DEF AlarmInv
  <2> DEFINE p == [kind |-> "stop", new |-> m.new, k |-> 1]
             q == IF t = "monitor" THEN m ELSE o
             more == BuzzerStop \o <<Clear("ev.alarm")>>
  <2>1. q \in Places(t) /\ At(t, q)
    BY <2>0 DEF Handlers
  <2>2. /\ q.k <= Len(Text(t, q.kind, q.new)) /\ Head(todo[t]) = Current(t, q)
    BY <1>1, <2>1, Going
  <2>3. q.kind = "lower" /\ q.k = 1
    BY <1>1, <2>1, <2>2, Says
  <2>4. t = "monitor" /\ q = m /\ m.new \in Modes
    BY <2>1, <2>3 DEF Handlers, Places
  <2>5. Continue(t, more)
    BY <1>3 DEF TestAlarmStop
  <2>6. Tail(todo[t]) = <<Clear("ev.essential"), Tell(m.new)>>
    BY <2>1, <2>3, <2>4, Rest
  <2>7. more \in Seq(Statements)
    <3>1. /\ Clear("bz.alarm") \in Statements /\ Clear("bz.sonar") \in Statements
          /\ Clear("channel") \in Statements /\ Clear("irq") \in Statements
          /\ Clear("ev.alarm") \in Statements
      BY Written DEF Flags
    <3>2. <<Clear("bz.alarm"), Clear("bz.sonar"), Clear("channel"), Clear("irq"),
            Clear("ev.alarm")>> \in Seq(Statements)
      BY <3>1
    <3> QED
      BY <3>2, StopSiren
  <2>8. /\ todo' \in [Handlers -> Seq(Statements)]
        /\ todo'[t] = Text("monitor", "stop", m.new)
        /\ \A u \in Handlers \ {t} : todo'[u] = todo[u]
    BY <1>1, <2>4, <2>5, <2>6, <2>7, Continues, WholeStop DEF Text
  <2>9. p \in Places("monitor") /\ p.k = 1 /\ p.kind = "stop" /\ p.new = m.new
    BY <2>4 DEF Places
  <2>10. Excused(p, o)'
    BY <1>1, <1>3, <2>0, <2>3, <2>4
    DEF Excused, Answers, WillFlag, WillClear, Flag, Position
  <2>11. AlarmTypes'
    BY <1>1, <2>8 DEF AlarmTypes
  <2> HIDE DEF p, q
  <2>12. At("monitor", p)'
    BY <2>4, <2>8, <2>9, Begins
  <2> QED
    BY <2>0, <2>4, <2>8, <2>9, <2>10, <2>11, <2>12, Moved
<1> QED
  BY <1>2, <1>3

-----------------------------------------------------------------------------
(* The handlers are called *)

\* A task that has done its statements will neither set nor clear its flag.
LEMMA Ended ==
  ASSUME NEW t \in Handlers, NEW p \in Places(t), At(t, p), todo[t] = << >>
  PROVE  /\ ~WillFlag(p) /\ ~WillClear(p) /\ ~(p.kind = "stop" /\ p.k <= 5)
         /\ p.kind = "raise" => p.k = 4
<1>1. p.k = Size(p.kind) + 1
  BY Going, Texts
<1> QED
  BY <1>1 DEF Size, WillFlag, WillClear

\* What event_mode_changed() does, as a text.
LEMMA Told ==
  ASSUME NEW new \in Modes, NEW kind \in {"raise", "lower", "tell"},
         kind = IF new = "ERROR" THEN "raise" ELSE IF mode = "ERROR" THEN "lower" ELSE "tell"
  PROVE  EventModeChanged(mode, new) = Text("monitor", kind, new)
<1>1. CASE new = "ERROR"
  BY <1>1, ToError DEF EventModeChanged, Text
<1>2. CASE new # "ERROR" /\ mode = "ERROR"
  BY <1>2, FromError DEF EventModeChanged, Text
<1>3. CASE new # "ERROR" /\ mode # "ERROR"
  <2>1. <<Tell(new)>> \in Seq(Statements)
    BY Written
  <2>2. << >> \o <<Tell(new)>> = <<Tell(new)>>
    BY <2>1, ConcatEmptySeq
  <2> QED
    BY <1>3, <2>2 DEF EventModeChanged, Text
<1> QED
  BY <1>1, <1>2, <1>3

\* The monitor begins to raise, to lower or just to tell a mode.
LEMMA ModeChangesKeep == ASSUME AlarmInv, ModeChanges PROVE AlarmInv'
<1>1. PICK new \in Modes \ {mode} :
        /\ mode' = new
        /\ todo' = [todo EXCEPT !["monitor"] = EventModeChanged(mode, new)]
  BY DEF ModeChanges
<1>2. /\ AlarmTypes /\ todo["monitor"] = << >> /\ UNCHANGED <<on, presence>>
      /\ mode \in Modes \cup {"UNKNOWN"}
  BY DEF AlarmInv, ModeChanges, AlarmTypes
<1>3. PICK m \in Places("monitor"), o \in Places("objdet") :
        At("monitor", m) /\ At("objdet", o) /\ Excused(m, o)
  BY DEF AlarmInv
<1>a. PICK kind \in {"raise", "lower", "tell"} :
        kind = IF new = "ERROR" THEN "raise" ELSE IF mode = "ERROR" THEN "lower" ELSE "tell"
  OBVIOUS
<1> DEFINE p == [kind |-> kind, new |-> new, k |-> 1]
<1>4. EventModeChanged(mode, new) = Text("monitor", kind, new)
  BY <1>1, <1>a, Told
<1>5. p \in Places("monitor") /\ p.k = 1 /\ p.new = new /\ p.kind = kind
  BY <1>1, <1>a DEF Places
<1>6. Excused(p, o)'
  <2>1. ~WillFlag(m) /\ ~WillClear(m) /\ ~(m.kind = "stop" /\ m.k <= 5)
    BY <1>2, <1>3, Ended DEF Handlers
  <2> QED
    BY <1>a, <1>1, <1>2, <1>3, <2>1
    DEF Excused, Answers, WillFlag, WillClear, Flag, Position
<1> HIDE DEF p
<1>7. /\ todo' \in [Handlers -> Seq(Statements)]
      /\ todo'["monitor"] = Text("monitor", p.kind, p.new)
      /\ \A u \in Handlers \ {"monitor"} : todo'[u] = todo[u]
  <2>1. Text("monitor", p.kind, p.new) \in Seq(Statements)
    BY <1>5, Texts DEF Handlers
  <2> QED
    BY <1>1, <1>2, <1>4, <1>5, <2>1 DEF AlarmTypes, Handlers
<1>8. At("monitor", p)'
  BY <1>5, <1>7, Begins DEF Handlers
<1>9. AlarmTypes'
  BY <1>1, <1>2, <1>7 DEF AlarmTypes
<1> QED
  BY <1>3, <1>5, <1>6, <1>7, <1>8, <1>9, Moved DEF Handlers

\* An object appears, or goes.
LEMMA ObjectsKeep == ASSUME AlarmInv, ObjectAppears \/ ObjectGoes PROVE AlarmInv'
<1>1. /\ AlarmTypes /\ todo["objdet"] = << >> /\ UNCHANGED <<on, mode>> /\ presence' = ~presence
      /\ todo' = [todo EXCEPT !["objdet"] = IF presence' THEN EventObjectDetected
                                            ELSE EventObjectCleared]
      /\ presence \in BOOLEAN
  BY DEF AlarmInv, ObjectAppears, ObjectGoes, AlarmTypes
<1>2. PICK m \in Places("monitor"), o \in Places("objdet") :
        At("monitor", m) /\ At("objdet", o) /\ Excused(m, o)
  BY DEF AlarmInv
<1>a. PICK kind \in {"start", "stop"} : kind = IF presence' THEN "start" ELSE "stop"
  OBVIOUS
<1> DEFINE p == [kind |-> kind, new |-> "NORMAL", k |-> 1]
<1>3. todo' = [todo EXCEPT !["objdet"] = Text("objdet", kind, "NORMAL")]
  BY <1>a, <1>1, WholePing, WholeRest DEF Text
<1>4. p \in Places("objdet") /\ p.k = 1 /\ p.new = "NORMAL" /\ p.kind = kind
  BY <1>a DEF Places, Modes
<1>5. Excused(m, p)'
  <2>1. ~WillFlag(o) /\ ~WillClear(o) /\ ~(o.kind = "stop" /\ o.k <= 5)
    BY <1>1, <1>2, Ended DEF Handlers
  <2> QED
    BY <1>a, <1>1, <1>2, <2>1 DEF Excused, Answers, WillFlag, WillClear, Flag, Position
<1> HIDE DEF p
<1>6. /\ todo' \in [Handlers -> Seq(Statements)]
      /\ todo'["objdet"] = Text("objdet", p.kind, p.new)
      /\ \A u \in Handlers \ {"objdet"} : todo'[u] = todo[u]
  <2>1. Text("objdet", p.kind, p.new) \in Seq(Statements)
    BY <1>4, Texts DEF Handlers
  <2> QED
    BY <1>1, <1>3, <1>4, <2>1 DEF AlarmTypes, Handlers
<1>7. At("objdet", p)'
  BY <1>4, <1>6, Begins DEF Handlers
<1>8. AlarmTypes'
  BY <1>1, <1>6 DEF AlarmTypes
<1> QED
  BY <1>2, <1>4, <1>5, <1>6, <1>7, <1>8, Moved DEF Handlers

-----------------------------------------------------------------------------
(* The interrupts *)

\* An interrupt leaves every task where it is.
LEMMA Interrupted ==
  ASSUME AlarmInv, UNCHANGED <<todo, mode, presence>>, on' \in [Flags -> BOOLEAN],
         \A m \in Places("monitor"), o \in Places("objdet") : Excused(m, o) => Excused(m, o)'
  PROVE  AlarmInv'
  BY DEF AlarmInv, AlarmTypes, At

\* The button clears all that sounds, and both flags.
LEMMA ButtonKeeps == ASSUME AlarmInv, Button PROVE AlarmInv'
<1>1. /\ UNCHANGED <<todo, mode, presence>>
      /\ on' = [f \in Flags |-> f \notin Stopped \cup {"ev.alarm", "ev.sonar"} /\ on[f]]
  BY DEF Button
<1>2. on' \in [Flags -> BOOLEAN]
  BY <1>1 DEF AlarmInv, AlarmTypes
<1>3. \A f \in Heard : ~on'[f]
  BY <1>1 DEF Heard, Flags, Stopped
<1>4. \A m \in Places("monitor"), o \in Places("objdet") : Excused(m, o) => Excused(m, o)'
  BY <1>1, <1>3 DEF Excused, Answers, Heard, Flag, WillFlag, WillClear
<1> QED
  BY <1>1, <1>2, <1>4, Interrupted

\* A note that ends turns the channel on only for a pattern that is armed.
LEMMA NoteEndsKeeps == ASSUME AlarmInv, NoteEnds PROVE AlarmInv'
<1>1. UNCHANGED <<todo, mode, presence>> /\ on \in [Flags -> BOOLEAN]
  BY DEF AlarmInv, AlarmTypes, NoteEnds
<1>2. on' \in [Flags -> BOOLEAN]
  BY <1>1 DEF NoteEnds, Flags
<1>3. /\ \A f \in Heard \ {"channel"} : on'[f] = on[f]
      /\ on'["channel"] => on["channel"] \/ on["bz.alarm"] \/ on["bz.sonar"]
  BY <1>1 DEF NoteEnds, Flags, Heard
<1>4. \A m \in Places("monitor"), o \in Places("objdet") : Excused(m, o) => Excused(m, o)'
  <2>1. \A f \in {"bz.alarm", "bz.sonar", "ev.alarm", "ev.sonar"} : on'[f] = on[f]
    BY <1>3 DEF Heard
  <2> QED
    BY <1>1, <1>3, <2>1 DEF Excused, Answers, Flag, WillFlag, WillClear, Position, Places
<1> QED
  BY <1>1, <1>2, <1>4, Interrupted

-----------------------------------------------------------------------------

\* At boot no handler runs: both are at the end of a text.
LEMMA AlarmInitKeeps == AlarmInit => AlarmInv
<1> SUFFICES ASSUME AlarmInit PROVE AlarmInv
  OBVIOUS
<1> DEFINE m == [kind |-> "tell", new |-> "NORMAL", k |-> 2]
           o == [kind |-> "stop", new |-> "NORMAL", k |-> 8]
<1>1. m \in Places("monitor") /\ o \in Places("objdet")
  BY DEF Places, Modes
<1>2. At("monitor", m) /\ At("objdet", o)
  <2> DEFINE a == Text("monitor", m.kind, m.new)
             b == Text("objdet", o.kind, o.new)
  <2>1. Len(a) = 1 /\ Len(b) = 7
    BY <1>1, Texts DEF Size, Handlers
  <2>2. m.k = 2 /\ o.k = 8 /\ todo["monitor"] = << >> /\ todo["objdet"] = << >>
    BY DEF AlarmInit, Handlers
  <2>3. /\ At("monitor", m) <=> m.k <= Len(a) + 1 /\ todo["monitor"] = SubSeq(a, m.k, Len(a))
        /\ At("objdet", o) <=> o.k <= Len(b) + 1 /\ todo["objdet"] = SubSeq(b, o.k, Len(b))
    BY DEF At
  <2> HIDE DEF m, o, a, b
  <2>4. SubSeq(a, 2, 1) = << >> /\ SubSeq(b, 8, 7) = << >>
    BY SubSeqEmpty
  <2> QED
    BY <2>1, <2>2, <2>3, <2>4
<1>3. AlarmTypes
  BY Empty DEF AlarmInit, AlarmTypes
<1>4. Excused(m, o)
  BY DEF AlarmInit, Excused, Answers, WillFlag, WillClear, Flag, Flags
<1> QED
  BY <1>1, <1>2, <1>3, <1>4 DEF AlarmInv

\* Every step keeps the invariant.
LEMMA AlarmNextKeeps == AlarmInv /\ [AlarmNext]_alarmVars => AlarmInv'
<1> SUFFICES ASSUME AlarmInv, [AlarmNext]_alarmVars PROVE AlarmInv'
  OBVIOUS
<1>1. CASE ModeChanges
  BY <1>1, ModeChangesKeep
<1>2. CASE ObjectAppears \/ ObjectGoes
  BY <1>2, ObjectsKeep
<1>3. ASSUME NEW t \in Handlers, Statement(t) PROVE AlarmInv'
  BY <1>3, StoreFlagKeeps, LoadNoteKeeps, TestAlarmStartKeeps, TestAlarmStopKeeps,
      ReportKeeps
     DEF Statement
<1>4. CASE Button
  BY <1>4, ButtonKeeps
<1>5. CASE NoteEnds
  BY <1>5, NoteEndsKeeps
<1>6. CASE UNCHANGED alarmVars
  BY <1>6 DEF AlarmInv, AlarmTypes, At, Excused, Answers, alarmVars
<1> QED
  BY <1>1, <1>2, <1>3, <1>4, <1>5, <1>6 DEF AlarmNext

\* So it always holds.
LEMMA AlarmAlways == AlarmSpec => []AlarmInv
<1> QED
  BY AlarmInitKeeps, AlarmNextKeeps, PTL DEF AlarmSpec

\* With no handler under way, what is heard has a flag, and the flag a cause.
LEMMA IdleIs == ASSUME AlarmInv, Idle PROVE ButtonCanSilence /\ BuzzerHasCause
<1>1. PICK m \in Places("monitor"), o \in Places("objdet") :
        At("monitor", m) /\ At("objdet", o) /\ Excused(m, o)
  BY DEF AlarmInv
<1>2. /\ ~WillFlag(m) /\ ~WillClear(m) /\ ~WillFlag(o) /\ ~WillClear(o)
  BY <1>1, Ended DEF Idle, Handlers
<1> QED
  BY <1>1, <1>2 DEF Excused, Answers, Flag, ButtonCanSilence, BuzzerHasCause

\* Whatever has been started, in whatever order tasks and interrupts ran, the
\* button silences it: event_button_pressed() finds one of its two flags set.
THEOREM Silences == AlarmSpec => []ButtonCanSilence
<1>1. AlarmInv => ButtonCanSilence
  BY IdleIs DEF ButtonCanSilence
<1> QED
  BY <1>1, AlarmAlways, PTL

\* The siren needs ERROR and the ping an object; without either the buzzer is silent.
THEOREM Caused == AlarmSpec => []BuzzerHasCause
<1>1. AlarmInv => BuzzerHasCause
  BY IdleIs DEF BuzzerHasCause
<1> QED
  BY <1>1, AlarmAlways, PTL

-----------------------------------------------------------------------------
(* The siren is started on every entry into ERROR *)

\* With the monitor at m: the siren's flag of event.c is clear wherever it will be
\* tested on the way to ERROR, and unless somebody hushes it the buzzer is as far as
\* the statements of the start that are done.
Siren(m) ==
  /\ mode = "ERROR" <=> m.kind \in {"raise", "start"}
  /\ m.kind = "raise" => m.k = 1
  /\ on["ev.alarm"] => \/ m.kind = "start"
                       \/ m.kind = "lower" /\ m.k = 1
                       \/ m.kind = "stop" /\ m.k <= 5
  /\ m.kind = "start" /\ ~hushed =>
       /\ m.k > 1 => on["bz.alarm"]
       /\ m.k > 5 => on["channel"] /\ on["counter"]
       /\ m.k > 6 => on["irq"]
       /\ m.k > 7 => on["ev.alarm"]

SirenInv ==
  /\ AlarmInv
  /\ hushed \in BOOLEAN
  /\ \E m \in Places("monitor") : At("monitor", m) /\ Siren(m)

\* What monitor_task stores in the flags that Siren is about, and what it tells.
LEMMA MonitorStores ==
  ASSUME NEW p \in Places("monitor"), p.k <= Len(Text("monitor", p.kind, p.new))
  PROVE  LET x == Current("monitor", p)
         IN  /\ x.do \in {"set", "clear"} =>
                  \/ /\ p.kind = "start"
                     /\ \/ p.k = 1 /\ x = Set("bz.alarm")
                        \/ p.k = 5 /\ x = Set("channel")
                        \/ p.k = 6 /\ x = Set("irq")
                        \/ p.k = 7 /\ x = Set("ev.alarm")
                        \/ p.k \in {2, 3, 8} /\ x.what \in {"bz.sonar", "bz.step", "ev.essential"}
                  \/ /\ p.kind = "stop"
                     /\ \/ p.k = 5 /\ x = Clear("ev.alarm")
                        \/ p.k # 5 /\ x.what # "ev.alarm"
                  \/ p.kind \in {"raise", "lower"} /\ p.k = 2 /\ x.what = "ev.essential"
             /\ x.do = "tell" => x.what \in Modes
<1>1. /\ p.new \in Modes /\ p.k \in 1..10
      /\ p.kind \in {"start", "stop", "raise", "lower", "tell"}
  BY DEF Places
<1>2. p.k <= Size(p.kind)
  BY Texts DEF Handlers
<1>3. AlarmStart.do = "alarm_start" /\ AlarmStop.do = "alarm_stop_if_active"
  BY Zenon DEF AlarmStart, AlarmStop
<1>m. "ERROR" \in Modes
  BY DEF Modes
<1> USE <1>1, <1>2, <1>3, <1>m DEF Size, Set, Clear, Play, Tell
<1>4. CASE p.kind = "start"
  <2>1. p.k \in 1..9
    BY <1>4
  <2>2. \/ p.k = 1 /\ Current("monitor", p) = Set("bz.alarm")
        \/ p.k = 2 /\ Current("monitor", p) = Clear("bz.sonar")
        \/ p.k = 3 /\ Current("monitor", p) = Clear("bz.step")
        \/ p.k = 4 /\ Current("monitor", p) = Play("low")
        \/ p.k = 5 /\ Current("monitor", p) = Set("channel")
        \/ p.k = 6 /\ Current("monitor", p) = Set("irq")
        \/ p.k = 7 /\ Current("monitor", p) = Set("ev.alarm")
        \/ p.k = 8 /\ Current("monitor", p) = Set("ev.essential")
        \/ p.k = 9 /\ Current("monitor", p) = Tell("ERROR")
    BY <1>4, <2>1 DEF Current, Text
  <2> QED
    BY <1>4, <2>2
<1>5. CASE p.kind = "stop"
  <2>1. p.k \in 1..7
    BY <1>5
  <2>2. \/ p.k = 1 /\ Current("monitor", p) = Clear("bz.alarm")
        \/ p.k = 2 /\ Current("monitor", p) = Clear("bz.sonar")
        \/ p.k = 3 /\ Current("monitor", p) = Clear("channel")
        \/ p.k = 4 /\ Current("monitor", p) = Clear("irq")
        \/ p.k = 5 /\ Current("monitor", p) = Clear("ev.alarm")
        \/ p.k = 6 /\ Current("monitor", p) = Clear("ev.essential")
        \/ p.k = 7 /\ Current("monitor", p) = Tell(p.new)
    BY <1>5, <2>1 DEF Current, Text
  <2> QED
    BY <1>5, <2>2
<1>6. CASE p.kind = "raise"
  <2>1. \/ p.k = 1 /\ Current("monitor", p) = AlarmStart
        \/ p.k = 2 /\ Current("monitor", p) = Set("ev.essential")
        \/ p.k = 3 /\ Current("monitor", p) = Tell("ERROR")
    BY <1>6 DEF Current, Text
  <2> QED
    BY <1>6, <2>1
<1>7. CASE p.kind = "lower"
  <2>1. \/ p.k = 1 /\ Current("monitor", p) = AlarmStop
        \/ p.k = 2 /\ Current("monitor", p) = Clear("ev.essential")
        \/ p.k = 3 /\ Current("monitor", p) = Tell(p.new)
    BY <1>7 DEF Current, Text
  <2> QED
    BY <1>7, <2>1
<1>8. CASE p.kind = "tell"
  <2>1. Current("monitor", p) = Tell(p.new)
    BY <1>8 DEF Current, Text
  <2> QED
    BY <2>1
<1> QED
  BY <1>4, <1>5, <1>6, <1>7, <1>8

\* objdet_task leaves the siren's flag alone, and so the counter but with the channel;
\* what it tells is of its own.
LEMMA ObjdetStores ==
  ASSUME NEW p \in Places("objdet"), p.k <= Len(Text("objdet", p.kind, p.new))
  PROVE  LET x == Current("objdet", p)
         IN  /\ x.do \in {"set", "clear"} => x.what \notin {"ev.alarm", "counter"}
             /\ x.do = "tell" => x.what \in {"detected", "cleared"}
<1>1. /\ p.new \in Modes /\ p.k \in 1..10 /\ p.kind \in {"start", "stop"}
  BY DEF Places
<1>2. p.k <= Size(p.kind)
  BY Texts DEF Handlers
<1> USE <1>1, <1>2 DEF Size, Set, Clear, Play, Tell
<1>3. CASE p.kind = "start"
  <2>1. p.k \in 1..9
    BY <1>3
  <2>2. \/ p.k = 1 /\ Current("objdet", p) = Clear("bz.alarm")
        \/ p.k = 2 /\ Current("objdet", p) = Set("bz.sonar")
        \/ p.k = 3 /\ Current("objdet", p) = Clear("bz.gap")
        \/ p.k = 4 /\ Current("objdet", p) = Play("ping")
        \/ p.k = 5 /\ Current("objdet", p) = Set("channel")
        \/ p.k = 6 /\ Current("objdet", p) = Set("irq")
        \/ p.k = 7 /\ Current("objdet", p) = Set("ev.sonar")
        \/ p.k = 8 /\ Current("objdet", p) = Set("led")
        \/ p.k = 9 /\ Current("objdet", p) = Tell("detected")
    BY <1>3, <2>1 DEF Current, Text
  <2> QED
    BY <2>2
<1>4. CASE p.kind = "stop"
  <2>1. p.k \in 1..7
    BY <1>4
  <2>2. \/ p.k = 1 /\ Current("objdet", p) = Clear("bz.alarm")
        \/ p.k = 2 /\ Current("objdet", p) = Clear("bz.sonar")
        \/ p.k = 3 /\ Current("objdet", p) = Clear("channel")
        \/ p.k = 4 /\ Current("objdet", p) = Clear("irq")
        \/ p.k = 5 /\ Current("objdet", p) = Clear("ev.sonar")
        \/ p.k = 6 /\ Current("objdet", p) = Clear("led")
        \/ p.k = 7 /\ Current("objdet", p) = Tell("cleared")
    BY <1>4, <2>1 DEF Current, Text
  <2> QED
    BY <2>2
<1> QED
  BY <1>3, <1>4

\* The monitor goes on to the next of its statements.
LEMMA GoesOn ==
  ASSUME AlarmTypes, NEW p \in Places("monitor"), At("monitor", p), todo["monitor"] # << >>,
         Continue("monitor", << >>)
  PROVE  /\ NextPlace(p) \in Places("monitor") /\ At("monitor", NextPlace(p))'
         /\ NextPlace(p).kind = p.kind /\ NextPlace(p).k = p.k + 1
         /\ p.k <= Len(Text("monitor", p.kind, p.new))
         /\ Head(todo["monitor"]) = Current("monitor", p)
<1>1. "monitor" \in Handlers
  BY DEF Handlers
<1>2. Tail(todo["monitor"]) \in Seq(Statements)
  BY <1>1, HeadIs
<1>3. todo'["monitor"] = << >> \o Tail(todo["monitor"])
  BY <1>1, Continues, Empty
<1>4. todo'["monitor"] = Tail(todo["monitor"])
  BY <1>2, <1>3, ConcatEmptySeq
<1> QED
  BY <1>1, <1>4, Going

\* A step of another leaves the monitor where it is.
LEMMA Stays ==
  ASSUME NEW p \in Places("monitor"), At("monitor", p), todo'["monitor"] = todo["monitor"]
  PROVE  At("monitor", p)'
  BY DEF At

\* The flags after a store.
LEMMA Stored ==
  ASSUME AlarmTypes, NEW t \in Handlers, StoreFlag(t)
  PROVE  LET h == Head(todo[t])
         IN  /\ todo[t] # << >> /\ h.do \in {"set", "clear"} /\ h.what \in Flags
             /\ \A g \in Flags \ {"counter"} : on'[g] = IF g = h.what THEN h.do = "set" ELSE on[g]
             /\ on'["counter"] = Counts(h.what, h.do = "set")
             /\ Continue(t, << >>) /\ UNCHANGED <<mode, presence>>
             /\ hushed' = \/ hushed
                          \/ /\ t = "objdet" /\ h.do # "set"
                             /\ h.what \in {"bz.alarm", "channel", "irq"}
<1> DEFINE h == Head(todo[t])
           v == h.do = "set"
<1>1. /\ todo[t] # << >> /\ h.do \in {"set", "clear"} /\ Continue(t, << >>)
      /\ UNCHANGED <<mode, presence>>
      /\ on' = [on EXCEPT ![h.what] = v, !["counter"] = Counts(h.what, v)]
      /\ hushed' = (hushed \/ (t = "objdet" /\ ~v /\ h.what \in {"bz.alarm", "channel", "irq"}))
  BY DEF StoreFlag, Doing
<1>2. h.what \in Flags
  BY <1>1, HeadIs, Distinct
<1>3. "counter" \in Flags /\ on \in [Flags -> BOOLEAN]
  BY DEF Flags, AlarmTypes
<1> HIDE DEF h
<1>4. \A g \in Flags \ {"counter"} : on'[g] = IF g = h.what THEN v ELSE on[g]
  BY <1>1, <1>2, <1>3
<1>5. on'["counter"] = Counts(h.what, v)
  BY <1>1, <1>2, <1>3
<1> QED
  BY <1>1, <1>2, <1>4, <1>5 DEF h

\* The monitor's own stores bring the siren on, in order.
LEMMA MonitorStoreSounds ==
  ASSUME SirenInv, AlarmInv', StoreFlag("monitor")
  PROVE  SirenInv'
<1>0. PICK m \in Places("monitor") : At("monitor", m) /\ Siren(m)
  BY DEF SirenInv
<1> DEFINE h == Head(todo["monitor"])
           q == NextPlace(m)
<1>1. AlarmTypes /\ "monitor" \in Handlers /\ hushed \in BOOLEAN /\ on \in [Flags -> BOOLEAN]
  BY DEF SirenInv, AlarmInv, AlarmTypes, Handlers
<1>2. /\ todo["monitor"] # << >> /\ h.do \in {"set", "clear"} /\ h.what \in Flags
      /\ \A g \in Flags \ {"counter"} : on'[g] = IF g = h.what THEN h.do = "set" ELSE on[g]
      /\ on'["counter"] = Counts(h.what, h.do = "set")
      /\ Continue("monitor", << >>) /\ mode' = mode /\ hushed' = hushed
  BY <1>1, Stored
<1>3. /\ q \in Places("monitor") /\ At("monitor", q)'
      /\ q.kind = m.kind /\ q.k = m.k + 1
      /\ m.k <= Len(Text("monitor", m.kind, m.new)) /\ h = Current("monitor", m)
  BY <1>0, <1>1, <1>2, GoesOn
<1>4. \/ /\ m.kind = "start"
         /\ \/ m.k = 1 /\ h = Set("bz.alarm")
            \/ m.k = 5 /\ h = Set("channel")
            \/ m.k = 6 /\ h = Set("irq")
            \/ m.k = 7 /\ h = Set("ev.alarm")
            \/ m.k \in {2, 3, 8} /\ h.what \in {"bz.sonar", "bz.step", "ev.essential"}
      \/ /\ m.kind = "stop"
         /\ \/ m.k = 5 /\ h = Clear("ev.alarm")
            \/ m.k # 5 /\ h.what # "ev.alarm"
      \/ m.kind \in {"raise", "lower"} /\ m.k = 2 /\ h.what = "ev.essential"
  BY <1>2, <1>3, MonitorStores
<1> HIDE DEF h, q
<1>5. {"bz.alarm", "channel", "irq", "ev.alarm"} \subseteq Flags \ {"counter"}
  BY DEF Flags
<1>6. m.k \in 1..10
  BY DEF Places
<1>7. /\ \A g \in {"bz.alarm", "channel", "irq", "ev.alarm"} :
           /\ h.what # g => on'[g] = on[g]
           /\ h.what = g => (on'[g] <=> h.do = "set")
  BY <1>2, <1>5
<1>8. /\ h.what \notin {"channel", "irq"} => (on'["counter"] <=> on["counter"])
      /\ h.what = "channel" /\ h.do = "set" => on'["counter"]
      /\ h.what = "irq" /\ h.do = "set" /\ on["counter"] => on'["counter"]
  BY <1>2 DEF Counts
<1>9. Siren(q)'
  <2>0. /\ q.kind = m.kind /\ q.k = m.k + 1 /\ mode' = mode /\ (hushed' <=> hushed)
        /\ mode = "ERROR" <=> m.kind \in {"raise", "start"}
    BY <1>0, <1>2, <1>3 DEF Siren
  <2>1. CASE m.kind = "start"
    <3>0. ~hushed => /\ m.k > 1 => on["bz.alarm"]
                     /\ m.k > 5 => on["channel"] /\ on["counter"]
                     /\ m.k > 6 => on["irq"]
                     /\ m.k > 7 => on["ev.alarm"]
      BY <1>0, <2>1 DEF Siren
    <3>a. ASSUME ~hushed
          PROVE  /\ m.k + 1 > 1 => on'["bz.alarm"]
                 /\ m.k + 1 > 5 => on'["channel"] /\ on'["counter"]
                 /\ m.k + 1 > 6 => on'["irq"]
                 /\ m.k + 1 > 7 => on'["ev.alarm"]
      <4>1. CASE m.k = 1 /\ h = Set("bz.alarm")
        <5>1. h.what = "bz.alarm" /\ h.do = "set"
          BY <4>1 DEF Set
        <5> QED
          BY <1>7, <4>1, <5>1
      <4>2. CASE m.k = 5 /\ h = Set("channel")
        <5>1. h.what = "channel" /\ h.do = "set"
          BY <4>2 DEF Set
        <5> QED
          BY <1>7, <1>8, <3>0, <3>a, <4>2, <5>1
      <4>3. CASE m.k = 6 /\ h = Set("irq")
        <5>1. h.what = "irq" /\ h.do = "set"
          BY <4>3 DEF Set
        <5> QED
          BY <1>7, <1>8, <3>0, <3>a, <4>3, <5>1
      <4>4. CASE m.k = 7 /\ h = Set("ev.alarm")
        <5>1. h.what = "ev.alarm" /\ h.do = "set"
          BY <4>4 DEF Set
        <5> QED
          BY <1>7, <1>8, <3>0, <3>a, <4>4, <5>1
      <4>5. CASE m.k \in {2, 3, 8} /\ h.what \in {"bz.sonar", "bz.step", "ev.essential"}
        <5>1. /\ \A g \in {"bz.alarm", "channel", "irq", "ev.alarm"} : on'[g] = on[g]
              /\ on'["counter"] <=> on["counter"]
          BY <1>7, <1>8, <4>5
        <5> QED
          BY <3>0, <3>a, <4>5, <5>1
      <4> QED
        BY <1>4, <2>1, <4>1, <4>2, <4>3, <4>4, <4>5
    <3> QED
      BY <2>0, <2>1, <3>a DEF Siren
  <2>2. CASE m.kind = "stop"
    <3>1. on["ev.alarm"] => m.k <= 5
      BY <1>0, <2>2 DEF Siren
    <3>2. m.k = 5 => ~on'["ev.alarm"]
      <4>1. m.k = 5 => h.what = "ev.alarm" /\ h.do = "clear"
        BY <1>4, <2>2 DEF Clear
      <4> QED
        BY <1>7, <4>1
    <3>3. m.k # 5 => on'["ev.alarm"] = on["ev.alarm"]
      BY <1>4, <1>7, <2>2
    <3>4. on'["ev.alarm"] => m.k + 1 <= 5
      <4>1. on'["ev.alarm"] => m.k # 5 /\ on["ev.alarm"]
        BY <3>2, <3>3
      <4>2. on'["ev.alarm"] => m.k # 5 /\ m.k <= 5
        BY <3>1, <4>1
      <4> QED
        BY <1>6, <4>2
    <3> QED
      BY <2>0, <2>2, <3>4 DEF Siren
  <2>3. CASE m.kind = "lower"
    <3>1. m.k = 2 /\ h.what = "ev.essential"
      BY <1>4, <2>3
    <3>2. ~on["ev.alarm"]
      BY <1>0, <2>3, <3>1 DEF Siren
    <3>3. ~on'["ev.alarm"]
      BY <1>7, <3>1, <3>2
    <3> QED
      BY <2>0, <2>3, <3>3 DEF Siren
  <2>4. CASE m.kind = "raise"
    BY <1>0, <1>4, <2>4 DEF Siren
  <2> QED
    BY <1>4, <2>1, <2>2, <2>3, <2>4
<1> QED
  BY <1>1, <1>2, <1>3, <1>9 DEF SirenInv

\* What objdet_task turns off is hushed.
LEMMA ObjdetStoreSounds ==
  ASSUME SirenInv, AlarmInv', StoreFlag("objdet")
  PROVE  SirenInv'
<1>0. PICK m \in Places("monitor") : At("monitor", m) /\ Siren(m)
  BY DEF SirenInv
<1>a. PICK o \in Places("objdet") : At("objdet", o)
  BY DEF SirenInv, AlarmInv
<1> DEFINE h == Head(todo["objdet"])
<1>1. AlarmTypes /\ "objdet" \in Handlers /\ hushed \in BOOLEAN /\ on \in [Flags -> BOOLEAN]
  BY DEF SirenInv, AlarmInv, AlarmTypes, Handlers
<1>2. /\ todo["objdet"] # << >> /\ h.do \in {"set", "clear"} /\ h.what \in Flags
      /\ \A g \in Flags \ {"counter"} : on'[g] = IF g = h.what THEN h.do = "set" ELSE on[g]
      /\ on'["counter"] = Counts(h.what, h.do = "set")
      /\ Continue("objdet", << >>) /\ mode' = mode
      /\ hushed' = \/ hushed
                   \/ h.do # "set" /\ h.what \in {"bz.alarm", "channel", "irq"}
  BY <1>1, Stored
<1>3. o.k <= Len(Text("objdet", o.kind, o.new)) /\ h = Current("objdet", o)
  BY <1>a, <1>1, <1>2, Going
<1>4. h.what \notin {"ev.alarm", "counter"}
  BY <1>2, <1>3, ObjdetStores
<1>5. todo'["monitor"] = todo["monitor"]
  BY <1>1, <1>2, Continues, Empty DEF Handlers
<1>6. At("monitor", m)'
  BY <1>0, <1>5, Stays
<1> HIDE DEF h
<1>7. {"bz.alarm", "channel", "irq", "ev.alarm"} \subseteq Flags \ {"counter"} /\ "counter" \in Flags
  BY DEF Flags
<1>8. hushed' \in BOOLEAN
  BY <1>1, <1>2
<1>9. Siren(m)'
  <2>1. on'["ev.alarm"] = on["ev.alarm"]
    BY <1>2, <1>4, <1>7
  <2>2. CASE hushed'
    BY <1>0, <1>2, <2>1, <2>2 DEF Siren
  <2>3. CASE ~hushed'
    <3>1. ~hushed /\ (h.what \in {"bz.alarm", "channel", "irq"} => h.do = "set")
      BY <1>1, <1>2, <2>3
    <3>2. \A g \in {"bz.alarm", "channel", "irq"} : on[g] => on'[g]
      BY <1>2, <1>7, <3>1
    <3>3. on["counter"] => on'["counter"]
      BY <1>1, <1>2, <1>7, <3>1 DEF Counts
    <3> QED
      BY <1>0, <1>2, <2>1, <3>1, <3>2, <3>3 DEF Siren
  <2> QED
    BY <2>2, <2>3
<1> QED
  BY <1>6, <1>8, <1>9 DEF SirenInv

\* The statements that store no flag.
LEMMA OthersSound ==
  ASSUME SirenInv, AlarmInv', NEW t \in Handlers,
         LoadNote(t) \/ TestAlarmStart(t) \/ TestAlarmStop(t) \/ Report(t)
  PROVE  SirenInv'
<1>0. PICK m \in Places("monitor"), o \in Places("objdet") :
        At("monitor", m) /\ Siren(m) /\ At("objdet", o)
  BY DEF SirenInv, AlarmInv
<1>1. /\ AlarmTypes /\ hushed' = hushed /\ hushed' \in BOOLEAN /\ on' = on /\ mode' = mode
      /\ todo[t] # << >>
  BY DEF SirenInv, AlarmInv, LoadNote, TestAlarmStart, TestAlarmStop, Report, Doing
<1>2. CASE t = "monitor"
  <2> DEFINE h == Head(todo[t])
             q == NextPlace(m)
  <2>1. h = Current("monitor", m) /\ m.k <= Len(Text("monitor", m.kind, m.new))
    BY <1>0, <1>1, <1>2, Going
  <2>2. /\ h.do = "alarm_start" <=> m.kind = "raise" /\ m.k = 1
        /\ h.do = "alarm_stop_if_active" <=> m.kind = "lower" /\ m.k = 1
    BY <1>2, <2>1, Says
  <2>3. ASSUME Continue(t, << >>), h.do # "alarm_start",
               h.do = "alarm_stop_if_active" => ~on["ev.alarm"], h.do \notin {"set", "clear"}
        PROVE  SirenInv'
    <3>1. /\ q \in Places("monitor") /\ At("monitor", q)'
          /\ q.kind = m.kind /\ q.k = m.k + 1
      BY <1>0, <1>1, <1>2, <2>3, GoesOn
    <3>2. /\ m.kind = "start" => m.k \notin {1, 5, 6, 7}
          /\ m.kind = "stop" => m.k # 5
      <4>1. /\ m.kind = "start" /\ m.k \in {1, 5, 6, 7}
               => h \in {Set("bz.alarm"), Set("channel"), Set("irq"), Set("ev.alarm")}
            /\ m.kind = "stop" /\ m.k = 5 => h = Clear("ev.alarm")
        BY <2>1 DEF Current, Text
      <4> QED
        BY <2>3, <4>1 DEF Set, Clear
    <3>3. m.k \in 1..10
      BY DEF Places
    <3> HIDE DEF h, q
    <3>4. Siren(q)'
      BY <1>0, <1>1, <2>2, <2>3, <3>1, <3>2, <3>3 DEF Siren
    <3> QED
      BY <1>1, <3>1, <3>4 DEF SirenInv
  <2>4. CASE LoadNote(t) \/ Report(t)
    BY <2>3, <2>4 DEF LoadNote, Report, Doing
  <2>5. CASE TestAlarmStart(t)
    <3>1. m.kind = "raise" /\ m.k = 1 /\ ~on["ev.alarm"]
      BY <1>0, <2>2, <2>5 DEF TestAlarmStart, Doing, Siren
    <3>2. Continue(t, StartAndFlag)
      BY <2>5, <3>1 DEF TestAlarmStart
    <3> DEFINE p == [kind |-> "start", new |-> "ERROR", k |-> 1]
    <3>3. Tail(todo[t]) = <<Set("ev.essential"), Tell("ERROR")>>
      BY <1>0, <1>2, <3>1, Rest
    <3>4. StartAndFlag \in Seq(Statements)
      BY FlagSiren, Written DEF Flags, Tones
    <3>5. todo'[t] = Text("monitor", "start", "ERROR")
      BY <1>1, <3>2, <3>3, <3>4, Continues, WholeSiren DEF Text
    <3>6. p \in Places("monitor") /\ p.k = 1 /\ p.kind = "start" /\ p.new = "ERROR"
      BY DEF Places, Modes
    <3> HIDE DEF p
    <3>7. At("monitor", p)'
      BY <1>2, <3>5, <3>6, Begins
    <3>8. Siren(p)'
      BY <1>0, <1>1, <3>1, <3>6 DEF Siren
    <3> QED
      BY <1>1, <3>6, <3>7, <3>8 DEF SirenInv
  <2>6. CASE TestAlarmStop(t) /\ ~on["ev.alarm"]
    BY <2>3, <2>6 DEF TestAlarmStop, Doing
  <2>7. CASE TestAlarmStop(t) /\ on["ev.alarm"]
    <3> DEFINE p == [kind |-> "stop", new |-> m.new, k |-> 1]
               more == BuzzerStop \o <<Clear("ev.alarm")>>
    <3>1. m.kind = "lower" /\ m.k = 1 /\ m.new \in Modes
      BY <2>2, <2>7 DEF TestAlarmStop, Doing, Places
    <3>2. Continue(t, more)
      BY <2>7 DEF TestAlarmStop
    <3>3. Tail(todo[t]) = <<Clear("ev.essential"), Tell(m.new)>>
      BY <1>0, <1>2, <3>1, Rest
    <3>4. more \in Seq(Statements)
      <4>1. /\ Clear("bz.alarm") \in Statements /\ Clear("bz.sonar") \in Statements
            /\ Clear("channel") \in Statements /\ Clear("irq") \in Statements
            /\ Clear("ev.alarm") \in Statements
        BY Written DEF Flags
      <4>2. <<Clear("bz.alarm"), Clear("bz.sonar"), Clear("channel"), Clear("irq"),
              Clear("ev.alarm")>> \in Seq(Statements)
        BY <4>1
      <4> QED
        BY <4>2, StopSiren
    <3>5. todo'[t] = Text("monitor", "stop", m.new)
      BY <1>1, <3>1, <3>2, <3>3, <3>4, Continues, WholeStop DEF Text
    <3>6. p \in Places("monitor") /\ p.k = 1 /\ p.kind = "stop" /\ p.new = m.new
      BY <3>1 DEF Places
    <3> HIDE DEF p
    <3>7. At("monitor", p)'
      BY <1>2, <3>5, <3>6, Begins
    <3>8. Siren(p)'
      BY <1>0, <1>1, <3>1, <3>6 DEF Siren
    <3> QED
      BY <1>1, <3>6, <3>7, <3>8 DEF SirenInv
  <2> QED
    BY <2>4, <2>5, <2>6, <2>7
<1>3. CASE t = "objdet"
  <2>1. Head(todo[t]) = Current("objdet", o) /\ o.k <= Len(Text("objdet", o.kind, o.new))
    BY <1>0, <1>1, <1>3, Going
  <2>2. Head(todo[t]).do \notin {"alarm_start", "alarm_stop_if_active"}
    BY <1>3, <2>1, Says DEF Places
  <2>3. Continue(t, << >>)
    BY <2>2 DEF LoadNote, TestAlarmStart, TestAlarmStop, Report, Doing
  <2>4. todo'["monitor"] = todo["monitor"]
    BY <1>1, <1>3, <2>3, Continues, Empty DEF Handlers
  <2>5. At("monitor", m)'
    BY <1>0, <2>4, Stays
  <2>6. Siren(m)'
    BY <1>0, <1>1 DEF Siren
  <2> QED
    BY <1>1, <2>5, <2>6 DEF SirenInv
<1> QED
  BY <1>2, <1>3 DEF Handlers

\* The monitor's handler is called when it is at the end of a text: the siren's flag
\* is clear unless the mode is ERROR.
LEMMA ModeChangeSounds ==
  ASSUME SirenInv, AlarmInv', ModeChanges
  PROVE  SirenInv'
<1>0. PICK m \in Places("monitor") : At("monitor", m) /\ Siren(m)
  BY DEF SirenInv
<1>1. PICK new \in Modes \ {mode} :
        /\ mode' = new
        /\ todo' = [todo EXCEPT !["monitor"] = EventModeChanged(mode, new)]
  BY DEF ModeChanges
<1>2. /\ AlarmTypes /\ todo["monitor"] = << >> /\ on' = on /\ hushed' = FALSE
      /\ "monitor" \in Handlers
  BY DEF SirenInv, AlarmInv, ModeChanges, Handlers
<1>3. PICK kind \in {"raise", "lower", "tell"} :
        kind = IF new = "ERROR" THEN "raise" ELSE IF mode = "ERROR" THEN "lower" ELSE "tell"
  OBVIOUS
<1> DEFINE p == [kind |-> kind, new |-> new, k |-> 1]
<1>4. EventModeChanged(mode, new) = Text("monitor", kind, new)
  BY <1>1, <1>3, Told
<1>5. p \in Places("monitor") /\ p.k = 1 /\ p.new = new /\ p.kind = kind
  BY <1>1, <1>3 DEF Places
<1>6. /\ m.kind \in {"start", "stop", "raise", "lower", "tell"}
      /\ m.kind = "raise" => m.k = 4
      /\ m.kind = "lower" => m.k = 4
      /\ m.kind = "stop" => m.k = 8
  <2>1. m.k = Size(m.kind) + 1
    BY <1>0, <1>2, Going, Texts
  <2> QED
    BY <2>1 DEF Size, Places
<1> HIDE DEF p
<1>7. Siren(p)'
  <2>1. mode # "ERROR" => ~on["ev.alarm"]
    BY <1>0, <1>6 DEF Siren
  <2>2. mode = "ERROR" => new # "ERROR"
    BY <1>1
  <2> QED
    BY <1>1, <1>2, <1>3, <1>5, <2>1, <2>2 DEF Siren
<1>8. todo'["monitor"] = Text("monitor", p.kind, p.new)
  BY <1>1, <1>2, <1>4, <1>5 DEF AlarmTypes
<1>9. At("monitor", p)'
  BY <1>2, <1>5, <1>8, Begins
<1> QED
  BY <1>2, <1>5, <1>7, <1>9 DEF SirenInv

\* A note that ends leaves a siren that is armed on.
LEMMA NoteEndSounds ==
  ASSUME SirenInv, AlarmInv', NoteEnds
  PROVE  SirenInv'
<1>0. PICK m \in Places("monitor") : At("monitor", m) /\ Siren(m)
  BY DEF SirenInv
<1>1. UNCHANGED <<todo, mode, hushed>> /\ on \in [Flags -> BOOLEAN] /\ hushed \in BOOLEAN
  BY DEF SirenInv, AlarmInv, AlarmTypes, NoteEnds
<1>2. on'["ev.alarm"] = on["ev.alarm"] /\ on'["bz.alarm"] = on["bz.alarm"]
  BY <1>1 DEF NoteEnds, Flags
<1>3. on["bz.alarm"] => /\ on'["channel"]
                        /\ on'["counter"] = on["counter"]
                        /\ on'["irq"] = on["irq"]
  BY <1>1 DEF NoteEnds, Flags
<1>4. At("monitor", m)'
  BY <1>0, <1>1, Stays
<1>5. Siren(m)'
  BY <1>0, <1>1, <1>2, <1>3 DEF Siren, Places
<1> QED
  BY <1>1, <1>4, <1>5 DEF SirenInv

LEMMA SirenNext == SirenInv /\ [AlarmNext]_alarmVars => SirenInv'
<1> SUFFICES ASSUME SirenInv, [AlarmNext]_alarmVars PROVE SirenInv'
  OBVIOUS
<1>0. AlarmInv'
  BY AlarmNextKeeps DEF SirenInv
<1>1. CASE ModeChanges
  BY <1>0, <1>1, ModeChangeSounds
<1>2. CASE ObjectAppears \/ ObjectGoes
  <2>0. PICK m \in Places("monitor") : At("monitor", m) /\ Siren(m)
    BY DEF SirenInv
  <2>1. todo'["monitor"] = todo["monitor"] /\ UNCHANGED <<on, mode, hushed>>
    BY <1>2 DEF ObjectAppears, ObjectGoes, SirenInv, AlarmInv, AlarmTypes, Handlers
  <2>2. At("monitor", m)' /\ Siren(m)'
    BY <2>0, <2>1, Stays DEF Siren
  <2> QED
    BY <1>0, <2>1, <2>2 DEF SirenInv
<1>3. ASSUME NEW t \in Handlers, Statement(t) PROVE SirenInv'
  BY <1>0, <1>3, MonitorStoreSounds, ObjdetStoreSounds, OthersSound DEF Statement, Handlers
<1>4. CASE Button
  <2>0. PICK m \in Places("monitor") : At("monitor", m) /\ Siren(m)
    BY DEF SirenInv
  <2>1. /\ UNCHANGED <<todo, mode>> /\ hushed' = TRUE /\ ~on'["ev.alarm"]
    BY <1>4 DEF Button, Flags, Stopped
  <2>2. At("monitor", m)' /\ Siren(m)'
    BY <2>0, <2>1, Stays DEF Siren
  <2> QED
    BY <1>0, <2>1, <2>2 DEF SirenInv
<1>5. CASE NoteEnds
  BY <1>0, <1>5, NoteEndSounds
<1>6. CASE UNCHANGED alarmVars
  <2>0. PICK m \in Places("monitor") : At("monitor", m) /\ Siren(m)
    BY DEF SirenInv
  <2>1. UNCHANGED <<todo, on, mode, hushed>>
    BY <1>6 DEF alarmVars
  <2>2. At("monitor", m)' /\ Siren(m)'
    BY <2>0, <2>1, Stays DEF Siren
  <2> QED
    BY <1>0, <2>1, <2>2 DEF SirenInv
<1> QED
  BY <1>1, <1>2, <1>3, <1>4, <1>5, <1>6 DEF AlarmNext

\* At boot the monitor is at the end of a text that only tells.
LEMMA SirenStarts == AlarmInit => SirenInv
<1> SUFFICES ASSUME AlarmInit PROVE SirenInv
  OBVIOUS
<1> DEFINE m == [kind |-> "tell", new |-> "NORMAL", k |-> 2]
           a == Text("monitor", m.kind, m.new)
<1>1. m \in Places("monitor") /\ m.k = 2 /\ m.kind = "tell"
  BY DEF Places, Modes
<1>2. Len(a) = 1
  BY <1>1, Texts DEF Size, Handlers
<1>3. todo["monitor"] = << >>
  BY DEF AlarmInit, Handlers
<1>4. At("monitor", m) <=> m.k <= Len(a) + 1 /\ todo["monitor"] = SubSeq(a, m.k, Len(a))
  BY DEF At
<1>5. Siren(m)
  BY <1>1 DEF AlarmInit, Siren, Flags
<1> HIDE DEF m, a
<1>6. SubSeq(a, 2, 1) = << >>
  BY SubSeqEmpty
<1>7. At("monitor", m)
  BY <1>1, <1>2, <1>3, <1>4, <1>6
<1>8. hushed \in BOOLEAN
  BY DEF AlarmInit
<1> QED
  BY <1>1, <1>5, <1>7, <1>8, AlarmInitKeeps DEF SirenInv

\* Whatever earlier alarms, objects and presses left behind, an entry into ERROR starts
\* the siren, and only the button or objdet_task can turn it off before it ends.
THEOREM Heeded == AlarmSpec => []ErrorIsHeard
<1>1. SirenInv => ErrorIsHeard
  <2> SUFFICES ASSUME SirenInv, Idle, mode = "ERROR", ~hushed
               PROVE  \A f \in {"ev.alarm", "bz.alarm", "channel", "irq", "counter"} : on[f]
    BY DEF ErrorIsHeard
  <2>1. PICK m \in Places("monitor") : At("monitor", m) /\ Siren(m)
    BY DEF SirenInv
  <2>2. todo["monitor"] = << >> /\ "monitor" \in Handlers
    BY DEF Idle, Handlers
  <2>3. m.k = Size(m.kind) + 1
    BY <2>1, <2>2, Going, Texts
  <2>4. m.kind = "start"
    BY <2>1, <2>3 DEF Siren, Size
  <2> QED
    BY <2>1, <2>3, <2>4 DEF Siren, Size
<1> QED
  BY <1>1, SirenStarts, SirenNext, PTL DEF AlarmSpec

-----------------------------------------------------------------------------
(* Types *)

\* AlarmTypeOK, with what it takes to keep it: what each task tells is of its own.
AlarmTyped ==
  /\ AlarmInv
  /\ tone \in Tones /\ hushed \in BOOLEAN
  /\ told \in [Handlers -> Modes \cup {"detected", "cleared", "nothing"}]
  /\ told["monitor"] \in Modes \cup {"nothing"}
  /\ told["objdet"] \in {"detected", "cleared", "nothing"}

LEMMA StatementTyped ==
  ASSUME AlarmTyped, NEW t \in Handlers, Statement(t)
  PROVE  /\ tone' \in Tones /\ hushed' \in BOOLEAN
         /\ told' \in [Handlers -> Modes \cup {"detected", "cleared", "nothing"}]
         /\ told'["monitor"] \in Modes \cup {"nothing"}
         /\ told'["objdet"] \in {"detected", "cleared", "nothing"}
<1> DEFINE h == Head(todo[t])
<1>0. AlarmTypes /\ t \in {"monitor", "objdet"}
  BY DEF AlarmTyped, AlarmInv, Handlers
<1>1. CASE StoreFlag(t)
  <2>1. UNCHANGED <<tone, told>> /\ hushed' \in BOOLEAN
    BY <1>1 DEF StoreFlag
  <2> QED
    BY <2>1 DEF AlarmTyped
<1>2. CASE LoadNote(t)
  <2>1. todo[t] # << >> /\ h.do = "play" /\ tone' = h.what /\ UNCHANGED <<told, hushed>>
    BY <1>2 DEF LoadNote, Doing
  <2>2. tone' \in Tones
    BY <1>0, <2>1, HeadIs, Distinct
  <2> QED
    BY <2>1, <2>2 DEF AlarmTyped
<1>3. CASE TestAlarmStart(t) \/ TestAlarmStop(t)
  BY <1>3 DEF TestAlarmStart, TestAlarmStop, AlarmTyped
<1>4. CASE Report(t)
  <2>1. /\ todo[t] # << >> /\ h.do = "tell" /\ told' = [told EXCEPT ![t] = h.what]
        /\ UNCHANGED <<tone, hushed>>
    BY <1>4 DEF Report, Doing
  <2>2. PICK p \in Places(t) : At(t, p)
    BY <1>0 DEF AlarmTyped, AlarmInv
  <2>3. p.k <= Len(Text(t, p.kind, p.new)) /\ h = Current(t, p)
    BY <2>1, <2>2, Going
  <2>4. h.what \in IF t = "monitor" THEN Modes ELSE {"detected", "cleared"}
    BY <1>0, <2>1, <2>2, <2>3, MonitorStores, ObjdetStores
  <2> HIDE DEF h
  <2> QED
    BY <1>0, <2>1, <2>4 DEF AlarmTyped, Handlers
<1> QED
  BY <1>1, <1>2, <1>3, <1>4 DEF Statement

LEMMA AlarmTypedNext == AlarmTyped /\ [AlarmNext]_alarmVars => AlarmTyped'
<1> SUFFICES ASSUME AlarmTyped, [AlarmNext]_alarmVars PROVE AlarmTyped'
  OBVIOUS
<1>0. AlarmInv'
  BY AlarmNextKeeps DEF AlarmTyped
<1>1. CASE ModeChanges \/ ObjectAppears \/ ObjectGoes
  BY <1>0, <1>1 DEF ModeChanges, ObjectAppears, ObjectGoes, AlarmTyped
<1>2. ASSUME NEW t \in Handlers, Statement(t) PROVE AlarmTyped'
  BY <1>0, <1>2, StatementTyped DEF AlarmTyped
<1>3. CASE Button
  BY <1>0, <1>3 DEF Button, AlarmTyped
<1>4. CASE NoteEnds
  <2>1. tone' \in Tones /\ UNCHANGED <<told, hushed>>
    BY <1>4 DEF NoteEnds, Tones, AlarmTyped
  <2> QED
    BY <1>0, <2>1 DEF AlarmTyped
<1>5. CASE UNCHANGED alarmVars
  BY <1>0, <1>5 DEF alarmVars, AlarmTyped
<1> QED
  BY <1>1, <1>2, <1>3, <1>4, <1>5 DEF AlarmNext

\* Every variable of Alarm keeps its type: what is left of a handler is made of
\* its statements, and each task tells only what is its own to tell.
THEOREM AlarmTypeCorrect == AlarmSpec => []AlarmTypeOK
<1>1. AlarmInit => AlarmTyped
  BY AlarmInitKeeps DEF AlarmInit, AlarmTyped, Tones, Handlers
<1>2. AlarmTyped => AlarmTypeOK
  BY DEF AlarmTyped, AlarmInv, AlarmTypes, AlarmTypeOK
<1> QED
  BY <1>1, <1>2, AlarmTypedNext, PTL DEF AlarmSpec
=============================================================================
