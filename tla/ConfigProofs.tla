---------------------------- MODULE ConfigProofs ----------------------------
(***************************************************************************)
(* NoTornRead and FlashAgrees of Config, and that it implements            *)
(* AtomicLimits, for every set of payloads and commands, and any number of *)
(* frames and resets.                                                      *)
(***************************************************************************)
EXTENDS Config, TLAPS

UnderLock == {"store", "erase", "program", "event", "reply", "release"}

\* Who holds g_config.lock, and that nobody needs it before the scheduler starts.
LockHeld ==
  /\ holder = "rx" <=> ~booting /\ rx \in UnderLock
  /\ holder = "monitor" <=> mon = "copy"
  /\ rx = "boot" => booting
  /\ booting => rx \in {"boot", "erase", "program"} /\ mon = "idle"

\* Where no save is under way, Flash holds the limits unless the last one failed;
\* a save has programmed the double words before the next.
Persistent ==
  /\ ~booting /\ rx \notin {"store", "erase", "program"} /\ ~unsaved => magic /\ page = limits
  /\ rx # "program" => dword = 0
  /\ rx = "program" => /\ dword > 0 => magic
                       /\ \A f \in Fields : Dword(f) < dword => page[f] = limits[f]

\* A frame whose length fits its command is one of a command.
FrameOK == frame.ok => frame.cmd # "none"

IInv == TypeOK /\ FrameOK /\ LockHeld /\ NoTornRead /\ Persistent

-----------------------------------------------------------------------------
LEMMA FieldFacts ==
  /\ Len(FieldOrder) = 10
  /\ \A i \in 1..10 : FieldOrder[i] \in Fields
  BY DEF FieldOrder, Fields

\* Every command stores something.
LEMMA StoresFields ==
  ASSUME NEW cmd \in Sets
  PROVE  Stores[cmd] \in Seq(Fields) /\ Stores[cmd] # << >>
<1>1. cmd \in DOMAIN Stores
  BY SetsAssumption
<1>2. DOMAIN Stores = {"SET_TEMP_NORMAL", "SET_TEMP_WARNING", "SET_HUM_NORMAL",
                       "SET_HUM_WARNING", "SET_LIGHT_NORMAL", "SET_LIGHT_WARNING",
                       "SET_BATT_NORMAL", "SET_BATT_WARNING"}
  BY DEF Stores
<1>3. {"temp_normal_min", "temp_normal_max", "temp_warning_min", "temp_warning_max",
       "humidity_normal_min", "humidity_warning_min", "light_normal_min",
       "light_warning_min", "battery_normal_min", "battery_warning_min"} \subseteq Fields
  BY FieldFacts DEF FieldOrder
<1>4. /\ Stores["SET_TEMP_NORMAL"] = <<"temp_normal_min", "temp_normal_max">>
      /\ Stores["SET_TEMP_WARNING"] = <<"temp_warning_min", "temp_warning_max">>
      /\ Stores["SET_HUM_NORMAL"] = <<"humidity_normal_min">>
      /\ Stores["SET_HUM_WARNING"] = <<"humidity_warning_min">>
      /\ Stores["SET_LIGHT_NORMAL"] = <<"light_normal_min">>
      /\ Stores["SET_LIGHT_WARNING"] = <<"light_warning_min">>
      /\ Stores["SET_BATT_NORMAL"] = <<"battery_normal_min">>
      /\ Stores["SET_BATT_WARNING"] = <<"battery_warning_min">>
  BY DEF Stores
<1>5. \A f, g \in Fields : /\ <<f>> \in Seq(Fields) /\ <<f>> # << >>
                           /\ <<f, g>> \in Seq(Fields) /\ <<f, g>> # << >>
  OBVIOUS
<1> QED
  BY <1>1, <1>2, <1>3, <1>4, <1>5

LEMMA NoSet == "GET_CONFIG" \notin Sets /\ "none" \notin Sets
  BY SetsAssumption DEF Stores

\* The values that RAM and Flash begin with.
LEMMA Beginnings ==
  /\ ErasedPage \in Limits /\ DEFAULT_LIMITS \in Limits
  /\ NoFrame \in [cmd : Sets \cup {"GET_CONFIG", "none"}, ok : BOOLEAN,
                  v : Payloads \cup {Default}]
  /\ NoFrame.ok = FALSE
  BY DEF ErasedPage, DEFAULT_LIMITS, Limits, NoFrame

LEMMA InitIInv == Init => IInv
<1> SUFFICES ASSUME Init PROVE IInv
  OBVIOUS
<1>1. TypeOK
  <2>1. limits \in Limits /\ page \in Limits /\ copy \in Limits
    BY Beginnings DEF Init
  <2>2. magic \in BOOLEAN /\ booting \in BOOLEAN /\ unsaved \in BOOLEAN
    BY DEF Init
  <2>3. todo \in Seq(Fields) /\ dword \in 0..2 /\ copied \in 0..Len(FieldOrder)
    BY FieldFacts DEF Init
  <2>4. frames \in 0..MaxFrames /\ resets \in 0..MaxResets
    BY ConfigAssumption DEF Init
  <2> QED
    BY <2>1, <2>2, <2>3, <2>4, Beginnings DEF Init, TypeOK
<1>2. FrameOK /\ LockHeld /\ NoTornRead /\ Persistent
  BY Beginnings DEF Init, FrameOK, LockHeld, NoTornRead, Persistent, UnderLock
<1> QED
  BY <1>1, <1>2 DEF IInv

LEMMA NextFrame == IInv /\ [Next]_vars => FrameOK'
<1> SUFFICES ASSUME FrameOK, [Next]_vars PROVE FrameOK'
  BY DEF IInv
<1>1. CASE Receive
  <2>1. frame'.cmd # "none"
    BY <1>1, NoSet DEF Receive
  <2> QED
    BY <2>1 DEF FrameOK
<1>2. CASE Release \/ Reset
  BY <1>2, Beginnings DEF Release, Reset, FrameOK
<1>3. CASE UNCHANGED frame
  BY <1>3 DEF FrameOK
<1> QED
  BY <1>1, <1>2, <1>3
  DEF Next, RxStep, MonStep, Load, Acquire, Store, Erase, Program, EventOrReply, MonCalls,
      MonAcquire, MonCopy, MonRelease, vars

-----------------------------------------------------------------------------
LEMMA NextTypes == IInv /\ [Next]_vars => TypeOK'
<1> SUFFICES ASSUME IInv, [Next]_vars PROVE TypeOK'
  OBVIOUS
<1>0. TypeOK /\ FrameOK
  BY DEF IInv
<1> USE <1>0
<1>1. CASE Load
  BY <1>1, Beginnings DEF Load, TypeOK, flash, monitor, counts
<1>2. CASE Receive
  <2>1. frame' \in [cmd : Sets \cup {"GET_CONFIG", "none"}, ok : BOOLEAN,
                   v : Payloads \cup {Default}]
    <3>1. \/ frame' \in [cmd : Sets, ok : BOOLEAN, v : Payloads]
          \/ frame' = [cmd |-> "GET_CONFIG", ok |-> TRUE, v |-> Default]
      BY <1>2 DEF Receive
    <3>2. CASE frame' \in [cmd : Sets, ok : BOOLEAN, v : Payloads]
      BY <3>2
    <3>3. CASE frame' = [cmd |-> "GET_CONFIG", ok |-> TRUE, v |-> Default]
      BY <3>3
    <3> QED
      BY <3>1, <3>2, <3>3
  <2>2. frames' \in 0..MaxFrames
    BY <1>2, ConfigAssumption DEF Receive, TypeOK
  <2> QED
    BY <1>2, <2>1, <2>2 DEF Receive, TypeOK, flash, monitor
<1>3. CASE Acquire
  <2>1. rx' = Handle /\ todo' = Fresh /\ Handle \in {"release", "reply", "store"}
    BY <1>3 DEF Acquire, Handle
  <2>2. Handle = "store" => frame.cmd \in Sets
    BY <1>0 DEF Handle, TypeOK, FrameOK
  <2>3. todo' \in Seq(Fields) /\ (rx' = "store" => todo' # << >>)
    BY <2>1, <2>2, StoresFields DEF Fresh
  <2> QED
    BY <1>3, <2>1, <2>3 DEF Acquire, TypeOK, flash, monitor, counts
<1>4. CASE Store
  <2>1. Head(todo) \in Fields /\ Tail(todo) \in Seq(Fields)
    BY <1>4 DEF Store, TypeOK
  <2>2. limits' \in Limits
    BY <1>4, <2>1 DEF Store, TypeOK, Limits
  <2> QED
    BY <1>4, <2>1, <2>2 DEF Store, TypeOK, flash, monitor, counts
<1>5. CASE Erase
  <2>1. magic' \in BOOLEAN /\ page' \in Limits
    BY <1>5, Beginnings DEF Erase, TypeOK, flash
  <2>2. rx' \in {"program", "idle", "event"} /\ dword' \in 0..2
    <3>1. AfterSave \in {"idle", "event"}
      BY DEF AfterSave
    <3> QED
      BY <1>5, <3>1 DEF Erase, SaveReturns, TypeOK
  <2>3. booting' \in BOOLEAN /\ unsaved' \in BOOLEAN
    BY <1>5, Zenon DEF Erase, SaveReturns, TypeOK
  <2> QED
    BY <1>5, <2>1, <2>2, <2>3 DEF Erase, TypeOK, monitor, counts
<1>6. CASE Program
  <2>1. magic' \in BOOLEAN /\ page' \in Limits
    BY <1>6 DEF Program, TypeOK, flash, Limits
  <2>2. rx' \in {"program", "idle", "event"} /\ dword' \in 0..2
    <3>1. AfterSave \in {"idle", "event"}
      BY DEF AfterSave
    <3> QED
      BY <1>6, <3>1 DEF Program, SaveReturns, TypeOK
  <2>3. booting' \in BOOLEAN /\ unsaved' \in BOOLEAN
    BY <1>6, Zenon DEF Program, SaveReturns, TypeOK
  <2> QED
    BY <1>6, <2>1, <2>2, <2>3 DEF Program, TypeOK, monitor, counts
<1>7. CASE EventOrReply
  BY <1>7 DEF EventOrReply, TypeOK, flash, monitor, counts
<1>8. CASE Release
  BY <1>8, Beginnings DEF Release, TypeOK, flash, monitor, counts
<1>9. CASE MonCalls \/ MonRelease
  BY <1>9 DEF MonCalls, MonRelease, TypeOK, flash, counts
<1>10. CASE MonAcquire
  BY <1>10, FieldFacts DEF MonAcquire, TypeOK, flash, counts
<1>11. CASE MonCopy
  <2>1. copied + 1 \in 1..10 /\ FieldOrder[copied + 1] \in Fields
    BY <1>11, FieldFacts DEF MonCopy, TypeOK
  <2>2. copy' \in Limits
    BY <1>11, <2>1 DEF MonCopy, TypeOK, Limits
  <2> QED
    BY <1>11, <2>1, <2>2, FieldFacts DEF MonCopy, TypeOK, flash, counts
<1>12. CASE Reset
  BY <1>12, Beginnings, FieldFacts, ConfigAssumption DEF Reset, TypeOK, flash
<1>13. CASE UNCHANGED vars
  BY <1>13 DEF TypeOK, vars, flash, monitor, counts
<1> QED
  BY <1>1, <1>2, <1>3, <1>4, <1>5, <1>6, <1>7, <1>8, <1>9, <1>10, <1>11, <1>12, <1>13
  DEF Next, RxStep, MonStep

LEMMA NextLock == IInv /\ [Next]_vars => LockHeld'
<1> SUFFICES ASSUME TypeOK, LockHeld, [Next]_vars PROVE LockHeld'
  BY DEF IInv
<1> USE DEF LockHeld, UnderLock
<1>1. CASE Load \/ Receive \/ Release \/ EventOrReply
  BY <1>1 DEF Load, Receive, Release, EventOrReply, monitor
<1>2. CASE Acquire
  BY <1>2 DEF Acquire, Handle, monitor
<1>3. CASE Store
  BY <1>3 DEF Store, monitor
<1>4. CASE Erase \/ Program
  BY <1>4 DEF Erase, Program, SaveReturns, AfterSave, monitor
<1>5. CASE MonCalls \/ MonAcquire \/ MonCopy \/ MonRelease
  BY <1>5 DEF MonCalls, MonAcquire, MonCopy, MonRelease, TypeOK
<1>6. CASE Reset \/ UNCHANGED vars
  BY <1>6 DEF Reset, vars, monitor
<1> QED
  BY <1>1, <1>2, <1>3, <1>4, <1>5, <1>6 DEF Next, RxStep, MonStep

\* Only who holds the lock stores a limit, and the boot, before there is a monitor.
LEMMA NextTorn == IInv /\ [Next]_vars => NoTornRead'
<1> SUFFICES ASSUME TypeOK, LockHeld, NoTornRead, [Next]_vars, mon' = "copy",
                    NEW i \in 1..copied'
             PROVE  copy'[FieldOrder[i]] = limits'[FieldOrder[i]]
  BY DEF IInv, NoTornRead
<1>1. CASE MonCopy
  <2>1. /\ copied + 1 \in 1..10 /\ FieldOrder[copied + 1] \in Fields
        /\ limits' = limits /\ i \in 1..copied + 1
        /\ mon = "copy"
    BY <1>1, FieldFacts DEF MonCopy, TypeOK
  <2>2. FieldOrder[i] \in Fields
    BY <2>1, FieldFacts
  <2>3. CASE i = copied + 1
    BY <1>1, <2>1, <2>3 DEF MonCopy, TypeOK, Limits
  <2>4. CASE i \in 1..copied
    BY <1>1, <2>1, <2>2, <2>4 DEF MonCopy, TypeOK, Limits, NoTornRead
  <2> QED
    BY <2>1, <2>3, <2>4 DEF TypeOK
<1>2. CASE MonAcquire
  BY <1>2 DEF MonAcquire
<1>3. CASE UNCHANGED <<limits, mon, copy, copied>>
  BY <1>3 DEF NoTornRead
<1>4. CASE Load \/ Store
  BY <1>4 DEF Load, Store, LockHeld, UnderLock, monitor
<1>5. CASE Receive \/ Acquire \/ Erase \/ Program \/ EventOrReply \/ Release \/ UNCHANGED vars
  BY <1>3, <1>5 DEF Receive, Acquire, Erase, Program, EventOrReply, Release, vars, monitor
<1>6. CASE MonCalls \/ MonRelease \/ Reset
  BY <1>6 DEF MonCalls, MonRelease, Reset
<1> QED
  BY <1>1, <1>2, <1>4, <1>5, <1>6 DEF Next, RxStep, MonStep

LEMMA NextPersistent == IInv /\ [Next]_vars => Persistent'
<1> SUFFICES ASSUME TypeOK, LockHeld, Persistent, [Next]_vars PROVE Persistent'
  BY DEF IInv
<1>1. CASE Load
  BY <1>1 DEF Load, Persistent, flash
<1>2. CASE Receive
  BY <1>2 DEF Receive, Persistent, LockHeld, flash
<1>3. CASE Acquire
  BY <1>3 DEF Acquire, Handle, Persistent, LockHeld, flash
<1>4. CASE Store
  BY <1>4 DEF Store, Persistent, flash
<1>5. CASE Erase
  BY <1>5 DEF Erase, SaveReturns, AfterSave, Persistent, Dword, flash
<1>6. CASE Program
  <2>1. rx = "program" /\ limits' = limits
    BY <1>6 DEF Program
  <2>2. CASE rx' = "program"
    BY <1>6, <2>1, <2>2
    DEF Program, SaveReturns, AfterSave, Persistent, TypeOK, Limits, Dword
  <2>3. CASE rx' # "program" /\ unsaved'
    BY <1>6, <2>1, <2>3 DEF Program, SaveReturns, AfterSave, Persistent
  <2>4. CASE rx' # "program" /\ ~unsaved'
    <3>1. /\ magic' = TRUE /\ dword = 2 /\ dword' = 0
          /\ page' = [f \in Fields |-> IF Dword(f) = dword THEN limits[f] ELSE page[f]]
      BY <1>6, <2>1, <2>4 DEF Program, SaveReturns
    <3>2. \A f \in Fields : page'[f] = limits[f]
      BY <2>1, <3>1 DEF Persistent, Dword
    <3>3. page' = limits'
      BY <2>1, <3>1, <3>2 DEF TypeOK, Limits
    <3> QED
      BY <2>4, <3>1, <3>3 DEF Persistent
  <2> QED
    BY <2>2, <2>3, <2>4
<1>7. CASE EventOrReply \/ Release
  BY <1>7 DEF EventOrReply, Release, Persistent, LockHeld, flash
<1>8. CASE MonCalls \/ MonAcquire \/ MonCopy \/ MonRelease
  BY <1>8 DEF MonCalls, MonAcquire, MonCopy, MonRelease, Persistent, flash
<1>9. CASE Reset \/ UNCHANGED vars
  BY <1>9 DEF Reset, Persistent, vars, flash
<1> QED
  BY <1>1, <1>2, <1>3, <1>4, <1>5, <1>6, <1>7, <1>8, <1>9 DEF Next, RxStep, MonStep

-----------------------------------------------------------------------------
\* The inductive invariant holds in every state.
THEOREM Invariance == Spec => []IInv
<1>1. IInv /\ [Next]_vars => IInv'
  BY NextTypes, NextFrame, NextLock, NextTorn, NextPersistent DEF IInv
<1> QED
  BY <1>1, InitIInv, PTL DEF Spec

\* Every variable of config.c keeps its type, whatever is commanded, fails or resets.
THEOREM TypeCorrect == Spec => []TypeOK
<1>1. IInv => TypeOK
  BY DEF IInv
<1> QED
  BY <1>1, Invariance, PTL

\* config_get_limits() never mixes the limits of two settings.
THEOREM NeverTorn == Spec => []NoTornRead
<1>1. IInv => NoTornRead
  BY DEF IInv
<1> QED
  BY <1>1, Invariance, PTL

\* Flash holds the limits in force between two commands, unless the last save failed,
\* whatever failures and resets came before.
THEOREM Durable == Spec => []FlashAgrees
<1>1. IInv => FlashAgrees
  BY DEF IInv, Persistent, FlashAgrees
<1> QED
  BY <1>1, Invariance, PTL

-----------------------------------------------------------------------------
(* Refinement of AtomicLimits *)

\* Only a command that stores has stores left, and its frame carries a payload.
Pending ==
  /\ rx # "store" => todo = << >>
  /\ frame.ok /\ frame.cmd \in Sets => frame.v \in Payloads

\* What a save has not programmed is still erased.
Clean ==
  rx = "program" => /\ dword = 0 => ~magic
                    /\ \A f \in Fields : Dword(f) >= dword => page[f] = Erased

AtomInv == IInv /\ Pending /\ Clean

LEMMA InitAtom == Init => AtomInv
  BY InitIInv, Beginnings DEF Init, AtomInv, Pending, Clean

\* Pending is kept.
LEMMA NextPending == AtomInv /\ [Next]_vars => Pending'
<1> SUFFICES ASSUME TypeOK, Pending, [Next]_vars PROVE Pending'
  BY DEF AtomInv, IInv
<1>1. CASE Receive
  <2>1. frame'.cmd \in Sets => frame'.v \in Payloads
    BY <1>1, NoSet DEF Receive
  <2> QED
    BY <1>1, <2>1 DEF Receive, Pending
<1>2. CASE Acquire
  BY <1>2 DEF Acquire, Fresh, Pending
<1>3. CASE Store
  <2>1. Tail(todo) \in Seq(Fields) /\ rx = "store"
    BY <1>3 DEF Store, TypeOK
  <2> QED
    BY <1>3, <2>1 DEF Store, Pending
<1>4. CASE Erase \/ Program
  BY <1>4 DEF Erase, Program, SaveReturns, AfterSave, Pending
<1>5. CASE Load \/ EventOrReply
  BY <1>5 DEF Load, EventOrReply, Pending
<1>6. CASE Release \/ Reset
  BY <1>6, Beginnings DEF Release, Reset, Pending
<1>7. CASE UNCHANGED <<rx, todo, frame>>
  BY <1>7 DEF Pending
<1> QED
  BY <1>1, <1>2, <1>3, <1>4, <1>5, <1>6, <1>7
  DEF Next, RxStep, MonStep, MonCalls, MonAcquire, MonCopy, MonRelease, vars

\* Clean is kept.
LEMMA NextClean == AtomInv /\ [Next]_vars => Clean'
<1> SUFFICES ASSUME TypeOK, Persistent, Clean, [Next]_vars, rx' = "program" PROVE Clean'
  BY DEF AtomInv, IInv, Clean
<1>1. CASE Erase
  BY <1>1 DEF Erase, SaveReturns, AfterSave, Clean, Persistent, ErasedPage
<1>2. CASE Program
  <2>1. /\ magic' = TRUE /\ dword' = dword + 1 /\ dword \in 0..2
        /\ page' = [f \in Fields |-> IF Dword(f) = dword THEN limits[f] ELSE page[f]]
        /\ \A f \in Fields : Dword(f) >= dword => page[f] = Erased
    BY <1>2 DEF Program, SaveReturns, AfterSave, Clean, TypeOK
  <2> QED
    BY <2>1 DEF Clean, Dword
<1>3. CASE UNCHANGED <<rx, dword, flash>>
  BY <1>3 DEF Clean, flash
<1>4. CASE Load \/ Receive \/ Acquire \/ Store \/ EventOrReply \/ Release \/ Reset
  BY <1>4 DEF Load, Receive, Acquire, Handle, Store, EventOrReply, Release, Reset
<1> QED
  BY <1>1, <1>2, <1>3, <1>4
  DEF Next, RxStep, MonStep, MonCalls, MonAcquire, MonCopy, MonRelease, vars

LEMMA AtomAlways == Spec => []AtomInv
<1>1. AtomInv /\ [Next]_vars => AtomInv'
  BY NextTypes, NextFrame, NextLock, NextTorn, NextPersistent, NextPending, NextClean
  DEF AtomInv, IInv
<1> QED
  BY <1>1, InitAtom, PTL DEF Spec

\* Where nothing is pending the commanded thresholds are those in RAM.
LEMMA NothingPending ==
  /\ TypeOK /\ todo = << >> => Commanded = limits
  /\ (TypeOK /\ todo = << >> => Commanded = limits)'
<1>1. TypeOK /\ todo = << >> => Commanded = limits
  BY DEF TypeOK, Limits, Commanded
<1>2. (TypeOK /\ todo = << >> => Commanded = limits)'
  BY DEF TypeOK, Limits, Commanded
<1> QED
  BY <1>1, <1>2

\* A board that has never booted.
LEMMA InitMaps == Init => Atomic!Init
<1> SUFFICES ASSUME Init PROVE Atomic!Init
  OBVIOUS
<1>1. Commanded = ErasedPage
  BY DEF Init, Commanded, ErasedPage
<1> QED
  BY <1>1 DEF Init, Atomic!Init, Reading

\* The steps that neither store, save, load nor copy change nothing that can be seen.
LEMMA QuietMaps ==
  ASSUME AtomInv, AtomInv', UNCHANGED <<limits, magic, page, unsaved>>, Reading' = Reading,
         todo = << >>, todo' = << >>, rx # "boot", rx' # "boot",
         rx \in {"store", "erase", "program"} <=> rx' \in {"store", "erase", "program"}
  PROVE  UNCHANGED Atomic!vars
<1>1. Commanded' = Commanded
  BY NothingPending DEF AtomInv, IInv
<1> QED
  BY <1>1 DEF Atomic!vars

\* comm_rx_task begins to store what a command carries: all of it is in force at once.
LEMMA AcquireMaps ==
  ASSUME AtomInv, AtomInv', Acquire
  PROVE  [Atomic!Next]_(Atomic!vars)
<1>1. /\ rx = "acquire" /\ rx' = Handle /\ todo = << >> /\ todo' = Fresh
      /\ UNCHANGED <<limits, magic, page, frame, unsaved, mon, copy>>
  BY DEF Acquire, AtomInv, Pending, flash, monitor
<1>2. Reading' = Reading
  BY <1>1 DEF Reading
<1>3. CASE Handle # "store"
  <2>1. rx' \notin {"boot", "store", "erase", "program"} /\ todo' = << >>
    BY <1>1, <1>3 DEF Handle, Fresh
  <2> QED
    BY <1>1, <1>2, <2>1, QuietMaps
<1>4. CASE Handle = "store"
  <2>1. frame.cmd \in Sets /\ frame.v \in Payloads
    BY <1>4 DEF Handle, AtomInv, IInv, FrameOK, TypeOK, Pending
  <2>2. todo' = Stores[frame.cmd] /\ frame' = frame
    BY <1>1, <1>4 DEF Fresh
  <2>3. Commanded = limits
    BY <1>1, NothingPending DEF AtomInv, IInv
  <2>4. Commanded' = [f \in Fields |-> IF f \in Carried(frame.cmd) THEN frame.v ELSE Commanded[f]]
    BY <1>1, <2>2, <2>3 DEF Commanded, Carried
  <2>5. Atomic!Command
    BY <1>1, <1>2, <1>4, <2>1, <2>4 DEF Atomic!Command
  <2> QED
    BY <2>5 DEF Atomic!Next
<1> QED
  BY <1>3, <1>4

\* A store changes what is pending, not what is commanded.
LEMMA StoreMaps ==
  ASSUME AtomInv, AtomInv', Store
  PROVE  UNCHANGED Atomic!vars
<1>1. /\ rx = "store" /\ rx' \in {"store", "erase"} /\ todo # << >> /\ todo \in Seq(Fields)
      /\ todo' = Tail(todo) /\ limits' = [limits EXCEPT ![Head(todo)] = frame.v]
      /\ frame' = frame /\ limits \in Limits
      /\ UNCHANGED <<magic, page, unsaved, mon, copy>>
  BY DEF Store, AtomInv, IInv, TypeOK, flash, monitor
<1>2. mon # "copy"
  BY <1>1 DEF AtomInv, IInv, LockHeld, UnderLock
<1>3. ASSUME NEW f \in Fields
      PROVE  (IF \E i \in DOMAIN todo : todo[i] = f THEN frame.v ELSE limits[f])
             = IF \E i \in DOMAIN todo' : todo'[i] = f THEN frame.v ELSE limits'[f]
  <2>1. CASE Head(todo) = f
    <3>1. limits'[f] = frame.v
      BY <1>1, <2>1 DEF Limits
    <3>2. 1 \in DOMAIN todo /\ todo[1] = f
      BY <1>1, <2>1
    <3> QED
      BY <3>1, <3>2
  <2>2. CASE Head(todo) # f
    <3>1. limits'[f] = limits[f]
      BY <1>1, <2>2 DEF Limits
    <3>2. ASSUME NEW i \in DOMAIN todo, todo[i] = f PROVE i - 1 \in DOMAIN todo' /\ todo'[i - 1] = f
      BY <1>1, <2>2, <3>2
    <3>3. ASSUME NEW i \in DOMAIN todo', todo'[i] = f PROVE i + 1 \in DOMAIN todo /\ todo[i + 1] = f
      BY <1>1, <3>3
    <3> QED
      BY <3>1, <3>2, <3>3
  <2> QED
    BY <2>1, <2>2
<1>4. Commanded' = Commanded
  BY <1>1, <1>3 DEF Commanded
<1> QED
  BY <1>1, <1>2, <1>4 DEF Atomic!vars, Reading

\* The boot, and the erase and the double-words of a save.
LEMMA FlashMaps ==
  ASSUME AtomInv, AtomInv', Load \/ Erase \/ Program
  PROVE  [Atomic!Next]_(Atomic!vars)
<1>1. /\ rx # "store" /\ todo = << >> /\ todo' = << >>
      /\ UNCHANGED <<todo, mon, copy>> /\ rx \in {"boot", "erase", "program"}
  BY DEF Load, Erase, Program, AtomInv, Pending, monitor
<1>2. Commanded = limits /\ Commanded' = limits'
  BY <1>1, NothingPending DEF AtomInv, IInv
<1>3. mon # "copy"
  BY <1>1 DEF AtomInv, IInv, LockHeld, UnderLock
<1>4. Reading' = Reading
  BY <1>1, <1>3 DEF Reading
<1>5. CASE Load
  <2>1. Atomic!Boot
    BY <1>2, <1>4, <1>5 DEF Load, Atomic!Boot, flash
  <2> QED
    BY <2>1 DEF Atomic!Next
<1>6. limits \in Limits /\ page \in Limits /\ dword \in 0..2
  BY DEF AtomInv, IInv, TypeOK
<1>7. CASE Erase
  <2>1. CASE rx' = "program"
    <3>1. Atomic!SaveGoesOn
      BY <1>2, <1>4, <1>7, <2>1
      DEF Erase, SaveReturns, AfterSave, Atomic!SaveGoesOn
    <3> QED
      BY <3>1 DEF Atomic!Next
  <2>2. CASE rx' # "program"
    <3>1. Atomic!SaveEnds
      BY <1>2, <1>4, <1>7, <2>2 DEF Erase, SaveReturns, AfterSave, Atomic!SaveEnds, flash
    <3> QED
      BY <3>1 DEF Atomic!Next
  <2> QED
    BY <2>1, <2>2
<1>8. CASE Program
  <2>0. rx = "program" /\ limits' = limits
    BY <1>8 DEF Program
  <2>1. CASE rx' = "program"
    <3>1. magic' = TRUE /\ page' = [f \in Fields |-> IF Dword(f) = dword THEN limits[f] ELSE page[f]]
          /\ unsaved' = unsaved
      BY <1>8, <2>1 DEF Program, SaveReturns, AfterSave
    <3>2. \A f \in Fields : page'[f] \in {limits[f], Erased}
      BY <1>6, <2>0, <3>1 DEF AtomInv, IInv, Persistent, Clean, Dword
    <3>3. Atomic!SaveGoesOn
      BY <1>2, <1>4, <2>0, <2>1, <3>1, <3>2 DEF Atomic!SaveGoesOn
    <3> QED
      BY <3>3 DEF Atomic!Next
  <2>2. CASE rx' # "program" /\ unsaved'
    <3>0. UNCHANGED <<magic, page>> /\ unsaved' = TRUE /\ rx' \in {"idle", "event"}
      <4>1. CASE magic' = TRUE /\ (IF dword = 2 THEN SaveReturns /\ unsaved' = FALSE
                                   ELSE dword' = dword + 1 /\ UNCHANGED <<rx, booting, unsaved>>)
        BY <2>0, <2>2, <4>1
      <4>2. CASE SaveReturns /\ unsaved' = TRUE /\ UNCHANGED flash
        BY <4>2 DEF SaveReturns, AfterSave, flash
      <4> QED
        BY <1>8, <4>1, <4>2 DEF Program
    <3>1. Atomic!SaveEnds
      BY <1>2, <1>4, <2>0, <3>0 DEF Atomic!SaveEnds
    <3> QED
      BY <3>1 DEF Atomic!Next
  <2>3. CASE rx' # "program" /\ ~unsaved'
    <3>1. magic' = TRUE /\ rx' \in {"idle", "event"}
      BY <1>8, <2>3 DEF Program, SaveReturns, AfterSave
    <3>2. page' = limits' /\ unsaved' = FALSE
      <4>1. /\ dword = 2 /\ unsaved' = FALSE
            /\ page' = [f \in Fields |-> IF Dword(f) = dword THEN limits[f] ELSE page[f]]
        BY <1>8, <2>3 DEF Program, SaveReturns
      <4>2. \A f \in Fields : page'[f] = limits[f]
        BY <2>0, <4>1 DEF AtomInv, IInv, Persistent, Dword
      <4> QED
        BY <1>6, <2>0, <4>1, <4>2 DEF Limits
    <3>3. Atomic!SaveEnds
      BY <1>2, <1>4, <2>0, <3>1, <3>2 DEF Atomic!SaveEnds
    <3> QED
      BY <3>3 DEF Atomic!Next
  <2> QED
    BY <2>1, <2>2, <2>3
<1> QED
  BY <1>5, <1>7, <1>8

\* monitor_task reads once it holds the lock, and copies what it then sees.
LEMMA MonMaps ==
  ASSUME AtomInv, AtomInv', MonCalls \/ MonStep
  PROVE  [Atomic!Next]_(Atomic!vars)
<1>1. UNCHANGED <<limits, magic, page, rx, frame, todo, unsaved>>
  BY DEF MonCalls, MonStep, MonAcquire, MonCopy, MonRelease, flash
<1>2. Commanded' = Commanded
  BY <1>1 DEF Commanded
<1>3. CASE MonAcquire
  <2>1. mon' = "copy" /\ holder = "none" /\ rx \notin {"boot", "store", "erase", "program"}
    BY <1>3 DEF MonAcquire, AtomInv, IInv, LockHeld, UnderLock
  <2>2. Commanded = limits
    BY <2>1, NothingPending DEF AtomInv, IInv, Pending
  <2>3. Atomic!Read
    BY <1>1, <1>2, <2>1, <2>2 DEF Atomic!Read, Reading
  <2> QED
    BY <2>3 DEF Atomic!Next
<1>4. CASE MonCalls \/ MonCopy
  <2>1. Reading' = Reading
    BY <1>1, <1>4 DEF MonCalls, MonCopy, Reading
  <2> QED
    BY <1>1, <1>2, <2>1 DEF Atomic!vars
<1>5. CASE MonRelease
  <2>1. mon = "copy" /\ mon' = "idle" /\ copied = 10 /\ copy' = copy
    BY <1>5, FieldFacts DEF MonRelease
  <2>2. \A i \in 1..10 : copy[FieldOrder[i]] = limits[FieldOrder[i]]
    BY <2>1 DEF AtomInv, IInv, NoTornRead
  <2>3. copy = limits
    <3>1. \A f \in Fields : copy[f] = limits[f]
      BY <2>2 DEF Fields
    <3> QED
      BY <3>1 DEF AtomInv, IInv, TypeOK, Limits
  <2>4. Reading' = Reading
    BY <1>1, <2>1, <2>3 DEF Reading
  <2> QED
    BY <1>1, <1>2, <2>4 DEF Atomic!vars
<1> QED
  BY <1>3, <1>4, <1>5 DEF MonStep

\* A reset.
LEMMA ResetMaps ==
  ASSUME AtomInv, AtomInv', Reset
  PROVE  Atomic!Crash
<1>1. /\ rx' = "boot" /\ todo' = << >> /\ mon' = "idle"
      /\ copy' = ErasedPage /\ limits' = ErasedPage
      /\ UNCHANGED <<magic, page, unsaved>>
  BY DEF Reset, flash
<1>2. Commanded' = ErasedPage
  BY <1>1, NothingPending DEF AtomInv, IInv
<1> QED
  BY <1>1, <1>2 DEF Atomic!Crash, Reading

\* config.c keeps the thresholds as AtomicLimits has them: commands and readings
\* take effect at once, and no boot loads a mixture of two settings.
THEOREM Refinement == Spec => ImplementsAtomicLimits
<1>1. AtomInv /\ AtomInv' /\ [Next]_vars => [Atomic!Next]_(Atomic!vars)
  <2> SUFFICES ASSUME AtomInv, AtomInv', [Next]_vars PROVE [Atomic!Next]_(Atomic!vars)
    OBVIOUS
  <2>1. CASE Acquire
    BY <2>1, AcquireMaps
  <2>2. CASE Store
    BY <2>2, StoreMaps
  <2>3. CASE Load \/ Erase \/ Program
    BY <2>3, FlashMaps
  <2>4. CASE MonCalls \/ MonStep
    BY <2>4, MonMaps
  <2>5. CASE Reset
    BY <2>5, ResetMaps DEF Atomic!Next
  <2>6. CASE Receive \/ EventOrReply \/ Release
    <3>1. /\ rx \notin {"boot", "store", "erase", "program"}
          /\ rx' \notin {"boot", "store", "erase", "program"}
          /\ UNCHANGED <<limits, magic, page, unsaved, todo, mon, copy>>
      BY <2>6 DEF Receive, EventOrReply, Release, flash, monitor
    <3>2. todo = << >> /\ todo' = << >>
      BY <3>1 DEF AtomInv, Pending
    <3>3. Reading' = Reading
      BY <3>1 DEF Reading
    <3> QED
      BY <3>1, <3>2, <3>3, QuietMaps
  <2>7. CASE UNCHANGED vars
    <3>1. UNCHANGED <<rx, limits, magic, page, unsaved, todo, frame, mon, copy>>
      BY <2>7 DEF vars, flash, monitor
    <3>2. Commanded' = Commanded /\ Reading' = Reading
      BY <3>1 DEF Commanded, Reading
    <3> QED
      BY <3>1, <3>2 DEF Atomic!vars
  <2> QED
    BY <2>1, <2>2, <2>3, <2>4, <2>5, <2>6, <2>7 DEF Next, RxStep
<1> QED
  BY <1>1, InitMaps, AtomAlways, PTL DEF Spec, Atomic!Spec, ImplementsAtomicLimits
=============================================================================
