------------------------------- MODULE Config -------------------------------
(***************************************************************************)
(* LNC/Core/Src/config.c: the ten thresholds, written field by field by    *)
(* comm_rx_task under g_config.lock, persisted in one Flash page (an erase *)
(* and three double-words), loaded at boot and copied by monitor_task      *)
(* every round.  A reset (power, watchdog) can fall between any two steps, *)
(* and a Flash operation can fail when FlashFails.                         *)
(***************************************************************************)
EXTENDS Naturals, Sequences

CONSTANTS
  Payloads,    \* values a SET_* command can carry
  Default,     \* the value of each threshold in DEFAULT_LIMITS
  Erased,      \* what erased bytes (0xFF) read as
  Sets,        \* the SET_* commands that are sent
  FlashFails,  \* may an erase or a program fail?
  MaxFrames,   \* bound: frames received
  MaxResets    \* bound: resets

ASSUME ConfigAssumption ==
  /\ Default \notin Payloads
  /\ Erased \notin Payloads \cup {Default}
  /\ FlashFails \in BOOLEAN
  /\ MaxFrames \in Nat
  /\ MaxResets \in Nat

\* The fields of config_limits_t, in their order in memory.
FieldOrder == <<"temp_normal_min", "temp_normal_max",
                "temp_warning_min", "temp_warning_max",
                "humidity_normal_min", "humidity_warning_min",
                "light_normal_min", "light_warning_min",
                "battery_normal_min", "battery_warning_min">>
Fields == {FieldOrder[i] : i \in 1..10}

\* What each command of configuration_on_frame() stores, in order.  A payload
\* stands for all the fields it carries.
Stores == [
  SET_TEMP_NORMAL   |-> <<"temp_normal_min", "temp_normal_max">>,
  SET_TEMP_WARNING  |-> <<"temp_warning_min", "temp_warning_max">>,
  SET_HUM_NORMAL    |-> <<"humidity_normal_min">>,
  SET_HUM_WARNING   |-> <<"humidity_warning_min">>,
  SET_LIGHT_NORMAL  |-> <<"light_normal_min">>,
  SET_LIGHT_WARNING |-> <<"light_warning_min">>,
  SET_BATT_NORMAL   |-> <<"battery_normal_min">>,
  SET_BATT_WARNING  |-> <<"battery_warning_min">>]

ASSUME SetsAssumption == Sets \subseteq DOMAIN Stores

\* The double-word of the page a field lies in; the magic is in the first.
Dword(f) == IF f \in {"temp_normal_min", "temp_normal_max"} THEN 0
            ELSE IF f \in {"battery_normal_min", "battery_warning_min"} THEN 2
            ELSE 1

Limits == [Fields -> Payloads \cup {Default, Erased}]
DEFAULT_LIMITS == [f \in Fields |-> Default]
ErasedPage     == [f \in Fields |-> Erased]

VARIABLES
  limits,   \* g_config.limits
  magic,    \* does the page start with CONFIG_MAGIC?
  page,     \* the rest of the Flash page
  rx,       \* where comm_rx_task (or, while booting, main()) is in config.c
  frame,    \* the frame it handles
  todo,     \* the fields it still has to store
  dword,    \* the next double-word to program
  booting,  \* before osKernelStart()
  holder,   \* who holds g_config.lock
  mon,      \* where monitor_task is in config_get_limits()
  copy,     \* its copy
  copied,   \* fields copied so far
  unsaved,  \* history: has the last save failed?
  frames,   \* frames received (bounded by MaxFrames)
  resets    \* resets (bounded by MaxResets)

flash   == <<magic, page>>
monitor == <<mon, copy, copied>>
counts  == <<frames, resets>>
vars == <<limits, flash, rx, frame, todo, dword, booting, holder, monitor, unsaved, counts>>

NoFrame == [cmd |-> "none", ok |-> FALSE, v |-> Default]

-----------------------------------------------------------------------------
(* config_flash_save() *)

AfterSave == IF booting THEN "idle" ELSE "event"
SaveReturns == rx' = AfterSave /\ booting' = FALSE /\ dword' = 0

DoesNotErase ==   \* mutant: the double-words are programmed over the old ones
  /\ rx = "erase"
  /\ rx' = "program"
  /\ UNCHANGED <<flash, booting, dword, unsaved, limits, frame, todo, holder, monitor, counts>>

Erase ==
  /\ rx = "erase"
  /\ \/ /\ magic' = FALSE
        /\ page' = ErasedPage
        /\ rx' = "program"
        /\ UNCHANGED <<booting, dword, unsaved>>
     \/ /\ FlashFails
        /\ SaveReturns
        /\ unsaved' = TRUE
        /\ UNCHANGED flash
  /\ UNCHANGED <<limits, frame, todo, holder, monitor, counts>>

StopsOneEarly ==   \* mutant: the loop leaves out the last, shorter double-word
  /\ rx = "program"
  /\ magic' = TRUE
  /\ page' = [f \in Fields |-> IF Dword(f) = dword THEN limits[f] ELSE page[f]]
  /\ IF dword = 1
       THEN SaveReturns /\ unsaved' = FALSE
       ELSE dword' = dword + 1 /\ UNCHANGED <<rx, booting, unsaved>>
  /\ UNCHANGED <<limits, frame, todo, holder, monitor, counts>>

Program ==
  /\ rx = "program"
  /\ \/ /\ magic' = TRUE
        /\ page' = [f \in Fields |-> IF Dword(f) = dword THEN limits[f] ELSE page[f]]
        /\ IF dword = 2
             THEN SaveReturns /\ unsaved' = FALSE
             ELSE dword' = dword + 1 /\ UNCHANGED <<rx, booting, unsaved>>
     \/ /\ FlashFails
        /\ SaveReturns
        /\ unsaved' = TRUE
        /\ UNCHANGED flash
  /\ UNCHANGED <<limits, frame, todo, holder, monitor, counts>>

-----------------------------------------------------------------------------
(* config_create(): config_flash_load() before the scheduler starts *)

Load ==
  /\ rx = "boot"
  /\ \/ /\ magic
        /\ limits' = page
        /\ rx' = "idle"
        /\ booting' = FALSE
        /\ unsaved' = FALSE
     \/ /\ ~magic
        /\ limits' = DEFAULT_LIMITS
        /\ rx' = "erase"
        /\ UNCHANGED <<booting, unsaved>>
  /\ UNCHANGED <<flash, frame, todo, dword, holder, monitor, counts>>

-----------------------------------------------------------------------------
(* configuration_on_frame() on comm_rx_task *)

\* A frame arrives; ok: does its length fit the command?
Receive ==
  /\ rx = "idle"
  /\ frames < MaxFrames
  /\ frames' = frames + 1
  /\ frame' \in [cmd : Sets, ok : BOOLEAN, v : Payloads]
                \cup {[cmd |-> "GET_CONFIG", ok |-> TRUE, v |-> Default]}
  /\ rx' = "acquire"
  /\ UNCHANGED <<unsaved, limits, flash, todo, dword, booting, holder, monitor, resets>>

Handle == IF ~frame.ok THEN "release"
          ELSE IF frame.cmd = "GET_CONFIG" THEN "reply" ELSE "store"
Fresh  == IF Handle = "store" THEN Stores[frame.cmd] ELSE << >>

TakesNoLock ==   \* mutant: g_config.lock is not taken on this side
  /\ rx = "acquire"
  /\ rx' = Handle
  /\ todo' = Fresh
  /\ UNCHANGED <<unsaved, limits, flash, frame, dword, booting, holder, monitor, counts>>

Acquire ==
  /\ rx = "acquire"
  /\ holder = "none"
  /\ holder' = "rx"
  /\ rx' = Handle
  /\ todo' = Fresh
  /\ UNCHANGED <<unsaved, limits, flash, frame, dword, booting, monitor, counts>>

Store ==
  /\ rx = "store"
  /\ limits' = [limits EXCEPT ![Head(todo)] = frame.v]
  /\ todo' = Tail(todo)
  /\ rx' = IF Tail(todo) = << >> THEN "erase" ELSE "store"
  /\ UNCHANGED <<unsaved, flash, frame, dword, booting, holder, monitor, counts>>

\* event_config_changed() in commit(), comm_send() for GET_CONFIG
EventOrReply ==
  /\ rx \in {"event", "reply"}
  /\ rx' = "release"
  /\ UNCHANGED <<unsaved, limits, flash, frame, todo, dword, booting, holder, monitor, counts>>

ReturnsEarly ==   \* mutant: the path of a malformed frame skips the release
  /\ rx = "release"
  /\ holder' = IF frame.ok THEN "none" ELSE holder
  /\ rx' = "idle"
  /\ frame' = NoFrame
  /\ UNCHANGED <<unsaved, limits, flash, todo, dword, booting, monitor, counts>>

Release ==
  /\ rx = "release"
  /\ holder' = "none"
  /\ rx' = "idle"
  /\ frame' = NoFrame
  /\ UNCHANGED <<unsaved, limits, flash, todo, dword, booting, monitor, counts>>

-----------------------------------------------------------------------------
(* config_get_limits() on monitor_task *)

MonCalls ==
  /\ ~booting
  /\ mon = "idle"
  /\ mon' = "acquire"
  /\ UNCHANGED <<unsaved, limits, flash, rx, frame, todo, dword, booting, holder, copy, copied, counts>>

MonAcquire ==
  /\ mon = "acquire"
  /\ holder = "none"
  /\ holder' = "monitor"
  /\ mon' = "copy"
  /\ copied' = 0
  /\ UNCHANGED <<unsaved, limits, flash, rx, frame, todo, dword, booting, copy, counts>>

MonCopy ==
  /\ mon = "copy"
  /\ copied < Len(FieldOrder)
  /\ copy' = [copy EXCEPT ![FieldOrder[copied + 1]] = limits[FieldOrder[copied + 1]]]
  /\ copied' = copied + 1
  /\ UNCHANGED <<unsaved, limits, flash, rx, frame, todo, dword, booting, holder, mon, counts>>

MonRelease ==
  /\ mon = "copy"
  /\ copied = Len(FieldOrder)
  /\ holder' = "none"
  /\ mon' = "idle"
  /\ UNCHANGED <<unsaved, limits, flash, rx, frame, todo, dword, booting, copy, copied, counts>>

-----------------------------------------------------------------------------
\* A reset loses the RAM and everything the tasks were doing.
Reset ==
  /\ resets < MaxResets
  /\ resets' = resets + 1
  /\ rx' = "boot"
  /\ booting' = TRUE
  /\ frame' = NoFrame
  /\ todo' = << >>
  /\ dword' = 0
  /\ holder' = "none"
  /\ mon' = "idle"
  /\ copied' = 0
  /\ copy' = ErasedPage
  /\ limits' = ErasedPage
  /\ UNCHANGED <<unsaved, flash, frames>>

\* A factory-new board: the page is erased.
Init ==
  /\ limits = ErasedPage
  /\ magic = FALSE
  /\ page = ErasedPage
  /\ rx = "boot"
  /\ frame = NoFrame
  /\ todo = << >>
  /\ dword = 0
  /\ booting = TRUE
  /\ holder = "none"
  /\ mon = "idle"
  /\ copy = ErasedPage
  /\ copied = 0
  /\ unsaved = FALSE
  /\ frames = 0
  /\ resets = 0

RxStep  == Load \/ Acquire \/ Store \/ Erase \/ Program \/ EventOrReply \/ Release
MonStep == MonAcquire \/ MonCopy \/ MonRelease
Next == Receive \/ RxStep \/ MonCalls \/ MonStep \/ Reset

Spec == Init /\ [][Next]_vars

\* Both tasks run when they can; nobody has to send frames or reset the board.
FairSpec == Spec /\ WF_vars(RxStep) /\ WF_vars(MonStep)

-----------------------------------------------------------------------------
(* Properties *)

TypeOK ==
  /\ limits \in Limits
  /\ magic \in BOOLEAN
  /\ page \in Limits
  /\ rx \in {"boot", "idle", "acquire", "store", "erase", "program", "event",
             "reply", "release"}
  /\ frame \in [cmd : Sets \cup {"GET_CONFIG", "none"}, ok : BOOLEAN,
                v : Payloads \cup {Default}]
  /\ todo \in Seq(Fields)
  /\ rx = "store" => todo # << >>
  /\ dword \in 0..2
  /\ booting \in BOOLEAN
  /\ holder \in {"none", "rx", "monitor"}
  /\ mon \in {"idle", "acquire", "copy"}
  /\ copy \in Limits
  /\ copied \in 0..Len(FieldOrder)
  /\ unsaved \in BOOLEAN
  /\ frames \in 0..MaxFrames
  /\ resets \in 0..MaxResets

\* "a pointer into live state could hand Monitor a torn mix of old and new
\* fields" (config.h:52-58): what monitor_task has copied so far is always what
\* the thresholds are now, so no round is classified by a mix of two settings.
NoTornRead ==
  mon = "copy" => \A i \in 1..copied : copy[FieldOrder[i]] = limits[FieldOrder[i]]

\* A command that has been carried out is durable: whenever no command is under
\* way and the last save did not fail, a reset would load exactly the
\* thresholds that are in force, whatever failures and resets came before.
FlashAgrees ==
  ~booting /\ holder # "rx" /\ rx \in {"idle", "acquire"} /\ ~unsaved
    => magic /\ page = limits

\* monitor_task always gets its thresholds (or is reset), however long a
\* command holds the lock for its Flash and SD-card work.
MonitorGetsLimits == mon = "acquire" ~> mon # "acquire"

\* "persists them in Flash, loads them at boot (defaults on an empty/first-boot
\* Flash)" (config.h:7-9): a threshold in force is a default or was commanded.
ThresholdsWereSet == ~booting => \A f \in Fields : limits[f] # Erased

-----------------------------------------------------------------------------
(* The abstract specification *)

Carried(cmd) == {Stores[cmd][i] : i \in DOMAIN Stores[cmd]}

\* The thresholds once the command has stored what it still has to; nobody
\* else sees them before.
Commanded ==
  [f \in Fields |-> IF \E i \in DOMAIN todo : todo[i] = f THEN frame.v ELSE limits[f]]

\* What the monitor makes of its copy, which it does not use before it is whole.
Reading == IF mon = "copy" THEN limits ELSE copy

Atomic == INSTANCE AtomicLimits WITH
  Groups   <- {Carried(cmd) : cmd \in Sets},
  Defaults <- DEFAULT_LIMITS,
  Nothing  <- ErasedPage,
  up       <- rx # "boot",
  inForce  <- Commanded,
  got      <- Reading,
  stored   <- IF magic THEN page ELSE DEFAULT_LIMITS,
  saving   <- rx \in {"store", "erase", "program"},
  failed   <- unsaved

\* The ten stores of a command, the copies of the monitor and the four Flash
\* operations of a save are one step each to the other tasks and to whoever
\* boots from the page, at whatever point a reset falls: in particular no boot
\* loads a mixture of two settings.
ImplementsAtomicLimits == Atomic!Spec
=============================================================================
