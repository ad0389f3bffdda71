------------------------------ MODULE LncTasks ------------------------------
(***************************************************************************)
(* The tasks of the LNC around their three locks: monitor_task (monitor.c) *)
(* with the handlers it calls in event.c and log.c, keepalive_task, and    *)
(* comm_rx_task inside a handler.                                          *)
(*                                                                         *)
(*   config  g_config.lock, held by a command from its first store to the  *)
(*           end of its line in EVENTS.TXT                                 *)
(*   sd      s_sd_lock, held by every operation on the card, by a query    *)
(*           across an osDelay after each line                             *)
(*   latest  latest_lock of monitor.c, which pairs mode and measurement    *)
(*                                                                         *)
(* Any task may run at any time.  A section that takes one lock and ends   *)
(* without waiting is one step, which needs the lock free.  A sensor is a  *)
(* level, lower is worse, and a lower bound; the temperature's upper       *)
(* bounds are left out, and so is what the calls do otherwise (Config,     *)
(* LncLog, Alarm, CommTx).                                                 *)
(***************************************************************************)
EXTENDS Naturals, Sequences

CONSTANTS
  MaxLevel,    \* sensors read 0..MaxLevel
  MaxChanges,  \* bound: changes of what the sensors see
  MaxCommands, \* bound: frames whose handler takes a lock
  MaxFiles,    \* bound: files of a query (1 for EVENTS.TXT, 7 for LOG1..7.TXT)
  MaxMissed    \* bound: readings of the DHT11 that fail

ASSUME LncTasksAssumption ==
  /\ {MaxLevel, MaxChanges, MaxCommands, MaxMissed} \subseteq Nat
  /\ MaxFiles \in Nat \ {0}

Levels  == 0..MaxLevel
Sensors == {"dht", "adc"}
Bounds  == [normal : 0..MaxLevel + 1, warning : 0..MaxLevel + 1]
Modes   == {"UNKNOWN", "NORMAL", "WARNING", "ERROR"}

Tasks == {"monitor", "keepalive", "rx"}
Locks == {"config", "sd", "latest"}
Free  == "free"

VARIABLES
  world,   \* what the sensors see
  limits,  \* g_config.limits
  owner,   \* owner[l]: the task that holds the lock, or Free
  pc,      \* pc[t]: where the task is
  files,   \* files a query has still to search
  dht,     \* last_temp_c, last_humidity_pct: the last good reading
  data,    \* monitor_task's local measurement
  newMode, \* and the mode made of it
  mode, lastData, \* the pair under latest_lock; of the measurement, only how many
           \* mode changes had been told when it was published
  taken,   \* keepalive_task's copies
  alive,   \* the last KEEP_ALIVE given to comm_send()
  told,    \* history: the modes of all MODE_CHANGEs given to comm_send()
  changes, commands, missed  \* counters of the bounds

monitor   == <<dht, data, newMode, mode, lastData, told>>
keepalive == <<taken, alive>>
rx        == <<commands, files, limits>>
outside   == <<world, changes, missed>>
vars == <<outside, owner, pc, monitor, keepalive, rx>>

Readings == [dht : Levels, adc : Levels]
NoReading == [dht |-> 0, adc |-> 0]
Reports  == [data : Nat, mode : Modes]

-----------------------------------------------------------------------------
(* Classification                                                          *)

\* classify_lower_bound()
Tier(value, bound) ==
  IF value >= bound.normal THEN "NORMAL"
  ELSE IF value >= bound.warning THEN "WARNING" ELSE "ERROR"

\* classify_mode()
ClassifyMode(reading, lim) ==
  LET tiers == {Tier(reading[s], lim[s]) : s \in Sensors}
  IN  IF "ERROR" \in tiers THEN "ERROR"
      ELSE IF "WARNING" \in tiers THEN "WARNING" ELSE "NORMAL"

-----------------------------------------------------------------------------
(* Locks                                                                   *)

\* The lock that a task waits for at a place.
Wants(place) ==
  CASE place \in {"classify", "set", "get"}        -> "config"
    [] place \in {"event", "log", "query", "report"} -> "sd"
    [] place \in {"publish", "take"}               -> "latest"
    [] OTHER -> Free

Go(t, from, to) == pc[t] = from /\ pc' = [pc EXCEPT ![t] = to]

Take(t, from, to) ==
  LET l == Wants(from)
  IN  Go(t, from, to) /\ owner[l] = Free /\ owner' = [owner EXCEPT ![l] = t]

Release(l) == owner' = [owner EXCEPT ![l] = Free]

\* a whole section under the lock
Within(t, from, to) == Go(t, from, to) /\ owner[Wants(from)] = Free /\ UNCHANGED owner

-----------------------------------------------------------------------------
(* monitor_task                                                            *)

\* monitor_sample(): a DHT11 that does not answer leaves its last good reading.
Sample ==
  /\ Go("monitor", "sample", "classify")
  /\ \/ dht' = world.dht /\ UNCHANGED missed
     \/ missed < MaxMissed /\ missed' = missed + 1 /\ UNCHANGED dht
  /\ data' = [dht |-> dht', adc |-> world.adc]
  /\ UNCHANGED <<world, changes, owner, newMode, mode, lastData, told, keepalive, rx>>

\* config_get_limits(), classify_mode(), and the comparison with the last round's mode
Classify ==
  /\ newMode' = ClassifyMode(data, limits)
  /\ Within("monitor", "classify", IF newMode' # mode THEN "event" ELSE "log")
  /\ data' = NoReading    \* only written to the card and the wire from here on
  /\ UNCHANGED <<outside, dht, mode, lastData, told, keepalive, rx>>

\* event_mode_changed(): its line in EVENTS.TXT, then MODE_CHANGE
WriteEvent ==
  /\ Within("monitor", "event", "tell")
  /\ UNCHANGED <<outside, monitor, keepalive, rx>>

TellModeChange ==
  /\ Go("monitor", "tell", "log")
  /\ told' = Append(told, newMode)
  /\ UNCHANGED <<outside, owner, dht, data, newMode, mode, lastData, keepalive, rx>>

\* log_write(), which takes the lock once, on the first line of a day twice
LogWrite ==
  /\ Within("monitor", "log", "publish")
  /\ UNCHANGED <<outside, monitor, keepalive, rx>>

TakeLatest ==
  /\ Take("monitor", "publish", "setMode")
  /\ UNCHANGED <<outside, monitor, keepalive, rx>>

PublishMode ==
  /\ Go("monitor", "setMode", "setData")
  /\ mode' = newMode
  /\ UNCHANGED <<outside, owner, dht, data, newMode, lastData, told, keepalive, rx>>

PublishData ==
  /\ Go("monitor", "setData", "sample")     \* osDelayUntil() the next round
  /\ lastData' = Len(told)
  /\ Release("latest")
  /\ UNCHANGED <<outside, dht, data, newMode, mode, told, keepalive, rx>>

MonitorStep ==
  \/ Sample \/ Classify \/ WriteEvent \/ TellModeChange \/ LogWrite
  \/ TakeLatest \/ PublishMode \/ PublishData

-----------------------------------------------------------------------------
(* keepalive_task                                                          *)

\* mutant: takes no lock
ReadsUnlocked ==
  /\ Go("keepalive", "take", "copyData")
  /\ UNCHANGED <<outside, owner, monitor, keepalive, rx>>

\* monitor_get_latest() takes the lock, copies the measurement, then the mode.
GetLatest ==
  /\ Take("keepalive", "take", "copyData")
  /\ UNCHANGED <<outside, monitor, keepalive, rx>>

CopyData ==
  /\ Go("keepalive", "copyData", "copyMode")
  /\ taken' = [taken EXCEPT !.data = lastData]
  /\ UNCHANGED <<outside, owner, monitor, alive, rx>>

CopyMode ==
  /\ Go("keepalive", "copyMode", "send")
  /\ taken' = [taken EXCEPT !.mode = mode]
  /\ Release("latest")
  /\ UNCHANGED <<outside, monitor, alive, rx>>

SendKeepAlive ==
  /\ Go("keepalive", "send", "take")        \* osDelayUntil() the next one
  /\ alive' = taken
  /\ UNCHANGED <<outside, owner, monitor, taken, rx>>

KeepAliveStep == GetLatest \/ CopyData \/ CopyMode \/ SendKeepAlive

-----------------------------------------------------------------------------
(* comm_rx_task: a frame's handler                                         *)

\* A frame; GET_TIME and TIME_SYNC_REPLY take no lock.
FrameArrives ==
  /\ commands < MaxCommands
  /\ commands' = commands + 1
  /\ \/ Go("rx", "wait", "set") /\ UNCHANGED files
     \/ Go("rx", "wait", "get") /\ UNCHANGED files
     \/ Go("rx", "wait", "query") /\ files' \in {1, MaxFiles}
  /\ UNCHANGED <<outside, limits, owner, monitor, keepalive>>

\* configuration_on_frame() for GET_CONFIG: the reply under the lock
GetConfig ==
  /\ Within("rx", "get", "wait")
  /\ UNCHANGED <<outside, monitor, keepalive, rx>>

\* for SET_*: store, save to flash, event_config_changed()
SetConfig ==
  /\ Take("rx", "set", "store")
  /\ UNCHANGED <<outside, monitor, keepalive, rx>>

Store ==
  /\ Go("rx", "store", "report")
  /\ \E s \in Sensors, f \in {"normal", "warning"}, v \in 0..MaxLevel + 1 :
       limits' = [limits EXCEPT ![s] = [@ EXCEPT ![f] = v]]
  /\ UNCHANGED <<outside, commands, files, owner, monitor, keepalive>>

ReportChange ==
  /\ Within("rx", "report", "stored")
  /\ UNCHANGED <<outside, monitor, keepalive, rx>>

\* mutant: returns with the lock held
ReturnsEarly ==
  /\ Go("rx", "stored", "wait")
  /\ UNCHANGED <<outside, owner, monitor, keepalive, rx>>

SetReturns ==
  /\ Go("rx", "stored", "wait")
  /\ Release("config")
  /\ UNCHANGED <<outside, monitor, keepalive, rx>>

\* SDFatFS_ForEachLine(), for one file (EVENTS.TXT) or more (LOG1..7.TXT)
OpenFile ==
  /\ Take("rx", "query", "lines")
  /\ UNCHANGED <<outside, monitor, keepalive, rx>>

\* mutant: the callback of a line asks for the limits
AsksForLimits ==
  /\ files' = files - 1
  /\ Go("rx", "lines", "get")
  /\ UNCHANGED <<outside, owner, commands, limits, monitor, keepalive>>

\* after any number of lines, each with its osDelay(1), or a failed mount or open
CloseFile ==
  /\ files' = files - 1
  /\ Go("rx", "lines", IF files' = 0 THEN "wait" ELSE "query")
  /\ Release("sd")
  /\ UNCHANGED <<outside, commands, limits, monitor, keepalive>>

RxStep == GetConfig \/ SetConfig \/ Store \/ ReportChange \/ SetReturns \/ OpenFile \/ CloseFile

-----------------------------------------------------------------------------
WorldChanges ==
  /\ changes < MaxChanges
  /\ changes' = changes + 1
  /\ \E w \in Readings \ {world} : world' = w
  /\ UNCHANGED <<missed, owner, pc, monitor, keepalive, rx>>

\* monitor_create(), and config_create() on an empty flash
Init ==
  /\ world \in Readings
  /\ limits = [s \in Sensors |-> [normal |-> 1, warning |-> 0]]
  /\ owner = [l \in Locks |-> Free]
  /\ pc = [t \in Tasks |-> CASE t = "monitor" -> "sample"
                             [] t = "keepalive" -> "take"
                             [] t = "rx" -> "wait"]
  /\ files = 0
  /\ dht = 0
  /\ data = NoReading /\ newMode = "UNKNOWN"
  /\ mode = "UNKNOWN" /\ lastData = 1
  /\ taken = [data |-> lastData, mode |-> "UNKNOWN"]
  /\ alive = taken
  /\ told = <<"UNKNOWN">>
  /\ changes = 0 /\ commands = 0 /\ missed = 0

Next ==
  \/ MonitorStep \/ KeepAliveStep \/ RxStep
  \/ FrameArrives \/ WorldChanges

\* Every task that can run makes progress, and gets a lock that others take again
\* and again: whoever takes one sleeps before it takes it again (osDelayUntil,
\* rxq_bytes), but for the next file of a query.
Fairness == SF_vars(MonitorStep) /\ SF_vars(KeepAliveStep) /\ SF_vars(RxStep)

Spec == Init /\ [][Next]_vars /\ Fairness

-----------------------------------------------------------------------------
(* Properties                                                              *)

\* Types; no task waits for a lock that it holds.
TypeOK ==
  /\ world \in Readings
  /\ limits \in [Sensors -> Bounds]
  /\ owner \in [Locks -> Tasks \cup {Free}]
  /\ files \in 0..MaxFiles
  /\ dht \in Levels /\ data \in Readings /\ lastData \in 1..Len(told)
  /\ newMode \in Modes /\ mode \in Modes
  /\ taken \in Reports /\ alive \in Reports
  /\ told \in Seq(Modes)
  /\ changes \in 0..MaxChanges /\ commands \in 0..MaxCommands /\ missed \in 0..MaxMissed
  /\ \A l \in Locks : owner[l] # Free => Wants(pc[owner[l]]) # l

\* The three locks are taken in one order: a task that waits for a lock holds none
\* but, for the line it writes about a new limit, the configuration's.  So nobody
\* waits in a circle, and a sleeping query holds up only who needs the card.
LocksAreOrdered ==
  \A l \in Locks : owner[l] # Free =>
    LET wanted == Wants(pc[owner[l]])
    IN  wanted = Free \/ (l = "config" /\ wanted = "sd")

\* A keep-alive tells a mode and a measurement of one round, and no mode whose
\* MODE_CHANGE has not been given to comm_send() before it, wherever the two
\* tasks interrupt each other.
AliveIsAnnounced == alive.mode = told[alive.data]

\* Once the sensors, the limits and the DHT11's failures have come to rest, the
\* keep-alives tell the mode that the limits give to what the sensors see, and so
\* does the last MODE_CHANGE.
EventuallyTruthful ==
  <>[](/\ alive.mode = ClassifyMode(world, limits)
       /\ told[Len(told)] = alive.mode)
=============================================================================
