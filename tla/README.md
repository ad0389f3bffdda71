# A verification model of the submarine monitoring system

TLA+ modules, TLC configurations and TLAPS proofs about the program in `src/`: the
firmware of the Local Node Controller (`LNC`, C on FreeRTOS, STM32L476), the Central
Computer (`CentralComputer`, C++), the Ground Station (`GroundStation`, C++) and what
they share (`Shared`: the TLV protocol and a TCP transport).

* [Inventory](#inventory): the parts, their state, how they interact, what is hard about them
* [The modules](#the-modules): which module models what, and how it corresponds to the code
* [Running](#running) and [what each run shows](#the-runs)
* [Proofs](#proofs)
* [Statements of the sources that the code does not keep](#statements-of-the-sources-that-the-code-does-not-keep)
* [What is not modelled](#what-is-not-modelled) and [plan](#plan)

## Inventory

### LNC firmware

Seven tasks and four kinds of interrupts on one core. FreeRTOS schedules preemptively by
fixed priority, with time slices between equals, at a tick of 1 ms; all interrupts share one NVIC
priority, so they do not interrupt each other.

| task | priority | what it does |
|---|---|---|
| `watchdog_task` | High | refreshes the hardware watchdog |
| `comm_tx_task` | AboveNormal | sleeps on `sem_tx_ready`, drains three queues into the UART |
| `comm_rx_task` | AboveNormal | decodes bytes, runs the frame handlers of config, log, event, init |
| `monitor_task` | Normal | samples every 5 s, classifies, logs, sends mode changes |
| `keepalive_task` | Normal | every 6 s sends the last measurement |
| `objdet_task` | Normal | turns thread flags into "object detected / cleared" |
| `sonarled_task` | Normal | breathes the LED |

| component | state | operations | interacts with |
|---|---|---|---|
| Communication (tx) `communication.c` | `txq_high` (1 deep, a mailbox), `txq_med` (4), `txq_low` (4), `sem_tx_ready` (max 10) | `comm_send()`, `comm_tx_task` | called by every task |
| Communication (rx) `communication.c` | byte queue (128) filled by the UART interrupt, TLV receiver | `comm_rx_task`, routing by tag | calls config, log, event, init |
| Object detection `objectdetection.c` | `present`, the burst filter, TIM5's counter, thread flags | edge and timeout interrupts, `objdet_task` | calls event |
| Event and buzzer `event.c`, `buzzer.c` | `alarm_active`, `sonar_active` in both, TIM3, LED, `EVENTS.TXT` | mode changed, object detected / cleared, button, note timer | called by monitor, objdet, two interrupts; calls `comm_send`, SD |
| Configuration `config.c` | ten limits in RAM under `g_config.lock`, one page of Flash | SET_*/GET_CONFIG, load and save, `config_get_limits()` | comm_rx writes, monitor reads |
| Log and SD card `log.c`, `sdfatfs.c` | seven files named by weekday, `last_written_day`, `s_sd_lock` | `log_write()`, QUERY_DATA | monitor writes, comm_rx reads |
| Monitor, keep-alive | the latest measurement under `latest_lock` | sample, classify, publish | config, log, event, comm |
| Init, time sync | two clocks (HAL RTC and DS1307) | boot, GET/SET_TIME | comm |
| Watchdog, LED, DHT11 | hardware | refresh, breathe, read | |

Lock order: `g_config.lock`, then `s_sd_lock` (a configuration command writes a line into
the events file); `latest_lock` is never nested.

### Central Computer

| component | state | operations | interacts with |
|---|---|---|---|
| Communication | transport, decoder, handlers, `rx_thread_` | `send()`, `rx_loop()` with reconnecting, `switch_transport` | LNC over UART or TCP; calls management, data collection |
| Management Command | `thresholds_`, `config_reply_pending_`, a mutex and a condition variable | `get_config()`, other commands, `on_frame()` | menu's thread and `rx_thread_` |
| Data collection | SQLite tables | insert, purge, query | `rx_thread_`, menu, link server |
| Log | files with rollover | write | all threads |
| Ground Station link (`GsLinkServer`) | listening socket, `accept_thread_` | accept, serve one query, stop | Ground Stations over TCP; reads the database |
| Gateway | a TCP connection and a UART | pump bytes both ways | a program of its own |
| menu (`main.cpp`) | the objects above | console | |

### Ground Station

One thread, a menu. `FleetManager` owns research and combat submarines with missions,
links and inboxes; `CentralComputer` is a client whose `query()` opens a connection, sends a
request and polls for the answer.

### Behaviours that are hard, and what correctness means

| component | hard | correct when |
|---|---|---|
| Communication (tx) | several calls of the RTOS per frame, preempted between any two; a mailbox that is overwritten; full queues | as many wake-ups as frames, each accepted frame leaves once and in the order of its class, keep-alives first |
| Communication (rx) | bytes lost or damaged anywhere, overruns, a queue that fills while a handler runs, a decoder that has lost its place | reception never ends; what is handed on is what was sent; what arrives whole is handled |
| Monitor, keep-alive | three locks, three tasks, two of them nested, a query that sleeps with the card's | no circle of waits; mode and measurement of one round; the truth in the end |
| Object detection | two interrupts, hardware time and a task that is delayed by the SD card | reported only after a dense burst, never left standing, both reports come |
| Event and buzzer | two tasks without a lock, two interrupts | the button can always silence the buzzer; no sound without a cause; an entry into ERROR is heard |
| Configuration | a copy of ten fields against commands; resets and failures in a save | whole copies, Flash agrees with RAM and is never of two settings, nobody waits for ever |
| Log | a day remembered only in RAM, a file reused each week, a query during writes, card failures | seven days are kept, days do not mix, a query is complete |
| Management Command | a timeout against a late reply that does not name its request | the result tells the truth |
| Communication (CC) | handlers set after the thread has started, a reconnect against a switch of the transport, destruction in the one safe order | no thread in an object that is gone; every tear-down ends; a broken link works again |
| Ground Station link | one server thread, clients that leave, full socket buffers | an answer shown as complete is complete; every session ends |
| Fleet | pointers between submarines, kept on both sides by hand | links mutual, none dangling, a mission while assigned |

`PROJECT.json` lists the same as hazards, each at its line, with the properties about it.

## The modules

| module | models | modules that use it |
|---|---|---|
| `CommLink` | abstract specification: frames of three classes wait and are transmitted, each once, in order, urgent ones first | refined by `CommTx` |
| `CommTx` | `comm_send()` and `comm_tx_task`, one step per RTOS call | `MCCommTx`, `CommTxProofs` |
| `MCCommTx` | priorities and bounds for TLC | |
| `CommTxProofs` | theorems about `CommTx` | |
| `ObjectDetection` | burst filter, TIM5, flags, `objdet_task` | `ObjectAlarmProofs` |
| `Alarm` | `event.c`'s handlers with `buzzer.c` and TIM3, one step per statement | `ObjectAlarmProofs` |
| `ObjectAlarmProofs` | theorems about `ObjectDetection` and `Alarm` | |
| `AtomicLimits` | abstract specification: a command, a reading and a boot are one step each, and what is stored while a save lasts is of one setting | refined by `Config` |
| `Config` | `config.c`: commands, lock, the monitor's copy, Flash, resets | `ConfigProofs` |
| `ConfigProofs` | theorems about `Config`, its refinement of `AtomicLimits` among them | |
| `LncLog` | `log.c` over `sdfatfs.c`, with the time syncs of `init.c` | `LncLogProofs` |
| `LncLogProofs` | theorems about `LncLog` | |
| `LncTasks` | monitor, keep-alive and `comm_rx_task` around the three locks | `LncTasksProofs` |
| `LncTasksProofs` | theorems about `LncTasks` | |
| `TlvReceiver` | `tlv.c`: encoder, block decoder, streaming receiver (no state of its own) | `CommRx` |
| `FrameStream` | abstract specification: frames that were sent are handed on, each at most once, in order, or lost | refined by `CommRx` |
| `CommRx` | the UART interrupt and its error callback, `rxq_bytes`, `comm_rx_task` | `MCCommRx`, `CommRxProofs` |
| `MCCommRx` | the real CRC, commands and noise for TLC | |
| `CommRxProofs` | theorems about `TlvReceiver` and `CommRx`, its refinement of `FrameStream` among them | |
| `CcManagement` | what `get_config()` and `on_frame()` do to each other: the reply, the wait, the timeout | `CcConnection` |
| `CcConnection` | the transport, `Communication` and `ManagementCommand` as objects, `rx_thread_`, the menu, a link that breaks; EXTENDS `CcManagement` | `CcConnectionProofs` |
| `CcConnectionProofs` | theorems about `CcConnection` | |
| `GsLink` | the Ground Station's `query()`, the sockets and `GsLinkServer` | `GroundStationProofs` |
| `Fleet` | the fleet and its menu actions | `GroundStationProofs` |
| `GroundStationProofs` | theorems about `GsLink` and `Fleet` | |

How state and actions correspond:

* **CommTx.** `q` are the three queues, `tokens` the semaphore's count, `pc[t]` the place of a
  task inside `comm_send()`, `txpc`/`txItem` the place and the local variable of
  `comm_tx_task`. `CommSend` is the call up to its first `osMessageQueuePut`, `TakeStale` and
  `PutAgain` the overwriting of a keep-alive (l. 242-250), `Ring` the `osSemaphoreRelease`;
  `TxAcquire`, `TxGet*`, `TxTransmit` are the five steps of the loop. `CanRun` is the
  scheduler: a step of a task needs that no runnable task has a higher priority. The
  transmission by polling keeps the CPU, so `TxTransmit` is subject to `CanRun` as well.
  `StartQuery`, `SendRecord`, `SendQueryEnd` are the replies to the two queries, which ignore
  the result of `comm_send()`. Payloads are a call number. `sent` is history.
* **ObjectDetection.** `Tick` is one unit of time: TIM5 counts and wraps to 0 at its period,
  where its interrupt raises TIMEOUT, whether an object is present or not. `OnEdge` is an edge
  that passed the spacing filter. `Wake`, `HandleEdge`, `HandleTimeout`, `EventReturns` are the
  task's loop; between them interrupts come in any number. `edges` and `quiet` are history.
* **Alarm.** A handler is the sequence of statements it still has to execute, and each step
  executes one; functions are the operators `BuzzerStartAlarm`, `BuzzerStop` and so on.
  `Counts` follows what the HAL does to TIM3's counter when channel and interrupt are switched on
  and off separately. The mode LED (`led_set_for_mode()`, `event.c:185`) is left out: nothing reads it. `Button` and `NoteEnds` are the interrupts, atomic. `hushed` is history: whether the
  button or `objdet_task` has turned something of the buzzer off since the last change of mode.
* **Config.** `rx` is where `comm_rx_task` is; a save is `Erase` and three `Program` steps, each of
  which can fail when `FlashFails`; `Reset` can fall anywhere. `Load` is the boot, which
  saves the defaults when the magic is missing. `MonCopy` copies field by field. `unsaved` is history. For `AtomicLimits` a command
  happens where it takes the lock and a reading where `config_get_limits()` does (`Commanded`, `Reading`).
* **LncLog.** Each SD function holds its lock from mount to unmount and is one step on the
  files; between two of them there may be midnight, the other task, a time sync or a reset. A line
  is its day; lines of the same day are not told apart, and the time of day is left out, so a
  query's range is in days. `SyncTime` is `init_on_frame()` setting the clock forth or back,
  `Reset` a boot: the DS1307 has counted on through any gap, or cannot be read and leaves the date of
  `MX_RTC_Init` (`BootDays`). `revisited` are the days to whose weekday the clock has come again
  since they were saved; it, `saved`, `stayed`, `shifted`, `seen` and `failed` are history.
* **LncTasks.** `pc[t]` is the place of a task, `owner` who holds each lock, `Wants` the lock that
  a place waits for. `Sample` to `PublishData` are one round of `monitor_task` with its calls of
  `event.c` and `log.c`; `GetLatest` to `SendKeepAlive` one of `keepalive_task`; the steps of
  `comm_rx_task` are a command that holds `g_config.lock` while it writes its line on the card and a
  query that holds `s_sd_lock` while it sleeps between lines. `told` is the history of the
  modes given to `comm_send()`; of a measurement that is published only `lastData` is kept, how many had been
  told by then. Priorities are not used: any task may
  run, which includes all that the scheduler allows. `objdet_task` is left out; of the three locks it only takes
  the card's, to write one line.
* **CommRx.** The line carries bytes of commands, each marked with the command and the position it
  came from; the code sees the byte alone. The interrupt is three steps, between which bytes arrive:
  `ReadFlags` reads the flags once and clears the errors among them; `ReadByte` takes the byte and calls
  `RxCplt`, `HAL_UART_RxCpltCallback`, which puts the byte into `rxq` or drops it and arms the next
  reception; `ErrorCallback`, `HAL_UART_ErrorCallback`, runs only if a flag told an error. `Overrun` is a byte that
  arrives before the last one has been read. If the HAL finds its flag together with a byte, reception goes
  on, as `RxCplt` arms it and makes the HAL forget the error; if it finds the flag alone, because the byte before has
  been read in between, it ends the reception, and only `ErrorCallback` arms it again. No task runs while
  `irq` is not `"none"`. `Feed` is
  `tlv_receiver_feed_byte()` on the next byte, with the routing of a finished frame; until
  `HandlerReturns` no byte is taken. `since` are the bytes since the receiver last saw the first
  sync byte, `whole` and `result` what came of them: history. In `TlvReceiver` the receiver is a record whose `covered`
  stands for `crc_calc`: the bytes the CRC has been run over.
* **CcManagement, CcConnection.** `Begin`, `ReturnTrue` and `TimeOut` are the regions under the
  mutex. `StoreField` stores the reply's fields one at a time, outside the mutex as the code
  does. A reply carries the number of the call it answers, which the code cannot see. `life` is
  where the menu's thread is between building, using and destroying the three objects, `alive` which
  exist, `rxpc` where `rx_thread_` is in `rx_loop()`, `handlers` which `std::function`s have been set.
  `BuildTransport` to `BuildMgmt` are `Connection`'s constructor, `DestroyNext` its reverse, where
  `Communication`'s destructor joins the thread; `ReadThrows`, `CloseFd`, `Reconnect` are the
  loop's catch. `HandlerThrows` ends the loop as in the code. `SendKills` is SIGPIPE, `SendThrows` an
  exception nobody catches. A handler that is replaced while it is called is the old or the
  new one. `before`, `answered`, `late` are history.
* **GsLink.** A connection is a FIFO of whole frames as long as the two socket buffers; `peer`
  is what the kernel knows of the client: there, closed (the next `send()` succeeds and draws a
  RST), broken (SIGPIPE), reset (ECONNRESET). `Read` (a piece without the end), `ReadEnd`,
  `ReadNothing`, `ReadFails`, `GiveUp` are one turn of the poll loop. `Accept`, `ReadRequest` and the
  sends are `accept_loop()` and `handle_client()`. `SessionBreaks` is a session that ends before GS_END for any
  other reason (a malformed request, an error of `recv()`, `send()` or the database), in the middle of an answer too; of the frames
  under way the client gets the first ones only. `Dies` is the end of the process at any time (the operator, or an
  exception of another thread), `Killed` its end by SIGPIPE, `Restart` its next start.
* **Fleet.** One step per menu action; `EndMission` is the base class's part and the override's.

Definitions whose comment begins with "mutant" are not part of any specification. Each is a
plausible mistake in the code (a dropped guard, an off-by-one, a swapped order); with it in the
place of the definition it belongs to, TLC finds the property named in `PROJECT.json` violated.

## Running

    tlc -workers 2 -config comm_tx.cfg MCCommTx
    tlc -workers 2 -config comm_rx.cfg MCCommRx
    tlc -workers 2 -config cc_mgmt.cfg CcConnection
    tlc -workers 2 -config lnc_log.cfg LncLog
    tlapm CommTxProofs.tla
    tlapm CommRxProofs.tla

and `tlapm` in the same way for each of the other six `*Proofs` modules.

A configuration is run on the module named like it, but for `comm_tx*` (`MCCommTx`), `comm_rx`
(`MCCommRx`), `cc_mgmt` (`CcConnection`), `objdet` (`ObjectDetection`) and `gs_link*` (`GsLink`);
`PROJECT.json` has the pairs. Each ends within two minutes with two workers; the longest
are `lnc_log` (5.5 million states), `comm_rx` (2.1 million) and `cc_mgmt`.

## The runs

| run | checks | shows |
|---|---|---|
| `comm_tx` | `TypeOK`, `TokenAccounting`, `TxWakesToAnItem`, `MailboxNeverOverwritten`, `SemaphoreNeverSaturates`, `ImplementsLink`, `QueuesDrain` | At the firmware's priorities every queued frame has exactly one wake-up; the branch that overwrites a keep-alive is never taken; the previous frame is never sent twice; `CommTx` implements `CommLink`; whatever is queued leaves |
| `comm_tx_flat` | `NoLostWakeup` | With all tasks at one priority, where keep-alives do overwrite each other, there may be a wake-up too many but never one too few |
| `comm_rx` | `OnlyWholePass`, `AgreesWithBlockDecoder`, `IntactIsDelivered`, `NeverDeaf`, `ImplementsFrameStream` | Fed byte by byte from a line that damages and loses bytes, the streaming decoder says of the bytes since the first sync byte what `tlv_decode()` says; a command whose bytes all reach an idle decoder goes to its handler; nothing passes the CRC but a whole command; an overrun ends the reception and the error callback starts it again, so that no interrupt leaves it unarmed; what is handled is what was sent, in order |
| `lnc_tasks` | `LocksAreOrdered`, `AliveIsAnnounced`, `EventuallyTruthful` | In every order of three tasks around three locks nobody waits in a circle; a keep-alive tells a mode and a measurement of one round, never a mode before its MODE_CHANGE; once the sensors rest it tells what the limits give |
| `objdet` | `NeverStuckPresent`, `BurstIsDense`, `DetectionIsReported`, `AbsenceIsReported` | No order of edges, expiries and task steps leaves an object standing or reports one without a burst |
| `alarm` | `ButtonCanSilence`, `BuzzerHasCause`, `ErrorIsHeard` | Two unlocked tasks and two interrupts, statement by statement: the button can silence whatever is on, nothing is on without a cause, and an entry into ERROR starts the siren whatever flags are left over |
| `config` | `NoTornRead`, `FlashAgrees`, `MonitorGetsLimits`, `ImplementsAtomicLimits` | The monitor's copy is whole and always comes; at rest Flash is what RAM is, unless the last save failed, through resets and failures at any step; to monitor and boot a command is one step, and no boot loads a mixture of two settings |
| `lnc_log` | `OnlyRevisitedDaysAreLost`, `OneDayPerSlot`, `QueryIsComplete` | In eight days with a reset, a gap, a time sync and a failing operation, a line is lost only once the clock has come again to its weekday; days do not mix unless a delete failed or the clock was moved by whole weeks; a query finds every line that stays |
| `cc_mgmt` | `ConnTypeOK`, `ResultIsEarned`, `PunctualResult`, `NoDeadObject`, `TearDownEnds`, `Recovers` | `get_config()` returns true only for a reply handled during the call; `thresholds()` tells this call's reply as long as no answer has outlived its call; no thread is in an object that is gone, whichever of building, switching and quitting meets reading, reconnecting and handling; tear-downs end; a broken link works again |
| `fleet` | `LinksAreMutual`, `MissionWhileAssigned` | Every sequence of menu actions on three submarines |
| `gs_link` | `AnswerIsWhole`, `SessionsEnd` | Two clients that give up and come back, sessions that break after any frame, a process that ends at any time and is started again: an answer that was cut short is never shown as complete, and every session ends |
| `gs_link_gone` (violation) | `ClientGoneIsHarmless` | Finding: a client that closes its connection before its answer is sent ends the Central Computer with SIGPIPE |

### Bounds, and why they are enough

* **comm_tx**: queues 1/2/2 deep instead of 1/4/4, a semaphore of 5 = 1+2+2 instead of 10; two
  calls by the keep-alive, one each by monitor and objdet, two by comm_rx, with up to two
  records. Together with the boot's TIME_SYNC_REQUEST four frames can meet in the medium
  queue of two, so full queues and dropped frames occur; each race in `comm_send()`
  is between one sender, the transmitter and one other. The theorems hold for all depths and calls.
* **comm_tx_flat**: depth 1/1, three keep-alives, so that one overwrites another that is being
  put while the transmitter takes it.
* **comm_rx**: the real sync bytes and CRC; two commands sent over and over, one whose payload reads
  like the sync bytes and one without payload; a queue of 2 instead of 128, so that it overflows
  while a handler runs; one damaged and one lost byte, which may fall on any byte of any command,
  before and after each other: a decoder that has lost its place meets whole frames, and a
  length byte turned into 165 makes it swallow dozens of them. A damaged byte is another than the
  command's. The theorems have no bound.
* **lnc_tasks**: two levels per sensor, so each limit can be met or not; one change of the
  sensors, one command that changes a limit, a query of two files, one failing DHT11.
  The rounds themselves are not bounded; `told` is finite because the mode can only change with a
  reading or a limit.
* **objdet**: Threshold 3, Window 2, Timeout 4, eight edges: two whole bursts
  and two edges that belong to none; the period is longer than the window, as in the code.
* **alarm**: nothing is bounded, the state space is finite.
* **config**: three commands of the eight, one per double word of the page (two fields with
  the first, two with the second, one with the third), two payloads, two frames, two resets.
* **lnc_log**: days 0..7, so that the weekday of the first returns; a gap of up to 7 days; one
  reset, one failing operation, one sync to the first day, the last, or one between; one query
  from day 4 to day 5. Only the card survives a reset, and one
  reset with any gap already leaves it with any mixture of kept, lost and old days.
* **cc_mgmt**: two fields instead of ten (a first and a last), three calls, so that a late
  reply to one can meet each of the following; one switch of the transport, one break of the link, one
  frame that is not a CONFIG_REPLY.
* **fleet**: three serials (a link, and a third that must not be touched), one mission, two past
  missions, one message per inbox.
* **gs_link**: two clients, two queries each, three records, three polls, two frames of socket
  buffer: the buffer fills, the client gives up in mid-answer, and its second connection waits behind
  the session of its first. Breaks, deaths and restarts are not bounded.

Deadlock is checked in `comm_rx`, `lnc_tasks`, `objdet`, `alarm`, `config` and `fleet`. The other
models stop when the bounded number of calls, days or
queries is used up, so their configurations say `CHECK_DEADLOCK FALSE`.

### Fairness

* `CommTx!FairSpec`: weak fairness of the transmitter and of the rest of a call of `comm_send()`
  once begun. FreeRTOS runs a task that is ready and has the highest priority, and shares time
  between equals; `comm_send()` never blocks (all its timeouts are 0). Nobody has to call it.
* `ObjectDetection!FairSpec`: time passes, and the task gets the CPU and the SD card in the end (a
  query ends after seven files). No edge has to come.
* `Config!FairSpec`: each of the two tasks goes on when it can. The mutex has priority inheritance
  and both critical sections end. No frame has to come and nobody has to reset the board.
* `LncTasks!Fairness`: strong fairness of each task's steps. A lock that is free again and again is
  got in the end: whoever takes one sleeps before taking it again (`osDelayUntil`, the wait
  on `rxq_bytes`), and FreeRTOS gives a mutex to the waiting task of the highest priority. No frame
  has to come and no sensor has to change.
* `CcConnection!Fairness`: both threads run; the reads of a broken link do not say "nothing yet" for
  ever, and a far end that can be connected to again and again is connected to. A serial
  port that is unplugged and answers `read()` with 0 is outside this assumption, as the code takes
  0 for "no byte yet" and never reconnects; so is a blocking write that never returns.
* `GsLink!FairSpec`: `accept_thread_` runs, and so does a client inside `query()`, whose reads
  return within 100 ms. Nobody has to ask, and no session has to break, no process to end or to be started again: these are
  outside the fairness. Every client here sends its request as it connects, and reads on or closes; one that
  sends nothing (`gs_link_server.cpp:182-197`), or stops reading with its connection open, holds the only thread
  for ever and is not covered by `SessionsEnd`.

## Proofs

The theorems hold for every value of the constants under the assumptions named in the
modules: depths, periods and counts are positive or natural numbers, the semaphore is at least as large as
the three queues together, the two sync bytes differ, the commands of the script are frames.

**CommTx.** `TypeCorrect` needs one strengthening, `LocalsDefined`: only the keep-alive's
mailbox is ever replaced, and the frame that `init_create()` queues gives the transmitter's local
`item` its first value, without which the last of the three gets would leave it undefined. The other theorems rest on the
inductive invariant `IInv` = `TypeOK`, `MailboxNeverOverwritten`, `TokenAccounting`,
`MailboxIsAwaited`, `TxLooksFurtherDown`, under `KeepAliveBelowTx`: the transmitter's
priority is higher than the keep-alive task's, as the firmware sets it. The argument:

* With that priority, a keep-alive that has been rung for is taken before `keepalive_task`
  runs again, because a token makes the transmitter runnable (`MailboxIsAwaited`). So the mailbox
  is free whenever the task calls, and the overwrite, which would ring twice for one item, is never reached.
* Then each put is followed by exactly one release and each acquire by exactly one take, if the
  take finds something: `TokenAccounting`. It is not inductive alone, since a transmitter
  that has passed one queue must still find an item below; that is `TxLooksFurtherDown`, and it holds
  because no keep-alive can come in between, and a frame of another class brings its own wake-up.
* As there are no more tokens than frames and the semaphore is as large as the queues
  together, no release is lost (`SemaphoreLargeEnough`).

`Refinement` shows `Spec => ImplementsLink`: a put that is accepted is `CommLink`'s accept, a take is its
transmission, the rest stutters. Its own invariant `Sorted` says that frames wait in the queue of their class.

`EveryFrameWakes` (`NoLostWakeup`) needs no assumption on the priorities, so there may be more
wake-ups than frames; the argument above fails. What is inductive instead is `PassedHaveBells`: for a transmitter that is
between two of its three gets, the frames in the queues it has passed already are no more than the
tokens and the senders that have put one and will ring, since a frame that comes in behind its back
brings its own ring. So the wake-up it has spent is never owed to a frame it will not look at.

**CommRx.** For every CRC (a constant function from byte sequences to pairs of bytes), script, depth and number of faults.
`RoundTrip`: `tlv_decode()` of an encoded frame is that frame. `SameAsBlockDecoder`: `InStep` says,
state by state, which bytes since the first sync byte brought the receiver where it is, and each
byte keeps it and makes the receiver's answer that of `tlv_decode()` on all of them. `Delivery` adds
`WholeIsSince` (the intact bytes of one command fed so far are those bytes) and `RoundTrip`;
`ItemsAreGenuine` says that a byte on its way that is marked intact is the command's. `AlwaysArmed`: the reception is
unarmed only before the task has started and between an overrun's flag read alone and the error callback.

`Refinement`: `Spec /\ []OnlyWholePass => ImplementsFrameStream`. For some CRC a damaged frame passes, so the refinement
cannot hold for every CRC; `OnlyWholePass`, which the run checks for the real one, is exactly what it needs of it,
whatever the script. Under the mapping, what waits are the commands whose last byte is on its way to the
decoder and the one that is leaving (`Pending`). The end of a command on the line is a send; a last byte that is dropped or overrun, or a command whose other bytes
were, is a loss; the byte that completes a frame is its handling, and as `OnlyWholePass` gives that the frame is the
command that byte belongs to (`AcceptedIsLast`), it is the first of those that wait. What `Queued`
gives of a queue that grows at its end and shrinks at its beginning is proved by induction on its length (`Induction`,
`QueuedAppend`, `QueuedFirst`, `WithoutMiddle`).

**ObjectDetection.** `NeverStuck` rests on two facts: `TimerAgrees`, TIM5's counter is the time since the last refresh
while that is less than the period; and `Awaited`, once it is not, the TIMEOUT it raised
is pending or in the task's hands while an object is, or is about to be, present. `BurstDense` rests
on `WindowAgrees`: the last `burstCount` edges are no older than the first of the window, though
the filter remembers neither their times nor that a window of theirs began elsewhere.

**Alarm.** A task's place is a text and the statement it is at (`At`); the texts are `event.c`'s handlers with those of
`buzzer.c` they have gone into (`Text`). `AlarmInv` says which task answers for a pattern that is armed or
a channel that is on (`Answers`): one that will still set its flag, or whose flag is set and which, if it is on the way to clear
it, has not come to the statement that silences this. When no handler is under way that is the flag the
button tests (`Silences`); with the cause of each flag, ERROR or an object, it is `Caused`. `Heeded` follows
monitor_task alone: `Siren` says at each place of its texts how far the siren is on its way, unless it was hushed, and where
`alarm_active` may be set. That flag survives an object which stops the siren, so an entry into ERROR starts the siren
only because the exit before it has cleared the flag; a press may have cleared it in between, and both ways end with
the flag clear where `alarm_start()` tests it. The model has no
constants and the run covers all its states; the proof shows why they are right.

**Config.** `NeverTorn` and `Durable` from `LockHeld` (who is between `osMutexAcquire` and `Release`, and
that nobody contends before the scheduler starts), `Persistent` (which double words of a save under way
already hold RAM's values) and `FrameOK`. `Refinement` maps a command to the moment it takes the lock: from then on until
the lock is free nobody else reads, so its remaining stores (`todo`) count as done (`Commanded`; `Pending` says that only a
storing command has any). A reading happens where the monitor takes the lock, and `LockHeld` keeps the limits still
until it has copied all ten (`NoTornRead`). The Flash operations of a save are steps of the abstract save; `Clean` says
that the double words not programmed yet are erased, which is why what is stored is never of two settings.

**LncLog.** Three invariants over one shape. `KeepInv` for `OnlyRevisitedLost`: the file about to be deleted
holds only days to whose weekday the clock has come again, and the file of `last_written_day` is that of
the line in hand or of an earlier one. `QueryInv` for `QueryComplete`: a line that stays is in
the answer or in a file still to come, because a line never changes its file. `DayInv` for `OneDay`:
while no delete has failed and the clock has not moved by whole weeks, a line is added to a file of
its own day or to one just deleted.

**LncTasks.** `LockInv`: a lock belongs to the task that is at a place where it is held. `LocksOrdered` follows, and from it
`NobodyWaitsForAWaiter`: who has the lock that another wants does not wait for one itself.
`KeepAliveAnnounced` follows the pair of mode and measurement: the last MODE_CHANGE is the published mode
or the one about to be (`LastTold`), the published pair is of one round wherever `latest_lock` is free
(`Published`), and so are the keep-alive's copies (`Copied`, `Sent`).

**CcConnection.** `LifeInv` for `NobodyInDeadObject`: which objects exist at each stage (`Stages`), that the thread
is joined before `Communication` is gone and a registered `ManagementCommand` outlives the thread (`Joined`), and
that a frame is in a handler only in between (`Feeding`, `Calling`). `Earned`: a
result of true needs `answered`. `Punctual`: unless an answer has outlived its call, one request or
reply is under way at the most, it is this call's, and nobody else stores a threshold (`Single`, `Values`).

**GsLink.** `Whole`: all connections are different and the server writes only to a client's last (`Sessions`); what
a client has read, followed by what is on its way, is the beginning of a whole answer, as far as
`handle_client()` has come (`Answers`). A break cuts that off at its end, so what is left is a beginning still, and
an end that has been read had everything before it.

**Fleet.** `Links` from `FleetInv`: links are mutual and each stands once in a list. Unlinking
filters two lists; what `Without` leaves of a list without duplicates is proved by induction on its length.
`MissionsFollow` adds that a research submarine never has a mission (`MissionByType`).

**Only model-checked**: liveness (`QueuesDrain`, `DetectionIsReported`, `AbsenceIsReported`,
`MonitorGetsLimits`, `EventuallyTruthful`, `TearDownEnds`, `Recovers`, `SessionsEnd`), which is out of the proof system's reach as
`ENABLED` is; and `OnlyWholePass`, which is of the numbers the CRC gives. Every other property of the passing runs is
the conclusion of a theorem. The library's theorems of induction take an operator, which the provers cannot
instantiate; the inductions here go over a set of numbers instead, from `WFMin` of `WellFoundedInduction`.
One module declares a RECURSIVE operator, `MCCommRx` (the CRC), which no theorem uses.

## Statements of the sources that the code does not keep

One has a run that shows the violation (the finding in `PROJECT.json`):
`gs_link_server.cpp:58-61`, a client that is gone is "just logged": `send()` has no `MSG_NOSIGNAL`
and SIGPIPE is not ignored (`gs_link_gone`).

Eight more are stated as definitions at the end of their modules. They are in no run; adding the
definition as INVARIANT (or PROPERTY, marked P) to the configuration named gives the counterexample:

| definition | configuration | statement | what the code does |
|---|---|---|---|
| `ThresholdsWereSet` | `config` | `config.h:7-9`: "persists them in Flash, loads them at boot (defaults on an empty/first-boot Flash)" | the magic is programmed first and is all that a boot looks at, so a reset in a save makes erased bytes thresholds |
| `KeepsSevenDays` | `lnc_log` | `log.h:7-9`: "keep 7 days" | `last_written_day` starts at 0, so the first line after a boot deletes the present day's file; a sync back to a day does the same. `OnlyRevisitedDaysAreLost` says what remains true |
| `EveryQueryEnds` (P) | `comm_tx` with `MaxSends <- Sends` | `communication.c:373-375`: zero or more QUERY_RECORD "followed by one TLV_TAG_QUERY_END" | `log.c:195` and `event.c:399` ignore that `comm_send()` dropped the QUERY_END of a full queue |
| `OnePattern` | `alarm` | `buzzer.h:36-37`: "Only one pattern can sound at a time" | a time slice between the two statements of `Buzzer_StartAlarm()` or `Buzzer_StartSonar()` leaves both armed |
| `ClearedOnlyWhenQuiet` (P) | `objdet` | `objectdetection.h:5-7`: every edge refreshes the countdown; "if nothing refreshes it in time, the object is considered gone" | a TIMEOUT that was pending when a burst refreshed TIM5 still clears the object |
| `ResultTellsThresholds` | `cc_mgmt` | `management_command.h:150-153`: "true means thresholds() reflects this call's reply" | the late reply of a call that timed out satisfies the next call; `PunctualResult` is what remains true |
| `LinkedHaveMissions` | `fleet` | `combat_submarine.h:5-6`: "tracks the other combat submarines sharing its current mission" | linking does not ask for missions |
| `NoReplyMeansSilence` | `gs_link` | `central_computer.cpp:90`: "no reply -- central computer unreachable or unresponsive" | the cap counts reads that returned data, so an answer still arriving ends with that line |

Two more facts that the models show and no sentence of the sources contradicts: an
exception of a frame handler leaves `rx_loop()` and ends the Central Computer (`HandlerThrows`); an object that
goes during ERROR stops the siren while `alarm_active` stays true (`event.c:231`), so that nothing starts it again before
the next entry into ERROR, which does (`ErrorIsHeard`).

## What is not modelled

* **Watchdog**: a task of the highest priority that refreshes and sleeps. Its only effect on the
  others is the reset, which `Config` and `LncLog` take at any step.
* **Gateway**: two threads copy bytes between a socket and a port and share one flag. To both ends it is a line
  that breaks and loses bytes, which `CommRx` and `CcConnection` have.
* **Central Computer's database and log**: one mutex each, SQL and text; the retention is one
  DELETE, the rollover one file name. **Menu**: only as the caller of the connection.
* **Time**: the DS1307 and its I2C transfers, and the date and time registers read as a torn pair around
  midnight. Days are whole.
* **SD card below the file operations**: the partial line that a loss of power may leave.
* **Receiving**: the decoder has no timeout between bytes, so neither has the model: half a frame waits for the next
  bytes for ever. `HAL_UART_Receive_IT` fails only while a reception is armed, and then it does not matter.
* **Ground Station link**: a client that connects and sends no request, or stops reading without closing (see Fairness).
* **Monitor**: the temperature's upper bounds (the lower ones classify in the same way). A MODE_CHANGE is
  announced when it is given to `comm_send()`; that a full queue may drop it is in `CommTx`.
* DHT11's bit protocol, the LED's breathing and the microsecond filter of edges are time against
  hardware, where interleavings are not the question.
* **Below the programs**: HAL, CMSIS, FreeRTOS, FatFs, SQLite and sockets are used as what they promise. They are
  vendored or generated and most of the lines of `src/`.
* Wording, layout, logging and formatting everywhere.
* The type invariants are theorems for every module but the three abstract ones (`TypeCorrect`, `AlarmTypeCorrect`,
  `FleetTypeCorrect`); only those of `CommTx` and `CcConnection` are in a run as well. Adding the definition to the
  INVARIANTs of a configuration checks the others.

## Plan

| # | module | state | what is left |
|---|---|---|---|
| 1 | `CommTx`, `CommLink` | modelled, checked, proved | |
| 2 | `ObjectDetection` | modelled, checked, proved | |
| 3 | `Alarm` | modelled, checked, proved | |
| 4 | `Config` | modelled, checked, proved | |
| 5 | `LncLog` with time syncs | modelled, checked, proved | |
| 6 | `CcManagement`, `CcConnection` | modelled, checked, proved | |
| 7 | `Fleet` | modelled, checked, proved | |
| 8 | `GsLink` | modelled, checked, proved | |
| 9 | `TlvReceiver`, `CommRx`, `FrameStream` | modelled, checked, proved | |
| 10 | `LncTasks` | modelled, checked, proved | |
| 11 | `Gateway`, `CcDataCollection`, `CcLog`, the DS1307 | | a torn pair of date and time; a pump that ends while the other blocks |
