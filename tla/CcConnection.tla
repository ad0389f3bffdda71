----------------------------- MODULE CcConnection -----------------------------
(***************************************************************************)
(* The Central Computer's connection to the LNC: the menu's thread builds  *)
(* a Transport, a Communication and a ManagementCommand (main.cpp), calls  *)
(* get_config(), switches the transport and quits, while rx_thread_ of     *)
(* Communication reads, reconnects and calls the handlers.  CcManagement   *)
(* has what a call and a CONFIG_REPLY do; here are the three objects they  *)
(* belong to, the thread, and a link that breaks.                          *)
(*                                                                         *)
(* What the link loses when it breaks, the bytes a decoder drops with half *)
(* a frame after a reconnect among them, are frames that Lose takes.  The  *)
(* LNC's frames may be read by the next connection: over UART they can be. *)
(***************************************************************************)
EXTENDS CcManagement

CONSTANTS
  MaxSwitches,  \* bound: times the operator switches the transport
  MaxBreaks,    \* bound: times the link breaks
  MaxOthers     \* bound: frames of the LNC that answer no GET_CONFIG

ASSUME CcConnectionAssumption ==
  {MaxSwitches, MaxBreaks, MaxOthers} \subseteq Nat

VARIABLES
  life,      \* where the menu's thread is: the object it builds next,
             \* "config" in connect_*(), "menu", or in the destruction
  onFail,    \* where an exception while connecting leads: "exit" or "menu"
  next,      \* where the destruction leads: "exit", "menu" or "transport"
  alive,     \* the objects of Connection that exist
  handlers,  \* the handlers that are set in Communication
  running,   \* running_
  rxpc,      \* where rx_thread_ is, "off" if there is none
  open,      \* has the transport a descriptor (fd_ >= 0)?
  up,        \* does the link behind it work?
  process,   \* "runs", "exited" or "killed"
  switches, breaks, others   \* counted for the bounds

menuVars == <<life, onFail, next, alive, handlers, running, switches>>
rxVars   == <<rxpc, open, up>>
envVars  == <<breaks, others>>
connVars == <<menuVars, rxVars, envVars, process>>
allVars  == <<vars, connVars>>

Objects == {"transport", "comm", "mgmt"}

WrongOrder == <<"mgmt", "comm", "transport">>   \* mutant: an earlier main.cpp

\* Connection's members in reverse, and switch_transport()'s resets
TearDownOrder == <<"comm", "mgmt", "transport">>

-----------------------------------------------------------------------------
(* connect_uart() and connect_tcp() *)

\* do_connect(), do_open(): the descriptor is there when it works.
BuildTransport ==
  /\ life = "transport"
  /\ alive' = {"transport"}
  /\ open' = TRUE
  /\ up' = TRUE
  /\ life' = "comm"
  /\ UNCHANGED <<vars, onFail, next, handlers, running, switches, rxpc, envVars, process>>

\* rx_thread_ starts before anybody has set a handler.
BuildComm ==
  /\ life = "comm"
  /\ alive' = alive \cup {"comm"}
  /\ handlers' = {}
  /\ running' = TRUE
  /\ rxpc' = "loop"
  /\ life' = "log"
  /\ UNCHANGED <<vars, onFail, next, switches, open, up, envVars, process>>

SetLogHandler ==
  /\ life = "log"
  /\ handlers' = handlers \cup {"log"}
  /\ life' = "mgmt"
  /\ UNCHANGED <<vars, onFail, next, alive, running, switches, rxVars, envVars, process>>

\* The constructor registers on_frame(); thresholds_ starts empty.
BuildMgmt ==
  /\ life = "mgmt"
  /\ alive' = alive \cup {"mgmt"}
  /\ handlers' = handlers \cup {"mgmt"}
  /\ thresholds' = [f \in Fields |-> None]
  /\ pending' = FALSE
  /\ life' = "config"
  /\ UNCHANGED <<caller, link, handler, late, answered, onFail, next, running, switches, rxVars,
                 envVars, process>>

\* The constructor of the transport throws, or parse_host_port() refuses the
\* operator's input: nothing is left to destroy.
ConnectFails ==
  /\ life = "transport"
  /\ life' = onFail
  /\ process' = IF onFail = "exit" THEN "exited" ELSE process
  /\ UNCHANGED <<vars, onFail, next, alive, handlers, running, switches, rxVars, envVars>>

-----------------------------------------------------------------------------
(* The destruction: run_menu() returns or throws, switch_transport(), or   *)
(* an exception of get_config() in connect_*().                            *)

TearDown(then) ==
  /\ life' = "destroy"
  /\ next' = then

ForgetsToStop(o) ==   \* mutant: running_ stays true
  /\ o = "comm" => rxpc = "off"
  /\ alive' = alive \ {o}
  /\ open' = (open /\ o # "transport")
  /\ UNCHANGED running

\* ~Communication() clears running_ and then joins; ~TcpTransport() closes.
Destroy(o) ==
  \/ /\ o = "comm" /\ running
     /\ running' = FALSE
     /\ UNCHANGED <<alive, open>>
  \/ /\ o = "comm" => ~running /\ rxpc = "off"
     /\ alive' = alive \ {o}
     /\ open' = (open /\ o # "transport")
     /\ UNCHANGED running

DestroyNext ==
  /\ life = "destroy"
  /\ alive # {}
  /\ LET i == CHOOSE k \in DOMAIN TearDownOrder :
                /\ TearDownOrder[k] \in alive
                /\ \A j \in 1..k - 1 : TearDownOrder[j] \notin alive
     IN  Destroy(TearDownOrder[i])
  /\ UNCHANGED <<vars, life, onFail, next, handlers, switches, rxpc, up, envVars, process>>

Destroyed ==
  /\ life = "destroy"
  /\ alive = {}
  /\ life' = next
  /\ process' = IF next = "exit" THEN "exited" ELSE process
  /\ UNCHANGED <<vars, onFail, next, alive, handlers, running, switches, rxVars, envVars>>

-----------------------------------------------------------------------------
(* run_menu() *)

\* Option 13, and the call of connect_*(); most options need conn.mgmt.
CallGetConfig ==
  /\ \/ life = "config"
     \/ life = "menu" /\ "mgmt" \in alive
  /\ Begin
  /\ UNCHANGED connVars

\* Communication::send(): a broken link may take the bytes all the same.
SendFrame ==
  /\ open
  /\ \/ Send
     \/ /\ ~up
        /\ pc = "send"
        /\ pc' = "wait"
        /\ UNCHANGED <<call, result, before, pending, thresholds, link, handler, late, answered>>
  /\ UNCHANGED connVars

\* Transport::write() throws: out of connect_*(), or out of run_menu() and
\* main()'s try block.
SendThrows ==
  /\ pc = "send"
  /\ ~open \/ ~up
  /\ pc' = "idle"
  /\ TearDown(IF life = "config" THEN onFail ELSE "exit")
  /\ UNCHANGED <<call, result, before, pending, thresholds, link, handler, late, answered,
                 onFail, alive, handlers, running, switches, rxVars, envVars, process>>

\* A TCP socket whose far end has gone raises SIGPIPE instead.
SendKills ==
  /\ pc = "send"
  /\ open /\ ~up
  /\ process' = "killed"
  /\ UNCHANGED <<vars, menuVars, rxVars, envVars>>

\* get_config() returns; connect_*() does not look at what.
GetConfigReturns ==
  /\ ReturnTrue \/ TimeOut
  /\ life' = "menu"
  /\ UNCHANGED <<onFail, next, alive, handlers, running, switches, rxVars, envVars, process>>

DrawMenu ==
  /\ Drawn
  /\ UNCHANGED connVars

SwitchTransport ==
  /\ life = "menu"
  /\ pc = "idle"
  /\ switches < MaxSwitches
  /\ switches' = switches + 1
  /\ onFail' = "menu"
  /\ TearDown("transport")
  /\ UNCHANGED <<vars, alive, handlers, running, rxVars, envVars, process>>

Quit ==
  /\ life = "menu"
  /\ pc = "idle"
  /\ TearDown("exit")
  /\ UNCHANGED <<vars, onFail, alive, handlers, running, switches, rxVars, envVars, process>>

-----------------------------------------------------------------------------
(* rx_loop() *)

RunsOn ==
  /\ rxpc = "loop"
  /\ running
  /\ rxpc' = "read"
  /\ UNCHANGED <<vars, menuVars, open, up, envVars, process>>

ThreadEnds ==
  /\ rxpc = "loop"
  /\ ~running
  /\ rxpc' = "off"
  /\ UNCHANGED <<vars, menuVars, open, up, envVars, process>>

\* A chunk, or nothing within 100 ms: what was received comes before the error.
ReadReturns ==
  /\ rxpc = "read"
  /\ open
  /\ rxpc' = "feed"
  /\ UNCHANGED <<vars, menuVars, open, up, envVars, process>>

ReadThrows ==
  /\ rxpc = "read"
  /\ ~open \/ ~up
  /\ rxpc' = "sleep"
  /\ UNCHANGED <<vars, menuVars, open, up, envVars, process>>

\* After a second: reconnect() closes the old descriptor first
CloseFd ==
  /\ rxpc = "sleep"
  /\ rxpc' = "connect"
  /\ open' = FALSE
  /\ UNCHANGED <<vars, menuVars, up, envVars, process>>

GivesUpReconnecting(works) ==   \* mutant: a failed reconnect() leaves rx_loop()
  /\ rxpc = "connect"
  /\ open' = works
  /\ up' = works
  /\ rxpc' = IF works THEN "loop" ELSE "off"
  /\ UNCHANGED <<vars, menuVars, envVars, process>>

Reconnect(works) ==
  /\ rxpc = "connect"
  /\ open' = works
  /\ up' = works
  /\ rxpc' = "loop"
  /\ UNCHANGED <<vars, menuVars, envVars, process>>

\* route_frame(): a handler that is not set is a no-op.
HandlerOf(f) == IF f = Report THEN "log" ELSE "mgmt"

RouteFrame ==
  /\ rxpc = "feed"
  /\ fromLnc # << >>
  /\ HandlerOf(Head(fromLnc)) \in handlers
  /\ Receive
  /\ UNCHANGED connVars

IgnoreFrame ==
  /\ rxpc = "feed"
  /\ rx = None
  /\ fromLnc # << >>
  /\ HandlerOf(Head(fromLnc)) \notin handlers
  /\ fromLnc' = Tail(fromLnc)
  /\ UNCHANGED <<caller, pending, thresholds, toLnc, handler, late, answered, connVars>>

HandleConfigReply ==
  /\ StoreField \/ LogReply \/ Notify
  /\ UNCHANGED connVars

\* on_frame() answers a TIME_SYNC_REQUEST, or the log handler has stored a
\* report.
HandlerReturns ==
  /\ rx \in {SyncRequest, Report}
  /\ rx = SyncRequest => open
  /\ rx' = None
  /\ UNCHANGED <<caller, pending, thresholds, link, stored, late, answered, connVars>>

\* The reply cannot be sent, or the database cannot store: nothing in
\* rx_loop() catches, std::terminate().
HandlerThrows ==
  /\ \/ rx = SyncRequest /\ (~open \/ ~up)
     \/ rx = Report
  /\ process' = "killed"
  /\ UNCHANGED <<vars, menuVars, rxVars, envVars>>

ChunkEnds ==
  /\ rxpc = "feed"
  /\ rx = None
  /\ rxpc' = "loop"
  /\ UNCHANGED <<vars, menuVars, open, up, envVars, process>>

-----------------------------------------------------------------------------
(* The LNC and the link *)

LncAnswers ==
  /\ Answer
  /\ UNCHANGED connVars

LncSends ==
  /\ others < MaxOthers
  /\ others' = others + 1
  /\ \E f \in {SyncRequest, Report} : fromLnc' = Append(fromLnc, f)
  /\ UNCHANGED <<caller, pending, thresholds, toLnc, handler, late, answered, menuVars, rxVars,
                 breaks, process>>

LinkLoses ==
  /\ Lose
  /\ UNCHANGED connVars

LinkBreaks ==
  /\ breaks < MaxBreaks
  /\ open /\ up
  /\ up' = FALSE
  /\ breaks' = breaks + 1
  /\ UNCHANGED <<vars, menuVars, rxpc, open, others, process>>

-----------------------------------------------------------------------------
ConnInit ==
  /\ Init
  /\ life = "transport"
  /\ onFail = "exit"
  /\ next = "exit"
  /\ alive = {}
  /\ handlers = {}
  /\ running = FALSE
  /\ rxpc = "off"
  /\ open = FALSE
  /\ up = FALSE
  /\ process = "runs"
  /\ switches = 0
  /\ breaks = 0
  /\ others = 0

Connecting == BuildTransport \/ BuildComm \/ SetLogHandler \/ BuildMgmt \/ ConnectFails
Destroying == DestroyNext \/ Destroyed
Menu       == CallGetConfig \/ SendFrame \/ SendThrows \/ SendKills \/ GetConfigReturns
                \/ DrawMenu \/ SwitchTransport \/ Quit
RxLoop     == RunsOn \/ ThreadEnds \/ ReadReturns \/ ReadThrows \/ CloseFd
                \/ (\E works \in BOOLEAN : Reconnect(works))
                \/ RouteFrame \/ IgnoreFrame \/ HandleConfigReply \/ HandlerReturns
                \/ HandlerThrows \/ ChunkEnds
World      == LncAnswers \/ LncSends \/ LinkLoses \/ LinkBreaks

\* Nothing happens any more once the process has ended.
InProcess(A) == process = "runs" /\ A
Next == InProcess(Connecting \/ Destroying \/ Menu \/ RxLoop \/ World)

\* Both threads get the processor.  The far end that is back accepts: a
\* connection that can be made again and again is made, and the read of a
\* broken link does not say "nothing yet" for ever.
Fairness ==
  /\ WF_allVars(InProcess(Destroying))
  /\ WF_allVars(InProcess(RxLoop))
  /\ SF_allVars(InProcess(ReadThrows))
  /\ SF_allVars(InProcess(Reconnect(TRUE)))

Spec == ConnInit /\ [][Next]_allVars /\ Fairness

-----------------------------------------------------------------------------
(* Properties *)

ConnTypeOK ==
  /\ TypeOK
  /\ life \in {"transport", "comm", "log", "mgmt", "config", "menu", "destroy", "exit"}
  /\ onFail \in {"exit", "menu"}
  /\ next \in {"exit", "menu", "transport"}
  /\ alive \subseteq Objects
  /\ handlers \subseteq {"log", "mgmt"}
  /\ running \in BOOLEAN
  /\ rxpc \in {"off", "loop", "read", "feed", "sleep", "connect"}
  /\ open \in BOOLEAN
  /\ up \in BOOLEAN
  /\ process \in {"runs", "exited", "killed"}
  /\ switches \in 0..MaxSwitches
  /\ breaks \in 0..MaxBreaks
  /\ others \in 0..MaxOthers

\* No thread is inside an object that does not exist: rx_thread_ runs only
\* while Communication and its transport do, handles a frame of the LNC's only
\* while ManagementCommand does, and the menu calls only what is connected
\* ("the only safe order", main.cpp:165-180).
NoDeadObject ==
  /\ rxpc # "off" => {"transport", "comm"} \subseteq alive
  /\ rx \in Calls \cup {SyncRequest} => "mgmt" \in alive
  /\ pc # "idle" => alive = Objects

\* Switching and quitting come to an end, whatever rx_thread_ is doing when
\* it is to be joined: reading, sleeping, reconnecting or in a handler.
TearDownEnds == (life = "destroy") ~> (life # "destroy" \/ process = "killed")

\* A connection whose link has broken works again, unless it is given up: no
\* failed read or reconnect leaves the Central Computer deaf
\* ("Reconnects if a read fails", communication.h:95-97).
Recovers == (rxpc # "off" /\ ~up) ~> (up \/ life = "destroy" \/ process # "runs")
=============================================================================
