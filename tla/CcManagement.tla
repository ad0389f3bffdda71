----------------------------- MODULE CcManagement -----------------------------
(***************************************************************************)
(* CentralComputer/src/managementCommand: get_config() on the menu's       *)
(* thread against on_frame() on Communication's rx_thread_, with the LNC   *)
(* and the two directions of the link between them.  The wait has a        *)
(* timeout and a CONFIG_REPLY does not say which GET_CONFIG it answers.    *)
(*                                                                         *)
(* Links keep their order (UART, TCP); a request or a reply can be lost (a *)
(* damaged frame, a full queue in the LNC).  A reply is represented by the *)
(* number of the call it answers, and so is what it stores in thresholds_. *)
(* CcConnection composes these actions with the life of the connection:    *)
(* Communication, the transport and the menu.                              *)
(***************************************************************************)
EXTENDS Naturals, Sequences

CONSTANTS
  NFields,   \* fields of thresholds_ (10 in the code)
  MaxCalls   \* bound: calls of get_config()

ASSUME CcManagementAssumption ==
  /\ NFields \in Nat \ {0}
  /\ MaxCalls \in Nat

Fields == 1..NFields
Calls  == 1..MaxCalls
None   == 0   \* an empty optional

\* Frames from the LNC: a CONFIG_REPLY is the number of the call it answers.
SyncRequest == MaxCalls + 1   \* TIME_SYNC_REQUEST
Report      == MaxCalls + 2   \* what goes to the log handler: KEEP_ALIVE ... QUERY_END
Frames      == Calls \cup {SyncRequest, Report}

VARIABLES
  pc,          \* where the menu's thread is in get_config()
  call,        \* the number of the present or last call
  pending,     \* config_reply_pending_
  result,      \* what get_config() returned
  thresholds,  \* thresholds_
  toLnc,       \* GET_CONFIG frames on their way
  fromLnc,     \* frames on their way back
  rx,          \* the frame rx_thread_ is in a handler with, or None
  stored,      \* fields of it that it has stored; NFields + 1: the reply is logged
  before,      \* history: thresholds_ when the call began
  late,        \* history: has a call timed out with its answer under way?
  answered     \* history: the reply that last cleared config_reply_pending_
               \* during this call, or None

caller == <<pc, call, result, before>>
link   == <<toLnc, fromLnc>>
handler == <<rx, stored>>
vars   == <<caller, pending, thresholds, link, handler, late, answered>>

-----------------------------------------------------------------------------
(* get_config(): the mutex is held by each of Begin, ReturnTrue, TimeOut *)

ForgetsToArm ==   \* mutant: config_reply_pending_ is not set again
  /\ pc = "idle"
  /\ call < MaxCalls
  /\ call' = call + 1
  /\ before' = thresholds
  /\ answered' = None
  /\ pc' = "send"
  /\ UNCHANGED <<late, pending, result, thresholds, link, handler>>

Begin ==
  /\ pc = "idle"
  /\ call < MaxCalls
  /\ call' = call + 1
  /\ pending' = TRUE
  /\ before' = thresholds
  /\ answered' = None
  /\ pc' = "send"
  /\ UNCHANGED <<late, result, thresholds, link, handler>>

\* Communication::send()
Send ==
  /\ pc = "send"
  /\ toLnc' = Append(toLnc, call)
  /\ pc' = "wait"
  /\ UNCHANGED <<late, call, pending, result, thresholds, fromLnc, handler, before, answered>>

ReturnTrue ==
  /\ pc = "wait"
  /\ ~pending
  /\ result' = TRUE
  /\ pc' = "draw"
  /\ UNCHANGED <<late, call, pending, thresholds, link, handler, before, answered>>

\* Nothing of this call is under way any more: it was lost.
Hopeless ==
  /\ \A i \in DOMAIN toLnc   : toLnc[i] # call
  /\ \A i \in DOMAIN fromLnc : fromLnc[i] # call
  /\ rx # call

TimeOut ==
  /\ pc = "wait"
  /\ pending
  /\ late' = (late \/ ~Hopeless)
  /\ result' = FALSE
  /\ pc' = "draw"
  /\ UNCHANGED <<call, pending, thresholds, link, handler, before, answered>>

\* The menu has shown thresholds() and the result.
Drawn ==
  /\ pc = "draw"
  /\ pc' = "idle"
  /\ UNCHANGED <<late, call, pending, result, thresholds, link, handler, before, answered>>

-----------------------------------------------------------------------------
(* on_frame(), case TLV_TAG_CONFIG_REPLY, on rx_thread_ *)

Receive ==
  /\ rx = None
  /\ fromLnc # << >>
  /\ rx' = Head(fromLnc)
  /\ stored' = 0
  /\ fromLnc' = Tail(fromLnc)
  /\ UNCHANGED <<late, caller, pending, thresholds, toLnc, answered>>

NotifiesFirst ==   \* mutant: the wait ends before the last field is stored
  /\ rx \in Calls
  /\ stored < NFields
  /\ stored' = stored + 1
  /\ thresholds' = [thresholds EXCEPT ![stored + 1] = rx]
  /\ pending' = IF stored + 1 = NFields - 1 THEN FALSE ELSE pending
  /\ UNCHANGED <<late, caller, link, rx, answered>>

StoresPastTheEnd ==   \* mutant: one field too many
  /\ rx \in Calls
  /\ stored <= NFields
  /\ stored' = stored + 1
  /\ thresholds' = [f \in Fields \cup {stored + 1} |->
                      IF f = stored + 1 THEN rx ELSE thresholds[f]]
  /\ UNCHANGED <<late, caller, pending, link, rx, answered>>

StoreField ==
  /\ rx \in Calls
  /\ stored < NFields
  /\ stored' = stored + 1
  /\ thresholds' = [thresholds EXCEPT ![stored + 1] = rx]
  /\ UNCHANGED <<late, caller, pending, link, rx, answered>>

LogReply ==
  /\ rx \in Calls
  /\ stored = NFields
  /\ stored' = NFields + 1
  /\ UNCHANGED <<late, caller, pending, thresholds, link, rx, answered>>

Notify ==
  /\ rx \in Calls
  /\ stored = NFields + 1
  /\ pending' = FALSE
  /\ answered' = rx
  /\ rx' = None
  /\ stored' = 0
  /\ UNCHANGED <<late, caller, thresholds, link>>

-----------------------------------------------------------------------------
(* The LNC answers in order (config.c:251-266); frames get lost. *)

Answer ==
  /\ toLnc # << >>
  /\ toLnc' = Tail(toLnc)
  /\ fromLnc' = Append(fromLnc, Head(toLnc))
  /\ UNCHANGED <<late, caller, pending, thresholds, handler, answered>>

Lose ==
  /\ \/ /\ toLnc # << >>
        /\ toLnc' = Tail(toLnc)
        /\ UNCHANGED fromLnc
     \/ /\ fromLnc # << >>
        /\ fromLnc' = Tail(fromLnc)
        /\ UNCHANGED toLnc
  /\ UNCHANGED <<late, caller, pending, thresholds, handler, answered>>

-----------------------------------------------------------------------------
Init ==
  /\ pc = "idle"
  /\ call = 0
  /\ pending = FALSE
  /\ result = FALSE
  /\ thresholds = [f \in Fields |-> None]
  /\ toLnc = << >>
  /\ fromLnc = << >>
  /\ rx = None
  /\ stored = 0
  /\ before = thresholds
  /\ late = FALSE
  /\ answered = None

-----------------------------------------------------------------------------
(* Properties *)

TypeOK ==
  /\ pc \in {"idle", "send", "wait", "draw"}
  /\ call \in 0..MaxCalls
  /\ pending \in BOOLEAN
  /\ result \in BOOLEAN
  /\ thresholds \in [Fields -> Calls \cup {None}]
  /\ toLnc \in Seq(Calls)
  /\ fromLnc \in Seq(Frames)
  /\ rx \in Frames \cup {None}
  /\ stored \in 0..NFields + 1
  /\ before \in [Fields -> Calls \cup {None}]
  /\ late \in BOOLEAN
  /\ answered \in Calls \cup {None}

\* get_config() is true exactly when a reply was handled to its end while it
\* waited: it neither returns on the outcome of an earlier call nor misses a
\* reply that comes before it waits or just as its time is over.
ResultIsEarned ==
  pc \in {"wait", "draw"} =>
    /\ (pc = "draw" /\ result) => answered # None
    /\ pc = "wait" => (pending <=> answered = None)

\* "Returns false on timeout (thresholds() left however it was); true means
\* thresholds() reflects this call's reply by the time it returns."
\* (management_command.h:150-153), for as long as the menu shows them.
ResultTellsThresholds ==
  pc = "draw" => thresholds = IF result THEN [f \in Fields |-> call] ELSE before

\* As long as every timeout so far was that of a lost frame, so that no answer
\* has outlived its call, get_config() keeps that promise.
PunctualResult == ~late => ResultTellsThresholds
=============================================================================
