------------------------------- MODULE CommTx -------------------------------
(***************************************************************************)
(* The transmit side of LNC/Core/Src/communication.c: every task of the    *)
(* firmware calls comm_send(), which queues a frame in one of three RTOS   *)
(* queues and rings the semaphore sem_tx_ready; comm_tx_task sleeps on the *)
(* semaphore and, on each wake-up, takes one frame from the highest        *)
(* non-empty queue and transmits it.                                       *)
(*                                                                         *)
(* Each RTOS call is one step: a task can be preempted between any two of  *)
(* them.  Who may take a step is decided as FreeRTOS decides it, by the    *)
(* fixed priorities of the osThreadAttr_t's (CanRun).  A task outside      *)
(* comm_send() is taken to be blocked (in osDelay, on a flag, on the byte  *)
(* queue); were it running, it would only keep lower priorities out.       *)
(***************************************************************************)
EXTENDS Integers, Sequences, FiniteSets

CONSTANTS
  Priority,   \* Priority[t]: RTOS priority of task t
  MedDepth,   \* osMessageQueueNew count of txq_med
  LowDepth,   \* osMessageQueueNew count of txq_low
  SemMax,     \* osSemaphoreNew max_count of sem_tx_ready
  MaxSends,   \* bound: calls of comm_send by task t
  MaxRecords  \* bound: stored lines that match one query

Senders == {"keepalive", "monitor", "objdet", "rx"}
Tasks   == Senders \cup {"tx"}
Classes == {"high", "med", "low"}

ASSUME CommTxAssumption ==
  /\ Priority \in [Tasks -> Nat]
  /\ MedDepth \in Nat \ {0}
  /\ LowDepth \in Nat \ {0}
  /\ SemMax \in Nat
  /\ SemMax >= 1 + MedDepth + LowDepth   \* "high + med + low"
  /\ MaxSends \in [Senders -> Nat]
  /\ MaxRecords \in Nat

Depth == [high |-> 1, med |-> MedDepth, low |-> LowDepth]

\* The tags the firmware really sends, by the module that sends them.
EventTags == {"MODE_CHANGE", "OBJECT_DETECTED", "OBJECT_CLEARED",
              "TIME_SYNC_REQUEST", "TIME_REPLY"}
ReplyTags == {"CONFIG_REPLY", "QUERY_RECORD", "QUERY_END"}
Tags      == {"KEEP_ALIVE"} \cup EventTags \cup ReplyTags

CallNumbers == UNION {0..MaxSends[t] : t \in Senders}
Items  == [tag : Tags, n : CallNumbers]   \* a tag has one sender; n: its n-th call
NoItem == [tag |-> "none", n |-> 0]
NoQuery == -1

VARIABLES
  q,       \* q[c]: contents of txq_high, txq_med, txq_low
  tokens,  \* count of sem_tx_ready
  pc,      \* pc[t]: where task t is inside comm_send()
  fresh,   \* the keep-alive being put again after the stale one was taken out
  txpc,    \* where comm_tx_task is
  txItem,  \* its local `item`, which keeps its value from one loop to the next
  sent,    \* history: what was transmitted, by class
  calls,   \* calls[t]: comm_send() calls made by t (bounded by MaxSends)
  job      \* records comm_rx_task still has to send for the query, or NoQuery

vars == <<q, tokens, pc, fresh, txpc, txItem, sent, calls, job>>

-----------------------------------------------------------------------------
(* comm_priority_for_tag() *)

ObjectIsUrgent(tag) ==   \* mutant: two kinds of sender share the mailbox
  IF tag \in {"KEEP_ALIVE", "OBJECT_DETECTED"} THEN "high"
  ELSE IF tag \in EventTags THEN "med" ELSE "low"

PriorityForTag(tag) ==
  IF tag = "KEEP_ALIVE" THEN "high"
  ELSE IF tag \in EventTags THEN "med" ELSE "low"

-----------------------------------------------------------------------------
(* The scheduler: preemptive, fixed priority, time slices between equals. *)

Runnable(t) ==
  IF t = "tx" THEN ~(txpc = "wait" /\ tokens = 0) ELSE pc[t] # "idle"

IgnoresPriority(t) == t \in Tasks   \* mutant: any task may run at any time

CanRun(t) == \A u \in Tasks : Runnable(u) => Priority[u] <= Priority[t]

-----------------------------------------------------------------------------
(* comm_send(): one step per RTOS call *)

RoomForOneMore(c) == Len(q[c]) <= Depth[c]   \* mutant: off by one
HasRoom(c) == Len(q[c]) < Depth[c]

\* The first osMessageQueuePut(): queued, dropped, or the mailbox is full.
Put(t, i) ==
  LET c == PriorityForTag(i.tag)
  IN  /\ q'  = IF HasRoom(c) THEN [q EXCEPT ![c] = Append(@, i)] ELSE q
      /\ pc' = [pc EXCEPT ![t] = IF HasRoom(c) THEN "release"
                                 ELSE IF c = "high" THEN "replace"
                                 ELSE "idle"]
      /\ fresh' = IF ~HasRoom(c) /\ c = "high" THEN i ELSE fresh

RingsWhenDropped(t, tag) ==   \* mutant: the doorbell rings for a dropped frame
  LET i == [tag |-> tag, n |-> calls[t]]
      c == PriorityForTag(tag)
  IN  /\ pc[t] = "idle"
      /\ CanRun(t)
      /\ calls[t] < MaxSends[t]
      /\ calls' = [calls EXCEPT ![t] = @ + 1]
      /\ q'  = IF HasRoom(c) THEN [q EXCEPT ![c] = Append(@, i)] ELSE q
      /\ pc' = [pc EXCEPT ![t] = "release"]
      /\ UNCHANGED <<fresh, tokens, txpc, txItem, sent>>

CommSend(t, tag) ==
  /\ pc[t] = "idle"
  /\ CanRun(t)
  /\ calls[t] < MaxSends[t]
  /\ calls' = [calls EXCEPT ![t] = @ + 1]
  /\ Put(t, [tag |-> tag, n |-> calls[t]])
  /\ UNCHANGED <<tokens, txpc, txItem, sent>>

\* osMessageQueueGet(txq_high, &stale): it may already have been taken.
TakeStale(t) ==
  /\ pc[t] = "replace"
  /\ CanRun(t)
  /\ q' = [q EXCEPT !["high"] = IF @ = << >> THEN @ ELSE Tail(@)]
  /\ pc' = [pc EXCEPT ![t] = "reput"]
  /\ UNCHANGED <<tokens, fresh, txpc, txItem, sent, calls, job>>

ForgetsToRing(t) ==   \* mutant: the replaced keep-alive returns early
  /\ pc[t] = "reput"
  /\ CanRun(t)
  /\ q' = IF HasRoom("high") THEN [q EXCEPT !["high"] = Append(@, fresh)] ELSE q
  /\ pc' = [pc EXCEPT ![t] = "idle"]
  /\ fresh' = NoItem
  /\ UNCHANGED <<tokens, txpc, txItem, sent, calls, job>>

PutAgain(t) ==
  /\ pc[t] = "reput"
  /\ CanRun(t)
  /\ q' = IF HasRoom("high") THEN [q EXCEPT !["high"] = Append(@, fresh)] ELSE q
  /\ pc' = [pc EXCEPT ![t] = IF HasRoom("high") THEN "release" ELSE "idle"]
  /\ fresh' = NoItem
  /\ UNCHANGED <<tokens, txpc, txItem, sent, calls, job>>

\* osSemaphoreRelease(): at its maximum it fails and the code does not look.
RingTwice(t) ==   \* mutant
  /\ pc[t] = "release"
  /\ CanRun(t)
  /\ tokens' = IF tokens + 2 <= SemMax THEN tokens + 2 ELSE SemMax
  /\ pc' = [pc EXCEPT ![t] = "idle"]
  /\ UNCHANGED <<q, fresh, txpc, txItem, sent, calls, job>>

BinarySemaphore(t) ==   \* mutant: a flag instead of a counter
  /\ pc[t] = "release"
  /\ CanRun(t)
  /\ tokens' = 1
  /\ pc' = [pc EXCEPT ![t] = "idle"]
  /\ UNCHANGED <<q, fresh, txpc, txItem, sent, calls, job>>

Ring(t) ==
  /\ pc[t] = "release"
  /\ CanRun(t)
  /\ tokens' = IF tokens < SemMax THEN tokens + 1 ELSE tokens
  /\ pc' = [pc EXCEPT ![t] = "idle"]
  /\ UNCHANGED <<q, fresh, txpc, txItem, sent, calls, job>>

-----------------------------------------------------------------------------
(* Who calls comm_send() *)

SendKeepAlive == CommSend("keepalive", "KEEP_ALIVE") /\ UNCHANGED job
SendModeChange == CommSend("monitor", "MODE_CHANGE") /\ UNCHANGED job
SendObject ==
  /\ \E tag \in {"OBJECT_DETECTED", "OBJECT_CLEARED"} : CommSend("objdet", tag)
  /\ UNCHANGED job

\* comm_rx_task answering GET_TIME and GET_CONFIG
SendReply ==
  /\ job = NoQuery
  /\ \E tag \in {"TIME_REPLY", "CONFIG_REPLY"} : CommSend("rx", tag)
  /\ UNCHANGED job

\* comm_rx_task answering QUERY_DATA / QUERY_EVENTS: it goes through the
\* stored lines (osDelay(1) after each), one QUERY_RECORD per match, then
\* QUERY_END; the result of comm_send() is ignored in both places.
StartQuery ==
  /\ job = NoQuery
  /\ pc["rx"] = "idle"
  /\ CanRun("rx")
  /\ \E k \in 0..MaxRecords :
       /\ calls["rx"] + k < MaxSends["rx"]
       /\ job' = k
  /\ UNCHANGED <<q, tokens, pc, fresh, txpc, txItem, sent, calls>>

SendRecord == job > 0 /\ CommSend("rx", "QUERY_RECORD") /\ job' = job - 1
SendQueryEnd == job = 0 /\ CommSend("rx", "QUERY_END") /\ job' = NoQuery

-----------------------------------------------------------------------------
(* comm_tx_task *)

TxAcquire ==
  /\ txpc = "wait"
  /\ tokens > 0
  /\ CanRun("tx")
  /\ tokens' = tokens - 1
  /\ txpc' = "high"
  /\ UNCHANGED <<q, pc, fresh, txItem, sent, calls, job>>

\* osMessageQueueGet() on class c; when it is empty the task goes on at `next`.
\* On txq_low the result is not looked at: `item` stays what it was.
TxGet(c, next) ==
  /\ txpc = c
  /\ CanRun("tx")
  /\ IF q[c] # << >>
       THEN /\ txItem' = Head(q[c])
            /\ q' = [q EXCEPT ![c] = Tail(@)]
            /\ txpc' = "send"
       ELSE /\ txpc' = next
            /\ UNCHANGED <<q, txItem>>
  /\ UNCHANGED <<tokens, pc, fresh, sent, calls, job>>

EventsBeforeKeepAlive ==   \* mutant: swapped drain order
  /\ txpc = "high"
  /\ CanRun("tx")
  /\ \E c \in {"high", "med"} :
       /\ IF q["med"] # << >> THEN c = "med" ELSE c = "high"
       /\ IF q[c] # << >>
            THEN /\ txItem' = Head(q[c])
                 /\ q' = [q EXCEPT ![c] = Tail(@)]
                 /\ txpc' = "send"
            ELSE txpc' = "med" /\ UNCHANGED <<q, txItem>>
  /\ UNCHANGED <<tokens, pc, fresh, sent, calls, job>>

TxGetHigh == TxGet("high", "med")
TxGetMed  == TxGet("med", "low")
TxGetLow  == TxGet("low", "send")

TxTransmit ==
  /\ txpc = "send"
  /\ CanRun("tx")
  /\ sent' = [sent EXCEPT ![PriorityForTag(txItem.tag)] = Append(@, txItem)]
  /\ txpc' = "wait"
  /\ UNCHANGED <<q, tokens, pc, fresh, txItem, calls, job>>

-----------------------------------------------------------------------------
\* init_create() has queued the TIME_SYNC_REQUEST before the scheduler starts.
Init ==
  /\ q = [c \in Classes |->
            IF c = "med" THEN <<[tag |-> "TIME_SYNC_REQUEST", n |-> 0]>> ELSE << >>]
  /\ tokens = 1
  /\ pc = [t \in Senders |-> "idle"]
  /\ fresh = NoItem
  /\ txpc = "wait"
  /\ txItem = NoItem
  /\ sent = [c \in Classes |-> << >>]
  /\ calls = [t \in Senders |-> 0]
  /\ job = NoQuery

TxStep == TxAcquire \/ TxGetHigh \/ TxGetMed \/ TxGetLow \/ TxTransmit
InsideCommSend(t) == TakeStale(t) \/ PutAgain(t) \/ Ring(t)

Next ==
  \/ SendKeepAlive \/ SendModeChange \/ SendObject
  \/ SendReply \/ StartQuery \/ SendRecord \/ SendQueryEnd
  \/ \E t \in Senders : InsideCommSend(t)
  \/ TxStep

Spec == Init /\ [][Next]_vars

\* The scheduler runs a task that is allowed to run; nobody has to call
\* comm_send() again.
Fairness ==
  /\ WF_vars(TxStep)
  /\ \A t \in Senders : WF_vars(InsideCommSend(t))

FairSpec == Spec /\ Fairness

-----------------------------------------------------------------------------
(* Properties *)

TypeOK ==
  /\ q \in [Classes -> Seq(Items)]
  /\ \A c \in Classes : Len(q[c]) <= Depth[c]
  /\ tokens \in 0..SemMax
  /\ pc \in [Senders -> {"idle", "replace", "reput", "release"}]
  /\ fresh \in Items \cup {NoItem}
  /\ txpc \in {"wait", "high", "med", "low", "send"}
  /\ txItem \in Items \cup {NoItem}
  /\ sent \in [Classes -> Seq(Items)]
  /\ calls \in [Senders -> Nat]
  /\ \A t \in Senders : calls[t] <= MaxSends[t]
  /\ job \in Nat \cup {NoQuery}

\* TypeOK made inductive: only the keep-alive's mailbox is ever replaced, and
\* the TIME_SYNC_REQUEST of init_create() gives the transmitter's local `item`
\* its first value.
LocalsDefined ==
  /\ \A t \in Senders : pc[t] \in {"replace", "reput"} =>
                          t = "keepalive" /\ fresh \in Items
  /\ txItem = NoItem => q["med"] # << >> /\ txpc \in {"wait", "high", "med"}

Queued   == Len(q["high"]) + Len(q["med"]) + Len(q["low"])
Ringing  == {t \in Senders : pc[t] = "release"}
InFlight == IF txpc \in {"high", "med", "low"} THEN 1 ELSE 0

\* Every queued frame has exactly one wake-up that will send it: a token of
\* the semaphore, a sender about to release one, or the wake-up the
\* transmitter is in.  ("rings sem_tx_ready exactly once per item actually
\* queued", communication.c:196)
TokenAccounting == Queued = tokens + Cardinality(Ringing) + InFlight

\* The transmitter never wakes up to find all three queues empty, in which
\* case it would transmit its previous frame a second time (the result of the
\* third osMessageQueueGet, communication.c:283, is not looked at).
TxWakesToAnItem == txpc = "low" => q["low"] # << >>

\* A keep-alive never finds the previous one still in the mailbox, so the
\* overwrite of communication.c:242-250, which rings a second time for one
\* item, does not happen at the firmware's task priorities.
MailboxNeverOverwritten == \A t \in Senders : pc[t] \notin {"replace", "reput"}

\* A release never finds the semaphore at its maximum, where the token and
\* with it a frame would be lost.
SemaphoreNeverSaturates == Ringing # {} => tokens < SemMax

\* The inductive invariant behind the four properties above.  A keep-alive in
\* the mailbox is always awaited: its sender is about to ring, or a token is
\* there, or the transmitter is about to look; and once the transmitter has
\* passed a queue by, it was empty and what it woke up for is further down.
MailboxIsAwaited ==
  q["high"] # << >> => \/ pc["keepalive"] = "release"
                       \/ tokens > 0
                       \/ txpc = "high"

TxLooksFurtherDown ==
  /\ txpc \in {"med", "low"} => q["high"] = << >>
  /\ txpc = "med" => q["med"] # << >> \/ q["low"] # << >>
  /\ txpc = "low" => q["low"] # << >>
  /\ txpc = "send" => txItem \in Items

IInv ==
  /\ TypeOK
  /\ MailboxNeverOverwritten
  /\ TokenAccounting
  /\ MailboxIsAwaited
  /\ TxLooksFurtherDown

\* No queued frame is without a wake-up: weaker than TokenAccounting, it also
\* holds with the mailbox being overwritten.
NoLostWakeup == Queued <= tokens + Cardinality(Ringing) + InFlight

\* The three queues, the semaphore and the task implement the abstract link:
\* each accepted frame is transmitted once, in order, keep-alives first.
onWire == [c \in Classes |->
             IF txpc = "send" /\ c = PriorityForTag(txItem.tag)
             THEN Append(sent[c], txItem) ELSE sent[c]]
Link == INSTANCE CommLink WITH
  Urgent  <- "high",
  waiting <- q,
  wire    <- onWire
ImplementsLink == Link!Spec

\* Whatever has been queued leaves: no frame stays behind for want of a token.
QueuesDrain == \A c \in Classes : q[c] # << >> ~> q[c] = << >>

\* "Each replies with zero or more TLV_TAG_QUERY_RECORD frames followed by one
\* TLV_TAG_QUERY_END" (communication.c:372-375).
EveryQueryEnds ==
  [][job = 0 /\ job' = NoQuery => Len(q'["low"]) = Len(q["low"]) + 1]_vars
=============================================================================
