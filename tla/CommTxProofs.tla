---------------------------- MODULE CommTxProofs ----------------------------
(***************************************************************************)
(* Proofs about CommTx, for every number of calls and every depth of the   *)
(* queues.                                                                 *)
(***************************************************************************)
EXTENDS CommTx, FiniteSetTheorems, SequenceTheorems, TLAPS

-----------------------------------------------------------------------------
(* Type correctness *)

\* The depths are positive and the mailbox holds one frame.
LEMMA DepthFacts ==
  /\ Depth \in [Classes -> Nat]
  /\ Depth["high"] = 1 /\ Depth["med"] = MedDepth /\ Depth["low"] = LowDepth
BY CommTxAssumption DEF Depth, Classes

\* comm_priority_for_tag() always returns one of the classes.
LEMMA PriorityForTagClass == \A tag : PriorityForTag(tag) \in Classes
BY DEF PriorityForTag, Classes

\* A frame made by task t for its next call is an item.
LEMMA NewItem ==
  ASSUME NEW t \in Senders, NEW tag \in Tags, TypeOK, calls[t] < MaxSends[t]
  PROVE  [tag |-> tag, n |-> calls[t]] \in Items
<1>1. calls[t] \in 0..MaxSends[t]
  BY CommTxAssumption DEF TypeOK
<1>2. calls[t] \in CallNumbers
  BY <1>1 DEF CallNumbers
<1> QED
  BY <1>2 DEF Items

\* comm_send() up to its first RTOS call keeps the types.
LEMMA CommSendType ==
  ASSUME TypeOK, NEW t \in Senders, NEW tag \in Tags, CommSend(t, tag),
         job' \in Nat \cup {NoQuery}
  PROVE  TypeOK'
<1> DEFINE i == [tag |-> tag, n |-> calls[t]]
           c == PriorityForTag(tag)
<1>1. i \in Items /\ i.tag = tag
  BY NewItem DEF CommSend
<1>2. c \in Classes
  BY PriorityForTagClass
<1> HIDE DEF i, c
<1>3. /\ q'  = IF HasRoom(c) THEN [q EXCEPT ![c] = Append(@, i)] ELSE q
      /\ pc' = [pc EXCEPT ![t] = IF HasRoom(c) THEN "release"
                                 ELSE IF c = "high" THEN "replace"
                                 ELSE "idle"]
      /\ fresh' = IF ~HasRoom(c) /\ c = "high" THEN i ELSE fresh
  BY <1>1 DEF CommSend, Put, i, c
<1>4. q' \in [Classes -> Seq(Items)] /\ \A d \in Classes : Len(q'[d]) <= Depth[d]
  <2>1. CASE HasRoom(c)
    <3>1. Append(q[c], i) \in Seq(Items) /\ Len(Append(q[c], i)) = Len(q[c]) + 1
      BY <1>1, <1>2, AppendProperties DEF TypeOK
    <3>2. Len(q[c]) + 1 <= Depth[c]
      BY <2>1, <1>2, DepthFacts DEF HasRoom, TypeOK
    <3> QED
      BY <3>1, <3>2, <2>1, <1>2, <1>3 DEF TypeOK
  <2>2. CASE ~HasRoom(c)
    BY <2>2, <1>3 DEF TypeOK
  <2> QED
    BY <2>1, <2>2
<1>5. pc' \in [Senders -> {"idle", "replace", "reput", "release"}]
  BY <1>3 DEF TypeOK
<1>6. fresh' \in Items \cup {NoItem}
  BY <1>1, <1>3 DEF TypeOK
<1>7. calls' \in [Senders -> Nat] /\ \A u \in Senders : calls'[u] <= MaxSends[u]
  <2>1. calls[t] \in Nat /\ MaxSends[t] \in Nat /\ calls[t] < MaxSends[t]
    BY CommTxAssumption DEF CommSend, TypeOK
  <2> QED
    BY <2>1 DEF CommSend, TypeOK
<1> QED
  BY <1>4, <1>5, <1>6, <1>7 DEF CommSend, TypeOK

\* osMessageQueueGet() by the transmitter keeps the types.
LEMMA TxGetType ==
  ASSUME TypeOK, NEW c \in Classes, NEW next \in {"med", "low", "send"},
         TxGet(c, next)
  PROVE  TypeOK'
<1>1. CASE q[c] = << >>
  BY <1>1 DEF TxGet, TypeOK
<1>2. CASE q[c] # << >>
  <2>1. /\ Head(q[c]) \in Items /\ Tail(q[c]) \in Seq(Items)
        /\ Len(Tail(q[c])) = Len(q[c]) - 1 /\ Len(q[c]) \in Nat
    BY <1>2, HeadTailProperties, LenProperties DEF TypeOK
  <2>2. q' = [q EXCEPT ![c] = Tail(@)] /\ txItem' = Head(q[c]) /\ txpc' = "send"
    BY <1>2 DEF TxGet
  <2>3. q' \in [Classes -> Seq(Items)]
    BY <2>1, <2>2 DEF TypeOK
  <2>4. \A d \in Classes : Len(q'[d]) <= Depth[d]
    <3>1. Len(q[c]) <= Depth[c] /\ Depth[c] \in Nat
      BY DepthFacts DEF TypeOK
    <3>2. q'[c] = Tail(q[c]) /\ \A d \in Classes \ {c} : q'[d] = q[d]
      BY <2>2 DEF TypeOK
    <3>3. Len(q'[c]) <= Depth[c]
      BY <2>1, <3>1, <3>2
    <3> QED
      BY <3>2, <3>3 DEF TypeOK
  <2> QED
    BY <2>1, <2>2, <2>3, <2>4 DEF TxGet, TypeOK
<1> QED
  BY <1>1, <1>2

\* Putting the fresh keep-alive, when there is room, keeps the types.
LEMMA PutAgainType ==
  ASSUME TypeOK, NEW t \in Senders, PutAgain(t), fresh \in Items
  PROVE  TypeOK'
<1>1. "high" \in Classes
  BY DEF Classes
<1>2. q' \in [Classes -> Seq(Items)] /\ \A d \in Classes : Len(q'[d]) <= Depth[d]
  <2>1. CASE HasRoom("high")
    <3>1. /\ Append(q["high"], fresh) \in Seq(Items)
          /\ Len(Append(q["high"], fresh)) = Len(q["high"]) + 1
      BY <1>1, AppendProperties DEF TypeOK
    <3>2. Len(q["high"]) \in Nat /\ Len(q["high"]) < 1
      BY <2>1, <1>1, DepthFacts, LenProperties DEF HasRoom, TypeOK
    <3>3. q' = [q EXCEPT !["high"] = Append(@, fresh)]
      BY <2>1 DEF PutAgain
    <3> QED
      BY <3>1, <3>2, <3>3, <1>1, DepthFacts DEF TypeOK
  <2>2. CASE ~HasRoom("high")
    BY <2>2 DEF PutAgain, TypeOK
  <2> QED
    BY <2>1, <2>2
<1> QED
  BY <1>2 DEF PutAgain, TypeOK

-----------------------------------------------------------------------------
\* The calls of comm_send() made by the firmware: who sends what.
LEMMA WhoSends ==
  ASSUME SendKeepAlive \/ SendModeChange \/ SendObject \/ SendReply
           \/ SendRecord \/ SendQueryEnd
  PROVE  \E t \in Senders, tag \in Tags :
           CommSend(t, tag) /\ (tag = "KEEP_ALIVE" <=> t = "keepalive")
BY DEF SendKeepAlive, SendModeChange, SendObject, SendReply, SendRecord,
       SendQueryEnd, Senders, Tags, EventTags, ReplyTags

\* The number of records that comm_rx_task has still to send keeps its type.
LEMMA JobType ==
  ASSUME job \in Nat \cup {NoQuery},
         SendKeepAlive \/ SendModeChange \/ SendObject \/ SendReply
           \/ SendRecord \/ SendQueryEnd
  PROVE  job' \in Nat \cup {NoQuery}
BY DEF SendKeepAlive, SendModeChange, SendObject, SendReply, SendRecord,
       SendQueryEnd, NoQuery

\* The local variables of the tasks are defined when they are used.
LEMMA CommSendLocals ==
  ASSUME TypeOK, LocalsDefined, NEW t \in Senders, NEW tag \in Tags,
         tag = "KEEP_ALIVE" <=> t = "keepalive", CommSend(t, tag)
  PROVE  LocalsDefined'
<1> DEFINE i == [tag |-> tag, n |-> calls[t]]
           c == PriorityForTag(tag)
<1>1. i \in Items /\ i.tag = tag
  BY NewItem DEF CommSend
<1>2. c \in Classes /\ (c = "high" <=> t = "keepalive")
  BY PriorityForTagClass DEF PriorityForTag
<1> HIDE DEF i, c
<1>3. /\ q'  = IF HasRoom(c) THEN [q EXCEPT ![c] = Append(@, i)] ELSE q
      /\ pc' = [pc EXCEPT ![t] = IF HasRoom(c) THEN "release"
                                 ELSE IF c = "high" THEN "replace"
                                 ELSE "idle"]
      /\ fresh' = IF ~HasRoom(c) /\ c = "high" THEN i ELSE fresh
  BY <1>1 DEF CommSend, Put, i, c
<1>4. \A u \in Senders : pc'[u] \in {"replace", "reput"} =>
                            u = "keepalive" /\ fresh' \in Items
  BY <1>1, <1>2, <1>3 DEF LocalsDefined, TypeOK
<1>5. q["med"] # << >> => q'["med"] # << >>
  <2>1. q[c] \in Seq(Items)
    BY <1>2 DEF TypeOK
  <2>2. Append(q[c], i) # << >>
    BY <1>1, <2>1, AppendProperties
  <2> QED
    BY <2>2, <1>2, <1>3 DEF TypeOK, Classes
<1> QED
  BY <1>4, <1>5 DEF LocalsDefined, CommSend

\* The transmitter gives `item` a value before it uses it.
LEMMA TxGetLocals ==
  ASSUME TypeOK, LocalsDefined, TxGetHigh \/ TxGetMed \/ TxGetLow
  PROVE  LocalsDefined'
<1>1. NoItem \notin Items
  BY DEF NoItem, Items, Tags, EventTags, ReplyTags
<1>2. UNCHANGED <<pc, fresh>>
  BY DEF TxGetHigh, TxGetMed, TxGetLow, TxGet
<1>3. ASSUME NEW c \in Classes, NEW next \in {"med", "low", "send"},
             TxGet(c, next), c = "high" => next = "med"
      PROVE  LocalsDefined'
  <2>1. CASE q[c] = << >>
    <3>1. txpc = c /\ txpc' = next /\ UNCHANGED <<q, txItem>>
      BY <1>3, <2>1 DEF TxGet
    <3>2. txItem = NoItem => c = "high"
      BY <3>1, <2>1 DEF LocalsDefined, Classes
    <3> QED
      BY <3>1, <3>2, <1>2, <1>3 DEF LocalsDefined
  <2>2. CASE q[c] # << >>
    <3>1. txItem' \in Items
      BY <1>3, <2>2, HeadTailProperties DEF TxGet, TypeOK
    <3> QED
      BY <3>1, <1>1, <1>2 DEF LocalsDefined
  <2> QED
    BY <2>1, <2>2
<1> QED
  BY <1>3 DEF TxGetHigh, TxGetMed, TxGetLow, Classes

TypeInv == TypeOK /\ LocalsDefined

\* The types and the definedness of the locals hold initially.
LEMMA TypeInit == Init => TypeInv
<1> SUFFICES ASSUME Init PROVE TypeInv
  OBVIOUS
<1> DEFINE r == [tag |-> "TIME_SYNC_REQUEST", n |-> 0]
<1>1. r \in Items
  <2>1. 0 \in 0..MaxSends["rx"]
    BY CommTxAssumption DEF Senders
  <2>2. 0 \in CallNumbers
    BY <2>1 DEF CallNumbers, Senders
  <2> QED
    BY <2>2 DEF Items, Tags, EventTags
<1>2. /\ q \in [Classes -> Seq(Items)]
      /\ \A c \in Classes : Len(q[c]) <= Depth[c]
      /\ Len(q["med"]) = 1
  <2> HIDE DEF r
  <2>1. <<r>> \in Seq(Items) /\ Len(<<r>>) = 1 /\ << >> \in Seq(Items) /\ Len(<< >>) = 0
    BY <1>1
  <2>2. q = [c \in Classes |-> IF c = "med" THEN <<r>> ELSE << >>]
    BY DEF Init, r
  <2>3. q \in [Classes -> Seq(Items)]
    BY <2>1, <2>2 DEF Classes
  <2>4. Len(q["high"]) = 0 /\ Len(q["med"]) = 1 /\ Len(q["low"]) = 0
    BY <2>1, <2>2 DEF Classes
  <2>5. Depth["high"] = 1 /\ Depth["med"] \in Nat \ {0} /\ Depth["low"] \in Nat \ {0}
    BY DepthFacts, CommTxAssumption
  <2>6. Len(q["high"]) <= Depth["high"] /\ Len(q["med"]) <= Depth["med"]
          /\ Len(q["low"]) <= Depth["low"]
    BY <2>4, <2>5
  <2>7. \A c \in Classes : Len(q[c]) <= Depth[c]
    BY <2>6 DEF Classes
  <2> QED
    BY <2>3, <2>4, <2>7
<1>3. TypeOK
  BY <1>2, CommTxAssumption DEF Init, TypeOK, Senders, Classes, NoQuery
<1>4. q["med"] # << >>
  BY <1>2
<1> QED
  BY <1>3, <1>4 DEF Init, TypeInv, LocalsDefined

\* Every step preserves the types and the definedness of the locals.
LEMMA TypeStep == TypeInv /\ [Next]_vars => TypeInv'
<1> SUFFICES ASSUME TypeOK, LocalsDefined, [Next]_vars PROVE TypeInv'
  BY DEF TypeInv
<1>1. CASE \/ SendKeepAlive \/ SendModeChange \/ SendObject
           \/ SendReply \/ SendRecord \/ SendQueryEnd
  <2>1. PICK t \in Senders, tag \in Tags :
          CommSend(t, tag) /\ (tag = "KEEP_ALIVE" <=> t = "keepalive")
    BY <1>1, WhoSends
  <2>2. job' \in Nat \cup {NoQuery}
    BY <1>1, JobType DEF TypeOK
  <2>3. TypeOK'
    BY <2>1, <2>2, CommSendType
  <2>4. LocalsDefined'
    BY <2>1, CommSendLocals
  <2> QED
    BY <2>3, <2>4 DEF TypeInv
<1>2. CASE StartQuery
  BY <1>2 DEF StartQuery, TypeInv, TypeOK, LocalsDefined
<1>3. ASSUME NEW t \in Senders, TakeStale(t)
      PROVE  TypeInv'
  <2>1. "high" \in Classes /\ "med" \in Classes
    BY DEF Classes
  <2>2. CASE q["high"] = << >>
    <3>1. q' = q
      BY <1>3, <2>2, <2>1 DEF TakeStale, TypeOK
    <3> QED
      BY <1>3, <3>1 DEF TakeStale, TypeInv, TypeOK, LocalsDefined
  <2>3. CASE q["high"] # << >>
    <3>1. /\ Tail(q["high"]) \in Seq(Items) /\ Len(q["high"]) \in Nat
          /\ Len(Tail(q["high"])) = Len(q["high"]) - 1
      BY <2>1, <2>3, HeadTailProperties, LenProperties DEF TypeOK
    <3>2. q' = [q EXCEPT !["high"] = Tail(@)]
      BY <1>3, <2>3 DEF TakeStale
    <3>3. q' \in [Classes -> Seq(Items)] /\ \A d \in Classes : Len(q'[d]) <= Depth[d]
      BY <2>1, <3>1, <3>2, DepthFacts DEF TypeOK
    <3>4. q'["med"] = q["med"]
      BY <2>1, <3>2 DEF TypeOK
    <3> QED
      BY <1>3, <3>3, <3>4 DEF TakeStale, TypeInv, TypeOK, LocalsDefined
  <2> QED
    BY <2>2, <2>3
<1>4. ASSUME NEW t \in Senders, PutAgain(t)
      PROVE  TypeInv'
  <2>1. t = "keepalive" /\ fresh \in Items
    BY <1>4 DEF PutAgain, LocalsDefined
  <2>2. TypeOK'
    BY <1>4, <2>1, PutAgainType
  <2>3. q'["med"] = q["med"]
    BY <1>4 DEF PutAgain, TypeOK, Classes
  <2>4. \A u \in Senders : pc'[u] \notin {"replace", "reput"}
    BY <1>4, <2>1 DEF PutAgain, LocalsDefined, TypeOK
  <2> QED
    BY <1>4, <2>2, <2>3, <2>4 DEF PutAgain, TypeInv, LocalsDefined
<1>5. ASSUME NEW t \in Senders, Ring(t)
      PROVE  TypeInv'
  <2>1. tokens' \in 0..SemMax
    BY <1>5, CommTxAssumption DEF Ring, TypeOK
  <2> QED
    BY <1>5, <2>1 DEF Ring, TypeInv, TypeOK, LocalsDefined
<1>6. CASE TxAcquire
  <2>1. tokens' \in 0..SemMax
    BY <1>6, CommTxAssumption DEF TxAcquire, TypeOK
  <2> QED
    BY <1>6, <2>1 DEF TxAcquire, TypeInv, TypeOK, LocalsDefined
<1>7. CASE TxGetHigh \/ TxGetMed \/ TxGetLow
  <2>1. TypeOK'
    BY <1>7, TxGetType DEF TxGetHigh, TxGetMed, TxGetLow, Classes
  <2> QED
    BY <1>7, <2>1, TxGetLocals DEF TypeInv
<1>8. CASE TxTransmit
  <2>1. txItem \in Items
    BY <1>8 DEF TxTransmit, TypeOK, LocalsDefined
  <2>2. sent' \in [Classes -> Seq(Items)]
    <3> DEFINE c == PriorityForTag(txItem.tag)
    <3>1. c \in Classes
      BY PriorityForTagClass
    <3> HIDE DEF c
    <3>2. Append(sent[c], txItem) \in Seq(Items)
      BY <2>1, <3>1, AppendProperties DEF TypeOK
    <3>3. sent' = [sent EXCEPT ![c] = Append(@, txItem)]
      BY <1>8 DEF TxTransmit, c
    <3> QED
      BY <3>1, <3>2, <3>3 DEF TypeOK
  <2> QED
    BY <1>8, <2>2 DEF TxTransmit, TypeInv, TypeOK, LocalsDefined
<1>9. CASE UNCHANGED vars
  BY <1>9 DEF vars, TypeInv, TypeOK, LocalsDefined
<1> QED
  BY <1>1, <1>2, <1>3, <1>4, <1>5, <1>6, <1>7, <1>8, <1>9
     DEF Next, InsideCommSend, TxStep

\* Whatever the priorities, every variable keeps its type and no queue holds
\* more than its depth.
THEOREM TypeCorrect == Spec => []TypeOK
<1>1. Spec => []TypeInv
  BY TypeInit, TypeStep, PTL DEF Spec
<1>2. TypeInv => TypeOK
  BY DEF TypeInv
<1> QED
  BY <1>1, <1>2, PTL

-----------------------------------------------------------------------------
(* Token accounting *)

\* The transmitter is above the keep-alive task: osPriorityAboveNormal and
\* osPriorityNormal in the firmware.
KeepAliveBelowTx == Priority["keepalive"] < Priority["tx"]

\* The lengths of the three queues, and the bound of each.
LEMMA QueueLengths ==
  ASSUME TypeOK
  PROVE  /\ \A c \in Classes : q[c] \in Seq(Items) /\ Len(q[c]) \in Nat
         /\ \A c \in Classes : q[c] = << >> <=> Len(q[c]) = 0
         /\ Len(q["high"]) <= 1
         /\ Len(q["med"]) <= MedDepth /\ Len(q["low"]) <= LowDepth
         /\ Queued \in Nat
<1>1. \A c \in Classes : q[c] \in Seq(Items)
  BY DEF TypeOK
<1>2. \A c \in Classes : Len(q[c]) \in Nat /\ (q[c] = << >> <=> Len(q[c]) = 0)
  BY <1>1, EmptySeq, LenProperties
<1>3. "high" \in Classes /\ "med" \in Classes /\ "low" \in Classes
  BY DEF Classes
<1> QED
  BY <1>1, <1>2, <1>3, DepthFacts DEF TypeOK, Queued

\* One frame more in queue c is one frame more in all.
LEMMA QueueAppend ==
  ASSUME TypeOK, NEW c \in Classes, NEW i \in Items,
         q' = [q EXCEPT ![c] = Append(@, i)]
  PROVE  /\ Len(q'[c]) = Len(q[c]) + 1
         /\ \A d \in Classes \ {c} : q'[d] = q[d]
         /\ Queued' = Queued + 1
<1>1. Len(Append(q[c], i)) = Len(q[c]) + 1
  BY QueueLengths, AppendProperties
<1>2. q'[c] = Append(q[c], i) /\ \A d \in Classes \ {c} : q'[d] = q[d]
  BY DEF TypeOK
<1>3. Len(q["high"]) \in Nat /\ Len(q["med"]) \in Nat /\ Len(q["low"]) \in Nat
  BY QueueLengths DEF Classes
<1>4. Len(q'[c]) = Len(q[c]) + 1 /\ \A d \in Classes \ {c} : q'[d] = q[d]
  BY <1>1, <1>2
<1> DEFINE h == Len(q["high"])  m == Len(q["med"])  l == Len(q["low"])
           hh == Len(q'["high"])  mm == Len(q'["med"])  ll == Len(q'["low"])
<1>5. \/ hh = h + 1 /\ mm = m /\ ll = l
      \/ hh = h /\ mm = m + 1 /\ ll = l
      \/ hh = h /\ mm = m /\ ll = l + 1
  BY <1>4 DEF Classes
<1>6. Queued = h + m + l /\ Queued' = hh + mm + ll
  BY DEF Queued
<1>7. h \in Nat /\ m \in Nat /\ l \in Nat
  BY <1>3
<1> HIDE DEF h, m, l, hh, mm, ll
<1>8. Queued' = Queued + 1
  BY <1>5, <1>6, <1>7
<1> QED
  BY <1>4, <1>8

\* Taking the first frame of queue c leaves one frame less in all.
LEMMA QueueTake ==
  ASSUME TypeOK, NEW c \in Classes, q[c] # << >>, q' = [q EXCEPT ![c] = Tail(@)]
  PROVE  /\ Len(q'[c]) = Len(q[c]) - 1
         /\ \A d \in Classes \ {c} : q'[d] = q[d]
         /\ Queued' = Queued - 1
<1>1. Len(Tail(q[c])) = Len(q[c]) - 1
  BY QueueLengths, HeadTailProperties
<1>2. q'[c] = Tail(q[c]) /\ \A d \in Classes \ {c} : q'[d] = q[d]
  BY DEF TypeOK
<1>3. Len(q["high"]) \in Nat /\ Len(q["med"]) \in Nat /\ Len(q["low"]) \in Nat
  BY QueueLengths DEF Classes
<1>4. Len(q'[c]) = Len(q[c]) - 1 /\ \A d \in Classes \ {c} : q'[d] = q[d]
  BY <1>1, <1>2
<1> DEFINE h == Len(q["high"])  m == Len(q["med"])  l == Len(q["low"])
           hh == Len(q'["high"])  mm == Len(q'["med"])  ll == Len(q'["low"])
<1>5. \/ hh = h - 1 /\ mm = m /\ ll = l
      \/ hh = h /\ mm = m - 1 /\ ll = l
      \/ hh = h /\ mm = m /\ ll = l - 1
  BY <1>4 DEF Classes
<1>6. Queued = h + m + l /\ Queued' = hh + mm + ll
  BY DEF Queued
<1>7. h \in Nat /\ m \in Nat /\ l \in Nat
  BY <1>3
<1> HIDE DEF h, m, l, hh, mm, ll
<1>8. Queued' = Queued - 1
  BY <1>5, <1>6, <1>7
<1> QED
  BY <1>4, <1>8

\* Those about to ring can be counted.
LEMMA RingingFinite == IsFiniteSet(Ringing) /\ Cardinality(Ringing) \in Nat
<1>1. IsFiniteSet(Senders)
  <2>1. IsFiniteSet({"keepalive"})
    BY FS_Singleton
  <2>2. IsFiniteSet({"keepalive"} \cup {"monitor"})
    BY <2>1, FS_AddElement
  <2>3. IsFiniteSet(({"keepalive"} \cup {"monitor"}) \cup {"objdet"})
    BY <2>2, FS_AddElement
  <2>4. IsFiniteSet((({"keepalive"} \cup {"monitor"}) \cup {"objdet"}) \cup {"rx"})
    BY <2>3, FS_AddElement
  <2>5. Senders = (({"keepalive"} \cup {"monitor"}) \cup {"objdet"}) \cup {"rx"}
    BY DEF Senders
  <2> QED
    BY <2>4, <2>5
<1>2. IsFiniteSet(Ringing)
  BY <1>1, FS_Subset DEF Ringing
<1> QED
  BY <1>2, FS_CardinalityType

\* A task that comes to its osSemaphoreRelease() adds one to those about to ring.
LEMMA RingingAdd ==
  ASSUME TypeOK, NEW t \in Senders, pc[t] # "release",
         pc' = [pc EXCEPT ![t] = "release"]
  PROVE  Cardinality(Ringing') = Cardinality(Ringing) + 1
<1>1. Ringing' = Ringing \cup {t} /\ t \notin Ringing
  BY DEF Ringing, TypeOK
<1> QED
  BY <1>1, RingingFinite, FS_AddElement

\* A task that has rung is one less of those about to ring.
LEMMA RingingRemove ==
  ASSUME TypeOK, NEW t \in Senders, pc[t] = "release",
         pc' = [pc EXCEPT ![t] = "idle"]
  PROVE  Cardinality(Ringing') = Cardinality(Ringing) - 1
<1>1. Ringing' = Ringing \ {t} /\ t \in Ringing
  BY DEF Ringing, TypeOK
<1> QED
  BY <1>1, RingingFinite, FS_RemoveElement

\* While the transmitter is awake, or could wake up, the keep-alive task waits.
LEMMA KeepAliveWaits ==
  ASSUME KeepAliveBelowTx, TypeOK, CanRun("keepalive")
  PROVE  txpc = "wait" /\ tokens = 0
<1>1. Priority["keepalive"] \in Nat /\ Priority["tx"] \in Nat
  BY CommTxAssumption DEF Tasks, Senders
<1>2. Runnable("tx") => Priority["tx"] <= Priority["keepalive"]
  BY DEF CanRun, Tasks
<1>3. ~Runnable("tx")
  BY <1>1, <1>2 DEF KeepAliveBelowTx
<1> QED
  BY <1>3 DEF Runnable

\* comm_send() by a task that finds room, or drops an event or a report.
LEMMA CommSendInv ==
  ASSUME KeepAliveBelowTx, IInv, NEW t \in Senders, NEW tag \in Tags,
         tag = "KEEP_ALIVE" <=> t = "keepalive", CommSend(t, tag)
  PROVE  /\ MailboxNeverOverwritten' /\ TokenAccounting'
         /\ MailboxIsAwaited' /\ TxLooksFurtherDown'
<1> DEFINE i == [tag |-> tag, n |-> calls[t]]
           c == PriorityForTag(tag)
<1> USE DEF IInv
<1>1. i \in Items /\ i.tag = tag
  BY NewItem DEF CommSend
<1>2. c \in Classes /\ (c = "high" <=> t = "keepalive")
  BY PriorityForTagClass DEF PriorityForTag
<1> HIDE DEF i, c
<1>3. /\ q'  = IF HasRoom(c) THEN [q EXCEPT ![c] = Append(@, i)] ELSE q
      /\ pc' = [pc EXCEPT ![t] = IF HasRoom(c) THEN "release"
                                 ELSE IF c = "high" THEN "replace"
                                 ELSE "idle"]
      /\ pc[t] = "idle"
      /\ UNCHANGED <<tokens, txpc, txItem>>
  BY <1>1 DEF CommSend, Put, i, c
<1>4. c = "high" => q["high"] = << >> /\ txpc = "wait"
  <2> SUFFICES ASSUME c = "high" PROVE q["high"] = << >> /\ txpc = "wait"
    OBVIOUS
  <2>1. CanRun("keepalive") /\ pc["keepalive"] = "idle"
    BY <1>2 DEF CommSend
  <2>2. txpc = "wait" /\ tokens = 0
    BY <2>1, KeepAliveWaits
  <2> QED
    BY <2>1, <2>2 DEF MailboxIsAwaited
<1>5. CASE ~HasRoom(c)
  <2>1. c # "high"
    BY <1>5, <1>4, QueueLengths, DepthFacts DEF HasRoom, Classes
  <2>2. q' = q /\ pc' = pc
    BY <1>3, <1>5, <2>1 DEF TypeOK
  <2>3. MailboxNeverOverwritten' /\ MailboxIsAwaited' /\ TxLooksFurtherDown'
    BY <2>2, <1>3 DEF MailboxNeverOverwritten, MailboxIsAwaited, TxLooksFurtherDown
  <2>4. Queued' = Queued /\ Ringing' = Ringing /\ InFlight' = InFlight
    BY <2>2, <1>3 DEF Queued, Ringing, InFlight
  <2>5. TokenAccounting'
    BY <2>4, <1>3 DEF TokenAccounting
  <2> QED
    BY <2>3, <2>5
<1>6. CASE HasRoom(c)
  <2>1. q' = [q EXCEPT ![c] = Append(@, i)] /\ pc' = [pc EXCEPT ![t] = "release"]
    BY <1>3, <1>6
  <2>2. /\ Len(q'[c]) = Len(q[c]) + 1
        /\ \A d \in Classes \ {c} : q'[d] = q[d]
        /\ Queued' = Queued + 1
    BY <2>1, <1>1, <1>2, QueueAppend
  <2>3. MailboxNeverOverwritten'
    BY <2>1 DEF MailboxNeverOverwritten, TypeOK
  <2>4. TokenAccounting'
    <3>1. Cardinality(Ringing') = Cardinality(Ringing) + 1
      BY <2>1, <1>3, RingingAdd
    <3>2. tokens \in Nat /\ Cardinality(Ringing) \in Nat /\ InFlight \in Nat
          /\ InFlight' = InFlight /\ tokens' = tokens
      BY <1>3, RingingFinite, CommTxAssumption DEF InFlight, TypeOK
    <3>3. Queued = tokens + Cardinality(Ringing) + InFlight
      BY DEF TokenAccounting
    <3>4. Queued' = tokens' + Cardinality(Ringing') + InFlight'
      BY <2>2, <3>1, <3>2, <3>3
    <3> QED
      BY <3>4 DEF TokenAccounting
  <2>5. MailboxIsAwaited'
    <3>1. CASE c = "high"
      BY <3>1, <1>2, <2>1 DEF MailboxIsAwaited, TypeOK
    <3>2. CASE c # "high"
      <4>1. q'["high"] = q["high"] /\ pc'["keepalive"] = pc["keepalive"]
        BY <3>2, <1>2, <2>1, <2>2 DEF Classes, TypeOK, Senders
      <4> QED
        BY <4>1, <1>3 DEF MailboxIsAwaited
    <3> QED
      BY <3>1, <3>2
  <2>6. TxLooksFurtherDown'
    <3>1. txpc \in {"med", "low"} => q'["high"] = q["high"]
      BY <1>4, <2>2 DEF Classes
    <3>2. \A d \in Classes : q[d] # << >> => q'[d] # << >>
      <4>1. Append(q[c], i) # << >>
        BY <1>1, <1>2, QueueLengths, AppendProperties
      <4> QED
        BY <4>1, <2>1, <2>2, <1>2 DEF TypeOK
    <3>3. txpc' = txpc /\ txItem' = txItem
      BY <1>3
    <3>4. txpc = "med" => q'["med"] # << >> \/ q'["low"] # << >>
      BY <3>2 DEF TxLooksFurtherDown, Classes
    <3>5. txpc = "low" => q'["low"] # << >>
      BY <3>2 DEF TxLooksFurtherDown, Classes
    <3>6. txpc \in {"med", "low"} => q'["high"] = << >>
      BY <3>1 DEF TxLooksFurtherDown
    <3> QED
      BY <3>3, <3>4, <3>5, <3>6 DEF TxLooksFurtherDown
  <2> QED
    BY <2>3, <2>4, <2>5, <2>6
<1> QED
  BY <1>5, <1>6

\* A task that is about to ring finds room for one more token.
LEMMA TokenRoom ==
  ASSUME IInv, NEW t \in Senders, pc[t] = "release"
  PROVE  tokens < SemMax
<1> USE DEF IInv
<1>1. t \in Ringing
  BY DEF Ringing
<1>2. Cardinality(Ringing) # 0
  BY <1>1, RingingFinite, FS_EmptySet
<1>3. /\ tokens \in Nat /\ InFlight \in Nat /\ Cardinality(Ringing) \in Nat
      /\ SemMax \in Nat /\ Queued \in Nat
  BY RingingFinite, QueueLengths, CommTxAssumption DEF TypeOK, InFlight
<1>4. Queued <= SemMax
  <2> DEFINE h == Len(q["high"])  m == Len(q["med"])  l == Len(q["low"])
  <2>1. /\ h \in Nat /\ m \in Nat /\ l \in Nat
        /\ h <= 1 /\ m <= MedDepth /\ l <= LowDepth
    BY QueueLengths DEF Classes
  <2>2. Queued = h + m + l
    BY DEF Queued
  <2> HIDE DEF h, m, l
  <2> QED
    BY <2>1, <2>2, CommTxAssumption
<1>5. Queued = tokens + Cardinality(Ringing) + InFlight
  BY DEF TokenAccounting
<1> QED
  BY <1>2, <1>3, <1>4, <1>5

\* osSemaphoreRelease() by a sender.
LEMMA RingInv ==
  ASSUME IInv, NEW t \in Senders, Ring(t)
  PROVE  /\ MailboxNeverOverwritten' /\ TokenAccounting'
         /\ MailboxIsAwaited' /\ TxLooksFurtherDown'
<1> USE DEF IInv
<1>1. pc[t] = "release" /\ pc' = [pc EXCEPT ![t] = "idle"]
  BY DEF Ring
<1>2. Cardinality(Ringing') = Cardinality(Ringing) - 1
  BY <1>1, RingingRemove
<1>3. tokens \in Nat /\ InFlight \in Nat /\ Cardinality(Ringing) \in Nat
  BY RingingFinite, CommTxAssumption DEF TypeOK, InFlight
<1>5. Queued = tokens + Cardinality(Ringing) + InFlight
  BY DEF TokenAccounting
<1>6. tokens < SemMax
  BY <1>1, TokenRoom
<1>7. tokens' = tokens + 1
  BY <1>6 DEF Ring
<1>8. Queued' = Queued /\ InFlight' = InFlight
  BY DEF Ring, Queued, InFlight
<1>9. Queued' = tokens' + Cardinality(Ringing') + InFlight'
  BY <1>2, <1>3, <1>5, <1>7, <1>8
<1>10. TokenAccounting'
  BY <1>9 DEF TokenAccounting
<1>11. MailboxNeverOverwritten'
  BY <1>1 DEF MailboxNeverOverwritten, TypeOK
<1>12. MailboxIsAwaited'
  BY <1>3, <1>7 DEF MailboxIsAwaited
<1>13. TxLooksFurtherDown'
  BY DEF TxLooksFurtherDown, Ring
<1> QED
  BY <1>10, <1>11, <1>12, <1>13

\* The transmitter looks into queue c: it takes a frame, or goes on to the next.
LEMMA TxGetInv ==
  ASSUME IInv, TxGetHigh \/ TxGetMed \/ TxGetLow
  PROVE  /\ MailboxNeverOverwritten' /\ TokenAccounting'
         /\ MailboxIsAwaited' /\ TxLooksFurtherDown'
<1> USE DEF IInv
<1>1. UNCHANGED <<tokens, pc>>
  BY DEF TxGetHigh, TxGetMed, TxGetLow, TxGet
<1>2. MailboxNeverOverwritten' /\ Ringing' = Ringing
  BY <1>1 DEF MailboxNeverOverwritten, Ringing
<1>3. /\ tokens \in Nat /\ Cardinality(Ringing) \in Nat /\ Queued \in Nat
      /\ Queued = tokens + Cardinality(Ringing) + InFlight
  BY RingingFinite, QueueLengths, CommTxAssumption DEF TypeOK, TokenAccounting
<1>4. ASSUME NEW c \in Classes, NEW next, TxGet(c, next), q[c] # << >>
      PROVE  TokenAccounting' /\ MailboxIsAwaited' /\ TxLooksFurtherDown'
  <2>1. q' = [q EXCEPT ![c] = Tail(@)] /\ txItem' = Head(q[c]) /\ txpc' = "send"
        /\ txpc = c
    BY <1>4 DEF TxGet
  <2>2. /\ Len(q'[c]) = Len(q[c]) - 1
        /\ \A d \in Classes \ {c} : q'[d] = q[d]
        /\ Queued' = Queued - 1
    BY <1>4, <2>1, QueueTake
  <2>3. InFlight = 1 /\ InFlight' = 0
    BY <2>1 DEF InFlight, Classes
  <2>4. Queued' = tokens' + Cardinality(Ringing') + InFlight'
    BY <1>1, <1>2, <1>3, <2>2, <2>3
  <2>5. q'["high"] = << >>
    <3>1. CASE c = "high"
      <4> DEFINE h == Len(q["high"])
      <4>0. h \in Nat /\ h <= 1 /\ h # 0
        BY <1>4, <3>1, QueueLengths
      <4>1. h = 1
        <5> HIDE DEF h
        <5> QED
          BY <4>0
      <4>2. Tail(q["high"]) \in Seq(Items) /\ Len(Tail(q["high"])) = 0
        BY <4>1, <1>4, <3>1, QueueLengths, HeadTailProperties
      <4>3. Tail(q["high"]) = << >>
        BY <4>2, EmptySeq
      <4> QED
        BY <4>3, <2>1, <3>1 DEF TypeOK, Classes
    <3>2. CASE c # "high"
      BY <3>2, <2>1, <2>2 DEF TxLooksFurtherDown, Classes
    <3> QED
      BY <3>1, <3>2
  <2>6. Head(q[c]) \in Items
    BY <1>4, QueueLengths, HeadTailProperties
  <2> QED
    BY <2>1, <2>4, <2>5, <2>6
       DEF TokenAccounting, MailboxIsAwaited, TxLooksFurtherDown
<1>5. ASSUME NEW c \in {"high", "med"}, NEW next \in {"med", "low"}, TxGet(c, next),
             q[c] = << >>, next = (IF c = "high" THEN "med" ELSE "low")
      PROVE  TokenAccounting' /\ MailboxIsAwaited' /\ TxLooksFurtherDown'
  <2>1. UNCHANGED <<q, txItem>> /\ txpc = c /\ txpc' = next
    BY <1>5 DEF TxGet
  <2>2. InFlight = 1 /\ InFlight' = 1 /\ Queued' = Queued
    BY <2>1 DEF InFlight, Queued
  <2>3. TokenAccounting'
    BY <1>1, <1>2, <1>3, <2>2 DEF TokenAccounting
  <2>4. q["high"] = << >>
    BY <1>5, <2>1 DEF TxLooksFurtherDown
  <2>5. CASE c = "high"
    <3>1. Queued # 0
      BY <1>3, <2>2
    <3>2. q["med"] # << >> \/ q["low"] # << >>
      <4> SUFFICES ASSUME q["med"] = << >>, q["low"] = << >> PROVE Queued = 0
        BY <3>1
      <4>1. Len(q["high"]) = 0 /\ Len(q["med"]) = 0 /\ Len(q["low"]) = 0
        BY <2>4, QueueLengths DEF Classes
      <4> QED
        BY <4>1 DEF Queued
    <3> QED
      BY <2>1, <2>3, <2>4, <2>5, <3>2, <1>5 DEF MailboxIsAwaited, TxLooksFurtherDown
  <2>6. CASE c = "med"
    BY <2>1, <2>3, <2>4, <2>6, <1>5 DEF MailboxIsAwaited, TxLooksFurtherDown
  <2> QED
    BY <2>5, <2>6, <1>5
<1>6. CASE TxGetHigh
  BY <1>2, <1>4, <1>5, <1>6 DEF TxGetHigh, Classes
<1>7. CASE TxGetMed
  BY <1>2, <1>4, <1>5, <1>7 DEF TxGetMed, Classes
<1>8. CASE TxGetLow
  <2>1. q["low"] # << >>
    BY <1>8 DEF TxGetLow, TxGet, TxLooksFurtherDown
  <2> QED
    BY <1>2, <1>4, <1>8, <2>1 DEF TxGetLow, Classes
<1> QED
  BY <1>6, <1>7, <1>8

\* The inductive invariant holds initially: one token for the TIME_SYNC_REQUEST.
LEMMA IInvInit == Init => IInv
<1> SUFFICES ASSUME Init PROVE IInv
  OBVIOUS
<1>1. TypeOK
  BY TypeInit DEF TypeInv
<1>2. q["high"] = << >> /\ q["low"] = << >> /\ Len(q["med"]) = 1
  BY DEF Init, Classes
<1>3. Ringing = {}
  BY DEF Init, Ringing, Senders
<1>4. Cardinality(Ringing) = 0
  BY <1>3, FS_EmptySet
<1>5. InFlight = 0 /\ tokens = 1
  BY DEF Init, InFlight
<1>6. Len(q["high"]) = 0 /\ Len(q["low"]) = 0
  BY <1>2, EmptySeq
<1>7. TokenAccounting
  BY <1>2, <1>4, <1>5, <1>6 DEF TokenAccounting, Queued
<1> QED
  BY <1>1, <1>2, <1>7
     DEF Init, IInv, MailboxNeverOverwritten, MailboxIsAwaited, TxLooksFurtherDown

\* Every step preserves the inductive invariant.
LEMMA IInvStep == KeepAliveBelowTx /\ LocalsDefined /\ IInv /\ [Next]_vars => IInv'
<1> SUFFICES ASSUME KeepAliveBelowTx, LocalsDefined, IInv, [Next]_vars PROVE IInv'
  OBVIOUS
<1> USE DEF IInv
<1>0. TypeOK'
  BY TypeStep DEF TypeInv
<1>1. CASE \/ SendKeepAlive \/ SendModeChange \/ SendObject
           \/ SendReply \/ SendRecord \/ SendQueryEnd
  <2>1. PICK t \in Senders, tag \in Tags :
          CommSend(t, tag) /\ (tag = "KEEP_ALIVE" <=> t = "keepalive")
    BY <1>1, WhoSends
  <2> QED
    BY <1>0, <2>1, CommSendInv
<1>2. CASE StartQuery
  BY <1>0, <1>2 DEF StartQuery, MailboxNeverOverwritten, TokenAccounting, Queued,
                    Ringing, InFlight, MailboxIsAwaited, TxLooksFurtherDown
<1>3. ASSUME NEW t \in Senders, TakeStale(t) \/ PutAgain(t)
      PROVE  FALSE
  BY <1>3 DEF TakeStale, PutAgain, MailboxNeverOverwritten
<1>4. ASSUME NEW t \in Senders, Ring(t)
      PROVE  IInv'
  BY <1>0, <1>4, RingInv
<1>5. CASE TxAcquire
  <2>1. txpc = "wait" /\ txpc' = "high" /\ tokens > 0 /\ tokens' = tokens - 1
        /\ UNCHANGED <<q, pc, txItem>>
    BY <1>5 DEF TxAcquire
  <2>2. Queued' = Queued /\ Ringing' = Ringing /\ InFlight = 0 /\ InFlight' = 1
    BY <2>1 DEF Queued, Ringing, InFlight
  <2>3. tokens \in Nat /\ Cardinality(Ringing) \in Nat
    BY RingingFinite, CommTxAssumption DEF TypeOK
  <2>4. Queued = tokens + Cardinality(Ringing) + InFlight
    BY DEF TokenAccounting
  <2>5. Queued' = tokens' + Cardinality(Ringing') + InFlight'
    BY <2>1, <2>2, <2>3, <2>4
  <2> QED
    BY <1>0, <2>1, <2>5 DEF TokenAccounting, MailboxNeverOverwritten,
                            MailboxIsAwaited, TxLooksFurtherDown
<1>6. CASE TxGetHigh \/ TxGetMed \/ TxGetLow
  BY <1>0, <1>6, TxGetInv
<1>7. CASE TxTransmit
  <2>1. txpc = "send" /\ txpc' = "wait" /\ UNCHANGED <<q, pc, tokens, txItem>>
    BY <1>7 DEF TxTransmit
  <2>2. Queued' = Queued /\ Ringing' = Ringing /\ InFlight = 0 /\ InFlight' = 0
    BY <2>1 DEF Queued, Ringing, InFlight
  <2> QED
    BY <1>0, <2>1, <2>2 DEF TokenAccounting, MailboxNeverOverwritten,
                            MailboxIsAwaited, TxLooksFurtherDown
<1>8. CASE UNCHANGED vars
  BY <1>0, <1>8 DEF vars, MailboxNeverOverwritten, TokenAccounting, Queued,
                    Ringing, InFlight, MailboxIsAwaited, TxLooksFurtherDown
<1> QED
  BY <1>1, <1>2, <1>3, <1>4, <1>5, <1>6, <1>7, <1>8 DEF Next, InsideCommSend, TxStep

\* With the transmitter above the keep-alive task, the inductive invariant holds.
LEMMA Invariance == KeepAliveBelowTx /\ Spec => []IInv
<1> SUFFICES ASSUME KeepAliveBelowTx PROVE Spec => []IInv
  OBVIOUS
<1>1. Init => TypeInv /\ IInv
  BY TypeInit, IInvInit
<1>2. TypeInv /\ IInv /\ [Next]_vars => (TypeInv /\ IInv)'
  BY TypeStep, IInvStep DEF TypeInv
<1> QED
  BY <1>1, <1>2, PTL DEF Spec

\* Every queued frame has exactly one wake-up of the transmitter coming.
THEOREM TokensMatchFrames == KeepAliveBelowTx /\ Spec => []TokenAccounting
BY Invariance, PTL DEF IInv

\* The transmitter never wakes to three empty queues, so it never transmits the
\* frame of the previous round again.
THEOREM NoSpuriousWakeup == KeepAliveBelowTx /\ Spec => []TxWakesToAnItem
<1>1. IInv => TxWakesToAnItem
  BY DEF IInv, TxLooksFurtherDown, TxWakesToAnItem
<1> QED
  BY <1>1, Invariance, PTL

\* A keep-alive never meets its predecessor in the mailbox.
THEOREM NoOverwrite == KeepAliveBelowTx /\ Spec => []MailboxNeverOverwritten
BY Invariance, PTL DEF IInv

\* The semaphore's maximum, the sum of the depths, is enough.
THEOREM SemaphoreLargeEnough == KeepAliveBelowTx /\ Spec => []SemaphoreNeverSaturates
<1>1. IInv => SemaphoreNeverSaturates
  <2> SUFFICES ASSUME IInv, Ringing # {} PROVE tokens < SemMax
    BY DEF SemaphoreNeverSaturates
  <2>1. PICK t \in Senders : pc[t] = "release"
    BY DEF Ringing
  <2> QED
    BY <2>1, TokenRoom
<1> QED
  BY <1>1, Invariance, PTL

-----------------------------------------------------------------------------
(* Refinement of CommLink *)

ItemsOf(c) == {i \in Items : PriorityForTag(i.tag) = c}

\* Every queue holds frames of its own class only.
Sorted == \A c \in Classes : q[c] \in Seq(ItemsOf(c))

\* The outcome of comm_send(): the frame is queued behind the others of its
\* class, or nothing is queued.
LEMMA SendOutcome ==
  ASSUME TypeOK, NEW t \in Senders, NEW tag \in Tags, CommSend(t, tag)
  PROVE  \/ q' = q
         \/ \E c \in Classes : \E i \in ItemsOf(c) :
              HasRoom(c) /\ q' = [q EXCEPT ![c] = Append(@, i)]
<1> DEFINE i == [tag |-> tag, n |-> calls[t]]
           c == PriorityForTag(tag)
<1>1. i \in Items /\ i.tag = tag
  BY NewItem DEF CommSend
<1>2. c \in Classes /\ i \in ItemsOf(c)
  BY <1>1, PriorityForTagClass DEF ItemsOf
<1> HIDE DEF i, c
<1>3. q' = IF HasRoom(c) THEN [q EXCEPT ![c] = Append(@, i)] ELSE q
  BY <1>1 DEF CommSend, Put, i, c
<1> QED
  BY <1>2, <1>3

\* Queueing a frame in the queue of its class keeps the queues sorted.
LEMMA SortedAppend ==
  ASSUME TypeOK, Sorted, NEW c \in Classes, NEW i \in ItemsOf(c),
         q' = [q EXCEPT ![c] = Append(@, i)]
  PROVE  Sorted'
<1>1. Append(q[c], i) \in Seq(ItemsOf(c))
  BY AppendProperties DEF Sorted
<1> QED
  BY <1>1 DEF Sorted, TypeOK

\* Taking a frame keeps the queues sorted.
LEMMA SortedTake ==
  ASSUME TypeOK, Sorted, NEW c \in Classes, q[c] # << >>,
         q' = [q EXCEPT ![c] = Tail(@)]
  PROVE  Sorted' /\ Head(q[c]) \in ItemsOf(c)
<1>1. q[c] \in Seq(ItemsOf(c))
  BY DEF Sorted
<1>2. Head(q[c]) \in ItemsOf(c) /\ Tail(q[c]) \in Seq(ItemsOf(c))
  BY <1>1, HeadTailProperties
<1> QED
  BY <1>2 DEF Sorted, TypeOK

\* The queues are sorted initially.
LEMMA SortedInit == Init => Sorted
<1> SUFFICES ASSUME Init PROVE Sorted
  OBVIOUS
<1> DEFINE r == [tag |-> "TIME_SYNC_REQUEST", n |-> 0]
<1>1. r \in ItemsOf("med")
  <2>1. 0 \in 0..MaxSends["rx"]
    BY CommTxAssumption DEF Senders
  <2>2. 0 \in CallNumbers
    BY <2>1 DEF CallNumbers, Senders
  <2> QED
    BY <2>2 DEF ItemsOf, Items, Tags, EventTags, PriorityForTag
<1>2. q = [c \in Classes |-> IF c = "med" THEN <<r>> ELSE << >>]
  BY DEF Init
<1> HIDE DEF r
<1>3. <<r>> \in Seq(ItemsOf("med"))
  BY <1>1
<1>4. \A c : << >> \in Seq(ItemsOf(c))
  BY EmptySeq
<1> QED
  BY <1>2, <1>3, <1>4 DEF Sorted

\* Every step keeps the queues sorted.
LEMMA SortedStep ==
  ASSUME IInv, Sorted, [Next]_vars
  PROVE  Sorted'
<1> USE DEF IInv
<1>1. CASE \/ SendKeepAlive \/ SendModeChange \/ SendObject
           \/ SendReply \/ SendRecord \/ SendQueryEnd
  <2>1. PICK t \in Senders, tag \in Tags : CommSend(t, tag)
    BY <1>1, WhoSends
  <2> QED
    BY <2>1, SendOutcome, SortedAppend DEF Sorted
<1>2. CASE StartQuery
  BY <1>2 DEF StartQuery, Sorted
<1>3. ASSUME NEW t \in Senders, TakeStale(t) \/ PutAgain(t)
      PROVE  FALSE
  BY <1>3 DEF TakeStale, PutAgain, MailboxNeverOverwritten
<1>4. ASSUME NEW t \in Senders, Ring(t)
      PROVE  Sorted'
  BY <1>4 DEF Ring, Sorted
<1>5. CASE TxAcquire \/ TxTransmit
  BY <1>5 DEF TxAcquire, TxTransmit, Sorted
<1>6. ASSUME NEW c \in Classes, NEW next, TxGet(c, next)
      PROVE  Sorted'
  <2>1. CASE q[c] = << >>
    BY <1>6, <2>1 DEF TxGet, Sorted
  <2>2. CASE q[c] # << >>
    BY <1>6, <2>2, SortedTake DEF TxGet
  <2> QED
    BY <2>1, <2>2
<1>7. CASE TxGetHigh \/ TxGetMed \/ TxGetLow
  BY <1>6, <1>7 DEF TxGetHigh, TxGetMed, TxGetLow, Classes
<1>8. CASE UNCHANGED vars
  BY <1>8 DEF vars, Sorted
<1> QED
  BY <1>1, <1>2, <1>3, <1>4, <1>5, <1>7, <1>8 DEF Next, InsideCommSend, TxStep

\* The initial states map to those of the abstract link.
LEMMA LinkInit == Init => Link!Init
<1> SUFFICES ASSUME Init PROVE Link!Init
  OBVIOUS
<1>1. q \in [Classes -> Seq(Items)]
  BY TypeInit DEF TypeInv, TypeOK
<1>2. onWire = [c \in Classes |-> << >>]
  BY DEF Init, onWire
<1> QED
  BY <1>1, <1>2 DEF Link!Init

\* Every step maps to a step of the abstract link or to a stutter.
LEMMA LinkStep ==
  ASSUME LocalsDefined, IInv, Sorted, [Next]_vars
  PROVE  [Link!Next]_(Link!vars)
<1> USE DEF IInv
<1>1. CASE \/ SendKeepAlive \/ SendModeChange \/ SendObject
           \/ SendReply \/ SendRecord \/ SendQueryEnd
  <2>1. PICK t \in Senders, tag \in Tags : CommSend(t, tag)
    BY <1>1, WhoSends
  <2>2. onWire' = onWire
    BY <2>1 DEF CommSend, onWire
  <2>3. CASE q' = q
    BY <2>2, <2>3 DEF Link!vars
  <2>4. ASSUME NEW c \in Classes, NEW i \in ItemsOf(c), HasRoom(c),
               q' = [q EXCEPT ![c] = Append(@, i)]
        PROVE  Link!Next
    <3>1. i \in Items
      BY DEF ItemsOf
    <3>2. Link!Accept(c, i)
      BY <2>2, <2>4 DEF Link!Accept, HasRoom
    <3> QED
      BY <3>1, <3>2 DEF Link!Next
  <2> QED
    BY <2>1, <2>3, <2>4, SendOutcome
<1>2. CASE StartQuery
  BY <1>2 DEF StartQuery, onWire, Link!vars
<1>3. ASSUME NEW t \in Senders, TakeStale(t) \/ PutAgain(t)
      PROVE  FALSE
  BY <1>3 DEF TakeStale, PutAgain, MailboxNeverOverwritten
<1>4. ASSUME NEW t \in Senders, Ring(t)
      PROVE  UNCHANGED Link!vars
  BY <1>4 DEF Ring, onWire, Link!vars
<1>5. CASE TxAcquire
  BY <1>5 DEF TxAcquire, onWire, Link!vars
<1>6. ASSUME NEW c \in Classes, NEW next \in {"med", "low"}, TxGet(c, next), q[c] = << >>
      PROVE  UNCHANGED Link!vars
  <2>1. txpc # "send" /\ txpc' # "send" /\ UNCHANGED <<q, sent>>
    BY <1>6 DEF TxGet, Classes
  <2> QED
    BY <2>1 DEF onWire, Link!vars
<1>7. ASSUME NEW c \in Classes, NEW next, TxGet(c, next), q[c] # << >>
      PROVE  Link!Next
  <2>1. /\ q' = [q EXCEPT ![c] = Tail(@)] /\ txItem' = Head(q[c])
        /\ txpc = c /\ txpc' = "send" /\ sent' = sent
    BY <1>7 DEF TxGet
  <2>2. PriorityForTag(txItem'.tag) = c
    BY <1>7, <2>1, SortedTake DEF ItemsOf
  <2>3. onWire = sent
    BY <2>1 DEF onWire, Classes, TypeOK
  <2>4. onWire' = [sent EXCEPT ![c] = Append(@, Head(q[c]))]
    BY <2>1, <2>2 DEF onWire, TypeOK
  <2>5. c # "high" => q["high"] = << >>
    BY <2>1 DEF TxLooksFurtherDown, Classes
  <2>6. Link!Deliver(c)
    BY <1>7, <2>1, <2>3, <2>4, <2>5 DEF Link!Deliver
  <2> QED
    BY <2>6 DEF Link!Next
<1>8. CASE TxGetHigh \/ TxGetMed
  BY <1>6, <1>7, <1>8 DEF TxGetHigh, TxGetMed, Classes
<1>9. CASE TxGetLow
  <2>1. q["low"] # << >>
    BY <1>9 DEF TxGetLow, TxGet, TxLooksFurtherDown
  <2> QED
    BY <1>7, <1>9, <2>1 DEF TxGetLow, Classes
<1>10. CASE TxTransmit
  <2>1. /\ txpc = "send" /\ txpc' = "wait" /\ q' = q
        /\ sent' = [sent EXCEPT ![PriorityForTag(txItem.tag)] = Append(@, txItem)]
    BY <1>10 DEF TxTransmit
  <2>2. onWire' = onWire
    BY <2>1 DEF onWire, TypeOK
  <2> QED
    BY <2>1, <2>2 DEF Link!vars
<1>11. CASE UNCHANGED vars
  BY <1>11 DEF vars, onWire, Link!vars
<1> QED
  BY <1>1, <1>2, <1>3, <1>4, <1>5, <1>8, <1>9, <1>10, <1>11
     DEF Next, InsideCommSend, TxStep

\* Every accepted frame is transmitted exactly once, in the order of its class,
\* keep-alives first, and nothing else is transmitted.
THEOREM Refinement == KeepAliveBelowTx /\ Spec => ImplementsLink
<1> SUFFICES ASSUME KeepAliveBelowTx PROVE Spec => ImplementsLink
  OBVIOUS
<1>1. Init => TypeInv /\ IInv /\ Sorted
  BY TypeInit, IInvInit, SortedInit
<1>2. TypeInv /\ IInv /\ Sorted /\ [Next]_vars => (TypeInv /\ IInv /\ Sorted)'
  BY TypeStep, IInvStep, SortedStep DEF TypeInv
<1>3. TypeInv /\ IInv /\ Sorted /\ [Next]_vars => [Link!Next]_(Link!vars)
  BY LinkStep DEF TypeInv
<1> QED
  BY LinkInit, <1>1, <1>2, <1>3, PTL DEF Spec, ImplementsLink, Link!Spec
-----------------------------------------------------------------------------
(* No lost wake-up, whatever the priorities *)

\* The wake-ups that are there or about to be.
Bells == tokens + Cardinality(Ringing)

\* The frames in the queues that the transmitter has passed by in this round.
Passed == IF txpc = "med" THEN Len(q["high"])
          ELSE IF txpc = "low" THEN Len(q["high"]) + Len(q["med"])
          ELSE 0

\* NoLostWakeup made inductive: a frame that came into a queue after the
\* transmitter had found it empty has a wake-up of its own.
PassedHaveBells == Passed <= Bells

WakeInv == TypeInv /\ NoLostWakeup /\ PassedHaveBells

\* All that is counted is a natural number.
LEMMA Counts ==
  ASSUME TypeOK
  PROVE  /\ Len(q["high"]) \in Nat /\ Len(q["med"]) \in Nat /\ Len(q["low"]) \in Nat
         /\ tokens \in Nat /\ Cardinality(Ringing) \in Nat /\ Bells \in Nat
         /\ InFlight \in {0, 1} /\ Passed \in Nat /\ Passed <= Queued /\ Queued \in Nat
         /\ Queued <= SemMax /\ SemMax \in Nat
<1> DEFINE h == Len(q["high"])  m == Len(q["med"])  l == Len(q["low"])
<1>1. /\ h \in Nat /\ m \in Nat /\ l \in Nat
      /\ h <= 1 /\ m <= MedDepth /\ l <= LowDepth
  BY QueueLengths DEF Classes
<1>2. tokens \in Nat /\ Cardinality(Ringing) \in Nat
  BY RingingFinite, CommTxAssumption DEF TypeOK
<1>3. Queued = h + m + l
  BY DEF Queued
<1>4. Passed \in {0, h, h + m}
  BY DEF Passed
<1> HIDE DEF h, m, l
<1>5. Passed \in Nat /\ Passed <= Queued /\ Queued \in Nat /\ Queued <= SemMax /\ SemMax \in Nat
  BY <1>1, <1>3, <1>4, CommTxAssumption
<1>6. Bells \in Nat /\ InFlight \in {0, 1}
  BY <1>2 DEF Bells, InFlight
<1> QED
  BY <1>1, <1>2, <1>5, <1>6 DEF h, m, l

\* A frame that is queued by a task that goes on to ring is one frame more, one
\* wake-up more, and at the most one more of those passed by.
LEMMA QueuedAndRung ==
  ASSUME WakeInv, TypeOK', NEW t \in Senders, NEW c \in Classes, NEW i \in Items,
         pc[t] # "release", pc' = [pc EXCEPT ![t] = "release"],
         q' = [q EXCEPT ![c] = Append(@, i)], UNCHANGED <<tokens, txpc>>
  PROVE  NoLostWakeup' /\ PassedHaveBells'
<1>0. TypeOK
  BY DEF WakeInv, TypeInv
<1>1. /\ Len(q'[c]) = Len(q[c]) + 1
      /\ \A d \in Classes \ {c} : q'[d] = q[d]
      /\ Queued' = Queued + 1
  BY <1>0, QueueAppend
<1>2. Cardinality(Ringing') = Cardinality(Ringing) + 1
  BY <1>0, RingingAdd
<1>3. InFlight' = InFlight /\ Bells' = Bells + 1
  BY <1>0, <1>2, Counts DEF InFlight, Bells
<1>4. Passed' \in Nat /\ Passed' <= Passed + 1
  <2> DEFINE h == Len(q["high"])   m == Len(q["med"])
             hh == Len(q'["high"])  mm == Len(q'["med"])
  <2>1. h \in Nat /\ m \in Nat
    BY <1>0, Counts
  <2>2. \/ hh = h + 1 /\ mm = m
        \/ hh = h /\ mm = m + 1
        \/ hh = h /\ mm = m
    BY <1>1 DEF Classes
  <2>3. /\ Passed = IF txpc = "med" THEN h ELSE IF txpc = "low" THEN h + m ELSE 0
        /\ Passed' = IF txpc = "med" THEN hh ELSE IF txpc = "low" THEN hh + mm ELSE 0
    BY DEF Passed
  <2> HIDE DEF h, m, hh, mm
  <2> QED
    BY <2>1, <2>2, <2>3
<1>5. NoLostWakeup'
  BY <1>0, <1>1, <1>3, Counts DEF WakeInv, NoLostWakeup, Bells
<1>6. PassedHaveBells'
  <2>1. Passed \in Nat /\ Bells \in Nat /\ Passed <= Bells
    BY <1>0, Counts DEF WakeInv, PassedHaveBells
  <2> QED
    BY <1>3, <1>4, <2>1 DEF PassedHaveBells
<1> QED
  BY <1>5, <1>6

\* Nothing is lost where no frame comes, no wake-up goes and the transmitter rests.
LEMMA NothingNew ==
  ASSUME WakeInv, UNCHANGED <<tokens, txpc>>, Ringing' = Ringing,
         Queued' \in Nat, Queued' <= Queued, Passed' \in Nat, Passed' <= Passed
  PROVE  NoLostWakeup' /\ PassedHaveBells'
<1>0. TypeOK
  BY DEF WakeInv, TypeInv
<1>1. InFlight' = InFlight /\ Bells' = Bells
  BY DEF InFlight, Bells
<1>2. /\ Queued \in Nat /\ Passed \in Nat /\ Bells \in Nat /\ InFlight \in {0, 1}
      /\ Queued <= Bells + InFlight /\ Passed <= Bells
  BY <1>0, Counts DEF WakeInv, NoLostWakeup, PassedHaveBells, Bells
<1>3. Queued' <= Bells' + InFlight' /\ Passed' <= Bells'
  BY <1>1, <1>2
<1> QED
  BY <1>3 DEF NoLostWakeup, PassedHaveBells, Bells

\* comm_send() up to its first RTOS call.
LEMMA CommSendWakes ==
  ASSUME WakeInv, TypeOK', NEW t \in Senders, NEW tag \in Tags, CommSend(t, tag)
  PROVE  NoLostWakeup' /\ PassedHaveBells'
<1> DEFINE i == [tag |-> tag, n |-> calls[t]]
           c == PriorityForTag(tag)
<1>0. TypeOK
  BY DEF WakeInv, TypeInv
<1>1. i \in Items /\ i.tag = tag
  BY <1>0, NewItem DEF CommSend
<1>2. c \in Classes
  BY PriorityForTagClass
<1> HIDE DEF i, c
<1>3. /\ q'  = IF HasRoom(c) THEN [q EXCEPT ![c] = Append(@, i)] ELSE q
      /\ pc' = [pc EXCEPT ![t] = IF HasRoom(c) THEN "release"
                                 ELSE IF c = "high" THEN "replace"
                                 ELSE "idle"]
      /\ pc[t] = "idle"
      /\ UNCHANGED <<tokens, txpc>>
  BY <1>1 DEF CommSend, Put, i, c
<1>4. CASE HasRoom(c)
  BY <1>1, <1>2, <1>3, <1>4, QueuedAndRung
<1>5. CASE ~HasRoom(c)
  <2>1. Ringing' = Ringing
    BY <1>0, <1>3, <1>5 DEF Ringing, TypeOK
  <2>2. Queued' = Queued /\ Passed' = Passed
    BY <1>3, <1>5 DEF Queued, Passed
  <2>3. Queued \in Nat /\ Passed \in Nat
    BY <1>0, Counts
  <2> QED
    BY <1>3, <2>1, <2>2, <2>3, NothingNew
<1> QED
  BY <1>4, <1>5

\* The stale keep-alive is taken out, if it is still there.
LEMMA TakeStaleWakes ==
  ASSUME WakeInv, TypeOK', NEW t \in Senders, TakeStale(t)
  PROVE  NoLostWakeup' /\ PassedHaveBells'
<1>0. TypeOK
  BY DEF WakeInv, TypeInv
<1>1. UNCHANGED <<tokens, txpc>> /\ Ringing' = Ringing
  BY <1>0 DEF TakeStale, Ringing, TypeOK
<1>2. /\ Queued' \in Nat /\ Queued' <= Queued
      /\ Passed' \in Nat /\ Passed' <= Passed
  <2>1. CASE q["high"] = << >>
    <3>1. q' = q
      BY <1>0, <2>1 DEF TakeStale, TypeOK
    <3>2. Queued' = Queued /\ Passed' = Passed
      BY <1>1, <3>1 DEF Queued, Passed
    <3> QED
      BY <1>0, <3>2, Counts
  <2>2. CASE q["high"] # << >>
    <3>1. q' = [q EXCEPT !["high"] = Tail(@)] /\ "high" \in Classes
      BY <2>2 DEF TakeStale, Classes
    <3>2. /\ Len(q'["high"]) = Len(q["high"]) - 1
          /\ \A d \in Classes \ {"high"} : q'[d] = q[d]
          /\ Queued' = Queued - 1
      BY <1>0, <2>2, <3>1, QueueTake
    <3>3. q'["med"] = q["med"]
      BY <3>2 DEF Classes
    <3>4. Queued' \in Nat /\ Queued' <= Queued
      <4>1. Queued' = Len(q'["high"]) + Len(q'["med"]) + Len(q'["low"])
        BY DEF Queued
      <4>2. Queued \in Nat /\ Queued >= 1
        <5> DEFINE h == Len(q["high"])  m == Len(q["med"])  l == Len(q["low"])
        <5>1. h \in Nat /\ m \in Nat /\ l \in Nat /\ h # 0
          BY <1>0, <2>2, QueueLengths DEF Classes
        <5>2. Queued = h + m + l
          BY DEF Queued
        <5> HIDE DEF h, m, l
        <5> QED
          BY <5>1, <5>2
      <4> QED
        BY <3>2, <4>2
    <3>5. Passed' \in Nat /\ Passed' <= Passed
      <4> DEFINE h == Len(q["high"])  m == Len(q["med"])  hh == Len(q'["high"])
      <4>1. h \in Nat /\ m \in Nat /\ hh \in Nat /\ hh = h - 1
        BY <1>0, <2>2, <3>2, Counts, TypeOK' DEF TypeOK, Classes
      <4>2. /\ Passed = IF txpc = "med" THEN h ELSE IF txpc = "low" THEN h + m ELSE 0
            /\ Passed' = IF txpc = "med" THEN hh ELSE IF txpc = "low" THEN hh + m ELSE 0
        BY <1>1, <3>3 DEF Passed
      <4> HIDE DEF h, m, hh
      <4> QED
        BY <4>1, <4>2
    <3> QED
      BY <3>4, <3>5
  <2> QED
    BY <2>1, <2>2
<1> QED
  BY <1>1, <1>2, NothingNew

\* The fresh keep-alive is put where the stale one was, unless another was faster.
LEMMA PutAgainWakes ==
  ASSUME WakeInv, TypeOK', NEW t \in Senders, PutAgain(t)
  PROVE  NoLostWakeup' /\ PassedHaveBells'
<1>0. TypeOK /\ LocalsDefined
  BY DEF WakeInv, TypeInv
<1>1. pc[t] = "reput" /\ fresh \in Items /\ "high" \in Classes /\ UNCHANGED <<tokens, txpc>>
  BY <1>0 DEF PutAgain, LocalsDefined, Classes
<1>2. CASE HasRoom("high")
  <2>1. q' = [q EXCEPT !["high"] = Append(@, fresh)] /\ pc' = [pc EXCEPT ![t] = "release"]
    BY <1>2 DEF PutAgain
  <2> QED
    BY <1>1, <2>1, QueuedAndRung
<1>3. CASE ~HasRoom("high")
  <2>1. q' = q /\ Ringing' = Ringing
    BY <1>0, <1>1, <1>3 DEF PutAgain, Ringing, TypeOK
  <2>2. Queued' = Queued /\ Passed' = Passed
    BY <1>1, <2>1 DEF Queued, Passed
  <2> QED
    BY <1>0, <1>1, <2>1, <2>2, Counts, NothingNew
<1> QED
  BY <1>2, <1>3

\* osSemaphoreRelease(): at its maximum the semaphore has a token for every frame
\* the queues can hold, so the one that is refused is not missed.
LEMMA RingWakes ==
  ASSUME WakeInv, TypeOK', NEW t \in Senders, Ring(t)
  PROVE  NoLostWakeup' /\ PassedHaveBells'
<1>0. TypeOK
  BY DEF WakeInv, TypeInv
<1>1. pc[t] = "release" /\ pc' = [pc EXCEPT ![t] = "idle"] /\ UNCHANGED <<q, txpc>>
  BY DEF Ring
<1>2. Cardinality(Ringing') = Cardinality(Ringing) - 1
  BY <1>0, <1>1, RingingRemove
<1>3. Queued' = Queued /\ Passed' = Passed /\ InFlight' = InFlight
  BY <1>1 DEF Queued, Passed, InFlight
<1>4. /\ Queued \in Nat /\ Passed \in Nat /\ Passed <= Queued /\ Queued <= SemMax
      /\ tokens \in Nat /\ Cardinality(Ringing) \in Nat /\ InFlight \in {0, 1}
      /\ SemMax \in Nat
      /\ Queued <= tokens + Cardinality(Ringing) + InFlight
      /\ Passed <= tokens + Cardinality(Ringing)
      /\ tokens <= SemMax
  BY <1>0, Counts DEF WakeInv, NoLostWakeup, PassedHaveBells, Bells, TypeOK
<1>5. tokens' = IF tokens < SemMax THEN tokens + 1 ELSE tokens
  BY DEF Ring
<1>6. Cardinality(Ringing') \in Nat
  BY <1>1, FS_CardinalityType, FS_Subset, <1>0, RingingFinite DEF Ringing
<1>7. /\ Queued' <= tokens' + Cardinality(Ringing') + InFlight'
      /\ Passed' <= tokens' + Cardinality(Ringing')
  <2> DEFINE r == Cardinality(Ringing)  rr == Cardinality(Ringing')
  <2>1. r \in Nat /\ rr \in Nat /\ rr = r - 1
    BY <1>2, <1>4, <1>6
  <2>2. /\ Queued <= tokens + r + InFlight /\ Passed <= tokens + r
        /\ Queued \in Nat /\ Passed \in Nat /\ Passed <= Queued /\ Queued <= SemMax
        /\ tokens \in Nat /\ tokens <= SemMax /\ SemMax \in Nat /\ InFlight \in {0, 1}
    BY <1>4
  <2> HIDE DEF r, rr
  <2>3. Queued <= tokens' + rr + InFlight /\ Passed <= tokens' + rr
    BY <1>5, <2>1, <2>2
  <2> QED
    BY <1>3, <2>3 DEF rr
<1> QED
  BY <1>7 DEF NoLostWakeup, PassedHaveBells, Bells

\* The transmitter looks into queue c.  Where it is empty the transmitter has
\* passed it by; after the last one only what has its own wake-up is left.
LEMMA TxGetWakes ==
  ASSUME WakeInv, TypeOK', NEW c \in Classes, NEW next, TxGet(c, next),
         c = "high" => next = "med", c = "med" => next = "low", c = "low" => next = "send"
  PROVE  NoLostWakeup' /\ PassedHaveBells'
<1>0. TypeOK
  BY DEF WakeInv, TypeInv
<1>1. UNCHANGED <<tokens, pc>> /\ txpc = c /\ InFlight = 1
  BY DEF TxGet, InFlight, Classes
<1>2. Bells' = Bells /\ Ringing' = Ringing
  BY <1>1 DEF Bells, Ringing
<1>3. /\ Queued \in Nat /\ Passed \in Nat /\ Bells \in Nat
      /\ Queued <= Bells + 1 /\ Passed <= Bells
  BY <1>0, <1>1, Counts DEF WakeInv, NoLostWakeup, PassedHaveBells, Bells
<1>4. CASE q[c] # << >>
  <2>1. q' = [q EXCEPT ![c] = Tail(@)] /\ txpc' = "send"
    BY <1>4 DEF TxGet
  <2>2. Queued' = Queued - 1
    BY <1>0, <1>4, <2>1, QueueTake
  <2>3. InFlight' = 0 /\ Passed' = 0
    BY <2>1 DEF InFlight, Passed
  <2>4. Queued' <= Bells' + InFlight' /\ Passed' <= Bells'
    BY <1>2, <1>3, <2>2, <2>3
  <2> QED
    BY <2>4 DEF NoLostWakeup, PassedHaveBells, Bells
<1>5. CASE q[c] = << >>
  <2>1. txpc' = next /\ q' = q
    BY <1>5 DEF TxGet
  <2>2. Len(q[c]) = 0
    BY <1>0, <1>5, QueueLengths
  <2> DEFINE h == Len(q["high"])  m == Len(q["med"])  l == Len(q["low"])
  <2>3. Queued' = Queued /\ Queued = h + m + l
    BY <2>1 DEF Queued
  <2>4. h \in Nat /\ m \in Nat /\ l \in Nat
    BY <1>0, Counts
  <2>8. /\ txpc = "med" => Passed = h
        /\ txpc = "low" => Passed = h + m
        /\ txpc' = "med" => Passed' = h
        /\ txpc' = "low" => Passed' = h + m
        /\ txpc' = "send" => Passed' = 0
    BY <2>1 DEF Passed
  <2>9. /\ c = "high" => h = 0
        /\ c = "med" => m = 0
        /\ c = "low" => l = 0
    BY <2>2
  <2> HIDE DEF h, m, l
  <2>5. CASE c = "high"
    <3>1. InFlight' = 1 /\ Passed' = 0
      BY <2>1, <2>5, <2>8, <2>9 DEF InFlight
    <3>2. Queued' <= Bells' + InFlight' /\ Passed' <= Bells'
      BY <1>2, <1>3, <2>3, <3>1
    <3> QED
      BY <3>2 DEF NoLostWakeup, PassedHaveBells, Bells
  <2>6. CASE c = "med"
    <3>1. InFlight' = 1 /\ Passed = h /\ Passed' = h + m /\ m = 0
      BY <1>1, <2>1, <2>6, <2>8, <2>9 DEF InFlight
    <3>2. Queued' <= Bells' + InFlight' /\ Passed' <= Bells'
      BY <1>2, <1>3, <2>3, <2>4, <3>1
    <3> QED
      BY <3>2 DEF NoLostWakeup, PassedHaveBells, Bells
  <2>7. CASE c = "low"
    <3>1. InFlight' = 0 /\ Passed = h + m /\ Passed' = 0 /\ l = 0
      BY <1>1, <2>1, <2>7, <2>8, <2>9 DEF InFlight
    <3>2. Queued' <= Bells' + InFlight' /\ Passed' <= Bells'
      BY <1>2, <1>3, <2>3, <2>4, <3>1
    <3> QED
      BY <3>2 DEF NoLostWakeup, PassedHaveBells, Bells
  <2> QED
    BY <2>5, <2>6, <2>7 DEF Classes
<1> QED
  BY <1>4, <1>5

\* One token for the TIME_SYNC_REQUEST, and a sleeping transmitter.
LEMMA WakeInit == Init => WakeInv
<1> SUFFICES ASSUME Init PROVE WakeInv
  OBVIOUS
<1>1. IInv /\ TypeInv /\ TypeOK
  BY IInvInit, TypeInit DEF IInv
<1>2. Passed = 0 /\ Bells \in Nat
  BY <1>1, Counts DEF Init, Passed
<1>3. NoLostWakeup
  BY <1>1, Counts DEF IInv, TokenAccounting, NoLostWakeup
<1> QED
  BY <1>1, <1>2, <1>3 DEF WakeInv, PassedHaveBells

LEMMA WakeStep == WakeInv /\ [Next]_vars => WakeInv'
<1> SUFFICES ASSUME WakeInv, [Next]_vars PROVE NoLostWakeup' /\ PassedHaveBells'
  BY TypeStep DEF WakeInv
<1>0. TypeOK /\ TypeOK'
  BY TypeStep DEF WakeInv, TypeInv
<1>1. CASE \/ SendKeepAlive \/ SendModeChange \/ SendObject
           \/ SendReply \/ SendRecord \/ SendQueryEnd
  <2>1. PICK t \in Senders, tag \in Tags :
          CommSend(t, tag) /\ (tag = "KEEP_ALIVE" <=> t = "keepalive")
    BY <1>1, WhoSends
  <2> QED
    BY <1>0, <2>1, CommSendWakes
<1>2. CASE StartQuery \/ UNCHANGED vars
  <2>1. UNCHANGED <<q, tokens, pc, txpc>>
    BY <1>2 DEF StartQuery, vars
  <2>2. Ringing' = Ringing /\ Queued' = Queued /\ Passed' = Passed
    BY <2>1 DEF Ringing, Queued, Passed
  <2> QED
    BY <1>0, <2>1, <2>2, Counts, NothingNew
<1>3. ASSUME NEW t \in Senders, InsideCommSend(t)
      PROVE  NoLostWakeup' /\ PassedHaveBells'
  BY <1>0, <1>3, TakeStaleWakes, PutAgainWakes, RingWakes DEF InsideCommSend
<1>4. CASE TxAcquire
  <2>1. txpc = "wait" /\ txpc' = "high" /\ tokens > 0 /\ tokens' = tokens - 1
        /\ UNCHANGED <<q, pc>>
    BY <1>4 DEF TxAcquire
  <2>2. /\ Queued' = Queued /\ Ringing' = Ringing /\ InFlight = 0 /\ InFlight' = 1
        /\ Passed' = 0
    BY <2>1 DEF Queued, Ringing, InFlight, Passed
  <2>3. /\ tokens \in Nat /\ Cardinality(Ringing) \in Nat /\ Queued \in Nat
        /\ Queued <= tokens + Cardinality(Ringing) + InFlight
    BY <1>0, Counts DEF WakeInv, NoLostWakeup
  <2>4. /\ Queued' <= tokens' + Cardinality(Ringing') + InFlight'
        /\ Passed' <= tokens' + Cardinality(Ringing')
    BY <2>1, <2>2, <2>3
  <2> QED
    BY <2>4 DEF NoLostWakeup, PassedHaveBells, Bells
<1>5. CASE TxGetHigh \/ TxGetMed \/ TxGetLow
  BY <1>0, <1>5, TxGetWakes DEF TxGetHigh, TxGetMed, TxGetLow, Classes
<1>6. CASE TxTransmit
  <2>1. txpc = "send" /\ txpc' = "wait" /\ UNCHANGED <<q, pc, tokens>>
    BY <1>6 DEF TxTransmit
  <2>2. /\ Queued' = Queued /\ Ringing' = Ringing /\ InFlight' = InFlight
        /\ Passed' = Passed /\ Bells' = Bells
    BY <2>1 DEF Queued, Ringing, InFlight, Passed, Bells
  <2> QED
    BY <2>1, <2>2 DEF WakeInv, NoLostWakeup, PassedHaveBells, Bells
<1> QED
  BY <1>1, <1>2, <1>3, <1>4, <1>5, <1>6 DEF Next, TxStep

\* Whatever the priorities of the tasks, and however keep-alives overwrite each
\* other in the mailbox, no queued frame is left without a wake-up.
THEOREM EveryFrameWakes == Spec => []NoLostWakeup
<1>1. WakeInv => NoLostWakeup
  BY DEF WakeInv
<1> QED
  BY <1>1, WakeInit, WakeStep, PTL DEF Spec
=============================================================================
