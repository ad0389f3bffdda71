------------------------- MODULE CcConnectionProofs -------------------------
(***************************************************************************)
(* NoDeadObject, ResultIsEarned and PunctualResult of CcConnection, for    *)
(* every number of fields, calls, switches, broken links and other frames. *)
(***************************************************************************)
EXTENDS CcConnection, TLAPS

LEMMA Numbers ==
  /\ Fields \subseteq Nat /\ Calls \subseteq Nat /\ None \notin Calls /\ None = 0
  /\ SyncRequest \notin Calls /\ Report \notin Calls /\ SyncRequest # Report
  /\ SyncRequest # None /\ Report # None
  BY CcManagementAssumption DEF Fields, Calls, None, SyncRequest, Report

-----------------------------------------------------------------------------
(* Who exists                                                              *)

\* The objects that exist at each stage of the menu's thread.
Stages ==
  /\ life \in {"transport", "comm", "log", "mgmt", "config", "menu", "destroy", "exit"}
  /\ onFail \in {"exit", "menu"}
  /\ next \in {"exit", "menu", "transport"}
  /\ life \in {"transport", "exit"} => alive = {}
  /\ life = "comm" => alive = {"transport"}
  /\ life \in {"log", "mgmt"} => alive = {"transport", "comm"}
  /\ life = "config" => alive = Objects
  /\ life = "menu" => alive \in {{}, Objects}
  /\ life = "destroy" => alive \in {{}, {"transport"}, {"transport", "mgmt"}, Objects}

\* rx_thread_ is joined before Communication is gone, and ManagementCommand, once it
\* is registered, does not go before Communication.
Joined ==
  /\ rxpc # "off" => "comm" \in alive
  /\ "mgmt" \in handlers /\ "comm" \in alive => "mgmt" \in alive

\* A frame is in a handler only while rx_thread_ feeds the decoder.
Feeding ==
  /\ rx # None => rxpc = "feed"
  /\ rx \in Calls \cup {SyncRequest} => "mgmt" \in handlers

\* get_config() is called with everything in place.
Calling == pc # "idle" => life \in {"config", "menu"} /\ alive = Objects

LifeInv == Stages /\ Joined /\ Feeding /\ Calling

LEMMA InitLife == ConnInit => LifeInv
  BY Numbers DEF ConnInit, Init, LifeInv, Stages, Joined, Feeding, Calling

\* The destruction takes the first of TearDownOrder that exists.
LEMMA NextToGo ==
  ASSUME alive \in {{"transport"}, {"transport", "mgmt"}, Objects}, DestroyNext
  PROVE  \/ alive = {"transport"} /\ Destroy("transport")
         \/ alive = {"transport", "mgmt"} /\ Destroy("mgmt")
         \/ alive = Objects /\ Destroy("comm")
<1> DEFINE First(k) == /\ k \in DOMAIN TearDownOrder
                       /\ TearDownOrder[k] \in alive
                       /\ \A j \in 1..k - 1 : TearDownOrder[j] \notin alive
           i == CHOOSE k \in DOMAIN TearDownOrder :
                  /\ TearDownOrder[k] \in alive
                  /\ \A j \in 1..k - 1 : TearDownOrder[j] \notin alive
<1>1. /\ DOMAIN TearDownOrder = 1..3
      /\ TearDownOrder[1] = "comm" /\ TearDownOrder[2] = "mgmt"
      /\ TearDownOrder[3] = "transport"
  BY DEF TearDownOrder
<1>2. Destroy(TearDownOrder[i])
  BY DEF DestroyNext
<1>3. (\E k \in DOMAIN TearDownOrder : First(k)) => First(i)
  OBVIOUS
<1>4. CASE alive = {"transport"}
  <2>1. First(3)
    BY <1>1, <1>4
  <2>2. i = 3
    BY <1>1, <1>3, <1>4, <2>1
  <2> QED
    BY <1>1, <1>2, <1>4, <2>2
<1>5. CASE alive = {"transport", "mgmt"}
  <2>1. First(2)
    BY <1>1, <1>5
  <2>2. i = 2
    BY <1>1, <1>3, <1>5, <2>1
  <2> QED
    BY <1>1, <1>2, <1>5, <2>2
<1>6. CASE alive = Objects
  <2>1. First(1)
    BY <1>1, <1>6 DEF Objects
  <2>2. i = 1
    BY <1>1, <1>3, <1>6, <2>1 DEF Objects
  <2> QED
    BY <1>1, <1>2, <1>6, <2>2
<1> QED
  BY <1>4, <1>5, <1>6

\* What leaves the objects, the handlers and the places of the two threads alone.
LEMMA Quiet ==
  ASSUME LifeInv, UNCHANGED <<life, onFail, next, alive, handlers, rxpc, rx, pc>>
  PROVE  LifeInv'
  BY DEF LifeInv, Stages, Joined, Feeding, Calling

LEMMA NextLife == LifeInv /\ [Next]_allVars => LifeInv'
<1> SUFFICES ASSUME LifeInv, [Next]_allVars PROVE LifeInv'
  OBVIOUS
<1>0. Stages /\ Joined /\ Feeding /\ Calling
  BY DEF LifeInv
<1> USE DEF menuVars, rxVars, envVars, connVars, caller, link, handler, vars
<1>1. CASE BuildTransport
  BY <1>0, <1>1 DEF BuildTransport, LifeInv, Stages, Joined, Feeding, Calling
<1>2. CASE BuildComm
  BY <1>0, <1>2, Numbers DEF BuildComm, LifeInv, Stages, Joined, Feeding, Calling, Objects
<1>3. CASE SetLogHandler
  BY <1>0, <1>3 DEF SetLogHandler, LifeInv, Stages, Joined, Feeding, Calling
<1>4. CASE BuildMgmt
  BY <1>0, <1>4 DEF BuildMgmt, LifeInv, Stages, Joined, Feeding, Calling, Objects
<1>5. CASE ConnectFails \/ Destroyed
  BY <1>0, <1>5 DEF ConnectFails, Destroyed, LifeInv, Stages, Joined, Feeding, Calling
<1>6. CASE DestroyNext
  <2>1. /\ life = "destroy" /\ alive # {}
        /\ UNCHANGED <<life, onFail, next, handlers, rxpc, rx, pc>>
    BY <1>6 DEF DestroyNext
  <2>2. \/ alive = {"transport"} /\ Destroy("transport")
        \/ alive = {"transport", "mgmt"} /\ Destroy("mgmt")
        \/ alive = Objects /\ Destroy("comm")
    BY <1>0, <1>6, <2>1, NextToGo DEF Stages
  <2>3. CASE UNCHANGED alive
    BY <2>1, <2>3, Quiet
  <2>4. CASE alive = {"transport"} /\ alive' = {}
    BY <1>0, <2>1, <2>4 DEF LifeInv, Stages, Joined, Feeding, Calling
  <2>5. CASE alive = {"transport", "mgmt"} /\ alive' = {"transport"}
    BY <1>0, <2>1, <2>5 DEF LifeInv, Stages, Joined, Feeding, Calling
  <2>6. CASE alive = Objects /\ alive' = {"transport", "mgmt"} /\ rxpc = "off"
    BY <1>0, <2>1, <2>6 DEF LifeInv, Stages, Joined, Feeding, Calling
  <2> QED
    BY <2>2, <2>3, <2>4, <2>5, <2>6 DEF Destroy, Objects
<1>7. CASE CallGetConfig
  BY <1>0, <1>7 DEF CallGetConfig, Begin, LifeInv, Stages, Joined, Feeding, Calling
<1>8. CASE SendFrame
  BY <1>0, <1>8 DEF SendFrame, Send, LifeInv, Stages, Joined, Feeding, Calling
<1>9. CASE SendThrows
  BY <1>0, <1>9 DEF SendThrows, TearDown, LifeInv, Stages, Joined, Feeding, Calling
<1>10. CASE GetConfigReturns
  BY <1>0, <1>10
  DEF GetConfigReturns, ReturnTrue, TimeOut, LifeInv, Stages, Joined, Feeding, Calling
<1>11. CASE DrawMenu
  BY <1>0, <1>11 DEF DrawMenu, Drawn, LifeInv, Stages, Joined, Feeding, Calling
<1>12. CASE SwitchTransport \/ Quit
  BY <1>0, <1>12
  DEF SwitchTransport, Quit, TearDown, LifeInv, Stages, Joined, Feeding, Calling
<1>13. CASE RunsOn \/ ThreadEnds \/ ReadReturns \/ ReadThrows \/ CloseFd \/ ChunkEnds
            \/ \E works \in BOOLEAN : Reconnect(works)
  <2>1. /\ UNCHANGED <<life, onFail, next, alive, handlers, rx, pc>>
        /\ rxpc # "off" /\ (rxpc = "feed" => rx = None)
    BY <1>13 DEF RunsOn, ThreadEnds, ReadReturns, ReadThrows, CloseFd, ChunkEnds, Reconnect
  <2> QED
    BY <1>0, <2>1 DEF LifeInv, Stages, Joined, Feeding, Calling
<1>14. CASE RouteFrame
  <2>1. /\ UNCHANGED <<life, onFail, next, alive, handlers, rxpc, pc>>
        /\ rxpc = "feed" /\ rx' = Head(fromLnc)
        /\ HandlerOf(rx') \in handlers
    BY <1>14 DEF RouteFrame, Receive
  <2> QED
    BY <1>0, <2>1, Numbers DEF HandlerOf, LifeInv, Stages, Joined, Feeding, Calling
<1>15. CASE HandleConfigReply \/ HandlerReturns
  <2>1. /\ UNCHANGED <<life, onFail, next, alive, handlers, rxpc, pc>>
        /\ rx' = rx \/ rx' = None
    BY <1>15 DEF HandleConfigReply, HandlerReturns, StoreField, LogReply, Notify
  <2> QED
    BY <1>0, <2>1, Numbers DEF LifeInv, Stages, Joined, Feeding, Calling
<1>16. CASE SendKills \/ IgnoreFrame \/ HandlerThrows \/ LncAnswers \/ LncSends \/ LinkLoses
            \/ LinkBreaks \/ UNCHANGED allVars
  BY <1>16, Quiet
  DEF SendKills, IgnoreFrame, HandlerThrows, LncAnswers, Answer, LncSends, LinkLoses, Lose,
      LinkBreaks, allVars
<1> QED
  BY <1>1, <1>2, <1>3, <1>4, <1>5, <1>6, <1>7, <1>8, <1>9, <1>10, <1>11, <1>12, <1>13,
      <1>14,
     <1>15, <1>16
  DEF Next, InProcess, Connecting, Destroying, Menu, RxLoop, World

LEMMA LifeAlways == Spec => []LifeInv
  BY InitLife, NextLife, PTL DEF Spec

\* Neither thread is ever inside an object that has been destroyed or has not been
\* built, wherever the link breaks and whenever the operator switches or quits.
THEOREM NobodyInDeadObject == Spec => []NoDeadObject
<1>1. LifeInv => NoDeadObject
  <2> SUFFICES ASSUME LifeInv PROVE NoDeadObject
    OBVIOUS
  <2>1. rxpc # "off" => alive \in {{"transport", "comm"}, Objects}
    BY DEF LifeInv, Stages, Joined, Objects
  <2>2. rx \in Calls \cup {SyncRequest} => "mgmt" \in alive
    BY Numbers DEF LifeInv, Joined, Feeding
  <2> QED
    BY <2>1, <2>2 DEF LifeInv, Calling, NoDeadObject, Objects
<1> QED
  BY <1>1, LifeAlways, PTL

-----------------------------------------------------------------------------
(* Types                                                                   *)

\* A call that is under way has a number.
Called == pc # "idle" => call \in Calls

LEMMA InitTypes == ConnInit => ConnTypeOK /\ Called
<1> SUFFICES ASSUME ConnInit PROVE ConnTypeOK /\ Called
  OBVIOUS
<1>1. TypeOK
  <2>1. thresholds \in [Fields -> Calls \cup {None}] /\ before \in [Fields -> Calls \cup {None}]
    BY DEF ConnInit, Init
  <2>2. toLnc \in Seq(Calls) /\ fromLnc \in Seq(Frames)
    BY DEF ConnInit, Init
  <2>3. call \in 0..MaxCalls /\ stored \in 0..NFields + 1
    BY CcManagementAssumption DEF ConnInit, Init
  <2>4. pc = "idle" /\ pending = FALSE /\ result = FALSE /\ late = FALSE
    BY DEF ConnInit, Init
  <2>5. rx \in Frames \cup {None} /\ answered \in Calls \cup {None}
    BY DEF ConnInit, Init
  <2> QED
    BY <2>1, <2>2, <2>3, <2>4, <2>5 DEF TypeOK
<1>2. switches \in 0..MaxSwitches /\ breaks \in 0..MaxBreaks /\ others \in 0..MaxOthers
  BY CcConnectionAssumption DEF ConnInit
<1>3. pc = "idle"
  BY DEF ConnInit, Init
<1> QED
  BY <1>1, <1>2, <1>3 DEF ConnInit, ConnTypeOK, Called

\* The steps that are part of a call, of a handler or of what the link does to frames.
LEMMA CallSteps ==
  ASSUME [Next]_allVars
  PROVE  \/ UNCHANGED vars
         \/ BuildMgmt \/ CallGetConfig \/ SendFrame \/ SendThrows \/ GetConfigReturns \/ DrawMenu
         \/ RouteFrame \/ IgnoreFrame \/ HandleConfigReply \/ HandlerReturns
         \/ LncAnswers \/ LncSends \/ LinkLoses
<1>1. CASE \/ BuildTransport \/ BuildComm \/ SetLogHandler \/ ConnectFails
           \/ DestroyNext \/ Destroyed \/ SendKills \/ SwitchTransport \/ Quit
  BY <1>1
  DEF BuildTransport, BuildComm, SetLogHandler, ConnectFails, DestroyNext, Destroyed,
              SendKills, SwitchTransport, Quit
<1>2. CASE \/ RunsOn \/ ThreadEnds \/ ReadReturns \/ ReadThrows \/ CloseFd \/ ChunkEnds
           \/ HandlerThrows \/ LinkBreaks \/ UNCHANGED allVars
           \/ \E works \in BOOLEAN : Reconnect(works)
  BY <1>2
  DEF RunsOn, ThreadEnds, ReadReturns, ReadThrows, CloseFd, ChunkEnds, HandlerThrows,
              LinkBreaks, allVars, Reconnect
<1> QED
  BY <1>1, <1>2 DEF Next, InProcess, Connecting, Destroying, Menu, RxLoop, World

\* What a step of a call, of a handler or of the link does to its own variables.
LEMMA NextCallTypes == TypeOK /\ Called /\ LifeInv /\ [Next]_allVars => TypeOK' /\ Called'
<1> SUFFICES ASSUME TypeOK, Called, LifeInv, [Next]_allVars PROVE TypeOK' /\ Called'
  OBVIOUS
<1> USE DEF connVars, caller, link, handler, vars
<1>1. CASE UNCHANGED vars
  BY <1>1 DEF TypeOK, Called
<1>2. CASE BuildMgmt
  <2>1. thresholds' \in [Fields -> Calls \cup {None}] /\ pending' \in BOOLEAN
    BY <1>2 DEF BuildMgmt
  <2> QED
    BY <1>2, <2>1 DEF BuildMgmt, TypeOK, Called
<1>3. CASE CallGetConfig
  <2>1. call' \in 0..MaxCalls /\ call' \in Calls /\ before' \in [Fields -> Calls \cup {None}]
    BY <1>3, CcManagementAssumption DEF CallGetConfig, Begin, TypeOK, Calls
  <2> QED
    BY <1>3, <2>1 DEF CallGetConfig, Begin, TypeOK, Called
<1>4. CASE SendFrame
  <2>1. CASE Send
    <3>1. toLnc' \in Seq(Calls)
      BY <2>1 DEF Send, TypeOK, Called
    <3> QED
      BY <2>1, <3>1 DEF Send, TypeOK, Called
  <2>2. CASE ~Send
    BY <1>4, <2>2 DEF SendFrame, TypeOK, Called
  <2> QED
    BY <2>1, <2>2
<1>5. CASE SendThrows
  BY <1>5 DEF SendThrows, TypeOK, Called
<1>6. CASE GetConfigReturns
  <2>1. pc' = "draw" /\ result' \in BOOLEAN /\ late' \in BOOLEAN
    BY <1>6 DEF GetConfigReturns, ReturnTrue, TimeOut, TypeOK, Called
  <2> QED
    BY <1>6, <2>1 DEF GetConfigReturns, ReturnTrue, TimeOut, TypeOK, Called
<1>7. CASE DrawMenu
  BY <1>7 DEF DrawMenu, Drawn, TypeOK, Called
<1>8. CASE RouteFrame \/ IgnoreFrame
  <2>1. fromLnc' \in Seq(Frames) /\ rx' \in Frames \cup {None} /\ stored' \in 0..NFields + 1
    <3>1. fromLnc # << >> => Head(fromLnc) \in Frames /\ Tail(fromLnc) \in Seq(Frames)
      BY DEF TypeOK
    <3>2. 0 \in 0..NFields + 1
      BY CcManagementAssumption
    <3> QED
      BY <1>8, <3>1, <3>2 DEF RouteFrame, Receive, IgnoreFrame, TypeOK
  <2> QED
    BY <1>8, <2>1 DEF RouteFrame, Receive, IgnoreFrame, TypeOK, Called
<1>9. CASE HandleConfigReply
  <2>1. CASE StoreField
    <3>1. stored' \in 0..NFields + 1 /\ thresholds' \in [Fields -> Calls \cup {None}]
      <4>1. /\ stored \in 0..NFields + 1 /\ stored < NFields /\ stored' = stored + 1
            /\ rx \in Calls /\ thresholds' = [thresholds EXCEPT ![stored + 1] = rx]
        BY <2>1 DEF StoreField, TypeOK
      <4>2. stored' \in 0..NFields + 1
        BY <4>1, CcManagementAssumption
      <4>3. thresholds' \in [Fields -> Calls \cup {None}]
        BY <4>1 DEF TypeOK
      <4> QED
        BY <4>2, <4>3
    <3> QED
      BY <2>1, <3>1 DEF StoreField, TypeOK, Called
  <2>2. CASE LogReply
    BY <2>2, CcManagementAssumption DEF LogReply, TypeOK, Called
  <2>3. CASE Notify
    <3>1. /\ pending' \in BOOLEAN /\ answered' \in Calls \cup {None}
          /\ rx' \in Frames \cup {None} /\ stored' \in 0..NFields + 1
      <4>1. 0 \in 0..NFields + 1
        BY CcManagementAssumption
      <4> QED
        BY <2>3, <4>1 DEF Notify
    <3> QED
      BY <2>3, <3>1 DEF Notify, TypeOK, Called
  <2> QED
    BY <1>9, <2>1, <2>2, <2>3 DEF HandleConfigReply
<1>10. CASE HandlerReturns
  BY <1>10 DEF HandlerReturns, TypeOK, Called
<1>11. CASE LncAnswers
  <2>1. toLnc' \in Seq(Calls) /\ fromLnc' \in Seq(Frames)
    <3>1. Head(toLnc) \in Calls /\ Head(toLnc) \in Frames /\ Tail(toLnc) \in Seq(Calls)
      BY <1>11 DEF LncAnswers, Answer, TypeOK, Frames
    <3> QED
      BY <1>11, <3>1 DEF LncAnswers, Answer, TypeOK
  <2> QED
    BY <1>11, <2>1 DEF LncAnswers, Answer, TypeOK, Called
<1>12. CASE LncSends
  <2>1. fromLnc' \in Seq(Frames)
    BY <1>12 DEF LncSends, TypeOK, Frames
  <2> QED
    BY <1>12, <2>1 DEF LncSends, TypeOK, Called
<1>13. CASE LinkLoses
  <2>1. toLnc' \in Seq(Calls) /\ fromLnc' \in Seq(Frames)
    <3>1. /\ toLnc # << >> => Tail(toLnc) \in Seq(Calls)
          /\ fromLnc # << >> => Tail(fromLnc) \in Seq(Frames)
      BY DEF TypeOK
    <3> QED
      BY <1>13, <3>1 DEF LinkLoses, Lose, TypeOK
  <2> QED
    BY <1>13, <2>1 DEF LinkLoses, Lose, TypeOK, Called
<1> QED
  BY <1>1, <1>2, <1>3, <1>4, <1>5, <1>6, <1>7, <1>8, <1>9, <1>10, <1>11, <1>12, <1>13,
      CallSteps

LEMMA NextTypes == ConnTypeOK /\ Called /\ LifeInv /\ [Next]_allVars => ConnTypeOK' /\ Called'
<1> SUFFICES ASSUME ConnTypeOK, Called, LifeInv, LifeInv', [Next]_allVars
             PROVE  ConnTypeOK' /\ Called'
  BY NextLife
<1>1. TypeOK' /\ Called'
  BY NextCallTypes DEF ConnTypeOK
<1>2. /\ life' \in {"transport", "comm", "log", "mgmt", "config", "menu", "destroy", "exit"}
      /\ onFail' \in {"exit", "menu"} /\ next' \in {"exit", "menu", "transport"}
      /\ alive' \subseteq Objects
  BY DEF LifeInv, Stages, Objects
<1> USE DEF ConnTypeOK, menuVars, rxVars, envVars, connVars
<1>3. handlers' \subseteq {"log", "mgmt"}
  BY DEF Next, InProcess, Connecting, Destroying, Menu, RxLoop, World, allVars,
         BuildTransport, BuildComm, SetLogHandler, BuildMgmt, ConnectFails, DestroyNext, Destroyed,
         CallGetConfig, SendFrame, SendThrows, SendKills, GetConfigReturns, DrawMenu,
         SwitchTransport, Quit, RunsOn, ThreadEnds, ReadReturns, ReadThrows, CloseFd, Reconnect,
         RouteFrame, IgnoreFrame, HandleConfigReply, HandlerReturns, HandlerThrows, ChunkEnds,
         LncAnswers, LncSends, LinkLoses, LinkBreaks
<1>4. running' \in BOOLEAN /\ open' \in BOOLEAN /\ up' \in BOOLEAN
  <2>1. CASE UNCHANGED <<running, open, up>>
    BY <2>1
  <2>2. CASE BuildTransport \/ BuildComm \/ CloseFd \/ LinkBreaks \/ \E w \in BOOLEAN : Reconnect(w)
    BY <2>2, Zenon DEF BuildTransport, BuildComm, CloseFd, LinkBreaks, Reconnect
  <2>3. CASE DestroyNext
    <3>1. \E o : Destroy(o) /\ UNCHANGED up
      BY <2>3 DEF DestroyNext
    <3> QED
      BY <3>1 DEF Destroy
  <2> QED
    BY <2>1, <2>2, <2>3
    DEF Next, InProcess, Connecting, Destroying, Menu, RxLoop, World, allVars,
        SetLogHandler, BuildMgmt, ConnectFails, Destroyed,
        CallGetConfig, SendFrame, SendThrows, SendKills, GetConfigReturns, DrawMenu,
        SwitchTransport, Quit, RunsOn, ThreadEnds, ReadReturns, ReadThrows,
        RouteFrame, IgnoreFrame, HandleConfigReply, HandlerReturns, HandlerThrows, ChunkEnds,
        LncAnswers, LncSends, LinkLoses
<1>5. /\ rxpc' \in {"off", "loop", "read", "feed", "sleep", "connect"}
      /\ process' \in {"runs", "exited", "killed"}
  BY DEF Next, InProcess, Connecting, Destroying, Menu, RxLoop, World, allVars,
         BuildTransport, BuildComm, SetLogHandler, BuildMgmt, ConnectFails, DestroyNext, Destroyed,
         CallGetConfig, SendFrame, SendThrows, SendKills, GetConfigReturns, DrawMenu,
         SwitchTransport, Quit, RunsOn, ThreadEnds, ReadReturns, ReadThrows, CloseFd, Reconnect,
         RouteFrame, IgnoreFrame, HandleConfigReply, HandlerReturns, HandlerThrows, ChunkEnds,
         LncAnswers, LncSends, LinkLoses, LinkBreaks
<1>6. switches' \in 0..MaxSwitches /\ breaks' \in 0..MaxBreaks /\ others' \in 0..MaxOthers
  <2>1. CASE UNCHANGED <<switches, breaks, others>>
    BY <2>1
  <2>2. CASE SwitchTransport \/ LinkBreaks \/ LncSends
    BY <2>2, CcConnectionAssumption DEF SwitchTransport, LinkBreaks, LncSends
  <2> QED
    BY <2>1, <2>2
    DEF Next, InProcess, Connecting, Destroying, Menu, RxLoop, World, allVars,
        BuildTransport, BuildComm, SetLogHandler, BuildMgmt, ConnectFails, DestroyNext, Destroyed,
        CallGetConfig, SendFrame, SendThrows, SendKills, GetConfigReturns, DrawMenu,
        Quit, RunsOn, ThreadEnds, ReadReturns, ReadThrows, CloseFd, Reconnect,
        RouteFrame, IgnoreFrame, HandleConfigReply, HandlerReturns, HandlerThrows, ChunkEnds,
        LncAnswers, LinkLoses
<1> QED
  BY <1>1, <1>2, <1>3, <1>4, <1>5, <1>6

\* Every variable of the connection and of a call keeps its type.
THEOREM TypeCorrect == Spec => []ConnTypeOK
  BY InitTypes, NextTypes, LifeAlways, PTL DEF Spec

-----------------------------------------------------------------------------
(* Results                                                                 *)

\* While a call is under way its flag is up until a reply has been handled.
Armed == pc \in {"send", "wait"} => (pending <=> answered = None)

EarnInv == Armed /\ ResultIsEarned

LEMMA InitEarned == ConnInit => EarnInv
  BY DEF ConnInit, Init, EarnInv, Armed, ResultIsEarned

LEMMA NextEarned == ConnTypeOK /\ LifeInv /\ EarnInv /\ [Next]_allVars => EarnInv'
<1> SUFFICES ASSUME TypeOK, LifeInv, EarnInv, [Next]_allVars PROVE EarnInv'
  BY DEF ConnTypeOK
<1> USE DEF EarnInv, Armed, ResultIsEarned, caller, link, handler, vars
<1>1. CASE UNCHANGED <<pc, pending, result, answered>>
  BY <1>1
<1>2. CASE BuildMgmt
  BY <1>2 DEF BuildMgmt, LifeInv, Calling
<1>3. CASE CallGetConfig
  BY <1>3 DEF CallGetConfig, Begin
<1>4. CASE SendFrame
  BY <1>4 DEF SendFrame, Send
<1>5. CASE SendThrows
  BY <1>5 DEF SendThrows
<1>6. CASE GetConfigReturns
  BY <1>6 DEF GetConfigReturns, ReturnTrue, TimeOut
<1>7. CASE DrawMenu
  BY <1>7 DEF DrawMenu, Drawn
<1>8. CASE HandleConfigReply
  BY <1>1, <1>8, Numbers DEF HandleConfigReply, StoreField, LogReply, Notify
<1>9. CASE RouteFrame \/ IgnoreFrame \/ HandlerReturns \/ LncAnswers \/ LncSends \/ LinkLoses
  BY <1>1, <1>9 DEF RouteFrame, Receive, IgnoreFrame, HandlerReturns, LncAnswers, Answer,
                    LncSends, LinkLoses, Lose
<1> QED
  BY <1>1, <1>2, <1>3, <1>4, <1>5, <1>6, <1>7, <1>8, <1>9, CallSteps

\* get_config() returns true only for a reply that was handled during the call, and
\* no reply that is handled before it decides is missed.
THEOREM Earned == Spec => []ResultIsEarned
<1>1. EarnInv => ResultIsEarned
  BY DEF EarnInv
<1> QED
  BY <1>1, InitEarned, NextEarned, InitTypes, NextTypes, LifeAlways, PTL DEF Spec

-----------------------------------------------------------------------------
(* The promise of get_config()                                             *)

NoReply(seq) == \A i \in DOMAIN seq : seq[i] \notin Calls

\* There is one request or reply at the most, it is that of this call, and it is there
\* only while the call waits and is unanswered.
Single ==
  /\ \A i \in DOMAIN toLnc : i = 1 /\ toLnc[i] = call
  /\ \A i \in DOMAIN fromLnc : fromLnc[i] \in Calls => fromLnc[i] = call
  /\ \A i, j \in DOMAIN fromLnc : fromLnc[i] \in Calls /\ fromLnc[j] \in Calls => i = j
  /\ rx \in Calls => rx = call
  /\ toLnc # << >> => NoReply(fromLnc)
  /\ rx \in Calls => toLnc = << >> /\ NoReply(fromLnc)
  /\ toLnc # << >> \/ ~NoReply(fromLnc) \/ rx \in Calls => pc = "wait" /\ answered = None

\* thresholds_ are those of before the call, or its reply's as far as it is stored.
Values ==
  /\ rx \in Calls =>
       thresholds = [f \in Fields |-> IF f <= stored THEN call ELSE before[f]]
  /\ pc # "idle" /\ answered = None /\ rx \notin Calls => thresholds = before
  /\ pc # "idle" /\ answered # None => thresholds = [f \in Fields |-> call]
  /\ pc = "draw" => (result <=> answered # None)
  /\ pc = "send" => answered = None

PromiseInv == ~late => Single /\ Values

LEMMA InitPromise == ConnInit => PromiseInv
  BY Numbers DEF ConnInit, Init, PromiseInv, Single, Values, NoReply

\* What is left of a queue, and what is added to it.
LEMMA Queues ==
  ASSUME NEW S, NEW q \in Seq(S), NEW x
  PROVE  /\ q # << >> => /\ Head(q) = q[1] /\ 1 \in DOMAIN q
                         /\ Tail(q) \in Seq(S)
                         /\ \A i \in DOMAIN Tail(q) : i + 1 \in DOMAIN q /\ Tail(q)[i] = q[i + 1]
                         /\ DOMAIN Tail(q) \subseteq Nat \ {0}
         /\ \A i \in DOMAIN Append(q, x) :
              \/ i \in DOMAIN q /\ Append(q, x)[i] = q[i]
              \/ i = Len(q) + 1 /\ Append(q, x)[i] = x
  OBVIOUS

LEMMA NextPromise ==
  ConnTypeOK /\ Called /\ LifeInv /\ EarnInv /\ PromiseInv /\ [Next]_allVars => PromiseInv'
<1> SUFFICES ASSUME TypeOK, Called, LifeInv, EarnInv, PromiseInv, [Next]_allVars, ~late'
             PROVE  Single' /\ Values'
  BY DEF ConnTypeOK, PromiseInv
<1> USE DEF caller, link, handler, vars
<1>0. Single /\ Values
  <2>1. late => late'
    BY CallSteps DEF BuildMgmt, CallGetConfig, Begin, SendFrame, Send, SendThrows,
         GetConfigReturns, ReturnTrue, TimeOut, DrawMenu, Drawn, RouteFrame, Receive, IgnoreFrame,
         HandleConfigReply, StoreField, LogReply, Notify, HandlerReturns, LncAnswers, Answer,
         LncSends, LinkLoses, Lose, TypeOK
  <2> QED
    BY <2>1 DEF PromiseInv
<1>1. CASE UNCHANGED vars
  BY <1>0, <1>1 DEF Single, Values, NoReply
<1>2. CASE BuildMgmt
  BY <1>0, <1>2 DEF BuildMgmt, LifeInv, Calling, Single, Values, NoReply
\* Nothing is under way when a call begins.
<1>3. CASE CallGetConfig
  <2>1. /\ pc = "idle" /\ pc' = "send" /\ answered' = None /\ before' = thresholds
        /\ UNCHANGED <<thresholds, toLnc, fromLnc, rx, stored>>
    BY <1>3 DEF CallGetConfig, Begin
  <2>2. toLnc = << >> /\ NoReply(fromLnc) /\ rx \notin Calls
    BY <1>0, <2>1 DEF Single
  <2>3. Single'
    BY <2>1, <2>2 DEF Single, NoReply
  <2> QED
    BY <2>1, <2>2, <2>3 DEF Values
<1>4. CASE SendFrame
  <2>1. /\ pc = "send" /\ pc' = "wait"
        /\ UNCHANGED <<call, answered, before, thresholds, fromLnc, rx, stored>>
        /\ toLnc' = Append(toLnc, call) \/ toLnc' = toLnc
    BY <1>4 DEF SendFrame, Send
  <2>2. toLnc = << >> /\ NoReply(fromLnc) /\ rx \notin Calls /\ answered = None
    BY <1>0, <2>1 DEF Single, Values
  <2>3. toLnc' = <<call>> \/ toLnc' = << >>
    BY <2>1, <2>2
  <2>4. Single'
    BY <2>1, <2>2, <2>3 DEF Single, NoReply
  <2> QED
    BY <1>0, <2>1, <2>2, <2>4 DEF Values
<1>5. CASE SendThrows
  BY <1>0, <1>5 DEF SendThrows, Single, Values, NoReply
<1>6. CASE GetConfigReturns
  <2>1. /\ pc = "wait" /\ pc' = "draw"
        /\ UNCHANGED <<call, answered, before, thresholds, toLnc, fromLnc, rx, stored>>
    BY <1>6 DEF GetConfigReturns, ReturnTrue, TimeOut
  <2>2. \/ result' = TRUE /\ answered # None
        \/ result' = FALSE /\ answered = None /\ Hopeless
    BY <1>6 DEF GetConfigReturns, ReturnTrue, TimeOut, EarnInv, Armed
  <2>3. toLnc = << >> /\ NoReply(fromLnc) /\ rx \notin Calls
    <3>1. CASE answered # None
      BY <1>0, <3>1 DEF Single
    <3>2. CASE Hopeless
      BY <1>0, <3>2 DEF Single, Hopeless, NoReply, TypeOK
    <3> QED
      BY <2>2, <3>1, <3>2
  <2>4. Single'
    BY <2>1, <2>3 DEF Single, NoReply
  <2> QED
    BY <1>0, <2>1, <2>2, <2>3, <2>4 DEF Values
<1>7. CASE DrawMenu
  BY <1>0, <1>7 DEF DrawMenu, Drawn, Single, Values, NoReply
<1>8. CASE RouteFrame \/ IgnoreFrame
  <2>1. /\ rx \notin Calls /\ fromLnc # << >> /\ fromLnc' = Tail(fromLnc)
        /\ UNCHANGED <<pc, call, result, before, thresholds, toLnc, answered>>
    BY <1>8, Numbers DEF RouteFrame, Receive, IgnoreFrame
  <2>2. \/ rx' = fromLnc[1] /\ stored' = 0
        \/ rx' = rx
    BY <1>8, <2>1, Queues DEF RouteFrame, Receive, IgnoreFrame, TypeOK
  <2>3. /\ 1 \in DOMAIN fromLnc
        /\ \A i \in DOMAIN fromLnc' : /\ i + 1 \in DOMAIN fromLnc /\ fromLnc'[i] = fromLnc[i + 1]
                                      /\ i \in Nat \ {0}
    BY <2>1, Queues DEF TypeOK
  <2>4. /\ \A i \in DOMAIN fromLnc' : fromLnc'[i] \in Calls => fromLnc'[i] = call
        /\ \A i, j \in DOMAIN fromLnc' : fromLnc'[i] \in Calls /\ fromLnc'[j] \in Calls => i = j
    BY <1>0, <2>3 DEF Single
  <2>5. rx' \in Calls => /\ rx' = call /\ fromLnc[1] \in Calls
                         /\ \A i \in DOMAIN fromLnc' : fromLnc'[i] \notin Calls
    BY <1>0, <2>1, <2>2, <2>3 DEF Single
  <2>6. rx' \in Calls => toLnc = << >> /\ pc = "wait" /\ answered = None
    BY <1>0, <2>3, <2>5 DEF Single, NoReply
  <2>7. NoReply(fromLnc) => NoReply(fromLnc')
    BY <2>3 DEF NoReply
  <2>8. Single'
    BY <1>0, <2>1, <2>4, <2>5, <2>6, <2>7 DEF Single, NoReply
  <2>9. rx' \in Calls => thresholds' = [f \in Fields |-> IF f <= stored' THEN call' ELSE before'[f]]
    <3>1. SUFFICES ASSUME rx' \in Calls
                   PROVE  thresholds = [f \in Fields |-> IF f <= 0 THEN call ELSE before[f]]
      BY <2>1, <2>2
    <3>2. thresholds = before /\ before \in [Fields -> Calls \cup {None}]
      BY <1>0, <2>1, <2>6, <3>1 DEF Values, TypeOK
    <3>3. \A f \in Fields : ~(f <= 0)
      BY CcManagementAssumption DEF Fields
    <3> QED
      BY <3>2, <3>3
  <2> QED
    BY <1>0, <2>1, <2>8, <2>9 DEF Values
<1>9. CASE StoreField
  <2>1. /\ rx \in Calls /\ rx = call /\ stored \in 0..NFields /\ stored < NFields
        /\ stored' = stored + 1 /\ thresholds' = [thresholds EXCEPT ![stored + 1] = rx]
        /\ thresholds = [f \in Fields |-> IF f <= stored THEN call ELSE before[f]]
        /\ UNCHANGED <<pc, call, result, before, toLnc, fromLnc, rx, answered>>
    BY <1>0, <1>9, CcManagementAssumption DEF StoreField, Single, Values, TypeOK
  <2>2. \A f \in Fields : f <= stored + 1 <=> f <= stored \/ f = stored + 1
    BY <2>1, CcManagementAssumption DEF Fields
  <2>3. thresholds' = [f \in Fields |-> IF f <= stored + 1 THEN call ELSE before[f]]
    BY <2>1, <2>2
  <2>4. Single'
    BY <1>0, <2>1 DEF Single, NoReply
  <2>5. pc = "wait" /\ answered = None
    BY <1>0, <2>1 DEF Single
  <2> QED
    BY <2>1, <2>3, <2>4, <2>5 DEF Values
<1>10. CASE LogReply
  <2>1. /\ rx \in Calls /\ rx = call /\ stored = NFields /\ stored' = NFields + 1
        /\ thresholds = [f \in Fields |-> IF f <= stored THEN call ELSE before[f]]
        /\ UNCHANGED <<pc, call, result, before, toLnc, fromLnc, rx, answered, thresholds>>
    BY <1>0, <1>10 DEF LogReply, Single, Values
  <2>2. \A f \in Fields : f <= NFields /\ f <= NFields + 1
    BY CcManagementAssumption DEF Fields
  <2>3. thresholds = [f \in Fields |-> IF f <= NFields + 1 THEN call ELSE before[f]]
    BY <2>1, <2>2
  <2>4. Single'
    BY <1>0, <2>1 DEF Single, NoReply
  <2>5. pc = "wait" /\ answered = None
    BY <1>0, <2>1 DEF Single
  <2> QED
    BY <2>1, <2>3, <2>4, <2>5 DEF Values
\* The reply has been stored to its end when the flag is cleared.
<1>11. CASE Notify
  <2>1. /\ rx \in Calls /\ rx = call /\ stored = NFields + 1 /\ rx' = None /\ answered' = rx
        /\ thresholds = [f \in Fields |-> IF f <= stored THEN call ELSE before[f]]
        /\ UNCHANGED <<pc, call, result, before, toLnc, fromLnc, thresholds>>
        /\ pc = "wait" /\ toLnc = << >> /\ NoReply(fromLnc)
    BY <1>0, <1>11 DEF Notify, Single, Values
  <2>2. \A f \in Fields : f <= NFields + 1
    BY CcManagementAssumption DEF Fields
  <2>3. thresholds = [f \in Fields |-> call]
    BY <2>1, <2>2
  <2>4. Single'
    BY <2>1, Numbers DEF Single, NoReply
  <2> QED
    BY <2>1, <2>3, <2>4, Numbers DEF Values
<1>12. CASE HandlerReturns
  BY <1>0, <1>12, Numbers DEF HandlerReturns, Single, Values, NoReply
<1>13. CASE LncAnswers
  <2>1. /\ toLnc # << >> /\ toLnc' = Tail(toLnc) /\ fromLnc' = Append(fromLnc, Head(toLnc))
        /\ UNCHANGED <<pc, call, result, before, thresholds, rx, stored, answered>>
    BY <1>13 DEF LncAnswers, Answer
  <2>2. /\ Head(toLnc) = call /\ toLnc' = << >>
    <3>1. 1 \in DOMAIN toLnc /\ Head(toLnc) = toLnc[1]
      BY <2>1, Queues DEF TypeOK
    <3>2. \A i \in DOMAIN toLnc' : FALSE
      BY <1>0, <2>1, Queues DEF TypeOK, Single
    <3>3. toLnc' \in Seq(Calls)
      BY <2>1 DEF TypeOK
    <3>4. toLnc' = << >>
      BY <3>2, <3>3
    <3> QED
      BY <1>0, <3>1, <3>4 DEF Single
  <2>3. /\ NoReply(fromLnc) /\ rx \notin Calls /\ pc = "wait" /\ answered = None
    BY <1>0, <2>1 DEF Single
  <2>4. \A i \in DOMAIN fromLnc' :
          \/ i \in DOMAIN fromLnc /\ fromLnc'[i] = fromLnc[i]
          \/ i = Len(fromLnc) + 1 /\ fromLnc'[i] = call
    BY <2>1, <2>2, Queues DEF TypeOK
  <2>5. Single'
    BY <2>1, <2>2, <2>3, <2>4 DEF Single, NoReply
  <2> QED
    BY <1>0, <2>1, <2>5 DEF Values
<1>14. CASE LncSends
  <2>1. /\ \E f \in {SyncRequest, Report} : fromLnc' = Append(fromLnc, f)
        /\ UNCHANGED <<pc, call, result, before, thresholds, toLnc, rx, stored, answered>>
    BY <1>14 DEF LncSends
  <2>2. \A i \in DOMAIN fromLnc' :
          \/ i \in DOMAIN fromLnc /\ fromLnc'[i] = fromLnc[i]
          \/ fromLnc'[i] \notin Calls
    BY <2>1, Queues, Numbers DEF TypeOK
  <2>3. NoReply(fromLnc) => NoReply(fromLnc')
    BY <2>2 DEF NoReply
  <2>4. /\ \A i \in DOMAIN fromLnc' : fromLnc'[i] \in Calls => fromLnc'[i] = call
        /\ \A i, j \in DOMAIN fromLnc' : fromLnc'[i] \in Calls /\ fromLnc'[j] \in Calls => i = j
    BY <1>0, <2>2 DEF Single
  <2>5. Single'
    BY <1>0, <2>1, <2>3, <2>4 DEF Single
  <2> QED
    BY <1>0, <2>1, <2>5 DEF Values
<1>15. CASE LinkLoses
  <2>1. UNCHANGED <<pc, call, result, before, thresholds, rx, stored, answered>>
    BY <1>15 DEF LinkLoses, Lose
  <2>2. CASE toLnc # << >> /\ toLnc' = Tail(toLnc) /\ UNCHANGED fromLnc
    <3>1. \A i \in DOMAIN toLnc' : FALSE
      BY <1>0, <2>2, Queues DEF TypeOK, Single
    <3>2. toLnc' \in Seq(Calls)
      BY <2>2 DEF TypeOK
    <3>3. toLnc' = << >>
      BY <3>1, <3>2
    <3>4. Single'
      BY <1>0, <2>1, <2>2, <3>3 DEF Single, NoReply
    <3> QED
      BY <1>0, <2>1, <3>4 DEF Values
  <2>3. CASE fromLnc # << >> /\ fromLnc' = Tail(fromLnc) /\ UNCHANGED toLnc
    <3>1. \A i \in DOMAIN fromLnc' : /\ i + 1 \in DOMAIN fromLnc /\ fromLnc'[i] = fromLnc[i + 1]
                                     /\ i \in Nat \ {0}
      BY <2>3, Queues DEF TypeOK
    <3>2. /\ \A i \in DOMAIN fromLnc' : fromLnc'[i] \in Calls => fromLnc'[i] = call
          /\ \A i, j \in DOMAIN fromLnc' : fromLnc'[i] \in Calls /\ fromLnc'[j] \in Calls => i = j
      BY <1>0, <3>1 DEF Single
    <3>3. NoReply(fromLnc) => NoReply(fromLnc')
      BY <3>1 DEF NoReply
    <3>4. Single'
      BY <1>0, <2>1, <2>3, <3>2, <3>3 DEF Single
    <3> QED
      BY <1>0, <2>1, <3>4 DEF Values
  <2> QED
    BY <1>15, <2>2, <2>3 DEF LinkLoses, Lose
<1> QED
  BY <1>1, <1>2, <1>3, <1>4, <1>5, <1>6, <1>7, <1>8, <1>9, <1>10, <1>11, <1>12, <1>13,
      <1>14,
     <1>15, CallSteps
  DEF HandleConfigReply

\* As long as no answer has outlived its call, thresholds() tell this call's reply when
\* get_config() has returned true and are as they were when it has returned false,
\* however many calls, lost frames and new connections there have been.
THEOREM Punctual == Spec => []PunctualResult
<1>1. PromiseInv => PunctualResult
  <2> SUFFICES ASSUME PromiseInv, ~late, pc = "draw"
               PROVE  thresholds = IF result THEN [f \in Fields |-> call] ELSE before
    BY DEF PunctualResult, ResultTellsThresholds
  <2>1. Values /\ rx \notin Calls
    BY DEF PromiseInv, Single
  <2> QED
    BY <2>1 DEF Values
<1> QED
  BY <1>1, InitPromise, NextPromise, InitEarned, NextEarned, InitTypes, NextTypes,
      LifeAlways,
     PTL DEF Spec
=============================================================================
