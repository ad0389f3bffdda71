---------------------------- MODULE LncTasksProofs ----------------------------
(***************************************************************************)
(* LocksAreOrdered, what follows for who waits for whom, and               *)
(* AliveIsAnnounced of LncTasks, for every number of levels, commands,     *)
(* files and changes.                                                      *)
(***************************************************************************)
EXTENDS LncTasks, TLAPS

\* Where each task can be, and the lock it holds there.
Places == [monitor   |-> {"sample", "classify", "event", "tell", "log", "publish", "setMode",
                          "setData"},
           keepalive |-> {"take", "copyData", "copyMode", "send"},
           rx        |-> {"wait", "set", "get", "query", "store", "report", "stored", "lines"}]

Held(place) ==
  IF place \in {"store", "report", "stored"} THEN "config"
  ELSE IF place = "lines" THEN "sd"
  ELSE IF place \in {"setMode", "setData", "copyData", "copyMode"} THEN "latest"
  ELSE Free

PlacesOK ==
  /\ DOMAIN pc = Tasks
  /\ pc = [t \in Tasks |-> pc[t]]
  /\ \A t \in Tasks : pc[t] \in Places[t]

\* A lock belongs to the task that is where the lock is held.
OwnersHold == \A t \in Tasks, l \in Locks : owner[l] = t <=> Held(pc[t]) = l

\* A query has files to search.
FilesLeft == pc["rx"] \in {"query", "lines"} => files \in 1..MaxFiles

\* TypeOK without what follows from the owners.
Types ==
  /\ world \in Readings
  /\ limits \in [Sensors -> Bounds]
  /\ owner \in [Locks -> Tasks \cup {Free}]
  /\ files \in 0..MaxFiles
  /\ dht \in Levels /\ data \in Readings
  /\ newMode \in Modes /\ mode \in Modes /\ lastData \in Nat
  /\ taken \in Reports /\ alive \in Reports
  /\ told \in Seq(Modes)
  /\ changes \in 0..MaxChanges /\ commands \in 0..MaxCommands /\ missed \in 0..MaxMissed

LockInv == Types /\ PlacesOK /\ OwnersHold /\ FilesLeft

\* The last MODE_CHANGE told the published mode, or the one to be published.
LastTold ==
  /\ Len(told) \in Nat \ {0}
  /\ told[Len(told)] = IF pc["monitor"] \in {"sample", "classify", "event", "tell"}
                       THEN mode ELSE newMode

\* The published mode is the last that had been told when it was published,
\* but for the instant in which monitor_task sets the pair under the lock.
Published ==
  /\ lastData \in 1..Len(told)
  /\ IF pc["monitor"] = "setData" THEN mode = newMode ELSE mode = told[lastData]

\* The copies of keepalive_task are of one publication.
Copied ==
  /\ pc["keepalive"] = "copyMode" => taken.data = lastData
  /\ pc["keepalive"] = "send" => taken.data \in 1..Len(told) /\ taken.mode = told[taken.data]

Sent == alive.data \in 1..Len(told) /\ alive.mode = told[alive.data]

IInv == LockInv /\ LastTold /\ Published /\ Copied /\ Sent

-----------------------------------------------------------------------------
LEMMA PlacesOf ==
  /\ Places["monitor"] = {"sample", "classify", "event", "tell", "log", "publish", "setMode",
                          "setData"}
  /\ Places["keepalive"] = {"take", "copyData", "copyMode", "send"}
  /\ Places["rx"] = {"wait", "set", "get", "query", "store", "report", "stored", "lines"}
  BY DEF Places

\* The mode made of any reading and any limits is a mode.
LEMMA ModeOfReading ==
  ASSUME NEW r, NEW lim PROVE ClassifyMode(r, lim) \in Modes
  BY DEF ClassifyMode, Modes

LEMMA InitLocks == Init => LockInv
<1> SUFFICES ASSUME Init PROVE LockInv
  OBVIOUS
<1>1. /\ pc = [t \in Tasks |-> pc[t]] /\ DOMAIN pc = Tasks
      /\ pc["monitor"] = "sample" /\ pc["keepalive"] = "take" /\ pc["rx"] = "wait"
  BY DEF Init, Tasks
<1>2. PlacesOK
  BY <1>1, PlacesOf DEF PlacesOK, Tasks
<1>3. OwnersHold
  BY <1>1 DEF OwnersHold, Held, Init, Locks, Tasks, Free
<1>4. Types
  <2>1. limits \in [Sensors -> Bounds]
    BY LncTasksAssumption DEF Init, Bounds
  <2>2. told \in Seq(Modes) /\ Len(told) = 1
    BY DEF Init, Modes
  <2>3. taken \in Reports /\ alive \in Reports
    BY DEF Init, Reports, Modes
  <2>4. NoReading \in Readings
    BY LncTasksAssumption DEF NoReading, Readings, Levels
  <2> QED
    BY <2>1, <2>2, <2>3, <2>4, LncTasksAssumption DEF Init, Types, Levels, Modes, Free
<1>5. FilesLeft
  BY <1>1 DEF FilesLeft
<1> QED
  BY <1>2, <1>3, <1>4, <1>5 DEF LockInv

-----------------------------------------------------------------------------
\* What the four ways of going from one place to another do to the owners.
LEMMA Going ==
  ASSUME PlacesOK, NEW t \in Tasks, NEW from, NEW to \in Places[t], Go(t, from, to)
  PROVE  /\ PlacesOK'
         /\ pc[t] = from /\ pc'[t] = to
         /\ \A u \in Tasks \ {t} : pc'[u] = pc[u]
  BY DEF PlacesOK, Go

LEMMA Staying ==
  ASSUME PlacesOK, OwnersHold, NEW t \in Tasks, NEW from, NEW to \in Places[t],
         Go(t, from, to), UNCHANGED owner, Held(from) = Held(to)
  PROVE  OwnersHold'
<1>1. pc[t] = from /\ pc'[t] = to /\ \A u \in Tasks \ {t} : pc'[u] = pc[u]
  BY Going
<1> QED
  BY <1>1 DEF OwnersHold

LEMMA Taking ==
  ASSUME PlacesOK, OwnersHold, NEW t \in Tasks, NEW from, NEW to \in Places[t],
         owner \in [Locks -> Tasks \cup {Free}],
         Take(t, from, to), Held(from) = Free, Held(to) = Wants(from), Wants(from) \in Locks
  PROVE  OwnersHold' /\ owner' \in [Locks -> Tasks \cup {Free}]
<1> DEFINE l == Wants(from)
<1>1. /\ pc[t] = from /\ pc'[t] = to /\ \A u \in Tasks \ {t} : pc'[u] = pc[u]
      /\ owner[l] = Free /\ owner' = [owner EXCEPT ![l] = t]
  BY Going DEF Take
<1>2. Free \notin Tasks /\ Free \notin Locks
  BY DEF Free, Tasks, Locks
<1>3. \A k \in Locks : owner'[k] = IF k = l THEN t ELSE owner[k]
  BY <1>1
<1>4. \A u \in Tasks : Held(pc[u]) # l
  BY <1>1, <1>2 DEF OwnersHold
<1>5. ASSUME NEW u \in Tasks, NEW k \in Locks
      PROVE  owner'[k] = u <=> Held(pc'[u]) = k
  <2>1. CASE u = t
    BY <2>1, <1>1, <1>2, <1>3 DEF OwnersHold
  <2>2. CASE u # t
    BY <2>2, <1>1, <1>3, <1>4 DEF OwnersHold
  <2> QED
    BY <2>1, <2>2
<1> QED
  BY <1>1, <1>5 DEF OwnersHold

LEMMA Releasing ==
  ASSUME PlacesOK, OwnersHold, NEW t \in Tasks, NEW from, NEW to \in Places[t],
         owner \in [Locks -> Tasks \cup {Free}],
         Go(t, from, to), NEW l \in Locks, Release(l), Held(from) = l, Held(to) = Free
  PROVE  OwnersHold' /\ owner' \in [Locks -> Tasks \cup {Free}]
<1>1. /\ pc[t] = from /\ pc'[t] = to /\ \A u \in Tasks \ {t} : pc'[u] = pc[u]
      /\ owner' = [owner EXCEPT ![l] = Free]
  BY Going DEF Release
<1>2. Free \notin Tasks /\ Free \notin Locks
  BY DEF Free, Tasks, Locks
<1>3. \A k \in Locks : owner'[k] = IF k = l THEN Free ELSE owner[k]
  BY <1>1
<1>4. owner[l] = t
  BY <1>1 DEF OwnersHold
<1>5. ASSUME NEW u \in Tasks, NEW k \in Locks
      PROVE  owner'[k] = u <=> Held(pc'[u]) = k
  <2>1. CASE u = t
    BY <2>1, <1>1, <1>2, <1>3 DEF OwnersHold
  <2>2. CASE u # t
    BY <2>2, <1>1, <1>2, <1>3, <1>4 DEF OwnersHold
  <2> QED
    BY <2>1, <2>2
<1> QED
  BY <1>1, <1>5 DEF OwnersHold

-----------------------------------------------------------------------------
\* A step that moves one task keeps what is known of places and owners; what is left
\* of LockInv is about the other variables.
LEMMA NextLocks == LockInv /\ [Next]_vars => LockInv'
<1> SUFFICES ASSUME LockInv, [Next]_vars PROVE LockInv'
  OBVIOUS
<1>0. Types /\ PlacesOK /\ OwnersHold /\ FilesLeft
  BY DEF LockInv
<1> DEFINE OwnersKept == OwnersHold' /\ owner' \in [Locks -> Tasks \cup {Free}]
<1>a. Tasks = {"monitor", "keepalive", "rx"} /\ Locks = {"config", "sd", "latest"}
  BY DEF Tasks, Locks
<1>b. owner \in [Locks -> Tasks \cup {Free}]
  BY <1>0 DEF Types
<1>1. CASE Sample
  <2>1. Go("monitor", "sample", "classify") /\ UNCHANGED owner
    BY <1>1 DEF Sample
  <2>2. PlacesOK'
    BY <1>0, <1>a, <2>1, Going, PlacesOf
  <2>3. OwnersKept
    BY <1>0, <1>a, <1>b, <2>1, Staying, PlacesOf DEF Held
  <2>4. dht' \in Levels /\ data' \in Readings /\ missed' \in 0..MaxMissed
    BY <1>0, <1>1, LncTasksAssumption DEF Types, Sample, Readings, Levels
  <2> QED
    BY <1>0, <1>1, <2>1, <2>2, <2>3, <2>4
    DEF LockInv, Types, FilesLeft, PlacesOK, Sample, Go, outside, monitor, keepalive, rx
<1>2. CASE Classify
  <2>1. Go("monitor", "classify", IF newMode' # mode THEN "event" ELSE "log") /\ UNCHANGED owner
    BY <1>2 DEF Classify, Within
  <2>2. PlacesOK'
    BY <1>0, <1>a, <2>1, Going, PlacesOf
  <2>3. OwnersKept
    BY <1>0, <1>a, <1>b, <2>1, Staying, PlacesOf DEF Held
  <2>4. newMode' \in Modes /\ data' \in Readings
    BY <1>2, ModeOfReading, LncTasksAssumption DEF Classify, NoReading, Readings, Levels
  <2> QED
    BY <1>0, <1>2, <2>1, <2>2, <2>3, <2>4
    DEF LockInv, Types, FilesLeft, PlacesOK, Classify, Go, Within, outside, monitor,
        keepalive, rx
<1>3. CASE WriteEvent
  <2>1. Go("monitor", "event", "tell") /\ UNCHANGED owner
    BY <1>3 DEF WriteEvent, Within
  <2>2. PlacesOK'
    BY <1>0, <1>a, <2>1, Going, PlacesOf
  <2>3. OwnersKept
    BY <1>0, <1>a, <1>b, <2>1, Staying, PlacesOf DEF Held
  <2> QED
    BY <1>0, <1>3, <2>1, <2>2, <2>3
    DEF LockInv, Types, FilesLeft, PlacesOK, WriteEvent, Go, Within, outside, monitor,
        keepalive, rx
<1>4. CASE TellModeChange
  <2>1. Go("monitor", "tell", "log") /\ UNCHANGED owner
    BY <1>4 DEF TellModeChange
  <2>2. PlacesOK'
    BY <1>0, <1>a, <2>1, Going, PlacesOf
  <2>3. OwnersKept
    BY <1>0, <1>a, <1>b, <2>1, Staying, PlacesOf DEF Held
  <2>4. told' \in Seq(Modes)
    BY <1>0, <1>4 DEF Types, TellModeChange
  <2> QED
    BY <1>0, <1>4, <2>1, <2>2, <2>3, <2>4
    DEF LockInv, Types, FilesLeft, PlacesOK, TellModeChange, Go, outside, monitor,
        keepalive, rx
<1>5. CASE LogWrite
  <2>1. Go("monitor", "log", "publish") /\ UNCHANGED owner
    BY <1>5 DEF LogWrite, Within
  <2>2. PlacesOK'
    BY <1>0, <1>a, <2>1, Going, PlacesOf
  <2>3. OwnersKept
    BY <1>0, <1>a, <1>b, <2>1, Staying, PlacesOf DEF Held
  <2> QED
    BY <1>0, <1>5, <2>1, <2>2, <2>3
    DEF LockInv, Types, FilesLeft, PlacesOK, LogWrite, Go, Within, outside, monitor,
        keepalive, rx
<1>6. CASE TakeLatest
  <2>1. Take("monitor", "publish", "setMode")
    BY <1>6 DEF TakeLatest
  <2>2. PlacesOK'
    BY <1>0, <1>a, <2>1, Going, PlacesOf DEF Take
  <2>3. OwnersKept
    BY <1>0, <1>a, <1>b, <2>1, Taking, PlacesOf DEF Held, Wants, Free
  <2> QED
    BY <1>0, <1>6, <2>1, <2>2, <2>3
    DEF LockInv, Types, FilesLeft, PlacesOK, TakeLatest, Go, Take, outside, monitor,
        keepalive, rx
<1>7. CASE PublishMode
  <2>1. Go("monitor", "setMode", "setData") /\ UNCHANGED owner
    BY <1>7 DEF PublishMode
  <2>2. PlacesOK'
    BY <1>0, <1>a, <2>1, Going, PlacesOf
  <2>3. OwnersKept
    BY <1>0, <1>a, <1>b, <2>1, Staying, PlacesOf DEF Held
  <2> QED
    BY <1>0, <1>7, <2>1, <2>2, <2>3
    DEF LockInv, Types, FilesLeft, PlacesOK, PublishMode, Go, outside, monitor, keepalive,
        rx
<1>8. CASE PublishData
  <2>1. Go("monitor", "setData", "sample") /\ Release("latest")
    BY <1>8 DEF PublishData
  <2>2. PlacesOK'
    BY <1>0, <1>a, <2>1, Going, PlacesOf
  <2>3. OwnersKept
    BY <1>0, <1>a, <1>b, <2>1, Releasing, PlacesOf DEF Held, Free
  <2> QED
    BY <1>0, <1>8, <2>1, <2>2, <2>3
    DEF LockInv, Types, FilesLeft, PlacesOK, PublishData, Go, outside, monitor, keepalive,
        rx
<1>9. CASE GetLatest
  <2>1. Take("keepalive", "take", "copyData")
    BY <1>9 DEF GetLatest
  <2>2. PlacesOK'
    BY <1>0, <1>a, <2>1, Going, PlacesOf DEF Take
  <2>3. OwnersKept
    BY <1>0, <1>a, <1>b, <2>1, Taking, PlacesOf DEF Held, Wants, Free
  <2> QED
    BY <1>0, <1>9, <2>1, <2>2, <2>3
    DEF LockInv, Types, FilesLeft, PlacesOK, GetLatest, Go, Take, outside, monitor,
        keepalive, rx
<1>10. CASE CopyData
  <2>1. Go("keepalive", "copyData", "copyMode") /\ UNCHANGED owner
    BY <1>10 DEF CopyData
  <2>2. PlacesOK'
    BY <1>0, <1>a, <2>1, Going, PlacesOf
  <2>3. OwnersKept
    BY <1>0, <1>a, <1>b, <2>1, Staying, PlacesOf DEF Held
  <2>4. taken' \in Reports
    BY <1>0, <1>10 DEF Types, CopyData, Reports
  <2> QED
    BY <1>0, <1>10, <2>1, <2>2, <2>3, <2>4
    DEF LockInv, Types, FilesLeft, PlacesOK, CopyData, Go, outside, monitor, keepalive, rx
<1>11. CASE CopyMode
  <2>1. Go("keepalive", "copyMode", "send") /\ Release("latest")
    BY <1>11 DEF CopyMode
  <2>2. PlacesOK'
    BY <1>0, <1>a, <2>1, Going, PlacesOf
  <2>3. OwnersKept
    BY <1>0, <1>a, <1>b, <2>1, Releasing, PlacesOf DEF Held, Free
  <2>4. taken' \in Reports
    BY <1>0, <1>11 DEF Types, CopyMode, Reports
  <2> QED
    BY <1>0, <1>11, <2>1, <2>2, <2>3, <2>4
    DEF LockInv, Types, FilesLeft, PlacesOK, CopyMode, Go, outside, monitor, keepalive, rx
<1>12. CASE SendKeepAlive
  <2>1. Go("keepalive", "send", "take") /\ UNCHANGED owner
    BY <1>12 DEF SendKeepAlive
  <2>2. PlacesOK'
    BY <1>0, <1>a, <2>1, Going, PlacesOf
  <2>3. OwnersKept
    BY <1>0, <1>a, <1>b, <2>1, Staying, PlacesOf DEF Held
  <2> QED
    BY <1>0, <1>12, <2>1, <2>2, <2>3
    DEF LockInv, Types, FilesLeft, PlacesOK, SendKeepAlive, Go, outside, monitor,
        keepalive, rx
<1>13. CASE GetConfig
  <2>1. Go("rx", "get", "wait") /\ UNCHANGED owner
    BY <1>13 DEF GetConfig, Within
  <2>2. PlacesOK'
    BY <1>0, <1>a, <2>1, Going, PlacesOf
  <2>3. OwnersKept
    BY <1>0, <1>a, <1>b, <2>1, Staying, PlacesOf DEF Held
  <2> QED
    BY <1>0, <1>13, <2>1, <2>2, <2>3
    DEF LockInv, Types, FilesLeft, PlacesOK, GetConfig, Go, Within, outside, monitor,
        keepalive, rx
<1>14. CASE SetConfig
  <2>1. Take("rx", "set", "store")
    BY <1>14 DEF SetConfig
  <2>2. PlacesOK'
    BY <1>0, <1>a, <2>1, Going, PlacesOf DEF Take
  <2>3. OwnersKept
    BY <1>0, <1>a, <1>b, <2>1, Taking, PlacesOf DEF Held, Wants, Free
  <2> QED
    BY <1>0, <1>14, <2>1, <2>2, <2>3
    DEF LockInv, Types, FilesLeft, PlacesOK, SetConfig, Go, Take, outside, monitor,
        keepalive, rx
<1>15. CASE Store
  <2>1. Go("rx", "store", "report") /\ UNCHANGED owner
    BY <1>15 DEF Store
  <2>2. PlacesOK'
    BY <1>0, <1>a, <2>1, Going, PlacesOf
  <2>3. OwnersKept
    BY <1>0, <1>a, <1>b, <2>1, Staying, PlacesOf DEF Held
  <2>4. limits' \in [Sensors -> Bounds]
    <3>1. PICK s \in Sensors, f \in {"normal", "warning"}, v \in 0..MaxLevel + 1 :
            limits' = [limits EXCEPT ![s] = [@ EXCEPT ![f] = v]]
      BY <1>15 DEF Store
    <3>2. limits \in [Sensors -> Bounds]
      BY <1>0 DEF Types
    <3>3. [limits[s] EXCEPT ![f] = v] \in Bounds
      BY <3>2 DEF Bounds
    <3> QED
      BY <3>1, <3>2, <3>3
  <2> QED
    BY <1>0, <1>15, <2>1, <2>2, <2>3, <2>4
    DEF LockInv, Types, FilesLeft, PlacesOK, Store, Go, outside, monitor, keepalive, rx
<1>16. CASE ReportChange
  <2>1. Go("rx", "report", "stored") /\ UNCHANGED owner
    BY <1>16 DEF ReportChange, Within
  <2>2. PlacesOK'
    BY <1>0, <1>a, <2>1, Going, PlacesOf
  <2>3. OwnersKept
    BY <1>0, <1>a, <1>b, <2>1, Staying, PlacesOf DEF Held
  <2> QED
    BY <1>0, <1>16, <2>1, <2>2, <2>3
    DEF LockInv, Types, FilesLeft, PlacesOK, ReportChange, Go, Within, outside, monitor,
        keepalive, rx
<1>17. CASE SetReturns
  <2>1. Go("rx", "stored", "wait") /\ Release("config")
    BY <1>17 DEF SetReturns
  <2>2. PlacesOK'
    BY <1>0, <1>a, <2>1, Going, PlacesOf
  <2>3. OwnersKept
    BY <1>0, <1>a, <1>b, <2>1, Releasing, PlacesOf DEF Held, Free
  <2> QED
    BY <1>0, <1>17, <2>1, <2>2, <2>3
    DEF LockInv, Types, FilesLeft, PlacesOK, SetReturns, Go, outside, monitor, keepalive, rx
<1>18. CASE OpenFile
  <2>1. Take("rx", "query", "lines")
    BY <1>18 DEF OpenFile
  <2>2. PlacesOK'
    BY <1>0, <1>a, <2>1, Going, PlacesOf DEF Take
  <2>3. OwnersKept
    BY <1>0, <1>a, <1>b, <2>1, Taking, PlacesOf DEF Held, Wants, Free
  <2> QED
    BY <1>0, <1>18, <2>1, <2>2, <2>3
    DEF LockInv, Types, FilesLeft, PlacesOK, OpenFile, Go, Take, outside, monitor,
        keepalive, rx
<1>19. CASE CloseFile
  <2>1. Go("rx", "lines", IF files' = 0 THEN "wait" ELSE "query") /\ Release("sd")
    BY <1>19 DEF CloseFile
  <2>2. PlacesOK'
    BY <1>0, <1>a, <2>1, Going, PlacesOf
  <2>3. OwnersKept
    BY <1>0, <1>a, <1>b, <2>1, Releasing, PlacesOf DEF Held, Free
  <2>4. files' \in 0..MaxFiles /\ (files' # 0 => files' \in 1..MaxFiles)
    BY <1>0, <1>19, LncTasksAssumption DEF CloseFile, Go, FilesLeft
  <2>5. pc'["rx"] = (IF files' = 0 THEN "wait" ELSE "query")
    BY <1>0, <2>1 DEF Go, PlacesOK, Tasks
  <2>6. UNCHANGED <<outside, commands, limits, monitor, keepalive>>
    BY <1>19 DEF CloseFile
  <2>7. Types'
    BY <1>0, <2>3, <2>4, <2>6 DEF Types, outside, monitor, keepalive
  <2>8. FilesLeft'
    BY <2>4, <2>5 DEF FilesLeft
  <2> QED
    BY <2>2, <2>3, <2>7, <2>8 DEF LockInv
<1>20. CASE FrameArrives
  <2>1. PICK to \in {"set", "get", "query"} : Go("rx", "wait", to)
    BY <1>20 DEF FrameArrives
  <2>2. PlacesOK'
    BY <1>0, <1>a, <2>1, Going, PlacesOf
  <2>3. OwnersKept
    BY <1>0, <1>a, <1>b, <1>20, <2>1, Staying, PlacesOf DEF Held, FrameArrives
  <2>4. files' \in 0..MaxFiles /\ (pc'["rx"] = "query" => files' \in 1..MaxFiles) /\ pc'["rx"] # "lines"
    BY <1>0, <1>20, <2>1, LncTasksAssumption DEF Types, FrameArrives, Go, PlacesOK, Tasks
  <2>5. commands' \in 0..MaxCommands
    BY <1>0, <1>20, LncTasksAssumption DEF Types, FrameArrives
  <2>6. UNCHANGED <<outside, limits, owner, monitor, keepalive>>
    BY <1>20 DEF FrameArrives
  <2>7. Types'
    BY <1>0, <2>3, <2>4, <2>5, <2>6 DEF Types, outside, monitor, keepalive
  <2>8. FilesLeft'
    BY <2>4 DEF FilesLeft
  <2> QED
    BY <2>2, <2>3, <2>7, <2>8 DEF LockInv
<1>21. CASE WorldChanges
  <2>1. changes' \in 0..MaxChanges /\ world' \in Readings
    BY <1>0, <1>21, LncTasksAssumption DEF Types, WorldChanges
  <2> QED
    BY <1>0, <1>21, <2>1
    DEF LockInv, Types, PlacesOK, OwnersHold, FilesLeft, WorldChanges, monitor, keepalive,
        rx
<1>22. CASE UNCHANGED vars
  BY <1>0, <1>22
  DEF LockInv, Types, PlacesOK, OwnersHold, FilesLeft, vars, outside, monitor, keepalive, rx
<1> QED
  BY <1>1, <1>2, <1>3, <1>4, <1>5, <1>6, <1>7, <1>8, <1>9, <1>10, <1>11, <1>12, <1>13,
      <1>14, <1>15, <1>16, <1>17, <1>18, <1>19, <1>20, <1>21, <1>22
  DEF Next, MonitorStep, KeepAliveStep, RxStep

-----------------------------------------------------------------------------
\* An entry of a history is still there when the history has grown.
LEMMA Growing ==
  ASSUME NEW h \in Seq(Modes), NEW m, NEW i \in 1..Len(h)
  PROVE  /\ i \in 1..Len(Append(h, m))
         /\ Append(h, m)[i] = h[i]
  OBVIOUS

LEMMA InitRest == Init => LastTold /\ Published /\ Copied /\ Sent
  BY DEF Init, LastTold, Published, Copied, Sent, Tasks

\* What monitor_task and keepalive_task can change of the pair, the copies and the
\* history: nothing else writes them.
LEMMA NextRest == IInv /\ [Next]_vars => (LastTold /\ Published /\ Copied /\ Sent)'
<1> SUFFICES ASSUME IInv, [Next]_vars PROVE (LastTold /\ Published /\ Copied /\ Sent)'
  OBVIOUS
<1>0. /\ Types /\ PlacesOK /\ OwnersHold
      /\ LastTold /\ Published /\ Copied /\ Sent
  BY DEF IInv, LockInv
<1>a. \A t, u \in Tasks : \A from, to : Go(t, from, to) =>
        /\ pc[t] = from /\ pc'[t] = to
        /\ u # t => pc'[u] = pc[u]
  BY <1>0 DEF Go, PlacesOK
<1>b. "monitor" \in Tasks /\ "keepalive" \in Tasks /\ "rx" \in Tasks
  BY DEF Tasks
<1>c. told \in Seq(Modes) /\ lastData \in Nat
  BY <1>0 DEF Types
<1>1. ASSUME UNCHANGED <<mode, lastData, newMode, told, taken, alive>>,
             pc'["keepalive"] = pc["keepalive"],
             \/ pc'["monitor"] = pc["monitor"]
             \/ pc["monitor"] = "sample" /\ pc'["monitor"] = "classify"
             \/ pc["monitor"] = "event" /\ pc'["monitor"] = "tell"
             \/ pc["monitor"] = "log" /\ pc'["monitor"] = "publish"
             \/ pc["monitor"] = "publish" /\ pc'["monitor"] = "setMode"
      PROVE  (LastTold /\ Published /\ Copied /\ Sent)'
  BY <1>0, <1>1 DEF LastTold, Published, Copied, Sent
<1>2. CASE Sample
  BY <1>1, <1>2, <1>a, <1>b DEF Sample, keepalive
<1>3. CASE WriteEvent
  BY <1>1, <1>3, <1>a, <1>b DEF WriteEvent, Within, monitor, keepalive
<1>4. CASE LogWrite
  BY <1>1, <1>4, <1>a, <1>b DEF LogWrite, Within, monitor, keepalive
<1>5. CASE TakeLatest
  BY <1>1, <1>5, <1>a, <1>b DEF TakeLatest, Take, monitor, keepalive
<1>6. ASSUME RxStep \/ FrameArrives \/ WorldChanges \/ UNCHANGED vars
      PROVE  (LastTold /\ Published /\ Copied /\ Sent)'
  <2>1. UNCHANGED <<mode, lastData, newMode, told, taken, alive>>
    BY <1>6 DEF RxStep, FrameArrives, WorldChanges, vars, GetConfig, SetConfig, Store,
                ReportChange, SetReturns, OpenFile, CloseFile, monitor, keepalive
  <2>2. pc'["keepalive"] = pc["keepalive"] /\ pc'["monitor"] = pc["monitor"]
    <3>1. ASSUME NEW from, NEW to, Go("rx", from, to)
          PROVE  pc'["keepalive"] = pc["keepalive"] /\ pc'["monitor"] = pc["monitor"]
      BY <3>1, <1>a, <1>b
    <3>2. CASE UNCHANGED pc
      BY <3>2
    <3>3. UNCHANGED pc \/ \E from, to : Go("rx", from, to)
      BY <1>6 DEF RxStep, FrameArrives, WorldChanges, vars, GetConfig, SetConfig, Store,
                  ReportChange, SetReturns, OpenFile, CloseFile, Take, Within
    <3> QED
      BY <3>1, <3>2, <3>3
  <2> QED
    BY <1>1, <2>1, <2>2
\* The mode to be published is that of this round, and told already if it is the old one.
<1>7. CASE Classify
  <2>1. /\ UNCHANGED <<mode, lastData, told, taken, alive>>
        /\ pc["monitor"] = "classify" /\ pc'["keepalive"] = pc["keepalive"]
        /\ pc'["monitor"] = IF newMode' # mode THEN "event" ELSE "log"
    BY <1>7, <1>a, <1>b DEF Classify, Within, keepalive
  <2> QED
    BY <1>0, <2>1 DEF LastTold, Published, Copied, Sent
<1>8. CASE TellModeChange
  <2>1. /\ UNCHANGED <<mode, lastData, newMode, taken, alive>>
        /\ pc["monitor"] = "tell" /\ pc'["keepalive"] = pc["keepalive"]
        /\ pc'["monitor"] = "log"
        /\ told' = Append(told, newMode)
    BY <1>8, <1>a, <1>b DEF TellModeChange, keepalive
  <2>2. /\ \A i \in 1..Len(told) : i \in 1..Len(told') /\ told'[i] = told[i]
        /\ Len(told') = Len(told) + 1 /\ told'[Len(told')] = newMode
    BY <1>c, <2>1
  <2>3. LastTold'
    BY <1>0, <2>1, <2>2 DEF LastTold
  <2>4. Published'
    BY <1>0, <2>1, <2>2 DEF Published
  <2>5. Copied'
    BY <1>0, <2>1, <2>2 DEF Copied
  <2>6. Sent'
    BY <1>0, <2>1, <2>2 DEF Sent
  <2> QED
    BY <2>3, <2>4, <2>5, <2>6
\* While the pair is set the lock keeps keepalive_task out of its two copies.
<1>d. pc["monitor"] \in {"setMode", "setData"} =>
        pc["keepalive"] \notin {"copyData", "copyMode"}
  <2>1. "latest" \in Locks
    BY DEF Locks
  <2> QED
    BY <1>0, <1>b, <2>1 DEF OwnersHold, Held
<1>9. CASE PublishMode
  <2>1. /\ UNCHANGED <<lastData, newMode, told, taken, alive>>
        /\ pc["monitor"] = "setMode" /\ pc'["keepalive"] = pc["keepalive"]
        /\ pc'["monitor"] = "setData" /\ mode' = newMode
    BY <1>9, <1>a, <1>b DEF PublishMode, keepalive
  <2> QED
    BY <1>0, <2>1 DEF LastTold, Published, Copied, Sent
<1>10. CASE PublishData
  <2>1. /\ UNCHANGED <<mode, newMode, told, taken, alive>>
        /\ pc["monitor"] = "setData" /\ pc'["keepalive"] = pc["keepalive"]
        /\ pc'["monitor"] = "sample" /\ lastData' = Len(told)
    BY <1>10, <1>a, <1>b DEF PublishData, keepalive
  <2> QED
    BY <1>0, <1>d, <2>1 DEF LastTold, Published, Copied, Sent
<1>11. CASE GetLatest
  <2>1. /\ UNCHANGED <<mode, lastData, newMode, told, taken, alive>>
        /\ pc'["monitor"] = pc["monitor"] /\ pc'["keepalive"] = "copyData"
    BY <1>11, <1>a, <1>b DEF GetLatest, Take, monitor, keepalive
  <2> QED
    BY <1>0, <2>1 DEF LastTold, Published, Copied, Sent
<1>12. CASE CopyData
  <2>1. /\ UNCHANGED <<mode, lastData, newMode, told, alive>>
        /\ pc'["monitor"] = pc["monitor"] /\ pc'["keepalive"] = "copyMode"
        /\ taken' = [taken EXCEPT !.data = lastData]
    BY <1>12, <1>a, <1>b DEF CopyData, monitor
  <2>2. taken'.data = lastData
    BY <1>0, <2>1 DEF Types, Reports
  <2> QED
    BY <1>0, <2>1, <2>2 DEF LastTold, Published, Copied, Sent
<1>13. CASE CopyMode
  <2>1. /\ UNCHANGED <<mode, lastData, newMode, told, alive>>
        /\ pc'["monitor"] = pc["monitor"] /\ pc'["keepalive"] = "send"
        /\ pc["keepalive"] = "copyMode"
        /\ taken' = [taken EXCEPT !.mode = mode]
    BY <1>13, <1>a, <1>b DEF CopyMode, monitor
  <2>2. taken'.data = lastData /\ taken'.mode = mode
    BY <1>0, <2>1 DEF Types, Reports, Copied
  <2> QED
    BY <1>0, <1>d, <2>1, <2>2 DEF LastTold, Published, Copied, Sent
<1>14. CASE SendKeepAlive
  <2>1. /\ UNCHANGED <<mode, lastData, newMode, told, taken>>
        /\ pc'["monitor"] = pc["monitor"] /\ pc'["keepalive"] = "take"
        /\ pc["keepalive"] = "send" /\ alive' = taken
    BY <1>14, <1>a, <1>b DEF SendKeepAlive, monitor
  <2> QED
    BY <1>0, <2>1 DEF LastTold, Published, Copied, Sent
<1> QED
  BY <1>2, <1>3, <1>4, <1>5, <1>6, <1>7, <1>8, <1>9, <1>10, <1>11, <1>12, <1>13, <1>14
  DEF Next, MonitorStep, KeepAliveStep

-----------------------------------------------------------------------------
\* A task that holds a lock wants none, but for the line of a command.
LEMMA WhoHoldsWaitsForTheCardOnly ==
  ASSUME LockInv, NEW l \in Locks, owner[l] # Free
  PROVE  /\ Wants(pc[owner[l]]) = Free \/ (l = "config" /\ Wants(pc[owner[l]]) = "sd")
         /\ Wants(pc[owner[l]]) # l
<1>1. owner[l] \in Tasks /\ Held(pc[owner[l]]) = l
  BY DEF LockInv, Types, OwnersHold
<1>2. pc[owner[l]] \in {"store", "report", "stored", "lines", "setMode", "setData", "copyData",
                        "copyMode"}
  BY <1>1 DEF Held, Locks, Free
<1> QED
  BY <1>1, <1>2 DEF Held, Wants, Locks, Free

\* The inductive invariant holds in every state.
THEOREM Invariance == Spec => []IInv
<1>1. Init => IInv
  BY InitLocks, InitRest DEF IInv
<1>2. IInv /\ [Next]_vars => IInv'
  <2>1. IInv /\ [Next]_vars => LockInv'
    BY NextLocks DEF IInv
  <2> QED
    BY <2>1, NextRest DEF IInv
<1> QED
  BY <1>1, <1>2, PTL DEF Spec

\* Every variable keeps its type, and no task waits for a lock that it holds.
THEOREM TypeCorrect == Spec => []TypeOK
<1>1. IInv => TypeOK
  BY WhoHoldsWaitsForTheCardOnly, LncTasksAssumption
  DEF IInv, LockInv, Types, Published, TypeOK
<1> QED
  BY <1>1, Invariance, PTL

\* The three locks are taken in one order, for any number of commands and files:
\* monitor_task, keepalive_task and comm_rx_task never wait in a circle.
THEOREM LocksOrdered == Spec => []LocksAreOrdered
<1>1. IInv => LocksAreOrdered
  BY WhoHoldsWaitsForTheCardOnly DEF IInv, LocksAreOrdered
<1> QED
  BY <1>1, Invariance, PTL

\* Task t is at a lock that is taken.
Waits(t) == Wants(pc[t]) # Free /\ owner[Wants(pc[t])] # Free

\* Whoever waits waits for a task that can go on.
WaitsEnd ==
  \A t \in Tasks : Waits(t) =>
    LET holder == owner[Wants(pc[t])]
    IN  holder \in Tasks \ {t} /\ ~Waits(holder)

\* However monitor_task, keepalive_task and comm_rx_task meet at the three locks, a task
\* that waits is at most one step behind the one that frees it: the one pair of locks
\* that are held together, for the line a command writes, is only ever held by comm_rx_task.
THEOREM NobodyWaitsForAWaiter == Spec => []WaitsEnd
<1>1. ASSUME IInv, NEW t \in Tasks, Waits(t)
      PROVE  LET holder == owner[Wants(pc[t])]
             IN  holder \in Tasks \ {t} /\ ~Waits(holder)
  <2> DEFINE l == Wants(pc[t])
             holder == owner[l]
  <2>0. LockInv
    BY <1>1 DEF IInv
  <2>1. l \in Locks /\ owner[l] # Free
    BY <1>1 DEF Waits, Wants, Locks, Free
  <2>2. holder \in Tasks \ {t} /\ (Wants(pc[holder]) = Free \/ (l = "config" /\ Wants(pc[holder]) = "sd"))
    BY <2>0, <2>1, WhoHoldsWaitsForTheCardOnly DEF LockInv, Types
  <2>3. ASSUME Waits(holder) PROVE FALSE
    <3>1. l = "config" /\ Wants(pc[holder]) = "sd" /\ owner["sd"] # Free /\ "sd" \in Locks
      BY <2>2, <2>3 DEF Waits, Locks
    <3>2. Held(pc[holder]) = "config" /\ owner["sd"] \in Tasks /\ Held(pc[owner["sd"]]) = "sd"
      BY <2>0, <2>1, <2>2, <3>1 DEF LockInv, Types, OwnersHold
    <3>3. pc[holder] \in {"store", "report", "stored"} /\ pc[owner["sd"]] = "lines"
      BY <3>2 DEF Held, Free
    <3>4. holder = "rx" /\ owner["sd"] = "rx"
      BY <2>0, <2>2, <3>2, <3>3 DEF LockInv, PlacesOK, Places, Tasks
    <3> QED
      BY <3>3, <3>4
  <2> QED
    BY <2>2, <2>3
<1>2. IInv => WaitsEnd
  BY <1>1 DEF WaitsEnd
<1> QED
  BY <1>2, Invariance, PTL

\* A keep-alive tells the mode and the measurement of one round, and only a mode
\* that a MODE_CHANGE told before it.
THEOREM KeepAliveAnnounced == Spec => []AliveIsAnnounced
<1>1. IInv => AliveIsAnnounced
  BY DEF IInv, Sent, AliveIsAnnounced
<1> QED
  BY <1>1, Invariance, PTL
=============================================================================
