---------------------------- MODULE LncLogProofs ----------------------------
(***************************************************************************)
(* Type correctness, OnlyRevisitedDaysAreLost, QueryIsComplete and         *)
(* OneDayPerSlot of LncLog, for every number of days, resets, time syncs,  *)
(* failures and queries.                                                   *)
(***************************************************************************)
EXTENDS LncLog, TLAPS

Waiting == saved \ revisited

\* What an action needs to know of the types: TypeOK without the bounds.
Shape ==
  /\ today \in Days /\ stamp \in Days
  /\ card \in [Slots -> SUBSET Days]
  /\ saved \subseteq Days
  /\ pc \in {"idle", "delete", "save"}

\* While a file is to be deleted or written, it is that of the line's day.
FileIsOpen == pc = "save" => last = SlotOf(stamp)

\* The file to be deleted holds no line that has to wait for its weekday.
NothingToLose == pc = "delete" => \A l \in Waiting : SlotOf(l) # SlotOf(stamp)

\* A line of this weekday that does not wait any more was written by monitor_task
\* since the clock came here, and log.c remembers its file.
TodaysFileIsKnown ==
  \A l \in Waiting :
    SlotOf(l) = SlotOf(today) => /\ last = SlotOf(l)
                                 /\ pc # "idle" => SlotOf(stamp) = SlotOf(today)

KeepInv ==
  /\ Shape
  /\ FileIsOpen
  /\ NothingToLose
  /\ TodaysFileIsKnown
  /\ OnlyRevisitedDaysAreLost

-----------------------------------------------------------------------------
LEMMA SlotsOfDays == \A day \in Days : SlotOf(day) \in Slots
  BY LncLogAssumption DEF Days, SlotOf, WeekDay, Slots

\* A boot comes to a day, whether or not the DS1307 can be read.
LEMMA BootDaysAreDays == today \in Days => \A day \in BootDays : day \in Days
  BY LncLogAssumption DEF BootDays, Days, PowerOnDay

\* When the clock comes to a day, every saved line of its weekday is released.
LEMMA Coming ==
  ASSUME NEW day, ComesTo(day), UNCHANGED saved
  PROVE  /\ \A l \in Waiting' : SlotOf(l) # SlotOf(today')
         /\ Waiting' \subseteq Waiting
  BY DEF ComesTo, Waiting

LEMMA InitKeeps == Init => KeepInv
  BY LncLogAssumption
  DEF Init, KeepInv, Shape, FileIsOpen, NothingToLose, TodaysFileIsKnown,
      OnlyRevisitedDaysAreLost, Waiting, Days

LEMMA NextKeeps == KeepInv /\ [Next]_vars => KeepInv'
<1> SUFFICES ASSUME KeepInv, [Next]_vars PROVE KeepInv'
  OBVIOUS
<1> USE DEF KeepInv, OnlyRevisitedDaysAreLost
<1>1. CASE ReadClock
  BY <1>1 DEF ReadClock, Shape, FileIsOpen, NothingToLose, TodaysFileIsKnown, Waiting, clock
<1>2. CASE Delete
  <2>1. /\ pc = "delete" /\ pc' = "save" /\ last' = SlotOf(stamp)
        /\ UNCHANGED <<clock, stamp, saved>>
    BY <1>2 DEF Delete
  <2>2. /\ card' \in [Slots -> SUBSET Days]
        /\ \A s \in Slots : s # SlotOf(stamp) => card'[s] = card[s]
    BY <1>2, SlotsOfDays DEF Delete, Shape
  <2>3. Waiting' = Waiting /\ \A l \in Waiting : l \in Days /\ SlotOf(l) # SlotOf(stamp)
    BY <2>1 DEF NothingToLose, Waiting, clock, Shape
  <2>4. OnlyRevisitedDaysAreLost'
    BY <2>2, <2>3, SlotsOfDays DEF Waiting
  <2> QED
    BY <2>1, <2>2, <2>3, <2>4
    DEF Shape, FileIsOpen, NothingToLose, TodaysFileIsKnown, clock
<1>3. CASE Save
  <2>1. /\ pc = "save" /\ pc' = "idle" /\ stamp' = 0
        /\ UNCHANGED <<today, last>>
    BY <1>3 DEF Save
  <2>2. Waiting' \subseteq Waiting \cup {stamp}
    BY <1>3 DEF Save, Waiting
  <2>3. /\ card' \in [Slots -> SUBSET Days] /\ saved' \subseteq Days
        /\ \A s \in Slots : card[s] \subseteq card'[s]
        /\ saved' # saved \/ revisited' # revisited => stamp \in card'[SlotOf(stamp)]
    BY <1>3, SlotsOfDays DEF Save, Shape
  <2>4. OnlyRevisitedDaysAreLost'
    BY <2>2, <2>3, SlotsOfDays DEF Waiting, Shape
  <2>5. 0 \in Days
    BY LncLogAssumption DEF Days
  <2> QED
    BY <2>1, <2>2, <2>3, <2>4, <2>5
    DEF Shape, FileIsOpen, NothingToLose, TodaysFileIsKnown
<1>4. CASE StartQuery \/ SearchSlot \/ EndQuery \/ UNCHANGED vars
  <2>1. UNCHANGED <<clock, card, last, pc, stamp, saved>>
    BY <1>4 DEF StartQuery, SearchSlot, EndQuery, vars
  <2> QED
    BY <2>1 DEF Shape, FileIsOpen, NothingToLose, TodaysFileIsKnown, Waiting, clock
<1>5. ASSUME NEW day \in Days, ComesTo(day), UNCHANGED <<card, last, pc, stamp, saved>>
      PROVE  KeepInv'
  <2>1. today' = day
    BY <1>5 DEF ComesTo
  <2> QED
    BY <1>5, <2>1, Coming
    DEF Shape, FileIsOpen, NothingToLose, TodaysFileIsKnown, Waiting
<1>6. CASE Midnight
  <2>1. today + 1 \in Days
    BY <1>6, LncLogAssumption DEF Midnight, Shape, Days
  <2> QED
    BY <1>5, <1>6, <2>1 DEF Midnight
<1>7. CASE SyncTime
  <2>1. CASE UNCHANGED <<today, revisited>>
    BY <1>7, <2>1 DEF SyncTime, Shape, FileIsOpen, NothingToLose, TodaysFileIsKnown, Waiting
  <2>2. CASE \E day \in SyncDays : ComesTo(day)
    BY <1>5, <1>7, <2>2, QueryDaysAssumption DEF SyncTime
  <2> QED
    BY <1>7, <2>1, <2>2 DEF SyncTime
\* A reset forgets the file, on whichever day the board comes back.
<1>8. CASE Reset
  <2>1. PICK day \in BootDays : ComesTo(day)
    BY <1>8 DEF Reset
  <2>2. day \in Days /\ 0 \in Days
    BY <2>1, BootDaysAreDays, LncLogAssumption DEF Shape, Days
  <2>3. /\ today' = day /\ stamp' = 0 /\ pc' = "idle"
        /\ UNCHANGED <<card, saved>>
    BY <1>8, <2>1 DEF Reset, ComesTo
  <2> QED
    BY <2>1, <2>2, <2>3, Coming
    DEF Shape, FileIsOpen, NothingToLose, TodaysFileIsKnown, Waiting
<1> QED
  BY <1>1, <1>2, <1>3, <1>4, <1>6, <1>7, <1>8 DEF Next

\* A saved line is on the card until its weekday comes again, whatever resets,
\* midnights, time syncs and card failures there are.
THEOREM OnlyRevisitedLost == Spec => []OnlyRevisitedDaysAreLost
<1>1. KeepInv => OnlyRevisitedDaysAreLost
  BY DEF KeepInv
<1> QED
  BY <1>1, InitKeeps, NextKeeps, PTL DEF Spec

-----------------------------------------------------------------------------
\* Every line is in the file of its weekday.
Filed == \A s \in Slots : \A l \in card[s] : SlotOf(l) = s

\* The files a running query has still to search hold what it has not given yet.
StillToCome ==
  search # 0 => \A l \in stayed :
    /\ l \in card[SlotOf(l)] /\ InRange(from, l) /\ SlotOf(l) \in Slots
    /\ "search" \notin failed /\ SlotOf(l) < search => l \in answer

QueryInv == Shape /\ search \in 0..8 /\ FileIsOpen /\ Filed /\ StillToCome

LEMMA InitQuery == Init => QueryInv
  BY LncLogAssumption DEF Init, QueryInv, Shape, FileIsOpen, Filed, StillToCome, Days

LEMMA NextQuery == QueryInv /\ KeepInv' /\ [Next]_vars => QueryInv'
<1> SUFFICES ASSUME QueryInv, KeepInv', [Next]_vars PROVE QueryInv'
  OBVIOUS
<1>0. /\ Shape /\ FileIsOpen /\ Filed /\ StillToCome /\ search \in 0..8
      /\ Shape' /\ FileIsOpen'
  BY DEF QueryInv, KeepInv
<1>1. ASSUME UNCHANGED <<card, search, from, stayed, answer, failed>> PROVE QueryInv'
  BY <1>0, <1>1 DEF QueryInv, Filed, StillToCome, InRange
<1>2. CASE ReadClock \/ Midnight \/ SyncTime \/ UNCHANGED vars
  BY <1>1, <1>2 DEF ReadClock, Midnight, SyncTime, vars, query, disk
<1>3. CASE Delete
  <2>1. UNCHANGED <<search, from, answer>> /\ failed \subseteq failed'
    BY <1>3 DEF Delete, query, disk, Fails
  <2>2. \/ UNCHANGED <<card, stayed>>
        \/ /\ card' = [card EXCEPT ![SlotOf(stamp)] = {}]
           /\ stayed' = stayed \ card[SlotOf(stamp)]
    BY <1>3 DEF Delete
  <2>3. SlotOf(stamp) \in Slots
    BY <1>0, SlotsOfDays DEF Shape
  <2>4. Filed'
    BY <1>0, <2>2, <2>3 DEF Filed, Shape
  <2>5. StillToCome'
    BY <1>0, <2>1, <2>2, <2>3 DEF StillToCome, Shape, InRange
  <2> QED
    BY <1>0, <2>1, <2>4, <2>5 DEF QueryInv
<1>4. CASE Save
  <2>1. UNCHANGED <<search, from, answer, stayed>> /\ failed \subseteq failed'
    BY <1>4 DEF Save, query, disk, Fails
  <2>2. \/ UNCHANGED card
        \/ card' = [card EXCEPT ![SlotOf(stamp)] = @ \cup {stamp}]
    BY <1>4 DEF Save
  <2>3. SlotOf(stamp) \in Slots
    BY <1>0, SlotsOfDays DEF Shape
  <2>4. Filed'
    BY <1>0, <2>2, <2>3 DEF Filed, Shape
  <2>5. StillToCome'
    BY <1>0, <2>1, <2>2, <2>3 DEF StillToCome, Shape, InRange
  <2> QED
    BY <1>0, <2>1, <2>4, <2>5 DEF QueryInv
<1>5. CASE StartQuery
  <2>1. search' = 1 /\ UNCHANGED card
    BY <1>5 DEF StartQuery
  <2>2. \A l \in stayed' : /\ \E s \in Slots : l \in card[s]
                           /\ InRange(from', l)
    BY <1>5 DEF StartQuery
  <2>3. \A l \in stayed' : l \in card[SlotOf(l)] /\ SlotOf(l) \in Slots /\ ~(SlotOf(l) < 1)
    BY <1>0, <2>2 DEF Filed, Slots
  <2>4. StillToCome'
    BY <2>1, <2>2, <2>3 DEF StillToCome, InRange
  <2>5. Filed'
    BY <1>0, <2>1 DEF Filed
  <2> QED
    BY <1>0, <2>1, <2>4, <2>5 DEF QueryInv
<1>6. CASE SearchSlot
  <2>1. /\ search \in Slots /\ search' = search + 1
        /\ UNCHANGED <<card, from, stayed>>
    BY <1>6 DEF SearchSlot
  <2>2. \/ answer' = answer \cup {l \in card[search] : InRange(from, l)} /\ UNCHANGED failed
        \/ "search" \in failed'
    BY <1>6 DEF SearchSlot, Fails, disk
  <2>3. ASSUME NEW l \in stayed, "search" \notin failed', SlotOf(l) < search + 1
        PROVE  l \in answer'
    <3>1. SlotOf(l) < search \/ SlotOf(l) = search
      BY <1>0, <2>1, <2>3 DEF StillToCome, Slots
    <3> QED
      BY <1>0, <2>1, <2>2, <2>3, <3>1 DEF StillToCome, Slots
  <2>4. StillToCome'
    BY <1>0, <2>1, <2>3 DEF StillToCome, InRange, Slots
  <2>5. Filed' /\ search' \in 0..8
    BY <1>0, <2>1 DEF Filed, Slots
  <2> QED
    BY <1>0, <2>4, <2>5 DEF QueryInv
<1>7. CASE EndQuery \/ Reset
  <2>1. search' = 0 /\ UNCHANGED card
    BY <1>7 DEF EndQuery, Reset
  <2> QED
    BY <1>0, <2>1 DEF QueryInv, Filed, StillToCome
<1> QED
  BY <1>2, <1>3, <1>4, <1>5, <1>6, <1>7 DEF Next

\* When a query ends it has given every line in range that was there when it began
\* and has not been deleted since, unless a file could not be read.
THEOREM QueryComplete == Spec => []QueryIsComplete
<1>1. QueryInv => QueryIsComplete
  BY DEF QueryInv, StillToCome, QueryIsComplete, Slots
<1> QED
  BY <1>1, InitKeeps, NextKeeps, InitQuery, NextQuery, PTL DEF Spec

-----------------------------------------------------------------------------
\* The days of the file that log.c believes to be that of the last line, or the day
\* of the line under way.
OpenDays == IF pc # "idle" THEN {stamp} ELSE IF last = 0 THEN {} ELSE card[last]

\* A line is only added to a file of its own day.
AddsToItsDay == pc = "save" => card[SlotOf(stamp)] \subseteq {stamp}

\* A file that log.c would go on with today, or tomorrow once monitor_task has seen
\* today, is of that day and not of one whole weeks away.
NoOldFile ==
  /\ \A d \in OpenDays : SlotOf(d) = SlotOf(today) => d = today
  /\ seen => \A d \in OpenDays : SlotOf(d) = SlotOf(today + 1) => d = today + 1

Sound == "delete" \notin failed /\ ~shifted

DayInv ==
  /\ Shape /\ FileIsOpen /\ Filed
  /\ Sound => OneDayPerSlot /\ AddsToItsDay /\ NoOldFile

LEMMA NextDay == \A day \in Nat : SlotOf(day) # SlotOf(day + 1) /\ SlotOf(day) # 0
  BY DEF SlotOf, WeekDay

LEMMA InitDays == Init => DayInv
  BY LncLogAssumption
  DEF Init, DayInv, Shape, FileIsOpen, Filed, OneDayPerSlot, AddsToItsDay, NoOldFile,
      OpenDays,
      Days

LEMMA NextDays == DayInv /\ QueryInv' /\ [Next]_vars => DayInv'
<1> SUFFICES ASSUME DayInv, QueryInv', [Next]_vars, Sound'
             PROVE  (OneDayPerSlot /\ AddsToItsDay /\ NoOldFile)'
  BY DEF DayInv, QueryInv
<1>0. /\ Shape /\ FileIsOpen /\ Filed
      /\ Sound => OneDayPerSlot /\ AddsToItsDay /\ NoOldFile
  BY DEF DayInv
<1>1. Sound
  <2>1. "delete" \in failed => "delete" \in failed'
    BY DEF Next, vars, ReadClock, Delete, Save, Fails, StartQuery, SearchSlot, EndQuery,
           Midnight, SyncTime, Reset, clock, disk
  <2>2. ASSUME shifted PROVE shifted'
    <3>1. CASE SyncTime
      BY <2>2, <3>1, Zenon DEF SyncTime
    <3>2. CASE ~SyncTime
      BY <2>2, <3>2 DEF Next, vars, ReadClock, Delete, Save, StartQuery, SearchSlot,
                        EndQuery, Midnight, Reset, clock
    <3> QED
      BY <3>1, <3>2
  <2> QED
    BY <2>1, <2>2 DEF Sound
<1>2. \A s \in Slots : \A l, m \in card[s] : l = m
  BY <1>0, <1>1 DEF OneDayPerSlot, Sound
<1>3. AddsToItsDay /\ NoOldFile
  BY <1>0, <1>1
<1>4. ASSUME UNCHANGED card PROVE OneDayPerSlot'
  BY <1>2, <1>4 DEF OneDayPerSlot
<1>5. CASE ReadClock
  <2>1. /\ stamp' = today /\ pc' # "idle" /\ seen' = TRUE
        /\ UNCHANGED <<today, card, last>>
        /\ pc' = "save" => SlotOf(today) = last /\ pc = "idle"
    BY <1>5 DEF ReadClock, clock
  <2>2. AddsToItsDay'
    <3>1. SUFFICES ASSUME pc' = "save", NEW d \in card[SlotOf(today)] PROVE d = today
      BY <2>1 DEF AddsToItsDay
    <3>2. last # 0 /\ last \in Slots /\ SlotOf(d) = SlotOf(today)
      BY <1>0, <2>1, <3>1, SlotsOfDays DEF Shape, Filed, Slots
    <3> QED
      BY <1>3, <2>1, <3>1, <3>2 DEF NoOldFile, OpenDays
  <2>3. NoOldFile'
    BY <1>0, <2>1, NextDay DEF NoOldFile, OpenDays, Shape, Days
  <2> QED
    BY <1>4, <2>1, <2>2, <2>3
<1>6. CASE Delete
  <2>1. /\ pc = "delete" /\ pc' = "save"
        /\ UNCHANGED <<today, seen, stamp>>
        /\ card' = [card EXCEPT ![SlotOf(stamp)] = {}]
    BY <1>6 DEF Delete, Fails, clock, Sound
  <2>2. SlotOf(stamp) \in Slots
    BY <1>0, SlotsOfDays DEF Shape
  <2>3. AddsToItsDay'
    BY <1>0, <2>1, <2>2 DEF AddsToItsDay, Shape
  <2>4. NoOldFile'
    BY <1>3, <2>1 DEF NoOldFile, OpenDays
  <2>5. OneDayPerSlot'
    BY <1>0, <1>2, <2>1 DEF OneDayPerSlot, Shape
  <2> QED
    BY <2>3, <2>4, <2>5
<1>7. CASE Save
  <2>1. /\ pc = "save" /\ pc' = "idle"
        /\ UNCHANGED <<today, seen, last>>
        /\ UNCHANGED card \/ card' = [card EXCEPT ![SlotOf(stamp)] = @ \cup {stamp}]
    BY <1>7 DEF Save
  <2>2. /\ last = SlotOf(stamp) /\ SlotOf(stamp) \in Slots
        /\ card[last] \subseteq {stamp} /\ card'[last] \subseteq {stamp}
    BY <1>0, <1>3, <2>1, SlotsOfDays DEF Shape, FileIsOpen, AddsToItsDay
  <2>3. NoOldFile'
    BY <1>3, <2>1, <2>2 DEF NoOldFile, OpenDays
  <2>4. OneDayPerSlot'
    BY <1>0, <1>2, <2>1, <2>2 DEF OneDayPerSlot, Shape
  <2> QED
    BY <2>1, <2>3, <2>4 DEF AddsToItsDay
<1>8. CASE StartQuery \/ SearchSlot \/ EndQuery \/ UNCHANGED vars
  <2>1. UNCHANGED <<today, seen, card, last, pc, stamp>>
    BY <1>8 DEF StartQuery, SearchSlot, EndQuery, vars, clock
  <2> QED
    BY <1>3, <1>4, <2>1 DEF AddsToItsDay, NoOldFile, OpenDays
<1>9. CASE Midnight
  <2>1. /\ seen /\ ~seen' /\ today' = today + 1
        /\ UNCHANGED <<card, last, pc, stamp>>
    BY <1>9 DEF Midnight, ComesTo
  <2> QED
    BY <1>3, <1>4, <2>1 DEF AddsToItsDay, NoOldFile, OpenDays
\* A sync that moves the clock by whole weeks is not sound; any other leaves no
\* open file of another day of the new weekday, or of the one after it.
<1>10. CASE SyncTime
  <2>1. UNCHANGED <<seen, card, last, pc, stamp>>
    BY <1>10 DEF SyncTime
  <2>2. PICK day \in SyncDays : today' = day /\ ~WholeWeeks(day)
    BY <1>10 DEF SyncTime, ComesTo, Sound
  <2>3. \A d \in OpenDays : d \in CurrentDays
    BY DEF OpenDays, CurrentDays
  <2>4. NoOldFile'
    BY <2>1, <2>2, <2>3 DEF WholeWeeks, NoOldFile, OpenDays
  <2> QED
    BY <1>3, <1>4, <2>1, <2>4 DEF AddsToItsDay
<1>11. CASE Reset
  <2>1. pc' = "idle" /\ last' = 0 /\ UNCHANGED card
    BY <1>11 DEF Reset
  <2> QED
    BY <1>4, <2>1 DEF AddsToItsDay, NoOldFile, OpenDays
<1> QED
  BY <1>5, <1>6, <1>7, <1>8, <1>9, <1>10, <1>11 DEF Next

\* No file mixes two days, wherever resets, midnights and time syncs fall; unless a
\* delete has failed or a sync has moved the clock by whole weeks.
THEOREM OneDay == Spec => []OneDayPerSlot
<1>1. DayInv => OneDayPerSlot
  BY DEF DayInv, OneDayPerSlot, Sound
<1> QED
  BY <1>1, InitKeeps, NextKeeps, InitQuery, NextQuery, InitDays, NextDays, PTL DEF Spec

-----------------------------------------------------------------------------
(* Types *)

LEMMA FailingTyped ==
  ASSUME TypeOK, NEW operation \in {"delete", "save", "search"},
         Fails(operation) \/ UNCHANGED disk
  PROVE  failed' \subseteq {"delete", "save", "search"} /\ failures' \in 0..MaxFailures
<1>1. CASE Fails(operation)
  BY <1>1, LncLogAssumption DEF TypeOK, Fails
<1>2. CASE UNCHANGED disk
  BY <1>2 DEF TypeOK, disk
<1> QED
  BY <1>1, <1>2

\* The parts of TypeOK that one action or another leaves alone.
ClockTyped ==
  /\ today \in Days /\ revisited \subseteq saved /\ shifted \in BOOLEAN /\ seen \in BOOLEAN
  /\ resets \in 0..MaxResets /\ syncs \in 0..MaxSyncs
LinesTyped ==
  /\ card \in [Slots -> SUBSET Days] /\ saved \subseteq Days /\ stayed \subseteq Days
WriterTyped ==
  /\ last \in 0..7 /\ pc \in {"idle", "delete", "save"} /\ stamp \in Days
  /\ pc = "save" => last \in Slots
QueryTyped ==
  /\ search \in 0..8 /\ from \in Days /\ answer \subseteq Days /\ queries \in 0..MaxQueries
DiskTyped == failed \subseteq {"delete", "save", "search"} /\ failures \in 0..MaxFailures

LEMMA TypedIs == TypeOK <=> ClockTyped /\ LinesTyped /\ WriterTyped /\ QueryTyped /\ DiskTyped
  BY DEF TypeOK, ClockTyped, LinesTyped, WriterTyped, QueryTyped, DiskTyped

LEMMA TypedIsNext ==
  TypeOK' <=> ClockTyped' /\ LinesTyped' /\ WriterTyped' /\ QueryTyped' /\ DiskTyped'
  BY DEF TypeOK, ClockTyped, LinesTyped, WriterTyped, QueryTyped, DiskTyped

\* When the clock comes to a day, what is released had been saved.
LEMMA ComingTyped ==
  ASSUME NEW day \in Days, ComesTo(day), revisited \subseteq saved
  PROVE  today' \in Days /\ revisited' \subseteq saved
  BY DEF ComesTo

LEMMA NextTyped == TypeOK /\ [Next]_vars => TypeOK'
<1> SUFFICES ASSUME TypeOK, ClockTyped, LinesTyped, WriterTyped, QueryTyped, DiskTyped,
                    [Next]_vars
             PROVE  TypeOK'
  BY TypedIs
<1>0. /\ \A day \in Days : SlotOf(day) \in Slots
      /\ \A s \in Slots : s \in 0..7 /\ s # 0 /\ s + 1 \in 0..8
  BY SlotsOfDays DEF Slots
<1>a. 0 \in Days /\ \A d : d \in Days <=> d \in Nat /\ d <= MaxDay
  BY LncLogAssumption DEF Days
<1>b. QueryDays \subseteq Days /\ SyncDays \subseteq Days
  BY QueryDaysAssumption
<1>1. CASE ReadClock
  <2>1. ClockTyped' /\ LinesTyped' /\ QueryTyped' /\ DiskTyped'
    BY <1>1 DEF ReadClock, ClockTyped, LinesTyped, QueryTyped, DiskTyped, clock, query, disk
  <2>2. WriterTyped'
    <3>1. /\ stamp' = today /\ last' = last /\ pc' \in {"delete", "save"}
          /\ pc' = "save" => SlotOf(today) = last
      BY <1>1 DEF ReadClock
    <3> QED
      BY <1>0, <3>1 DEF WriterTyped, ClockTyped
  <2> QED
    BY <2>1, <2>2, TypedIsNext
<1>2. CASE Delete
  <2>1. Fails("delete") \/ UNCHANGED disk
    BY <1>2 DEF Delete
  <2>2. ClockTyped' /\ QueryTyped'
    BY <1>2 DEF Delete, ClockTyped, QueryTyped, clock, query
  <2>3. LinesTyped'
    BY <1>0, <1>2 DEF Delete, LinesTyped, WriterTyped
  <2>4. WriterTyped'
    <3>1. last' = SlotOf(stamp) /\ pc' = "save" /\ stamp' = stamp
      BY <1>2 DEF Delete
    <3> QED
      BY <1>0, <3>1 DEF WriterTyped
  <2>5. DiskTyped'
    BY <2>1, FailingTyped DEF DiskTyped
  <2> QED
    BY <2>2, <2>3, <2>4, <2>5, TypedIsNext
<1>3. CASE Save
  <2>1. Fails("save") \/ UNCHANGED disk
    BY <1>3 DEF Save
  <2>2. QueryTyped'
    BY <1>3 DEF Save, QueryTyped, query
  <2>3. LinesTyped'
    BY <1>0, <1>3 DEF Save, LinesTyped, WriterTyped
  <2>4. revisited' \subseteq saved'
    BY <1>3 DEF Save, ClockTyped
  <2>5. ClockTyped'
    BY <1>3, <2>4 DEF Save, ClockTyped
  <2>6. WriterTyped'
    BY <1>3, <1>a DEF Save, WriterTyped
  <2>7. DiskTyped'
    BY <2>1, FailingTyped DEF DiskTyped
  <2> QED
    BY <2>2, <2>3, <2>5, <2>6, <2>7, TypedIsNext
<1>4. CASE StartQuery
  <2>1. ClockTyped' /\ WriterTyped' /\ DiskTyped'
    BY <1>4 DEF StartQuery, ClockTyped, WriterTyped, DiskTyped, clock, disk
  <2>2. LinesTyped'
    <3>1. PICK first \in QueryDays :
            stayed' = {l \in UNION {card[s] : s \in Slots} : InRange(first, l)}
      BY <1>4 DEF StartQuery
    <3>2. stayed' \subseteq Days
      BY <3>1 DEF LinesTyped
    <3> QED
      BY <1>4, <3>2 DEF StartQuery, LinesTyped
  <2>3. QueryTyped'
    <3>1. queries' \in 0..MaxQueries
      BY <1>4, LncLogAssumption DEF StartQuery, QueryTyped
    <3>2. from' \in Days
      BY <1>4, <1>b DEF StartQuery
    <3> QED
      BY <1>4, <3>1, <3>2 DEF StartQuery, QueryTyped
  <2> QED
    BY <2>1, <2>2, <2>3, TypedIsNext
<1>5. CASE SearchSlot
  <2>1. Fails("search") \/ UNCHANGED disk
    BY <1>5 DEF SearchSlot
  <2>2. ClockTyped' /\ LinesTyped' /\ WriterTyped'
    BY <1>5 DEF SearchSlot, ClockTyped, LinesTyped, WriterTyped, clock
  <2>3. QueryTyped'
    <3>1. answer' \subseteq Days
      BY <1>5 DEF SearchSlot, QueryTyped, LinesTyped
    <3>2. search' \in 0..8 /\ from' = from /\ queries' = queries
      BY <1>0, <1>5 DEF SearchSlot
    <3> QED
      BY <3>1, <3>2 DEF QueryTyped
  <2>4. DiskTyped'
    BY <2>1, FailingTyped DEF DiskTyped
  <2> QED
    BY <2>2, <2>3, <2>4, TypedIsNext
<1>6. CASE EndQuery
  <2>1. ClockTyped' /\ WriterTyped' /\ DiskTyped' /\ LinesTyped'
    BY <1>6 DEF EndQuery, ClockTyped, WriterTyped, DiskTyped, LinesTyped, clock
  <2>2. QueryTyped'
    BY <1>6, <1>a DEF EndQuery, QueryTyped
  <2> QED
    BY <2>1, <2>2, TypedIsNext
<1>7. CASE Midnight
  <2>1. today + 1 \in Days
    BY <1>7, LncLogAssumption DEF Midnight, ClockTyped, Days
  <2>2. today' \in Days /\ revisited' \subseteq saved
    BY <1>7, <2>1, ComingTyped DEF Midnight, ClockTyped
  <2>3. ClockTyped'
    BY <1>7, <2>2 DEF Midnight, ClockTyped
  <2>4. LinesTyped' /\ WriterTyped' /\ QueryTyped' /\ DiskTyped'
    BY <1>7 DEF Midnight, LinesTyped, WriterTyped, QueryTyped, DiskTyped, query, disk
  <2> QED
    BY <2>3, <2>4, TypedIsNext
<1>8. CASE SyncTime
  <2>1. PICK day \in SyncDays :
          /\ IF day = today THEN UNCHANGED <<today, revisited>> ELSE ComesTo(day)
          /\ shifted' = (shifted \/ WholeWeeks(day))
    BY <1>8 DEF SyncTime
  <2>2. today' \in Days /\ revisited' \subseteq saved
    BY <1>b, <2>1, ComingTyped DEF ClockTyped
  <2>3. syncs' \in 0..MaxSyncs
    BY <1>8, LncLogAssumption DEF SyncTime, ClockTyped
  <2>4. ClockTyped'
    BY <1>8, <2>1, <2>2, <2>3 DEF SyncTime, ClockTyped
  <2>5. LinesTyped' /\ WriterTyped' /\ QueryTyped' /\ DiskTyped'
    BY <1>8 DEF SyncTime, LinesTyped, WriterTyped, QueryTyped, DiskTyped, query, disk
  <2> QED
    BY <2>4, <2>5, TypedIsNext
<1>9. CASE Reset
  <2>1. PICK day \in BootDays : ComesTo(day)
    BY <1>9 DEF Reset
  <2>2. day \in Days
    BY <1>a, <2>1, BootDaysAreDays DEF ClockTyped
  <2>3. today' \in Days /\ revisited' \subseteq saved
    BY <2>1, <2>2, ComingTyped DEF ClockTyped
  <2>4. resets' \in 0..MaxResets
    BY <1>9, LncLogAssumption DEF Reset, ClockTyped
  <2>5. ClockTyped'
    BY <1>9, <2>3, <2>4 DEF Reset, ClockTyped
  <2>6. LinesTyped' /\ DiskTyped'
    BY <1>9 DEF Reset, LinesTyped, DiskTyped
  <2>7. WriterTyped' /\ QueryTyped'
    BY <1>9, <1>a DEF Reset, WriterTyped, QueryTyped
  <2> QED
    BY <2>5, <2>6, <2>7, TypedIsNext
<1>10. CASE UNCHANGED vars
  BY <1>10 DEF TypeOK, vars, clock, query, disk
<1> QED
  BY <1>1, <1>2, <1>3, <1>4, <1>5, <1>6, <1>7, <1>8, <1>9, <1>10 DEF Next

\* Every variable of the log keeps its type: the card's files hold days of the clock,
\* a query stays within its eight steps, and what is released had been saved.
THEOREM TypeCorrect == Spec => []TypeOK
<1>1. Init => TypeOK
  <2> SUFFICES ASSUME Init PROVE TypeOK
    OBVIOUS
  <2>1. 0 \in Days
    BY LncLogAssumption DEF Days
  <2>2. ClockTyped /\ DiskTyped
    <3>1. 0 \in 0..MaxResets /\ 0 \in 0..MaxSyncs /\ 0 \in 0..MaxFailures
      BY LncLogAssumption
    <3> QED
      BY <2>1, <3>1 DEF Init, ClockTyped, DiskTyped
  <2>3. LinesTyped
    BY DEF Init, LinesTyped
  <2>4. WriterTyped /\ QueryTyped
    BY <2>1, LncLogAssumption DEF Init, WriterTyped, QueryTyped
  <2> QED
    BY <2>2, <2>3, <2>4, TypedIs
<1> QED
  BY <1>1, NextTyped, PTL DEF Spec
=============================================================================
