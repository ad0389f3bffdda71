------------------------------- MODULE LncLog -------------------------------
(***************************************************************************)
(* LNC/Core/Src/log.c over sdfatfs.c: one file per weekday, written by     *)
(* monitor_task, searched by comm_rx_task for QUERY_DATA.  The first line  *)
(* of another day deletes what its file held a week ago; the day of the    *)
(* last line is only in RAM.                                               *)
(*                                                                         *)
(* SDFatFS_SaveData, _DeleteFile and _ForEachLine each hold s_sd_lock from *)
(* mount to unmount, so on the files each of them is one step; midnight,   *)
(* the other task, a time sync and a reset can fall between two of them.   *)
(* A day is a number, the time of day is left out, a query's range is in   *)
(* days, and the lines of one day are one.                                 *)
(***************************************************************************)
EXTENDS Naturals, Sequences

CONSTANTS
  MaxDay,      \* bound: the last day
  MaxGap,      \* bound: days the board stays off at a reset
  MaxResets,   \* bound: resets
  SyncDays,    \* bound: the days a TIME_SYNC_REPLY tells
  MaxSyncs,    \* bound: TIME_SYNC_REPLYs
  MaxFailures, \* bound: failed operations on the SD card
  QueryDays,   \* bound: the days a query's range begins with
  QueryLength, \* bound: the days it is long
  MaxQueries   \* bound: QUERY_DATA commands

ASSUME LncLogAssumption ==
  /\ {MaxDay, MaxGap, MaxResets, MaxSyncs, MaxFailures, MaxQueries, QueryLength} \subseteq Nat

Days  == 0..MaxDay
ASSUME QueryDaysAssumption == QueryDays \cup SyncDays \subseteq Days
Slots == 1..7
PowerOnDay == 0   \* Monday, 1 January 2000, in MX_RTC_Init

VARIABLES
  today,     \* the RTC's day
  card,      \* card[s]: the days of the lines in LOG<s>.TXT
  last,      \* g_log.last_written_day
  pc,        \* where monitor_task is in log_write()
  stamp,     \* the day it has read from the RTC for this line
  search,    \* the query's position: the next slot, 0 when there is none
  from,      \* the first day of the query's range
  answer,    \* lines the query has given to comm_send(), which may drop them
  queries,   \* queries so far (bounded by MaxQueries)
  saved,     \* history: every line that was saved
  stayed,    \* history: lines in range that stay on the card during the query
  revisited, \* history: saved lines to whose weekday the clock has come again
  shifted,   \* history: has a sync moved the clock by whole weeks?
  seen,      \* has monitor_task read the clock since midnight?
  resets, syncs,  \* so far (bounded by MaxResets and MaxSyncs)
  failed,    \* history: the operations that have failed; a "search" counts
             \* until the query ends
  failures   \* failed operations so far (bounded by MaxFailures)

query == <<search, from, answer, queries>>
clock == <<today, revisited, shifted, resets, syncs>>
disk  == <<failed, failures>>
vars  == <<clock, seen, card, last, pc, stamp, query, saved, stayed, disk>>

\* HAL's weekday (1 = Monday .. 7 = Sunday) and the slot made of it (1 = Sunday)
WeekDay(day) == (day % 7) + 1
SlotOf(day) == (WeekDay(day) % 7) + 1

\* An operation on the card fails, and has done nothing.
Fails(operation) ==
  /\ failures < MaxFailures
  /\ failures' = failures + 1
  /\ failed' = failed \cup {operation}

\* timestamp_key() against both ends of a range that begins with this day
InRange(first, line) == first <= line /\ line <= first + QueryLength

-----------------------------------------------------------------------------
(* log_write() on monitor_task *)

ReadClock ==
  /\ pc = "idle"
  /\ stamp' = today
  /\ seen' = TRUE
  /\ pc' = IF SlotOf(today) # last THEN "delete" ELSE "save"
  /\ UNCHANGED <<clock, card, last, query, saved, stayed, disk>>

DeletesTomorrow ==   \* mutant: HAL's weekday is taken for the slot of the file
  /\ pc = "delete"
  /\ last' = SlotOf(stamp)
  /\ pc' = "save"
  /\ card' = [card EXCEPT ![(SlotOf(stamp) % 7) + 1] = {}]
  /\ stayed' = stayed \ card[(SlotOf(stamp) % 7) + 1]
  /\ UNCHANGED <<clock, seen, stamp, query, saved, disk>>

\* SDFatFS_DeleteFile(); its result is ignored.
Delete ==
  /\ pc = "delete"
  /\ last' = SlotOf(stamp)
  /\ pc' = "save"
  /\ \/ /\ card' = [card EXCEPT ![SlotOf(stamp)] = {}]
        /\ stayed' = stayed \ card[SlotOf(stamp)]
        /\ UNCHANGED disk
     \/ Fails("delete") /\ UNCHANGED <<card, stayed>>
  /\ UNCHANGED <<clock, seen, stamp, query, saved>>

\* SDFatFS_SaveString(); its result is ignored.
Save ==
  /\ pc = "save"
  /\ pc' = "idle"
  /\ \/ /\ card' = [card EXCEPT ![SlotOf(stamp)] = @ \cup {stamp}]
        /\ saved' = saved \cup {stamp}
        /\ revisited' = revisited \ {stamp}
        /\ UNCHANGED disk
     \/ Fails("save") /\ UNCHANGED <<card, saved, revisited>>
  /\ stamp' = 0
  /\ UNCHANGED <<today, shifted, seen, resets, syncs, last, query, stayed>>

-----------------------------------------------------------------------------
(* log_on_frame() on comm_rx_task *)

StartQuery ==
  /\ search = 0
  /\ queries < MaxQueries
  /\ queries' = queries + 1
  /\ search' = 1
  /\ \E first \in QueryDays :
       /\ from' = first
       /\ stayed' = {l \in UNION {card[s] : s \in Slots} : InRange(first, l)}
  /\ answer' = {}
  /\ UNCHANGED <<clock, seen, card, last, pc, stamp, saved, disk>>

StopsAtSix ==   \* mutant: slot < 7 instead of slot <= 7
  /\ search \in 1..6
  /\ search' = IF search = 6 THEN 8 ELSE search + 1
  /\ \/ /\ answer' = answer \cup {l \in card[search] : InRange(from, l)}
        /\ UNCHANGED disk
     \/ Fails("search") /\ UNCHANGED answer
  /\ UNCHANGED <<clock, seen, card, last, pc, stamp, from, queries, saved, stayed>>

\* SDFatFS_ForEachLine() of one slot; its result is ignored.
SearchSlot ==
  /\ search \in Slots
  /\ search' = search + 1
  /\ \/ /\ answer' = answer \cup {l \in card[search] : InRange(from, l)}
        /\ UNCHANGED disk
     \/ Fails("search") /\ UNCHANGED answer
  /\ UNCHANGED <<clock, seen, card, last, pc, stamp, from, queries, saved, stayed>>

\* QUERY_END
EndQuery ==
  /\ search = 8
  /\ search' = 0 /\ from' = 0 /\ answer' = {}
  /\ stayed' = {}
  /\ failed' = failed \ {"search"}
  /\ UNCHANGED <<clock, seen, failures, card, last, pc, stamp, queries, saved>>

-----------------------------------------------------------------------------
(* Time, time synchronisation and resets *)

\* The clock comes to a day: at midnight, at a boot or by a sync.
ComesTo(day) ==
  /\ today' = day
  /\ revisited' = revisited \cup {l \in saved : SlotOf(l) = SlotOf(day)}

\* monitor_task runs every 5 s: it does not sleep through a whole day.
Midnight ==
  /\ today < MaxDay
  /\ seen
  /\ seen' = FALSE
  /\ ComesTo(today + 1)
  /\ UNCHANGED <<shifted, resets, syncs, card, last, pc, stamp, query, saved, stayed, disk>>

\* The days monitor_task has written for since it last changed files, or will.
CurrentDays ==
  (IF last = 0 THEN {} ELSE card[last]) \cup (IF pc = "idle" THEN {} ELSE {stamp})

\* From one of them to a day of the same weekday, the next line's, be it after
\* midnight.
WholeWeeks(day) ==
  \E d \in CurrentDays, n \in {day, day + 1} : d # n /\ SlotOf(d) = SlotOf(n)

\* init_on_frame() and apply_cc_time() on comm_rx_task, between two frames: the
\* date is written last, and log.c is not told.
SyncTime ==
  /\ search = 0
  /\ syncs < MaxSyncs
  /\ syncs' = syncs + 1
  /\ \E day \in SyncDays :
       /\ IF day = today THEN UNCHANGED <<today, revisited>> ELSE ComesTo(day)
       /\ shifted' = (shifted \/ WholeWeeks(day))
  /\ UNCHANGED <<seen, resets, card, last, pc, stamp, query, saved, stayed, disk>>

\* The days the RTC may have after a boot: the DS1307 has counted on while the
\* board was off, or cannot be read and leaves the date of MX_RTC_Init.
BootDays == {day \in {today + gap : gap \in 0..MaxGap} \cup {PowerOnDay} : day <= MaxDay}

RemembersItsDay ==   \* mutant: log_create() takes the RTC's day for the last one
  /\ resets < MaxResets
  /\ resets' = resets + 1
  /\ \E day \in BootDays : ComesTo(day) /\ last' = SlotOf(day)
  /\ seen' = TRUE
  /\ pc' = "idle"
  /\ stamp' = 0
  /\ search' = 0 /\ from' = 0 /\ answer' = {}
  /\ stayed' = {}
  /\ failed' = failed \ {"search"}
  /\ UNCHANGED <<shifted, syncs, failures, card, queries, saved>>

\* Off for some days, then MX_RTC_Init(), the DS1307 and log_create().
Reset ==
  /\ resets < MaxResets
  /\ resets' = resets + 1
  /\ \E day \in BootDays : ComesTo(day)
  /\ last' = 0
  /\ seen' = TRUE
  /\ pc' = "idle"
  /\ stamp' = 0
  /\ search' = 0 /\ from' = 0 /\ answer' = {}
  /\ stayed' = {}
  /\ failed' = failed \ {"search"}
  /\ UNCHANGED <<shifted, syncs, failures, card, queries, saved>>

Init ==
  /\ today = 0
  /\ card = [s \in Slots |-> {}]
  /\ last = 0
  /\ pc = "idle"
  /\ stamp = 0
  /\ search = 0 /\ from = 0 /\ answer = {}
  /\ queries = 0
  /\ saved = {}
  /\ stayed = {}
  /\ revisited = {}
  /\ shifted = FALSE
  /\ seen = TRUE
  /\ resets = 0
  /\ syncs = 0
  /\ failed = {}
  /\ failures = 0

Next ==
  \/ ReadClock \/ Delete \/ Save
  \/ StartQuery \/ SearchSlot \/ EndQuery
  \/ Midnight \/ SyncTime \/ Reset

Spec == Init /\ [][Next]_vars

-----------------------------------------------------------------------------
(* Properties *)

TypeOK ==
  /\ today \in Days
  /\ card \in [Slots -> SUBSET Days]
  /\ last \in 0..7
  /\ pc \in {"idle", "delete", "save"}
  /\ pc = "save" => last \in Slots
  /\ stamp \in Days
  /\ search \in 0..8
  /\ from \in Days
  /\ answer \subseteq Days
  /\ queries \in 0..MaxQueries
  /\ saved \subseteq Days
  /\ stayed \subseteq Days
  /\ revisited \subseteq saved
  /\ shifted \in BOOLEAN
  /\ seen \in BOOLEAN
  /\ resets \in 0..MaxResets
  /\ syncs \in 0..MaxSyncs
  /\ failed \subseteq {"delete", "save", "search"}
  /\ failures \in 0..MaxFailures

\* Whatever resets, midnights, time syncs and card failures there were, a line
\* is lost only once the clock has come again to its weekday after it was
\* saved: a week later, by a boot on the same day, or set back by a sync.
OnlyRevisitedDaysAreLost ==
  \A line \in saved \ revisited : line \in card[SlotOf(line)]

\* A file never mixes two days, however long the board was off between them
\* and wherever a sync sets the clock in the middle of a write; unless a
\* delete has failed, or a sync has moved the clock by whole weeks (less a day,
\* if midnight comes before the next line): the slot does not change then.
OneDayPerSlot ==
  "delete" \notin failed /\ ~shifted => \A s \in Slots : \A l, m \in card[s] : l = m

\* Before QUERY_END, every line in range that was in a file when the query
\* began and has not been deleted since has been given to comm_send(), though
\* monitor_task goes on deleting and writing files between two of them;
\* unless a file could not be read, which is skipped.
QueryIsComplete == search = 8 /\ "search" \notin failed => stayed \subseteq answer

\* "reusing the same slot every 7 days is what gives 'keep 7 days, delete the
\* oldest on day 8' for free" (log.h:7-9): what was saved in the last seven
\* days is still there.
KeepsSevenDays ==
  \A line \in saved : line + 7 > today => line \in card[SlotOf(line)]
=============================================================================
