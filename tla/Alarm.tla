-------------------------------- MODULE Alarm --------------------------------
(***************************************************************************)
(* The sounding half of LNC/Core/Src/event.c with the buzzer driver        *)
(* buzzer.c beneath it.  monitor_task (a mode change) and objdet_task (an  *)
(* object detected or cleared) run event.c's handlers at the same RTOS     *)
(* priority with no lock, so a time slice can end between any two          *)
(* statements of them; the button's and TIM3's interrupts preempt both     *)
(* and run to their end.                                                   *)
(*                                                                         *)
(* A handler is the sequence of statements it still has to execute         *)
(* (todo); each step executes one.  A HAL call is one statement, and so    *)
(* are the stores by which a note's period, duty and duration are loaded.  *)
(***************************************************************************)
EXTENDS Sequences

Handlers == {"monitor", "objdet"}
Modes    == {"NORMAL", "WARNING", "ERROR"}
Tones    == {"low", "high", "ping", "silence"}   \* the compare value of TIM3

\* Every flag of event.c (ev) and buzzer.c (bz), TIM3's state (channel output,
\* update interrupt, counter) and the breathing LED.
Flags == {"ev.alarm", "ev.sonar", "ev.essential", "bz.alarm", "bz.sonar",
          "bz.step", "bz.gap", "channel", "irq", "counter", "led"}

VARIABLES
  on,       \* on[f]: flag f
  tone,     \* the note TIM3 is loaded with
  todo,     \* todo[t]: the statements task t still executes in event.c
  mode,     \* the mode monitor_task last gave to event_mode_changed
  presence,  \* objdet_task's presence
  told,     \* told[t]: the last EVENTS.TXT line and message of task t
  hushed    \* history: has the button or objdet_task turned something of the
            \* buzzer off since the last change of mode?

alarmVars == <<on, tone, todo, mode, presence, told, hushed>>

-----------------------------------------------------------------------------
(* Statements, and the functions made of them *)

Set(f)   == [do |-> "set",   what |-> f]
Clear(f) == [do |-> "clear", what |-> f]
Play(n)  == [do |-> "play",  what |-> n]
Tell(e)  == [do |-> "tell",  what |-> e]    \* write_events_file, comm_send
AlarmStart == [do |-> "alarm_start", what |-> ""]
AlarmStop  == [do |-> "alarm_stop_if_active", what |-> ""]

ArmNote(n) == <<Play(n), Set("channel"), Set("irq")>>
BuzzerStartAlarm ==
  <<Set("bz.alarm"), Clear("bz.sonar"), Clear("bz.step")>> \o ArmNote("low")
BuzzerStartSonar ==
  <<Clear("bz.alarm"), Set("bz.sonar"), Clear("bz.gap")>> \o ArmNote("ping")
BuzzerStop ==
  <<Clear("bz.alarm"), Clear("bz.sonar"), Clear("channel"), Clear("irq")>>

FlagFirst ==   \* mutant: the flag is set before the siren is started
  <<Set("ev.alarm")>> \o BuzzerStartAlarm
StartAndFlag == BuzzerStartAlarm \o <<Set("ev.alarm")>>

OnlyToNormal(old, new) ==   \* mutant: Error -> Warning does not stop the alarm
  (IF new = "ERROR" THEN <<AlarmStart, Set("ev.essential")>>
   ELSE IF old = "ERROR" /\ new = "NORMAL"
        THEN <<AlarmStop, Clear("ev.essential")>> ELSE << >>) \o <<Tell(new)>>

\* The mode LED (led_set_for_mode()) is left out, nobody reads it; essential_only,
\* which nobody reads either, keeps the place of a statement after the siren's.
EventModeChanged(old, new) ==
  (IF new = "ERROR" THEN <<AlarmStart, Set("ev.essential")>>
   ELSE IF old = "ERROR" THEN <<AlarmStop, Clear("ev.essential")>> ELSE << >>)
  \o <<Tell(new)>>

EventObjectDetected ==
  BuzzerStartSonar \o <<Set("ev.sonar"), Set("led"), Tell("detected")>>
EventObjectCleared ==
  BuzzerStop \o <<Clear("ev.sonar"), Clear("led"), Tell("cleared")>>

-----------------------------------------------------------------------------
(* The handlers are called *)

ModeChanges ==
  /\ todo["monitor"] = << >>
  /\ \E new \in Modes \ {mode} :
       /\ mode' = new
       /\ todo' = [todo EXCEPT !["monitor"] = EventModeChanged(mode, new)]
  /\ hushed' = FALSE
  /\ UNCHANGED <<on, tone, presence, told>>

ObjectAppears ==
  /\ todo["objdet"] = << >>
  /\ ~presence
  /\ presence' = TRUE
  /\ todo' = [todo EXCEPT !["objdet"] = EventObjectDetected]
  /\ UNCHANGED <<on, tone, mode, told, hushed>>

ObjectGoes ==
  /\ todo["objdet"] = << >>
  /\ presence
  /\ presence' = FALSE
  /\ todo' = [todo EXCEPT !["objdet"] = EventObjectCleared]
  /\ UNCHANGED <<on, tone, mode, told, hushed>>

-----------------------------------------------------------------------------
(* One statement of task t *)

Doing(t, do) == todo[t] # << >> /\ Head(todo[t]).do = do

\* The statement is done, and `more` is to be done before what was left.
Continue(t, more) == todo' = [todo EXCEPT ![t] = more \o Tail(@)]

\* TIM3 counts after flag f becomes v: HAL_TIM_PWM_Start() and _Base_Start_IT()
\* start it unless channel or interrupt were on already, HAL_TIM_PWM_Stop()
\* stops it, and _Base_Stop_IT() stops it unless the channel is on.
Counts(f, v) ==
  \/ f \notin {"channel", "irq"} /\ on["counter"]
  \/ f = "channel" /\ v
  \/ f = "irq" /\ v /\ (on["counter"] \/ ~on["irq"])
  \/ f = "irq" /\ ~v /\ on["channel"]

StoreFlag(t) ==
  /\ Doing(t, "set") \/ Doing(t, "clear")
  /\ LET f == Head(todo[t]).what
         v == Head(todo[t]).do = "set"
     IN  /\ on' = [on EXCEPT ![f] = v, !["counter"] = Counts(f, v)]
         /\ hushed' = \/ hushed
                      \/ t = "objdet" /\ ~v /\ f \in {"bz.alarm", "channel", "irq"}
  /\ Continue(t, << >>)
  /\ UNCHANGED <<tone, mode, presence, told>>

LoadNote(t) ==
  /\ Doing(t, "play")
  /\ tone' = Head(todo[t]).what
  /\ Continue(t, << >>)
  /\ UNCHANGED <<on, mode, presence, told, hushed>>

TestAlarmStart(t) ==
  /\ Doing(t, "alarm_start")
  /\ Continue(t, IF on["ev.alarm"] THEN << >> ELSE StartAndFlag)
  /\ UNCHANGED <<on, tone, mode, presence, told, hushed>>

\* mutant: alarm_active stays set when the siren is stopped
LeavesFlagSet(t) ==
  /\ Doing(t, "alarm_stop_if_active")
  /\ Continue(t, IF on["ev.alarm"] THEN BuzzerStop ELSE << >>)
  /\ UNCHANGED <<on, tone, mode, presence, told, hushed>>

TestAlarmStop(t) ==
  /\ Doing(t, "alarm_stop_if_active")
  /\ Continue(t, IF on["ev.alarm"] THEN BuzzerStop \o <<Clear("ev.alarm")>>
                                   ELSE << >>)
  /\ UNCHANGED <<on, tone, mode, presence, told, hushed>>

Report(t) ==
  /\ Doing(t, "tell")
  /\ told' = [told EXCEPT ![t] = Head(todo[t]).what]
  /\ Continue(t, << >>)
  /\ UNCHANGED <<on, tone, mode, presence, hushed>>

Statement(t) ==
  \/ StoreFlag(t) \/ LoadNote(t)
  \/ TestAlarmStart(t) \/ TestAlarmStop(t) \/ Report(t)

-----------------------------------------------------------------------------
(* Interrupts *)

Stopped == {"bz.alarm", "bz.sonar", "channel", "irq", "counter"}

\* event_button_pressed(): both if_active functions, each clearing its flag.
Button ==
  /\ on["ev.alarm"] \/ on["ev.sonar"]
  /\ on' = [f \in Flags |-> f \notin Stopped \cup {"ev.alarm", "ev.sonar"} /\ on[f]]
  /\ hushed' = TRUE
  /\ UNCHANGED <<tone, todo, mode, presence, told>>

\* Buzzer_DurationElapsed() at the end of a note or a gap.  A note that it arms
\* turns the channel on again, should a task have turned it off.
NoteEnds ==
  /\ on["irq"] /\ on["counter"]
  /\ \/ /\ on["bz.alarm"]
        /\ on' = [on EXCEPT !["bz.step"] = ~@, !["channel"] = TRUE]
        /\ tone' = IF on["bz.step"] THEN "low" ELSE "high"
     \/ /\ ~on["bz.alarm"] /\ on["bz.sonar"]
        /\ on' = [on EXCEPT !["bz.gap"] = ~@, !["channel"] = @ \/ on["bz.gap"]]
        /\ tone' = IF on["bz.gap"] THEN "ping" ELSE "silence"
     \/ /\ ~on["bz.alarm"] /\ ~on["bz.sonar"]
        /\ on' = [on EXCEPT !["channel"] = FALSE, !["irq"] = FALSE, !["counter"] = FALSE]
        /\ UNCHANGED tone
  /\ UNCHANGED <<todo, mode, presence, told, hushed>>

-----------------------------------------------------------------------------
\* event_create(), Buzzer_Create(), monitor_create(), objdet_create()
AlarmInit ==
  /\ on = [f \in Flags |-> FALSE]
  /\ tone = "silence"
  /\ todo = [t \in Handlers |-> << >>]
  /\ mode = "UNKNOWN"
  /\ presence = FALSE
  /\ told = [t \in Handlers |-> "nothing"]
  /\ hushed = FALSE

AlarmNext ==
  \/ ModeChanges \/ ObjectAppears \/ ObjectGoes
  \/ \E t \in Handlers : Statement(t)
  \/ Button \/ NoteEnds

AlarmSpec == AlarmInit /\ [][AlarmNext]_alarmVars

-----------------------------------------------------------------------------
(* Properties *)

Statements ==
  [do : {"set", "clear"}, what : Flags] \cup [do : {"play"}, what : Tones]
  \cup [do : {"tell"}, what : Modes \cup {"detected", "cleared"}]
  \cup {AlarmStart, AlarmStop}

AlarmTypeOK ==
  /\ on \in [Flags -> BOOLEAN]
  /\ tone \in Tones
  /\ todo \in [Handlers -> Seq(Statements)]
  /\ mode \in Modes \cup {"UNKNOWN"}
  /\ presence \in BOOLEAN
  /\ told["monitor"] \in Modes \cup {"nothing"}
  /\ told["objdet"] \in {"detected", "cleared", "nothing"}
  /\ hushed \in BOOLEAN

Idle == \A t \in Handlers : todo[t] = << >>

\* Whatever has been started, in whatever order the tasks and the interrupts
\* ran, the button can still silence it: with no handler under way the buzzer
\* is on only if one of the flags event_button_pressed() tests is set.
ButtonCanSilence ==
  Idle /\ on["channel"] => on["ev.alarm"] \/ on["ev.sonar"]

\* With no handler under way the siren is armed only in ERROR, the ping only
\* while an object is present, and the buzzer is silent when there is neither.
BuzzerHasCause ==
  Idle => /\ on["bz.alarm"] => mode = "ERROR"
          /\ on["bz.sonar"] => presence
          /\ on["channel"]  => mode = "ERROR" \/ presence

\* Each entry into ERROR starts the siren anew, whatever earlier alarms, objects
\* and presses left in the flags of event.c: with no handler under way it is
\* silent in ERROR only if since then somebody has pressed the button or
\* objdet_task has turned it off (as an object that goes does; nothing starts
\* it again before the mode changes).
ErrorIsHeard ==
  Idle /\ mode = "ERROR" /\ ~hushed
    => \A f \in {"ev.alarm", "bz.alarm", "channel", "irq", "counter"} : on[f]

\* "Only one pattern can sound at a time -- starting this cancels the alarm if
\* it was running, and vice versa." (buzzer.h:36-37)
OnePattern == Idle => ~(on["bz.alarm"] /\ on["bz.sonar"])
=============================================================================
