-------------------------------- MODULE Fleet --------------------------------
(***************************************************************************)
(* GroundStation/src/fleet, driven by the menu of GroundStation/main.cpp:  *)
(* FleetManager owns the submarines and never removes one; a combat        *)
(* submarine has a current mission while it is assigned, a history of past *)
(* ones, and a vector of pointers to the submarines it is linked to.       *)
(*                                                                         *)
(* One operator, one thread: each menu action is one step.  Names, topics, *)
(* researchers and message texts are left out; a mission is a value.       *)
(***************************************************************************)
EXTENDS Naturals, Sequences

CONSTANTS
  Serials,    \* serial numbers the operator types
  Missions,   \* details of combat missions
  None,       \* no mission
  MaxPast,    \* bound: missions in a history
  MaxInbox    \* bound: messages in an inbox

ASSUME FleetAssumption ==
  /\ None \notin Missions
  /\ MaxPast \in Nat
  /\ MaxInbox \in Nat

VARIABLES
  type,      \* type[s]: "none" as long as s is not in submarines_
  assigned,  \* assigned_
  mission,   \* currentMission_
  history,   \* missionHistory_
  linked,    \* linkedSubmarines_
  inbox      \* receivedMessages_: who sent them

fleetVars == <<type, assigned, mission, history, linked, inbox>>

Elements(seq) == {seq[i] : i \in DOMAIN seq}
IsLinkedTo(s, other) == other \in Elements(linked[s])
FindCombatSubmarine(s) == type[s] = "combat"

\* std::remove() and erase(): seq without s, the others in their order.
Without(seq, s) ==
  LET kept[n \in 0..Len(seq)] ==
        IF n = 0 THEN << >>
        ELSE IF seq[n] = s THEN kept[n - 1]
        ELSE Append(kept[n - 1], seq[n])
  IN  kept[Len(seq)]

-----------------------------------------------------------------------------
AddSubmarine(s) ==
  /\ type[s] = "none"
  /\ type' \in {[type EXCEPT ![s] = t] : t \in {"research", "combat"}}
  /\ UNCHANGED <<assigned, mission, history, linked, inbox>>

\* do_assign_mission() with details that are accepted
AssignMission(s) ==
  /\ type[s] # "none"
  /\ ~assigned[s]
  /\ assigned' = [assigned EXCEPT ![s] = TRUE]
  /\ IF type[s] = "combat"
       THEN mission' \in {[mission EXCEPT ![s] = m] : m \in Missions}
       ELSE UNCHANGED mission
  /\ UNCHANGED <<type, history, linked, inbox>>

UpdateMission(s) ==
  /\ type[s] = "combat"
  /\ assigned[s]
  /\ mission' \in {[mission EXCEPT ![s] = m] : m \in Missions}
  /\ UNCHANGED <<type, assigned, history, linked, inbox>>

BaseClassOnly(s) ==   \* mutant: CombatSubmarine does not override endMission()
  /\ assigned[s]
  /\ assigned' = [assigned EXCEPT ![s] = FALSE]
  /\ UNCHANGED <<type, mission, history, linked, inbox>>

\* The base class's endMission() first, then the combat submarine's own part.
EndMission(s) ==
  /\ assigned[s]
  /\ Len(history[s]) < MaxPast
  /\ assigned' = [assigned EXCEPT ![s] = FALSE]
  /\ mission' = [mission EXCEPT ![s] = None]
  /\ history' = [history EXCEPT ![s] =
                   IF mission[s] = None THEN @ ELSE Append(@, mission[s])]
  /\ linked' = [t \in Serials |->
                  IF t = s THEN << >>
                  ELSE IF IsLinkedTo(s, t) THEN Without(linked[t], s)
                  ELSE linked[t]]
  /\ UNCHANGED <<type, inbox>>

LinksOneWay(s, other) ==   \* mutant: the other end is not told
  /\ FindCombatSubmarine(s) /\ FindCombatSubmarine(other)
  /\ other # s
  /\ ~IsLinkedTo(s, other)
  /\ linked' = [linked EXCEPT ![s] = Append(@, other)]
  /\ UNCHANGED <<type, assigned, mission, history, inbox>>

LinkSubmarine(s, other) ==
  /\ FindCombatSubmarine(s) /\ FindCombatSubmarine(other)
  /\ other # s
  /\ ~IsLinkedTo(s, other)
  /\ linked' = [linked EXCEPT ![s] = Append(@, other), ![other] = Append(@, s)]
  /\ UNCHANGED <<type, assigned, mission, history, inbox>>

SendMessage(s, recipient) ==
  /\ FindCombatSubmarine(s) /\ FindCombatSubmarine(recipient)
  /\ IsLinkedTo(s, recipient)
  /\ Len(inbox[recipient]) < MaxInbox
  /\ inbox' = [inbox EXCEPT ![recipient] = Append(@, s)]
  /\ UNCHANGED <<type, assigned, mission, history, linked>>

-----------------------------------------------------------------------------
FleetInit ==
  /\ type     = [s \in Serials |-> "none"]
  /\ assigned = [s \in Serials |-> FALSE]
  /\ mission  = [s \in Serials |-> None]
  /\ history  = [s \in Serials |-> << >>]
  /\ linked   = [s \in Serials |-> << >>]
  /\ inbox    = [s \in Serials |-> << >>]

FleetNext ==
  \/ \E s \in Serials :
       AddSubmarine(s) \/ AssignMission(s) \/ UpdateMission(s) \/ EndMission(s)
  \/ \E s, t \in Serials : LinkSubmarine(s, t) \/ SendMessage(s, t)

FleetSpec == FleetInit /\ [][FleetNext]_fleetVars

-----------------------------------------------------------------------------
(* Properties *)

FleetTypeOK ==
  /\ type \in [Serials -> {"none", "research", "combat"}]
  /\ assigned \in [Serials -> BOOLEAN]
  /\ mission \in [Serials -> Missions \cup {None}]
  /\ history \in [Serials -> Seq(Missions)]
  /\ linked \in [Serials -> Seq(Serials)]
  /\ inbox \in [Serials -> Seq(Serials)]

\* A link is always known to both ends, once to each, and never leads back to
\* the submarine itself: linkSubmarine() asks only one end whether it exists.
LinksAreMutual ==
  \A s, t \in Serials :
    /\ IsLinkedTo(s, t) => s # t /\ IsLinkedTo(t, s)
    /\ \A i, j \in DOMAIN linked[s] : linked[s][i] = linked[s][j] => i = j

\* do_update_mission() follows currentMission() without a null check when the
\* submarine is assigned: an assigned combat submarine has one, an available
\* one has none.
MissionWhileAssigned ==
  \A s \in Serials :
    type[s] = "combat" => (assigned[s] <=> mission[s] # None)

\* "tracks the other combat submarines sharing its current mission"
\* (combat_submarine.h:5-6): whoever is linked has a mission.
LinkedHaveMissions ==
  \A s \in Serials : linked[s] # << >> => mission[s] # None
=============================================================================
