------------------------------ MODULE CommLink ------------------------------
(***************************************************************************)
(* What the LNC's communication module promises the tasks that call        *)
(* comm_send(): a link with one bounded FIFO per priority class.  A frame  *)
(* that was accepted leaves on the wire exactly once, in the order of its  *)
(* class, and nothing else ever leaves; a keep-alive that is waiting goes  *)
(* before everything else.  CommTx implements it with three RTOS queues,   *)
(* a counting semaphore and a transmitter task.                            *)
(***************************************************************************)
EXTENDS Naturals, Sequences

CONSTANTS
  Classes,   \* the priority classes
  Urgent,    \* the class that goes before all others
  Items,     \* what can be sent
  Depth      \* Depth[c]: how many accepted items of class c may wait

VARIABLES
  waiting,   \* waiting[c]: accepted and not yet on the wire
  wire       \* wire[c]: everything of class c that left, in order

vars == <<waiting, wire>>

Init ==
  /\ waiting \in [Classes -> Seq(Items)]
  /\ wire = [c \in Classes |-> << >>]

\* A rejected frame (its class is full) changes nothing: a stuttering step.
Accept(c, i) ==
  /\ Len(waiting[c]) < Depth[c]
  /\ waiting' = [waiting EXCEPT ![c] = Append(@, i)]
  /\ UNCHANGED wire

Deliver(c) ==
  /\ waiting[c] # << >>
  /\ c # Urgent => waiting[Urgent] = << >>
  /\ wire' = [wire EXCEPT ![c] = Append(@, Head(waiting[c]))]
  /\ waiting' = [waiting EXCEPT ![c] = Tail(@)]

Next ==
  \/ \E c \in Classes, i \in Items : Accept(c, i)
  \/ \E c \in Classes : Deliver(c)

Spec == Init /\ [][Next]_vars
=============================================================================
