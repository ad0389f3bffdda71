---------------------------- MODULE FrameStream ----------------------------
(***************************************************************************)
(* What a receiver of frames promises, whatever happens to the bytes: it   *)
(* may lose frames, but it hands on only frames that were sent, each at    *)
(* most once and in the order in which they were sent.                     *)
(***************************************************************************)
EXTENDS Naturals, Sequences

CONSTANTS Frame, NoFrame

VARIABLES
  pending,  \* the frames on their way, oldest first
  handled   \* the frame a handler is working on, or NoFrame

vars == <<pending, handled>>

Init == pending = <<>> /\ handled = NoFrame

Send(f) == /\ pending' = Append(pending, f)
           /\ UNCHANGED handled

Without(s, i) == SubSeq(s, 1, i - 1) \o SubSeq(s, i + 1, Len(s))

Lose(i) == /\ pending' = Without(pending, i)
           /\ UNCHANGED handled

Deliver == /\ handled = NoFrame
           /\ pending # <<>>
           /\ handled' = Head(pending)
           /\ pending' = Tail(pending)

Finish == /\ handled # NoFrame
          /\ handled' = NoFrame
          /\ UNCHANGED pending

Next == \/ \E f \in Frame : Send(f)
        \/ \E i \in 1..Len(pending) : Lose(i)
        \/ Deliver
        \/ Finish

Spec == Init /\ [][Next]_vars
=============================================================================
