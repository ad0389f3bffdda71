------------------------------- MODULE CommRx -------------------------------
(***************************************************************************)
(* The receive side of LNC/Core/Src/communication.c: the UART interrupt    *)
(* puts each byte into the queue rxq_bytes and arms the next reception,    *)
(* and arms it again when the HAL has ended it for an overrun;             *)
(* comm_rx_task takes the bytes out, feeds the TLV receiver and runs the   *)
(* handler of each frame that comes out, during which it takes no byte.    *)
(*                                                                         *)
(* The Central Computer sends the commands of Script over and over, a byte *)
(* at a time.  Bytes get lost before the task has started, by an overrun   *)
(* (the next byte arrives before the interrupt has read the last one) and  *)
(* when the queue is full; noise damages them.  Whatever state the line is *)
(* in, the code sees bytes only: n, pos and whole of an item are history.  *)
(***************************************************************************)
EXTENDS TlvReceiver

CONSTANTS
  Script,     \* the commands, as frames, sent in this order again and again
  Depth,      \* osMessageQueueNew count of rxq_bytes
  Damaged,    \* what noise can turn a byte into
  MaxDamaged, \* bound: bytes damaged
  MaxLost     \* bound: bytes lost

ASSUME CommRxAssumption ==
  /\ Script \in Seq(Frames) /\ Script # <<>>
  /\ Depth \in Nat \ {0}
  /\ Damaged \subseteq Byte
  /\ \A n \in 1..Len(Script) : Crc(Covered(Script[n])) \in Byte \X Byte
  /\ MaxDamaged \in Nat /\ MaxLost \in Nat

Line == [n \in 1..Len(Script) |-> Encode(Script[n])]   \* the bytes of the n-th command

Positions == 1..261            \* TLV_MAX_FRAME

\* A byte on its way: which byte of which command it is, and whether it is intact.
Items == [byte : Byte, n : 1..Len(Script), pos : Positions, ok : BOOLEAN]
NoItem == [byte |-> 0, n |-> 0, pos |-> 0, ok |-> FALSE]

Nothing == [n |-> 1, k |-> 0]   \* no byte of a command has been fed intact

VARIABLES
  cmd, sentBytes, \* the command being sent, and how many of its bytes are out
  rdr,       \* receive data register of USART2
  ore,       \* its overrun flag
  armed,     \* HAL_UART_Receive_IT is waiting for a byte, its interrupts enabled
  irq,       \* where HAL_UART_IRQHandler is: "none", not running; "byte" or
             \* "byteAndError", flags read; "error", the error callback to call
  rxq,       \* rxq_bytes
  rx,        \* comm_rx_task: "starting", "waiting" for a byte, or the handler it is in
  recv,      \* g_comm.rx_recv
  result,    \* what the last feed returned
  since,     \* history: bytes fed since the first sync byte of this try
  whole,     \* history: which command is being fed, and how many intact bytes of it
  damaged, lost \* bytes damaged and lost so far (bounded)

line  == <<cmd, sentBytes>>
isr   == <<rdr, ore, armed, irq>>
hist  == <<since, whole>>
faults == <<damaged, lost>>
vars  == <<line, isr, rxq, rx, recv, result, hist, faults>>

-----------------------------------------------------------------------------
(* comm_route_frame()                                                      *)

SetTags == 32..39     \* 0x20..0x27, SET_TEMP_NORMAL to SET_BATT_WARNING

Route(tag) ==
  CASE tag \in SetTags \cup {42} -> "configuration"  \* GET_CONFIG
    [] tag \in {40, 41}          -> "init"           \* GET_TIME, TIME_SYNC_REPLY
    [] tag = 48                  -> "log"            \* QUERY_DATA
    [] tag = 49                  -> "event"          \* QUERY_EVENTS
    [] OTHER                     -> "waiting"        \* no handler

Handlers == {"configuration", "init", "log", "event"}

-----------------------------------------------------------------------------
Init ==
  /\ cmd = 1 /\ sentBytes = 0
  /\ rdr = NoItem /\ ore = FALSE /\ armed = FALSE /\ irq = "none"
  /\ rxq = <<>>
  /\ rx = "starting"
  /\ recv = ReceiverInit
  /\ result = Status("INCOMPLETE")
  /\ since = <<>> /\ whole = Nothing
  /\ damaged = 0 /\ lost = 0

\* The next byte leaves the Central Computer.
Advance ==
  IF sentBytes + 1 = Len(Line[cmd])
  THEN /\ sentBytes' = 0
       /\ cmd' = IF cmd = Len(Script) THEN 1 ELSE cmd + 1
  ELSE sentBytes' = sentBytes + 1 /\ UNCHANGED cmd

Item(b, ok) == [byte |-> b, n |-> cmd, pos |-> sentBytes + 1, ok |-> ok]

Arrives ==
  /\ rdr = NoItem
  /\ rdr' = Item(Line[cmd][sentBytes + 1], TRUE)
  /\ Advance
  /\ UNCHANGED <<ore, armed, irq, rxq, rx, recv, result, hist, faults>>

ArrivesDamaged ==
  /\ rdr = NoItem
  /\ damaged < MaxDamaged
  /\ \E b \in Damaged \ {Line[cmd][sentBytes + 1]} : rdr' = Item(b, FALSE)
  /\ damaged' = damaged + 1
  /\ Advance
  /\ UNCHANGED <<lost, ore, armed, irq, rxq, rx, recv, result, hist>>

Reading == irq \in {"byte", "byteAndError"}

\* The register is still full: the byte is lost and the overrun flag set.  (While
\* the interrupt is about to find the queue full, the bound leaves that loss too.)
Overrun ==
  /\ rdr # NoItem
  /\ lost + (IF Reading /\ Len(rxq) = Depth THEN 1 ELSE 0) < MaxLost
  /\ lost' = lost + 1
  /\ ore' = TRUE
  /\ Advance
  /\ UNCHANGED <<damaged, rdr, armed, irq, rxq, rx, recv, result, hist>>

\* HAL_UART_IRQHandler reads the flags, once, and clears the overrun's.  Noise that
\* damages a byte may also set its noise or framing flag.  An overrun without a
\* byte, whose flag came up between an earlier reading of the flags and of the
\* register, ends the reception (UART_EndRxTransfer).
ReadFlags ==
  /\ irq = "none"
  /\ armed
  /\ \/ /\ rdr # NoItem
        /\ Len(rxq) < Depth \/ lost < MaxLost
        /\ irq' \in IF ore THEN {"byteAndError"}
                    ELSE IF rdr.ok THEN {"byte"} ELSE {"byte", "byteAndError"}
        /\ UNCHANGED armed
     \/ /\ rdr = NoItem /\ ore
        /\ irq' = "error"
        /\ armed' = FALSE
  /\ ore' = FALSE
  /\ UNCHANGED <<line, rdr, rxq, rx, recv, result, hist, faults>>

\* HAL_UART_RxCpltCallback: put with timeout 0, then arm again.
RxCplt ==
  /\ rxq' = IF Len(rxq) < Depth THEN Append(rxq, rdr) ELSE rxq
  /\ lost' = IF Len(rxq) < Depth THEN lost ELSE lost + 1
  /\ armed' = TRUE

\* UART_RxISR_8BIT takes the byte, which completes the reception, and calls
\* RxCplt; that forgets an overrun read before, so the reception goes on, but the
\* error is still reported.
ReadByte ==
  /\ Reading
  /\ rdr' = NoItem
  /\ RxCplt
  /\ irq' = IF irq = "byte" THEN "none" ELSE "error"
  /\ UNCHANGED <<line, ore, rx, recv, result, hist, damaged>>

WeakErrorCallback ==   \* mutant: the empty default of the HAL
  /\ irq = "error"
  /\ irq' = "none"
  /\ UNCHANGED <<line, rdr, ore, armed, rxq, rx, recv, result, hist, faults>>

\* HAL_UART_ErrorCallback: arm again; HAL_BUSY if RxCplt has done so.
ErrorCallback ==
  /\ irq = "error"
  /\ armed' = TRUE
  /\ irq' = "none"
  /\ UNCHANGED <<line, rdr, ore, rxq, rx, recv, result, hist, faults>>

Interrupt == ReadFlags \/ ReadByte \/ ErrorCallback

-----------------------------------------------------------------------------
(* comm_rx_task, which does not run while the interrupt does               *)

Start ==
  /\ rx = "starting"
  /\ recv' = ReceiverInit
  /\ armed' = TRUE
  /\ rx' = "waiting"
  /\ UNCHANGED <<line, rdr, ore, irq, rxq, result, hist, faults>>

\* `since` begins again with each byte that can be the first sync byte.
SinceSync(b) ==
  CASE recv.state = "SOF0"               -> IF b = SOF0 THEN <<b>> ELSE <<>>
    [] recv.state = "SOF1" /\ b = SOF0   -> <<b>>
    [] recv.state = "SOF1" /\ b \notin {SOF0, SOF1} -> <<>>
    [] OTHER                             -> Append(since, b)

\* `whole` counts from a first byte that meets a decoder that is not inside a frame.
WholeSo(i) ==
  IF i.ok /\ i.pos = 1 /\ recv.state \in {"SOF0", "SOF1"} THEN [n |-> i.n, k |-> 1]
  ELSE IF i.ok /\ whole.k > 0 /\ i.n = whole.n /\ i.pos = whole.k + 1
       THEN [whole EXCEPT !.k = i.pos]
  ELSE Nothing

Feed ==
  /\ rx = "waiting"
  /\ rxq # <<>>
  /\ LET i == Head(rxq)
         out == FeedResult(recv, i.byte)
     IN  /\ recv' = FeedByte(recv, i.byte)
         /\ result' = out
         /\ rx' = IF out.status = "OK" THEN Route(out.frame.tag) ELSE "waiting"
         /\ since' = SinceSync(i.byte)
         /\ whole' = WholeSo(i)
  /\ rxq' = Tail(rxq)
  /\ UNCHANGED <<line, isr, faults>>

HandlerReturns ==
  /\ rx \in Handlers
  /\ rx' = "waiting"
  /\ UNCHANGED <<line, isr, rxq, recv, result, hist, faults>>

RxStep == irq = "none" /\ (Start \/ Feed \/ HandlerReturns)

Next == Arrives \/ ArrivesDamaged \/ Overrun \/ Interrupt \/ RxStep

Spec == Init /\ [][Next]_vars

-----------------------------------------------------------------------------
(* Properties                                                              *)

\* Types, and the queue within its depth.
TypeOK ==
  /\ cmd \in 1..Len(Script) /\ sentBytes \in 0..Len(Line[cmd]) - 1
  /\ rdr \in Items \cup {NoItem} /\ ore \in BOOLEAN /\ armed \in BOOLEAN
  /\ irq \in {"none", "byte", "byteAndError", "error"}
  /\ rxq \in Seq(Items) /\ Len(rxq) <= Depth
  /\ rx \in {"starting", "waiting"} \cup Handlers
  /\ recv \in Receivers
  /\ result.status \in {"INCOMPLETE", "CRC", "OK"} /\ result.frame \in Frames
  /\ since \in Seq(Byte)
  /\ whole \in [n : 1..Len(Script), k : 0..261]
  /\ damaged \in 0..MaxDamaged /\ lost \in 0..MaxLost

\* tlv_receiver_feed_byte() finds in the bytes since the first sync byte exactly
\* what tlv_decode() finds in them as a block: the same verdict and the same
\* frame, for every byte sequence, noise and truncated frames included
\* (tlv.h: "This does exactly the same decoding as tlv_decode above").
AgreesWithBlockDecoder == result = Decode(since)

\* A command whose bytes all reach the task intact, the first while the decoder
\* is between frames, is accepted as it was sent when its last byte is fed:
\* neither noise before it nor what the decoder remembers of an earlier frame
\* can spoil it.
IntactIsDelivered ==
  whole.k = Len(Line[whole.n]) => result = [status |-> "OK", frame |-> Script[whole.n]]

\* The commands whose last byte has still to be fed, oldest first.
LastByte(i) == i # NoItem /\ i.pos = Len(Line[i.n])

ScriptFrame(i) == Script[i.n]

Queued(s) ==
  LET upTo[n \in 0..Len(s)] ==
        IF n = 0 THEN <<>>
        ELSE IF LastByte(s[n]) THEN Append(upTo[n - 1], ScriptFrame(s[n]))
        ELSE upTo[n - 1]
  IN  upTo[Len(s)]

Pending == Queued(Append(rxq, rdr))
             \o (IF sentBytes > 0 THEN <<Script[cmd]>> ELSE <<>>)

Stream == INSTANCE FrameStream WITH
            Frame   <- {Script[n] : n \in 1..Len(Script)},
            NoFrame <- NoFrame,
            pending <- Pending,
            handled <- IF rx \in Handlers THEN result.frame ELSE NoFrame

\* The receive side implements FrameStream: every handler that runs runs for a
\* command that the Central Computer sent, never for one put together from
\* pieces of several, never twice for one, never out of order.
ImplementsFrameStream == Stream!Spec

\* A frame passes only if the bytes since its sync pair include a whole command,
\* intact: no damaged or incomplete one has a CRC that happens to fit.  That
\* depends on the CRC and on the commands as well as on the decoder; wherever it
\* holds, ImplementsFrameStream does.
OnlyWholePass == result.status = "OK" => whole.k = Len(Line[whole.n])

\* Once the task has started, the UART is waiting for a byte after every interrupt,
\* whatever flags it has read and however late it read the register: also when
\* the HAL has ended the reception for an overrun that came without a byte
\* (communication.c: "so one line glitch doesn't permanently stop reception").
NeverDeaf == rx # "starting" /\ irq = "none" => armed
=============================================================================
