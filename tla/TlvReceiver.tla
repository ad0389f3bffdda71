---------------------------- MODULE TlvReceiver ----------------------------
(***************************************************************************)
(* Shared/ProtocolTLV/tlv.c, the part that both ends of the link run on    *)
(* every byte: a frame is SOF0 SOF1 TAG LEN VALUE CRC_HI CRC_LO, encoded   *)
(* by tlv_encode(), decoded a byte at a time by tlv_receiver_feed_byte()   *)
(* or as a block by tlv_decode().                                          *)
(*                                                                         *)
(* The receiver is a record.  crc_calc is represented by the bytes fed to  *)
(* it since it was last set to 0xFFFF (covered): Crc of them is its value. *)
(* idx is Len(value).  The three counters are diagnostics that no code     *)
(* reads.                                                                  *)
(***************************************************************************)
EXTENDS Naturals, Sequences

CONSTANTS
  SOF0, SOF1,  \* the two sync bytes
  Crc(_)       \* tlv_crc16: the two CRC bytes <<high, low>> of a sequence of bytes

Byte == 0..255

ASSUME TlvAssumption == SOF0 \in Byte /\ SOF1 \in Byte /\ SOF0 # SOF1

Pair(hi, lo) == <<hi, lo>>

Frames == [tag : Byte, value : {s \in Seq(Byte) : Len(s) <= 255}]

\* tlv_encode: what crosses the line for one frame.
Covered(f) == <<f.tag, Len(f.value)>> \o f.value
Encode(f)  == <<SOF0, SOF1>> \o Covered(f) \o Crc(Covered(f))

-----------------------------------------------------------------------------
(* The block decoder, tlv_decode(): a status and, with OK, the frame.      *)

NoFrame == [tag |-> 0, value |-> <<>>]

Status(s) == [status |-> s, frame |-> NoFrame]

HeaderSize == 4

Decode(in) ==
  LET len   == in[3 + 1]
      total == HeaderSize + len + 2
      body  == SubSeq(in, 3, HeaderSize + len)
  IN  IF \/ Len(in) >= 1 /\ in[1] # SOF0
         \/ Len(in) >= 2 /\ in[2] # SOF1
      THEN Status("NO_SOF")
      ELSE IF Len(in) < HeaderSize + 2 \/ Len(in) < total THEN Status("INCOMPLETE")
      ELSE IF Pair(in[total - 1], in[total]) # Crc(body) THEN Status("CRC")
      ELSE [status |-> "OK",
            frame  |-> [tag |-> in[3], value |-> SubSeq(in, HeaderSize + 1, HeaderSize + len)]]

-----------------------------------------------------------------------------
(* The streaming decoder.                                                  *)

States == {"SOF0", "SOF1", "TAG", "LEN", "VALUE", "CRC_HI", "CRC_LO"}

Receivers == [state : States, tag : Byte, len : Byte, value : Seq(Byte),
              covered : Seq(Byte), crc_hi : Byte]

ReceiverInit == [state |-> "SOF0", tag |-> 0, len |-> 0, value |-> <<>>,
                 covered |-> <<>>, crc_hi |-> 0]

\* tlv_crc16_update on one more byte
Update(r, b) == Append(r.covered, b)

\* mutant: goes back to hunting after A5 A5
LeavesSof1(r, b) ==
  IF b = SOF1 THEN [r EXCEPT !.state = "TAG", !.covered = <<>>]
  ELSE [r EXCEPT !.state = "SOF0"]

AfterSof1(r, b) ==
  IF b = SOF1 THEN [r EXCEPT !.state = "TAG", !.covered = <<>>]
  ELSE IF b = SOF0 THEN r                      \* A5 A5 5A is a valid start
  ELSE [r EXCEPT !.state = "SOF0"]

\* mutant: expects a value even if its length is zero
ZeroHasValue(r, b) ==
  [r EXCEPT !.len = b, !.value = <<>>, !.covered = Update(r, b), !.state = "VALUE"]

AfterLen(r, b) ==
  [r EXCEPT !.len = b, !.value = <<>>, !.covered = Update(r, b),
            !.state = IF b = 0 THEN "CRC_HI" ELSE "VALUE"]

AfterValue(r, b) ==
  [r EXCEPT !.value = Append(@, b), !.covered = Update(r, b),
            !.state = IF Len(r.value) + 1 >= r.len THEN "CRC_HI" ELSE "VALUE"]

FeedByte(r, b) ==
  CASE r.state = "SOF0"   -> IF b = SOF0 THEN [r EXCEPT !.state = "SOF1"] ELSE r
    [] r.state = "SOF1"   -> AfterSof1(r, b)
    [] r.state = "TAG"    -> [r EXCEPT !.tag = b, !.covered = Update(r, b), !.state = "LEN"]
    [] r.state = "LEN"    -> AfterLen(r, b)
    [] r.state = "VALUE"  -> AfterValue(r, b)
    [] r.state = "CRC_HI" -> [r EXCEPT !.crc_hi = b, !.state = "CRC_LO"]
    [] OTHER              -> [r EXCEPT !.state = "SOF0"]

\* mutant: compares only the high byte of the CRC
HalfTheCrc(r, b) ==
  IF r.state # "CRC_LO" THEN Status("INCOMPLETE")
  ELSE IF r.crc_hi # Crc(r.covered)[1] THEN Status("CRC")
  ELSE [status |-> "OK", frame |-> [tag |-> r.tag, value |-> r.value]]

\* what tlv_receiver_feed_byte() returns for byte b, and *out
FeedResult(r, b) ==
  IF r.state # "CRC_LO" THEN Status("INCOMPLETE")
  ELSE IF Pair(r.crc_hi, b) # Crc(r.covered) THEN Status("CRC")
  ELSE [status |-> "OK", frame |-> [tag |-> r.tag, value |-> r.value]]
=============================================================================
