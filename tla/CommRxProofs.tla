---------------------------- MODULE CommRxProofs ----------------------------
(***************************************************************************)
(* Theorems about CommRx, for every script of commands, every CRC, every   *)
(* depth of the queue and any number of lost and damaged bytes.            *)
(***************************************************************************)
EXTENDS CommRx, SequenceTheorems, NaturalsInduction, WellFoundedInduction, TLAPS

-----------------------------------------------------------------------------
(* The codec                                                               *)

\* Two sequences of bytes, one after the other.
LEMMA Concat ==
  ASSUME NEW s \in Seq(Byte), NEW t \in Seq(Byte)
  PROVE  /\ s \o t \in Seq(Byte)
         /\ Len(s \o t) = Len(s) + Len(t)
         /\ \A i \in 1..Len(s) : (s \o t)[i] = s[i]
         /\ \A i \in 1..Len(t) : (s \o t)[Len(s) + i] = t[i]
<1>0. Len(s) \in Nat /\ Len(t) \in Nat
  BY LenProperties
<1>1. /\ s \o t \in Seq(Byte)
      /\ Len(s \o t) = Len(s) + Len(t)
      /\ \A i \in 1..Len(s) + Len(t) :
           (s \o t)[i] = IF i <= Len(s) THEN s[i] ELSE t[i - Len(s)]
  BY ConcatProperties
<1>2. ASSUME NEW i \in 1..Len(s) PROVE (s \o t)[i] = s[i]
  BY <1>0, <1>1
<1>3. ASSUME NEW i \in 1..Len(t) PROVE (s \o t)[Len(s) + i] = t[i]
  <2>1. /\ Len(s) + i \in 1..Len(s) + Len(t)
        /\ ~(Len(s) + i <= Len(s))
        /\ (Len(s) + i) - Len(s) = i
    BY <1>0
  <2> QED  BY <1>1, <2>1
<1> QED
  BY <1>1, <1>2, <1>3

\* The fields of a frame.
LEMMA FrameType ==
  ASSUME NEW f \in Frames
  PROVE  f.tag \in Byte /\ f.value \in Seq(Byte) /\ Len(f.value) \in Byte
<1>1. f.tag \in Byte /\ f.value \in Seq(Byte) /\ Len(f.value) <= 255
  BY DEF Frames
<1>2. Len(f.value) \in Nat
  BY <1>1, LenProperties
<1>3. \A n \in Nat : n <= 255 => n \in Byte
  BY DEF Byte
<1> QED
  BY <1>1, <1>2, <1>3

\* What the CRC of a frame is run over: tag, length and value.
LEMMA CoveredIs ==
  ASSUME NEW f \in Frames
  PROVE  /\ Covered(f) \in Seq(Byte)
         /\ Len(Covered(f)) = Len(f.value) + 2
         /\ Covered(f)[1] = f.tag
         /\ Covered(f)[2] = Len(f.value)
         /\ \A i \in 1..Len(f.value) : Covered(f)[i + 2] = f.value[i]
<1> DEFINE L == Len(f.value)
           head == <<f.tag, L>>
<1>1. f.value \in Seq(Byte) /\ L \in Byte /\ L \in Nat /\ f.tag \in Byte
  BY FrameType DEF Byte
<1>2. head \in Seq(Byte) /\ Len(head) = 2 /\ head[1] = f.tag /\ head[2] = L
  BY <1>1
<1>3. Len(f.value) = L
  OBVIOUS
<1> HIDE DEF head, L
<1>4. /\ head \o f.value \in Seq(Byte)
      /\ Len(head \o f.value) = 2 + L
      /\ \A i \in 1..2 : (head \o f.value)[i] = head[i]
      /\ \A i \in 1..L : (head \o f.value)[2 + i] = f.value[i]
  <2>1. /\ head \o f.value \in Seq(Byte)
        /\ Len(head \o f.value) = Len(head) + Len(f.value)
        /\ \A i \in 1..Len(head) : (head \o f.value)[i] = head[i]
        /\ \A i \in 1..Len(f.value) : (head \o f.value)[Len(head) + i] = f.value[i]
    BY <1>1, <1>2, Concat
  <2> QED  BY <1>2, <1>3, <2>1
<1>5. Covered(f) = head \o f.value
  BY DEF Covered, head, L
<1>6. /\ Len(Covered(f)) = L + 2
      /\ Covered(f)[1] = f.tag
      /\ Covered(f)[2] = L
      /\ \A i \in 1..L : Covered(f)[i + 2] = f.value[i]
  BY <1>1, <1>2, <1>4, <1>5
<1> QED
  BY <1>3, <1>4, <1>5, <1>6

\* The bytes of an encoded frame.
LEMMA EncodeIs ==
  ASSUME NEW f \in Frames, Crc(Covered(f)) \in Byte \X Byte
  PROVE  /\ Encode(f) \in Seq(Byte)
         /\ Len(Encode(f)) = Len(f.value) + 6
         /\ Encode(f)[1] = SOF0
         /\ Encode(f)[2] = SOF1
         /\ Encode(f)[3] = f.tag
         /\ Encode(f)[4] = Len(f.value)
         /\ \A i \in 1..Len(f.value) : Encode(f)[i + 4] = f.value[i]
         /\ \A i \in 1..Len(f.value) + 2 : Encode(f)[i + 2] = Covered(f)[i]
         /\ Encode(f)[Len(f.value) + 5] = Crc(Covered(f))[1]
         /\ Encode(f)[Len(f.value) + 6] = Crc(Covered(f))[2]
<1> DEFINE L == Len(f.value)
           cov == Covered(f)
           crc == Crc(cov)
           sync == <<SOF0, SOF1>>
           front == sync \o cov
<1>1. L \in Nat
  BY FrameType DEF Byte
<1>2. /\ cov \in Seq(Byte) /\ Len(cov) = L + 2
      /\ cov[1] = f.tag /\ cov[2] = L
      /\ \A i \in 1..L : cov[i + 2] = f.value[i]
  BY CoveredIs
<1>3. crc \in Seq(Byte) /\ Len(crc) = 2
  <2>1. PICK hi \in Byte, lo \in Byte : crc = <<hi, lo>>
    OBVIOUS
  <2> QED  BY <2>1
<1>4. sync \in Seq(Byte) /\ Len(sync) = 2 /\ sync[1] = SOF0 /\ sync[2] = SOF1
  BY TlvAssumption
<1>5. Encode(f) = front \o crc
  BY DEF Encode
<1> HIDE DEF sync, cov, crc, L
<1>6. /\ front \in Seq(Byte)
      /\ Len(front) = 2 + (L + 2)
      /\ \A i \in 1..2 : front[i] = sync[i]
      /\ \A i \in 1..L + 2 : front[2 + i] = cov[i]
  <2>1. /\ front \in Seq(Byte)
        /\ Len(front) = Len(sync) + Len(cov)
        /\ \A i \in 1..Len(sync) : front[i] = sync[i]
        /\ \A i \in 1..Len(cov) : front[Len(sync) + i] = cov[i]
    BY <1>2, <1>4, Concat
  <2> QED  BY <1>2, <1>4, <2>1
<1> HIDE DEF front
<1>7. /\ front \o crc \in Seq(Byte)
      /\ Len(front \o crc) = (L + 4) + 2
      /\ \A i \in 1..L + 4 : (front \o crc)[i] = front[i]
      /\ \A i \in 1..2 : (front \o crc)[(L + 4) + i] = crc[i]
  <2>1. Len(front) = L + 4
    BY <1>1, <1>6
  <2>2. /\ front \o crc \in Seq(Byte)
        /\ Len(front \o crc) = Len(front) + Len(crc)
        /\ \A i \in 1..Len(front) : (front \o crc)[i] = front[i]
        /\ \A i \in 1..Len(crc) : (front \o crc)[Len(front) + i] = crc[i]
    BY <1>3, <1>6, Concat
  <2> QED  BY <1>3, <2>1, <2>2
<1>8. \A i \in 1..L + 2 : Encode(f)[i + 2] = cov[i]
  <2> SUFFICES ASSUME NEW i \in 1..L + 2 PROVE Encode(f)[i + 2] = cov[i]
    OBVIOUS
  <2>1. i + 2 \in 1..L + 4 /\ i + 2 = 2 + i
    BY <1>1
  <2> QED  BY <2>1, <1>5, <1>6, <1>7
<1>9. Encode(f)[1] = SOF0 /\ Encode(f)[2] = SOF1
  BY <1>1, <1>4, <1>5, <1>6, <1>7
<1>10. Encode(f)[L + 5] = crc[1] /\ Encode(f)[L + 6] = crc[2]
  <2>1. L + 5 = (L + 4) + 1 /\ L + 6 = (L + 4) + 2
    BY <1>1
  <2>2. (front \o crc)[(L + 4) + 1] = crc[1] /\ (front \o crc)[(L + 4) + 2] = crc[2]
    <3>1. 1 \in 1..2 /\ 2 \in 1..2
      OBVIOUS
    <3> QED  BY <3>1, <1>7
  <2> QED  BY <2>1, <2>2, <1>5
<1>11. Encode(f)[3] = f.tag /\ Encode(f)[4] = L
  <2>1. Encode(f)[1 + 2] = cov[1] /\ Encode(f)[2 + 2] = cov[2]
    BY <1>1, <1>8
  <2> QED  BY <2>1, <1>2
<1>12. \A i \in 1..L : Encode(f)[i + 4] = f.value[i]
  <2> SUFFICES ASSUME NEW i \in 1..L PROVE Encode(f)[i + 4] = f.value[i]
    OBVIOUS
  <2>1. Encode(f)[(i + 2) + 2] = cov[i + 2]
    BY <1>1, <1>8
  <2> QED  BY <2>1, <1>1, <1>2
<1>13. Encode(f) \in Seq(Byte) /\ Len(Encode(f)) = L + 6
  BY <1>1, <1>5, <1>7
<1> QED
  BY <1>8, <1>9, <1>10, <1>11, <1>12, <1>13 DEF L, cov, crc

\* A byte is a number from 0 to 255.
LEMMA Bytes == \A b \in Byte : b \in Nat /\ b \in Int /\ b >= 0 /\ b <= 255
  BY DEF Byte

\* Each element of a sequence of bytes is one.
LEMMA ByteAt ==
  ASSUME NEW s \in Seq(Byte), NEW i \in 1..Len(s)
  PROVE  s[i] \in Byte
  BY ElementOfSeq

\* A piece of a sequence, given element by element.
LEMMA Slice ==
  ASSUME NEW s \in Seq(Byte), NEW m \in Nat, NEW n \in Nat, m >= 1, n <= Len(s),
         NEW t \in Seq(Byte), Len(t) = n - m + 1,
         \A i \in 1..Len(t) : t[i] = s[m + i - 1]
  PROVE  SubSeq(s, m, n) = t
<1>0. Len(s) \in Nat /\ Len(t) \in Nat
  BY LenProperties
<1>1. \A i \in m..n : s[i] \in Byte
  BY <1>0, ByteAt
<1>2. m \in Int /\ n \in Int
  OBVIOUS
<1>3. /\ SubSeq(s, m, n) \in Seq(Byte)
      /\ Len(SubSeq(s, m, n)) = IF m <= n THEN n - m + 1 ELSE 0
      /\ \A i \in 1..n - m + 1 : SubSeq(s, m, n)[i] = s[m + i - 1]
  BY <1>1, <1>2, SubSeqProperties
<1>4. Len(SubSeq(s, m, n)) = Len(t)
  BY <1>0, <1>3
<1>5. \A i \in 1..Len(SubSeq(s, m, n)) : SubSeq(s, m, n)[i] = t[i]
  BY <1>3, <1>4
<1> QED
  BY <1>3, <1>4, <1>5, SeqEqual

\* The verdicts of tlv_decode(), from the bytes one by one.
LEMMA DecodeShort ==
  ASSUME NEW in \in Seq(Byte),
         Len(in) < 6,
         Len(in) >= 1 => in[1] = SOF0,
         Len(in) >= 2 => in[2] = SOF1
  PROVE  Decode(in) = Status("INCOMPLETE")
  BY DEF Decode, HeaderSize

\* tlv_decode() of fewer bytes than the length byte announces.
LEMMA DecodePartial ==
  ASSUME NEW in \in Seq(Byte),
         Len(in) >= 4, in[1] = SOF0, in[2] = SOF1, Len(in) < in[4] + 6
  PROVE  Decode(in) = Status("INCOMPLETE")
<1>1. Len(in) \in Nat
  BY LenProperties
<1>2. in[4] \in Byte
  BY <1>1, ByteAt
<1>3. in[4] \in Nat
  BY <1>2, Bytes
<1>4. Len(in) < HeaderSize + 2 \/ Len(in) < HeaderSize + in[3 + 1] + 2
  BY <1>1, <1>3 DEF HeaderSize
<1> QED
  BY <1>4 DEF Decode

\* tlv_decode() of exactly as many.
LEMMA DecodeWhole ==
  ASSUME NEW in \in Seq(Byte), NEW covered \in Seq(Byte), NEW value \in Seq(Byte),
         Len(in) >= 6, in[1] = SOF0, in[2] = SOF1, Len(in) = in[4] + 6,
         Len(covered) = in[4] + 2, Len(value) = in[4],
         \A i \in 1..in[4] + 2 : covered[i] = in[i + 2],
         \A i \in 1..in[4] : value[i] = in[i + 4]
  PROVE  Decode(in) =
           IF <<in[in[4] + 5], in[in[4] + 6]>> # Crc(covered) THEN Status("CRC")
           ELSE [status |-> "OK", frame |-> [tag |-> in[3], value |-> value]]
<1>0. Len(in) \in Nat
  BY LenProperties
<1>1. PICK len \in Nat : len = in[4]
  <2>1. in[4] \in Byte
    BY <1>0, ByteAt
  <2> QED  BY <2>1, Bytes
<1>2. SubSeq(in, 3, 4 + len) = covered
  <2>1. 3 \in Nat /\ 4 + len \in Nat /\ 4 + len <= Len(in)
    BY <1>1
  <2>2. Len(covered) = (4 + len) - 3 + 1
    BY <1>1
  <2>3. \A i \in 1..Len(covered) : covered[i] = in[3 + i - 1]
    BY <1>1
  <2> QED  BY <2>1, <2>2, <2>3, Slice
<1>3. SubSeq(in, 5, 4 + len) = value
  <2>1. 5 \in Nat /\ 4 + len \in Nat /\ 4 + len <= Len(in)
    BY <1>1
  <2>2. Len(value) = (4 + len) - 5 + 1
    BY <1>1
  <2>3. \A i \in 1..Len(value) : value[i] = in[5 + i - 1]
    BY <1>1
  <2> QED  BY <2>1, <2>2, <2>3, Slice
<1>4. /\ in[3 + 1] = len
      /\ ~(Len(in) < 4 + 2) /\ ~(Len(in) < 4 + len + 2)
      /\ 4 + len + 2 - 1 = len + 5 /\ 4 + len + 2 = len + 6 /\ 4 + 1 = 5
  BY <1>0, <1>1
<1>5. ~((Len(in) >= 1 /\ in[1] # SOF0) \/ (Len(in) >= 2 /\ in[2] # SOF1))
  OBVIOUS
<1>6. Decode(in) =
        IF Pair(in[4 + len + 2 - 1], in[4 + len + 2]) # Crc(SubSeq(in, 3, 4 + len))
        THEN Status("CRC")
        ELSE [status |-> "OK",
              frame  |-> [tag |-> in[3], value |-> SubSeq(in, 4 + 1, 4 + len)]]
  BY <1>4, <1>5 DEF Decode, HeaderSize
<1> QED
  BY <1>1, <1>2, <1>3, <1>4, <1>6 DEF Pair

\* tlv_decode() of what tlv_encode() wrote is the frame that went in.
THEOREM RoundTrip ==
  ASSUME NEW f \in Frames, Crc(Covered(f)) \in Byte \X Byte
  PROVE  Decode(Encode(f)) = [status |-> "OK", frame |-> f]
<1> DEFINE in == Encode(f)
           L == Len(f.value)
<1>1. /\ in \in Seq(Byte)
      /\ Len(in) = L + 6
      /\ in[1] = SOF0 /\ in[2] = SOF1 /\ in[3] = f.tag /\ in[4] = L
      /\ \A i \in 1..L : in[i + 4] = f.value[i]
      /\ \A i \in 1..L + 2 : in[i + 2] = Covered(f)[i]
      /\ in[L + 5] = Crc(Covered(f))[1]
      /\ in[L + 6] = Crc(Covered(f))[2]
  BY EncodeIs
<1>2. f.value \in Seq(Byte) /\ L \in Nat
  BY FrameType DEF Byte
<1>3. Covered(f) \in Seq(Byte) /\ Len(Covered(f)) = L + 2
  BY CoveredIs
<1>4. <<in[L + 5], in[L + 6]>> = Crc(Covered(f))
  <2>1. PICK hi \in Byte, lo \in Byte : Crc(Covered(f)) = <<hi, lo>>
    OBVIOUS
  <2> QED  BY <1>1, <2>1
<1>5. f = [tag |-> f.tag, value |-> f.value]
  BY DEF Frames
<1> HIDE DEF in, L
<1>6. Decode(in) = IF <<in[in[4] + 5], in[in[4] + 6]>> # Crc(Covered(f)) THEN Status("CRC")
                   ELSE [status |-> "OK", frame |-> [tag |-> in[3], value |-> f.value]]
  <2>1. Len(in) >= 6 /\ Len(f.value) = in[4]
    BY <1>1, <1>2 DEF L
  <2> QED  BY <1>1, <1>2, <1>3, <2>1, DecodeWhole
<1> QED
  BY <1>1, <1>4, <1>5, <1>6 DEF in

-----------------------------------------------------------------------------
(* The streaming decoder in step with the bytes it has been fed            *)

\* r has read a whole header, and what it has gathered is what s holds.
Inside(r, s) ==
  /\ Len(s) >= 4 /\ s[1] = SOF0 /\ s[2] = SOF1 /\ s[3] = r.tag /\ s[4] = r.len
  /\ Len(r.covered) = Len(r.value) + 2
  /\ \A i \in 1..Len(r.value) + 2 : r.covered[i] = s[i + 2]
  /\ \A i \in 1..Len(r.value) : r.value[i] = s[i + 4]

InStep(r, s) ==
  /\ r.state = "SOF0"   => s = <<>> \/ (Len(s) >= 6 /\ Len(s) = s[4] + 6)
  /\ r.state = "SOF1"   => s = <<SOF0>>
  /\ r.state = "TAG"    => s = <<SOF0, SOF1>> /\ r.covered = <<>>
  /\ r.state = "LEN"    => s = <<SOF0, SOF1, r.tag>> /\ r.covered = <<r.tag>>
  /\ r.state = "VALUE"  => Inside(r, s) /\ Len(s) = Len(r.value) + 4 /\ Len(r.value) < r.len
  /\ r.state = "CRC_HI" => Inside(r, s) /\ Len(s) = r.len + 4 /\ Len(r.value) = r.len
  /\ r.state = "CRC_LO" => Inside(r, s) /\ Len(s) = r.len + 5 /\ Len(r.value) = r.len
                             /\ s[r.len + 5] = r.crc_hi

\* SinceSync as a function of the receiver and the bytes.
SinceOf(r, s, b) ==
  CASE r.state = "SOF0"               -> IF b = SOF0 THEN <<b>> ELSE <<>>
    [] r.state = "SOF1" /\ b = SOF0   -> <<b>>
    [] r.state = "SOF1" /\ b \notin {SOF0, SOF1} -> <<>>
    [] OTHER                          -> Append(s, b)

\* A byte more.
LEMMA Appended ==
  ASSUME NEW s \in Seq(Byte), NEW b \in Byte
  PROVE  /\ Append(s, b) \in Seq(Byte)
         /\ Len(Append(s, b)) = Len(s) + 1
         /\ Append(s, b)[Len(s) + 1] = b
         /\ \A i \in 1..Len(s) : Append(s, b)[i] = s[i]
  BY AppendProperties

\* The first bytes of a frame, one by one.
LEMMA Literals ==
  ASSUME NEW a \in Byte, NEW b \in Byte, NEW c \in Byte
  PROVE  /\ Append(<<>>, a) = <<a>>
         /\ Append(<<a>>, b) = <<a, b>>
         /\ Append(<<a, b>>, c) = <<a, b, c>>
<1> HIDE DEF Byte
<1>0. /\ <<>> \in Seq(Byte) /\ <<a>> \in Seq(Byte) /\ <<a, b>> \in Seq(Byte)
      /\ <<a, b, c>> \in Seq(Byte)
  OBVIOUS
<1>1. Append(<<>>, a) = <<a>>
  <2>1. /\ Append(<<>>, a) \in Seq(Byte) /\ Len(Append(<<>>, a)) = 1
        /\ Append(<<>>, a)[1] = a
    BY <1>0, AppendProperties
  <2> QED  BY <1>0, <2>1, SeqEqual
<1>2. Append(<<a>>, b) = <<a, b>>
  <2> DEFINE t == Append(<<a>>, b)
  <2>1. t \in Seq(Byte) /\ Len(t) = 2 /\ t[1] = a /\ t[2] = b
    BY <1>0, AppendProperties
  <2>2. Len(<<a, b>>) = 2 /\ \A i \in 1..2 : t[i] = <<a, b>>[i]
    BY <2>1
  <2> QED  BY <1>0, <2>1, <2>2, SeqEqual
<1>3. Append(<<a, b>>, c) = <<a, b, c>>
  <2> DEFINE t == Append(<<a, b>>, c)
  <2>1. t \in Seq(Byte) /\ Len(t) = 3 /\ t[1] = a /\ t[2] = b /\ t[3] = c
    BY <1>0, AppendProperties
  <2>2. Len(<<a, b, c>>) = 3 /\ \A i \in 1..3 : t[i] = <<a, b, c>>[i]
    BY <2>1
  <2> QED  BY <1>0, <2>1, <2>2, SeqEqual
<1> QED
  BY <1>1, <1>2, <1>3

\* And the fourth.
LEMMA LiteralFour ==
  ASSUME NEW a \in Byte, NEW b \in Byte, NEW c \in Byte, NEW d \in Byte
  PROVE  Append(<<a, b, c>>, d) = <<a, b, c, d>>
<1> DEFINE t == Append(<<a, b, c>>, d)
<1> HIDE DEF Byte
<1>0. <<a, b, c>> \in Seq(Byte) /\ <<a, b, c, d>> \in Seq(Byte)
  OBVIOUS
<1>1. t \in Seq(Byte) /\ Len(t) = 4 /\ t[1] = a /\ t[2] = b /\ t[3] = c /\ t[4] = d
  BY <1>0, AppendProperties
<1>2. Len(<<a, b, c, d>>) = 4 /\ \A i \in 1..4 : t[i] = <<a, b, c, d>>[i]
  BY <1>1
<1> QED
  BY <1>0, <1>1, <1>2, SeqEqual

\* The fields of a receiver.
LEMMA ReceiverType ==
  ASSUME NEW r \in Receivers
  PROVE  /\ r.state \in States
         /\ r.tag \in Byte /\ r.len \in Byte /\ r.crc_hi \in Byte
         /\ r.value \in Seq(Byte) /\ r.covered \in Seq(Byte)
         /\ Len(r.value) \in Nat /\ Len(r.covered) \in Nat
<1>1. /\ r.state \in States
      /\ r.tag \in Byte /\ r.len \in Byte /\ r.crc_hi \in Byte
      /\ r.value \in Seq(Byte) /\ r.covered \in Seq(Byte)
  BY DEF Receivers
<1> QED
  BY <1>1, LenProperties

\* A byte makes a receiver of a receiver.
LEMMA FeedTypes ==
  ASSUME NEW r \in Receivers, NEW b \in Byte
  PROVE  FeedByte(r, b) \in Receivers
<1>1. /\ r.state \in States
      /\ r.tag \in Byte /\ r.len \in Byte /\ r.crc_hi \in Byte
      /\ r.value \in Seq(Byte) /\ r.covered \in Seq(Byte)
  BY ReceiverType
<1>2. Append(r.value, b) \in Seq(Byte) /\ Append(r.covered, b) \in Seq(Byte)
  BY <1>1, Appended
<1>3. <<>> \in Seq(Byte)
  OBVIOUS
<1> HIDE DEF Byte
<1> QED
  BY <1>1, <1>2, <1>3
     DEF Receivers, States, FeedByte, AfterSof1, AfterLen, AfterValue, Update

\* One byte: the receiver stays in step, and its answer is that of tlv_decode().
LEMMA FeedInStep ==
  ASSUME NEW r \in Receivers, NEW s \in Seq(Byte), NEW b \in Byte, InStep(r, s)
  PROVE  /\ SinceOf(r, s, b) \in Seq(Byte)
         /\ InStep(FeedByte(r, b), SinceOf(r, s, b))
         /\ FeedResult(r, b) = Decode(SinceOf(r, s, b))
<1> DEFINE q == FeedByte(r, b)
           t == SinceOf(r, s, b)
<1>a. q \in Receivers
  BY FeedTypes
<1>b. /\ Append(s, b) \in Seq(Byte)
      /\ Len(Append(s, b)) = Len(s) + 1
      /\ Append(s, b)[Len(s) + 1] = b
      /\ \A i \in 1..Len(s) : Append(s, b)[i] = s[i]
  BY Appended
<1>c. /\ Append(r.value, b) \in Seq(Byte)
      /\ Len(Append(r.value, b)) = Len(r.value) + 1
      /\ Append(r.value, b)[Len(r.value) + 1] = b
      /\ \A i \in 1..Len(r.value) : Append(r.value, b)[i] = r.value[i]
  BY Appended, ReceiverType
<1>d. /\ Append(r.covered, b) \in Seq(Byte)
      /\ Len(Append(r.covered, b)) = Len(r.covered) + 1
      /\ Append(r.covered, b)[Len(r.covered) + 1] = b
      /\ \A i \in 1..Len(r.covered) : Append(r.covered, b)[i] = r.covered[i]
  BY Appended, ReceiverType
<1>e. /\ Len(s) \in Nat /\ Len(r.value) \in Nat /\ Len(r.covered) \in Nat
      /\ r.len \in Nat /\ b \in Nat /\ r.value \in Seq(Byte) /\ r.covered \in Seq(Byte)
  BY ReceiverType, Bytes, LenProperties
<1>1. CASE r.state = "SOF0"
  <2>1. t = IF b = SOF0 THEN <<b>> ELSE <<>>
    BY <1>1 DEF SinceOf
  <2>2. q.state = IF b = SOF0 THEN "SOF1" ELSE "SOF0"
    BY <1>1 DEF FeedByte, Receivers
  <2>3. t \in Seq(Byte) /\ InStep(q, t)
    BY <2>1, <2>2 DEF InStep
  <2>4. Decode(t) = Status("INCOMPLETE")
    <3>1. Len(t) < 6 /\ (Len(t) >= 1 => t[1] = SOF0) /\ ~(Len(t) >= 2)
      BY <2>1
    <3> HIDE DEF t
    <3> QED  BY <2>3, <3>1, DecodeShort
  <2>5. FeedResult(r, b) = Status("INCOMPLETE")
    BY <1>1 DEF FeedResult
  <2> QED  BY <2>3, <2>4, <2>5
<1>2. CASE r.state = "SOF1"
  <2>0. s = <<SOF0>>
    BY <1>2 DEF InStep
  <2>1. t = IF b = SOF0 THEN <<b>> ELSE IF b = SOF1 THEN <<SOF0, SOF1>> ELSE <<>>
    <3>1. Append(s, b) = <<SOF0, b>>
      BY <2>0, Literals, TlvAssumption
    <3> QED  BY <1>2, <2>0, <3>1 DEF SinceOf
  <2>2. /\ q.state = IF b = SOF1 THEN "TAG" ELSE IF b = SOF0 THEN "SOF1" ELSE "SOF0"
        /\ b = SOF1 => q.covered = <<>>
    BY <1>2 DEF FeedByte, AfterSof1, Receivers
  <2>3. t \in Seq(Byte) /\ InStep(q, t)
    BY <2>1, <2>2, TlvAssumption DEF InStep
  <2>4. Decode(t) = Status("INCOMPLETE")
    <3>1. /\ Len(t) < 6
          /\ Len(t) >= 1 => t[1] = SOF0
          /\ Len(t) >= 2 => t[2] = SOF1
      BY <2>1
    <3> HIDE DEF t
    <3> QED  BY <2>3, <3>1, DecodeShort
  <2>5. FeedResult(r, b) = Status("INCOMPLETE")
    BY <1>2 DEF FeedResult
  <2> QED  BY <2>3, <2>4, <2>5
<1>3. CASE r.state = "TAG"
  <2>0. s = <<SOF0, SOF1>> /\ r.covered = <<>>
    BY <1>3 DEF InStep
  <2>1. t = <<SOF0, SOF1, b>>
    <3>1. Append(s, b) = <<SOF0, SOF1, b>>
      BY <2>0, Literals, TlvAssumption
    <3> QED  BY <1>3, <3>1 DEF SinceOf
  <2>2. q.state = "LEN" /\ q.tag = b /\ q.covered = <<b>>
    <3>1. Append(r.covered, b) = <<b>>
      BY <2>0, Literals
    <3> QED  BY <1>3, <3>1 DEF FeedByte, Update, Receivers
  <2>3. t \in Seq(Byte) /\ InStep(q, t)
    BY <2>1, <2>2, TlvAssumption DEF InStep
  <2>4. Decode(t) = Status("INCOMPLETE")
    <3>1. Len(t) < 6 /\ t[1] = SOF0 /\ t[2] = SOF1
      BY <2>1
    <3> HIDE DEF t
    <3> QED  BY <2>3, <3>1, DecodeShort
  <2>5. FeedResult(r, b) = Status("INCOMPLETE")
    BY <1>3 DEF FeedResult
  <2> QED  BY <2>3, <2>4, <2>5
<1>4. CASE r.state = "LEN"
  <2>0. s = <<SOF0, SOF1, r.tag>> /\ r.covered = <<r.tag>>
    BY <1>4 DEF InStep
  <2>1. t = <<SOF0, SOF1, r.tag, b>>
    <3>1. Append(s, b) = <<SOF0, SOF1, r.tag, b>>
      <4>1. SOF0 \in Byte /\ SOF1 \in Byte /\ r.tag \in Byte
        BY TlvAssumption, ReceiverType
      <4>2. Append(<<SOF0, SOF1, r.tag>>, b) = <<SOF0, SOF1, r.tag, b>>
        BY <4>1, LiteralFour
      <4> QED  BY <4>2, <2>0
    <3> QED  BY <1>4, <3>1 DEF SinceOf
  <2>2. /\ q.state = IF b = 0 THEN "CRC_HI" ELSE "VALUE"
        /\ q.tag = r.tag /\ q.len = b /\ q.value = <<>> /\ q.covered = <<r.tag, b>>
    <3>1. Append(r.covered, b) = <<r.tag, b>>
      BY <2>0, Literals, ReceiverType
    <3> QED  BY <1>4, <3>1 DEF FeedByte, AfterLen, Update, Receivers
  <2>3. t \in Seq(Byte) /\ Len(t) = 4
    BY <2>1, TlvAssumption, ReceiverType
  <2>4. Inside(q, t)
    <3>1. Len(q.value) = 0 /\ Len(q.covered) = 2
      BY <2>2
    <3>2. \A i \in 1..2 : q.covered[i] = t[i + 2]
      BY <2>1, <2>2
    <3> QED  BY <2>1, <2>2, <2>3, <3>1, <3>2 DEF Inside
  <2>5. InStep(q, t)
    <3>1. Len(q.value) = 0
      BY <2>2
    <3> QED  BY <2>2, <2>3, <2>4, <3>1, <1>e DEF InStep
  <2>6. Decode(t) = Status("INCOMPLETE")
    <3>1. Len(t) < 6 /\ t[1] = SOF0 /\ t[2] = SOF1
      BY <2>1
    <3> HIDE DEF t
    <3> QED  BY <2>3, <3>1, DecodeShort
  <2>7. FeedResult(r, b) = Status("INCOMPLETE")
    BY <1>4 DEF FeedResult
  <2> QED  BY <2>3, <2>5, <2>6, <2>7
<1>5. CASE r.state = "VALUE"
  <2>0. Inside(r, s) /\ Len(s) = Len(r.value) + 4 /\ Len(r.value) < r.len
    BY <1>5 DEF InStep
  <2>1. t = Append(s, b)
    BY <1>5 DEF SinceOf
  <2>2. /\ q.state = IF Len(r.value) + 1 >= r.len THEN "CRC_HI" ELSE "VALUE"
        /\ q.tag = r.tag /\ q.len = r.len
        /\ q.value = Append(r.value, b) /\ q.covered = Append(r.covered, b)
    BY <1>5 DEF FeedByte, AfterValue, Update, Receivers
  <2> HIDE DEF q, t
  <2>3. Inside(q, t)
    <3>1. /\ t[1] = SOF0 /\ t[2] = SOF1 /\ t[3] = q.tag /\ t[4] = q.len
          /\ Len(t) >= 4
      BY <2>0, <2>1, <2>2, <1>b, <1>e DEF Inside
    <3>2. Len(q.value) = Len(r.value) + 1 /\ Len(q.covered) = Len(r.value) + 3
      BY <2>0, <2>2, <1>c, <1>d, <1>e DEF Inside
    <3>3. \A i \in 1..Len(r.value) + 3 : q.covered[i] = t[i + 2]
      <4> SUFFICES ASSUME NEW i \in 1..Len(r.value) + 3 PROVE q.covered[i] = t[i + 2]
        OBVIOUS
      <4>0. Len(r.covered) = Len(r.value) + 2
        BY <2>0 DEF Inside
      <4>1. CASE i = Len(r.value) + 3
        <5>1. i = Len(r.covered) + 1 /\ i + 2 = Len(s) + 1
          BY <2>0, <4>0, <4>1, <1>e
        <5> QED  BY <5>1, <2>1, <2>2, <1>b, <1>d
      <4>2. CASE i # Len(r.value) + 3
        <5>1. i \in 1..Len(r.covered) /\ i \in 1..Len(r.value) + 2 /\ i + 2 \in 1..Len(s)
          BY <2>0, <4>0, <4>2, <1>e
        <5>2. r.covered[i] = s[i + 2]
          BY <5>1, <2>0 DEF Inside
        <5> QED  BY <5>1, <5>2, <2>1, <2>2, <1>b, <1>d
      <4> QED  BY <4>1, <4>2
    <3>4. \A i \in 1..Len(r.value) + 1 : q.value[i] = t[i + 4]
      <4> SUFFICES ASSUME NEW i \in 1..Len(r.value) + 1 PROVE q.value[i] = t[i + 4]
        OBVIOUS
      <4>1. CASE i = Len(r.value) + 1
        <5>1. i + 4 = Len(s) + 1
          BY <2>0, <4>1, <1>e
        <5> QED  BY <5>1, <4>1, <2>1, <2>2, <1>b, <1>c
      <4>2. CASE i # Len(r.value) + 1
        <5>1. i \in 1..Len(r.value) /\ i + 4 \in 1..Len(s)
          BY <2>0, <4>2, <1>e
        <5>2. r.value[i] = s[i + 4]
          BY <5>1, <2>0 DEF Inside
        <5> QED  BY <5>1, <5>2, <2>1, <2>2, <1>b, <1>c
      <4> QED  BY <4>1, <4>2
    <3>5. Len(r.value) + 3 = (Len(r.value) + 1) + 2
      BY <1>e
    <3> QED  BY <3>1, <3>2, <3>3, <3>4, <3>5 DEF Inside
  <2>4. InStep(q, t)
    <3>1. /\ Len(q.value) = Len(r.value) + 1
          /\ Len(t) = Len(q.value) + 4
          /\ ~(Len(r.value) + 1 >= r.len) => Len(q.value) < q.len
          /\ Len(r.value) + 1 >= r.len => Len(q.value) = q.len /\ Len(t) = q.len + 4
      BY <2>0, <2>1, <2>2, <1>b, <1>c, <1>e
    <3> QED  BY <2>2, <2>3, <3>1 DEF InStep
  <2>5. Decode(t) = Status("INCOMPLETE")
    <3>1. Len(t) < t[4] + 6
      BY <2>0, <2>1, <2>2, <2>3, <1>b, <1>e DEF Inside
    <3>2. t \in Seq(Byte)
      BY <2>1, <1>b
    <3> QED  BY <2>3, <3>1, <3>2, DecodePartial DEF Inside
  <2>6. FeedResult(r, b) = Status("INCOMPLETE")
    BY <1>5 DEF FeedResult
  <2> QED  BY <2>1, <2>4, <2>5, <2>6, <1>b DEF q, t
<1>6. CASE r.state = "CRC_HI"
  <2>0. Inside(r, s) /\ Len(s) = r.len + 4 /\ Len(r.value) = r.len
    BY <1>6 DEF InStep
  <2>1. t = Append(s, b)
    BY <1>6 DEF SinceOf
  <2>2. /\ q.state = "CRC_LO" /\ q.crc_hi = b
        /\ q.tag = r.tag /\ q.len = r.len /\ q.value = r.value /\ q.covered = r.covered
    BY <1>6 DEF FeedByte, Receivers
  <2> HIDE DEF q, t
  <2>3. Inside(q, t)
    <3>1. /\ t[1] = SOF0 /\ t[2] = SOF1 /\ t[3] = q.tag /\ t[4] = q.len
          /\ Len(t) >= 4
      <4>1. /\ Len(s) \in Nat /\ Len(s) >= 4
            /\ s[1] = SOF0 /\ s[2] = SOF1 /\ s[3] = r.tag /\ s[4] = r.len
        BY <2>0, <1>e DEF Inside
      <4>2. 1 \in 1..Len(s) /\ 2 \in 1..Len(s) /\ 3 \in 1..Len(s) /\ 4 \in 1..Len(s)
        BY <4>1
      <4> QED  BY <4>1, <4>2, <2>1, <2>2, <1>b
    <3>2. \A i \in 1..Len(q.value) + 2 : q.covered[i] = t[i + 2]
      <4> SUFFICES ASSUME NEW i \in 1..Len(q.value) + 2 PROVE q.covered[i] = t[i + 2]
        OBVIOUS
      <4>1. i + 2 \in 1..Len(s)
        BY <2>0, <2>2, <1>e
      <4>2. r.covered[i] = s[i + 2]
        BY <2>0, <2>2 DEF Inside
      <4> QED  BY <4>1, <4>2, <2>1, <2>2, <1>b
    <3>3. \A i \in 1..Len(q.value) : q.value[i] = t[i + 4]
      <4> SUFFICES ASSUME NEW i \in 1..Len(q.value) PROVE q.value[i] = t[i + 4]
        OBVIOUS
      <4>1. i + 4 \in 1..Len(s)
        BY <2>0, <2>2, <1>e
      <4>2. r.value[i] = s[i + 4]
        BY <2>0, <2>2 DEF Inside
      <4> QED  BY <4>1, <4>2, <2>1, <2>2, <1>b
    <3> QED  BY <2>0, <2>2, <3>1, <3>2, <3>3 DEF Inside
  <2>4. InStep(q, t)
    <3>1. /\ Len(t) = q.len + 5 /\ Len(q.value) = q.len
          /\ t[q.len + 5] = b
      BY <2>0, <2>1, <2>2, <1>b, <1>e
    <3> QED  BY <2>2, <2>3, <3>1 DEF InStep
  <2>5. Decode(t) = Status("INCOMPLETE")
    <3>1. Len(t) < t[4] + 6
      <4>1. Len(t) = r.len + 5 /\ t[4] = r.len
        BY <2>0, <2>1, <2>2, <2>3, <1>b, <1>e DEF Inside
      <4> QED  BY <4>1, <1>e
    <3>2. t \in Seq(Byte)
      BY <2>1, <1>b
    <3> QED  BY <2>3, <3>1, <3>2, DecodePartial DEF Inside
  <2>6. FeedResult(r, b) = Status("INCOMPLETE")
    BY <1>6 DEF FeedResult
  <2> QED  BY <2>1, <2>4, <2>5, <2>6, <1>b DEF q, t
<1>7. CASE r.state = "CRC_LO"
  <2>0. /\ Inside(r, s) /\ Len(s) = r.len + 5 /\ Len(r.value) = r.len
        /\ s[r.len + 5] = r.crc_hi
    BY <1>7 DEF InStep
  <2>1. t = Append(s, b)
    BY <1>7 DEF SinceOf
  <2>2. q.state = "SOF0"
    BY <1>7 DEF FeedByte, Receivers
  <2> HIDE DEF q, t
  <2>3. /\ t \in Seq(Byte) /\ Len(t) = r.len + 6 /\ Len(t) >= 6
        /\ t[1] = SOF0 /\ t[2] = SOF1 /\ t[3] = r.tag /\ t[4] = r.len
        /\ t[r.len + 5] = r.crc_hi /\ t[r.len + 6] = b
    <3>1. /\ Len(s) \in Nat /\ Len(s) >= 4
          /\ s[1] = SOF0 /\ s[2] = SOF1 /\ s[3] = r.tag /\ s[4] = r.len
      BY <2>0, <1>e DEF Inside
    <3>2. /\ 1 \in 1..Len(s) /\ 2 \in 1..Len(s) /\ 3 \in 1..Len(s) /\ 4 \in 1..Len(s)
          /\ r.len + 5 \in 1..Len(s) /\ r.len + 6 = Len(s) + 1 /\ r.len + 6 >= 6
      BY <2>0, <3>1, <1>e
    <3> QED  BY <2>0, <2>1, <3>1, <3>2, <1>b
  <2>4. \A i \in 1..r.len + 2 : r.covered[i] = t[i + 2]
    <3> SUFFICES ASSUME NEW i \in 1..r.len + 2 PROVE r.covered[i] = t[i + 2]
      OBVIOUS
    <3>1. i + 2 \in 1..Len(s)
      BY <2>0, <1>e
    <3>2. r.covered[i] = s[i + 2]
      BY <2>0 DEF Inside
    <3> QED  BY <3>1, <3>2, <2>1, <1>b
  <2>5. \A i \in 1..r.len : r.value[i] = t[i + 4]
    <3> SUFFICES ASSUME NEW i \in 1..r.len PROVE r.value[i] = t[i + 4]
      OBVIOUS
    <3>1. i + 4 \in 1..Len(s)
      BY <2>0, <1>e
    <3>2. r.value[i] = s[i + 4]
      BY <2>0 DEF Inside
    <3> QED  BY <3>1, <3>2, <2>1, <1>b
  <2>6. InStep(q, t)
    BY <2>2, <2>3 DEF InStep
  <2>7. Decode(t) = IF <<t[t[4] + 5], t[t[4] + 6]>> # Crc(r.covered) THEN Status("CRC")
                    ELSE [status |-> "OK", frame |-> [tag |-> t[3], value |-> r.value]]
    <3>1. Len(r.covered) = t[4] + 2 /\ Len(r.value) = t[4] /\ Len(t) = t[4] + 6
      BY <2>0, <2>3 DEF Inside
    <3>2. /\ \A i \in 1..t[4] + 2 : r.covered[i] = t[i + 2]
          /\ \A i \in 1..t[4] : r.value[i] = t[i + 4]
      BY <2>3, <2>4, <2>5
    <3> QED  BY <2>3, <3>1, <3>2, <1>e, DecodeWhole
  <2>8. FeedResult(r, b) = IF <<r.crc_hi, b>> # Crc(r.covered) THEN Status("CRC")
                    ELSE [status |-> "OK", frame |-> [tag |-> r.tag, value |-> r.value]]
    BY <1>7 DEF FeedResult, Pair
  <2> QED  BY <2>3, <2>6, <2>7, <2>8 DEF q, t
<1> QED
  BY <1>1, <1>2, <1>3, <1>4, <1>5, <1>6, <1>7, ReceiverType DEF States

-----------------------------------------------------------------------------
(* The invariant of the receive side                                       *)

\* A byte of the line is that byte of its command unless noise has changed it.
Genuine(i) ==
  /\ i.n \in 1..Len(Script)
  /\ i.pos \in 1..Len(Line[i.n])
  /\ i.ok => i.byte = Line[i.n][i.pos]

ItemsAreGenuine ==
  /\ rdr # NoItem => Genuine(rdr)
  /\ \A j \in 1..Len(rxq) : Genuine(rxq[j])

\* The command counted by `whole` is what the receiver has been fed.
WholeIsSince ==
  whole.k > 0 =>
    /\ whole.k <= Len(Line[whole.n])
    /\ Len(since) = whole.k
    /\ \A j \in 1..whole.k : since[j] = Line[whole.n][j]

\* Nothing has been fed before the task starts.
FreshStart == rx = "starting" => since = <<>>

\* While the interrupt is about to read the register there is a byte in it.
ByteToRead == Reading => rdr # NoItem /\ (Len(rxq) < Depth \/ lost < MaxLost)

IInv ==
  /\ TypeOK
  /\ FreshStart
  /\ InStep(recv, since)
  /\ AgreesWithBlockDecoder
  /\ ItemsAreGenuine
  /\ WholeIsSince
  /\ ByteToRead
  /\ NeverDeaf

\* A command on the line: its bytes, and how many the length byte says there are.
LEMMA LineIs ==
  ASSUME NEW n \in 1..Len(Script)
  PROVE  /\ Script[n] \in Frames
         /\ Line[n] = Encode(Script[n])
         /\ Line[n] \in Seq(Byte)
         /\ Len(Line[n]) \in 6..261
         /\ Len(Line[n]) = Line[n][4] + 6
         /\ Line[n][1] = SOF0 /\ Line[n][2] = SOF1
<1>1. Script[n] \in Frames /\ Crc(Covered(Script[n])) \in Byte \X Byte
  BY CommRxAssumption, ElementOfSeq
<1>2. Line[n] = Encode(Script[n])
  BY DEF Line
<1>3. PICK len \in Byte : len = Len(Script[n].value)
  BY <1>1, FrameType
<1>4. len \in Nat /\ len <= 255
  BY Bytes
<1>5. /\ Encode(Script[n]) \in Seq(Byte)
      /\ Len(Encode(Script[n])) = len + 6
      /\ Encode(Script[n])[1] = SOF0 /\ Encode(Script[n])[2] = SOF1
      /\ Encode(Script[n])[4] = len
  BY <1>1, <1>3, EncodeIs
<1>6. len + 6 \in 6..261
  BY <1>4
<1> QED
  BY <1>1, <1>2, <1>5, <1>6

\* How long a frame can be.
LEMMA Sizes == \A m \in 6..261 : m \in Nat /\ m >= 6 /\ m <= 261
  OBVIOUS

\* The script has a first command.
LEMMA ScriptBounds == Len(Script) \in Nat /\ 1 \in 1..Len(Script)
  BY CommRxAssumption, EmptySeq, LenProperties

\* The invariant holds at the start.
LEMMA InitInv == Init => IInv
<1> SUFFICES ASSUME Init PROVE IInv
  OBVIOUS
<1> USE DEF Init
<1>1. Len(Line[1]) \in 6..261
  BY ScriptBounds, LineIs
<1>2. ReceiverInit \in Receivers /\ <<>> \in Seq(Byte) /\ <<>> \in Seq(Items)
  BY DEF ReceiverInit, Receivers, States, Byte
<1>3. Status("INCOMPLETE").status = "INCOMPLETE" /\ NoFrame \in Frames
  BY DEF Status, NoFrame, Frames, Byte
<1>4. TypeOK
  <2>1. cmd \in 1..Len(Script) /\ sentBytes \in 0..Len(Line[cmd]) - 1
    <3>1. PICK m \in 6..261 : m = Len(Line[cmd])
      BY <1>1
    <3>2. 0 \in 0..m - 1
      OBVIOUS
    <3> QED  BY <3>1, <3>2, ScriptBounds
  <2>2. result.status \in {"INCOMPLETE", "CRC", "OK"} /\ result.frame \in Frames
    BY <1>3 DEF Status
  <2>3. whole \in [n : 1..Len(Script), k : 0..261]
    BY ScriptBounds DEF Nothing
  <2>4. damaged \in 0..MaxDamaged /\ lost \in 0..MaxLost
    BY CommRxAssumption
  <2>5. Len(rxq) <= Depth
    BY CommRxAssumption
  <2> QED  BY <1>2, <2>1, <2>2, <2>3, <2>4, <2>5 DEF TypeOK
<1>5. InStep(recv, since)
  BY DEF InStep, ReceiverInit
<1>6. AgreesWithBlockDecoder
  <2>1. Decode(<<>>) = Status("INCOMPLETE")
    BY DEF Decode, HeaderSize
  <2> QED  BY <2>1 DEF AgreesWithBlockDecoder
<1>7. ItemsAreGenuine
  BY DEF ItemsAreGenuine
<1>8. WholeIsSince
  BY DEF WholeIsSince, Nothing
<1>9. NeverDeaf /\ FreshStart /\ ByteToRead
  BY DEF NeverDeaf, FreshStart, ByteToRead, Reading
<1> QED
  BY <1>4, <1>5, <1>6, <1>7, <1>8, <1>9 DEF IInv

\* What one byte does to the three: a whole command leaves as it was sent.
LEMMA WholeIsDelivered ==
  ASSUME TypeOK, AgreesWithBlockDecoder, WholeIsSince
  PROVE  IntactIsDelivered
<1> SUFFICES ASSUME whole.k = Len(Line[whole.n])
             PROVE  result = [status |-> "OK", frame |-> Script[whole.n]]
  BY DEF IntactIsDelivered
<1>0. whole.n \in 1..Len(Script)
  BY DEF TypeOK
<1>1. PICK f \in Frames : f = Script[whole.n]
  BY <1>0, LineIs
<1>2. /\ Line[whole.n] = Encode(f) /\ Line[whole.n] \in Seq(Byte)
      /\ Len(Line[whole.n]) \in 6..261
  BY <1>0, <1>1, LineIs
<1>3. /\ since \in Seq(Byte) /\ Len(since) = Len(Line[whole.n])
      /\ \A j \in 1..Len(since) : since[j] = Line[whole.n][j]
  <2>1. PICK m \in 6..261 : m = Len(Line[whole.n])
    BY <1>2
  <2>2. m > 0 /\ whole.k = m
    <3>1. m \in Nat /\ m >= 6
      BY Sizes, Zenon
    <3>2. m > 0
      BY <3>1
    <3>3. whole.k = m
      BY <2>1, Zenon
    <3> QED  BY <3>2, <3>3
  <2>3. Len(since) = m /\ \A j \in 1..m : since[j] = Line[whole.n][j]
    BY <2>2 DEF WholeIsSince
  <2> QED  BY <2>1, <2>3 DEF TypeOK
<1>4. since = Line[whole.n]
  BY <1>2, <1>3, SeqEqual
<1>5. Crc(Covered(f)) \in Byte \X Byte
  BY <1>0, <1>1, CommRxAssumption
<1>6. Decode(Encode(f)) = [status |-> "OK", frame |-> f]
  BY <1>5, RoundTrip
<1> QED
  BY <1>1, <1>2, <1>4, <1>6 DEF AgreesWithBlockDecoder

\* The byte fed is genuine: `whole` goes on counting what the receiver has.
LEMMA FeedKeepsWhole ==
  ASSUME IInv, NEW i \in Items, Genuine(i),
         since' = SinceSync(i.byte), whole' = WholeSo(i)
  PROVE  WholeIsSince'
<1> SUFFICES ASSUME whole'.k > 0
             PROVE  /\ whole'.k <= Len(Line[whole'.n])
                    /\ Len(since') = whole'.k
                    /\ \A j \in 1..whole'.k : since'[j] = Line[whole'.n][j]
  BY DEF WholeIsSince
<1>0. /\ since \in Seq(Byte) /\ i.byte \in Byte /\ i.n \in 1..Len(Script) /\ recv \in Receivers
      /\ i.pos \in 1..Len(Line[i.n]) /\ Len(since) \in Nat
  BY LenProperties DEF IInv, TypeOK, Items, Genuine
<1>1. /\ Line[i.n][1] = SOF0 /\ Line[i.n][2] = SOF1 /\ Len(Line[i.n]) \in 6..261
      /\ Len(Line[i.n]) = Line[i.n][4] + 6
  BY <1>0, LineIs
<1>2. PICK b \in Byte : b = i.byte
  BY <1>0
<1>3. CASE i.ok /\ i.pos = 1 /\ recv.state \in {"SOF0", "SOF1"}
  <2>1. b = SOF0 /\ whole' = [n |-> i.n, k |-> 1]
    BY <1>1, <1>2, <1>3 DEF WholeSo, Genuine
  <2>2. since' = <<SOF0>>
    BY <1>2, <1>3, <2>1 DEF SinceSync
  <2>3. Len(since') = 1 /\ since'[1] = SOF0
    BY <2>2
  <2>4. whole'.n = i.n /\ whole'.k = 1
    BY <2>1
  <2>5. 1 <= Len(Line[i.n])
    <3>1. PICK m \in 6..261 : m = Len(Line[i.n])
      BY <1>1
    <3>2. m \in Nat /\ m >= 6
      BY Sizes, Zenon
    <3>3. 1 <= m
      BY <3>2
    <3> QED  BY <3>1, <3>3
  <2> QED  BY <1>1, <2>3, <2>4, <2>5
<1>4. CASE /\ ~(i.ok /\ i.pos = 1 /\ recv.state \in {"SOF0", "SOF1"})
           /\ i.ok /\ whole.k > 0 /\ i.n = whole.n /\ i.pos = whole.k + 1
  <2>1. whole' = [whole EXCEPT !.k = i.pos]
    BY <1>4 DEF WholeSo
  <2>2. whole.k \in Nat /\ whole.n \in 1..Len(Script)
        /\ whole'.k = whole.k + 1 /\ whole'.n = whole.n
    <3>1. whole \in [n : 1..Len(Script), k : 0..261]
      BY DEF IInv, TypeOK
    <3>2. \A m \in 0..261 : m \in Nat
      OBVIOUS
    <3>3. whole'.k = i.pos /\ whole'.n = whole.n
      BY <2>1, <3>1
    <3> QED  BY <1>4, <3>1, <3>2, <3>3
  <2>3. /\ Len(since) = whole.k
        /\ \A j \in 1..whole.k : since[j] = Line[i.n][j]
    BY <1>4 DEF IInv, WholeIsSince
  <2>4. whole.k + 1 <= Len(Line[i.n]) /\ b = Line[i.n][whole.k + 1]
    BY <1>0, <1>1, <1>2, <1>4, <2>2 DEF Genuine
  <2>5. since' = Append(since, b)
    <3>1. CASE recv.state = "SOF0"
      <4>1. since = <<>> \/ (Len(since) >= 6 /\ Len(since) = since[4] + 6)
        BY <3>1 DEF IInv, InStep
      <4>2. Len(since) >= 1
        BY <1>4, <2>2, <2>3
      <4>3. Len(since) >= 6 /\ Len(since) = since[4] + 6
        BY <4>1, <4>2
      <4>4. since[4] = Line[i.n][4]
        <5>1. 4 \in 1..whole.k
          BY <4>3, <2>2, <2>3
        <5> QED  BY <5>1, <2>3
      <4>5. whole.k = Len(Line[i.n])
        BY <4>3, <4>4, <1>1, <2>3
      <4> QED  BY <4>5, <2>2, <2>4
    <3>2. CASE recv.state = "SOF1"
      <4>1. since = <<SOF0>>
        BY <3>2 DEF IInv, InStep
      <4>2. whole.k = 1
        BY <4>1, <2>3
      <4>3. b = SOF1
        BY <4>2, <2>4, <1>1
      <4> QED  BY <3>2, <4>3, <1>2, TlvAssumption DEF SinceSync
    <3>3. CASE recv.state \notin {"SOF0", "SOF1"}
      BY <1>2, <3>3 DEF SinceSync
    <3> QED  BY <3>1, <3>2, <3>3
  <2>6. /\ Len(since') = whole.k + 1
        /\ since'[whole.k + 1] = b
        /\ \A j \in 1..whole.k : since'[j] = since[j]
    BY <1>0, <2>3, <2>5, Appended
  <2>7. \A j \in 1..whole.k + 1 : since'[j] = Line[i.n][j]
    <3> SUFFICES ASSUME NEW j \in 1..whole.k + 1 PROVE since'[j] = Line[i.n][j]
      OBVIOUS
    <3>1. CASE j = whole.k + 1
      BY <3>1, <2>4, <2>6
    <3>2. CASE j # whole.k + 1
      <4>1. j \in 1..whole.k
        BY <3>2, <2>2
      <4> QED  BY <4>1, <2>3, <2>6
    <3> QED  BY <3>1, <3>2
  <2> QED  BY <1>4, <2>2, <2>4, <2>6, <2>7
<1>5. CASE /\ ~(i.ok /\ i.pos = 1 /\ recv.state \in {"SOF0", "SOF1"})
           /\ ~(i.ok /\ whole.k > 0 /\ i.n = whole.n /\ i.pos = whole.k + 1)
  BY <1>5 DEF WholeSo, Nothing
<1> QED
  BY <1>3, <1>4, <1>5

\* What a byte can be answered with.
LEMMA FeedResultType ==
  ASSUME NEW r \in Receivers, NEW b \in Byte,
         r.state = "CRC_LO" => Len(r.value) <= 255
  PROVE  /\ FeedResult(r, b).status \in {"INCOMPLETE", "CRC", "OK"}
         /\ FeedResult(r, b).frame \in Frames
<1>1. /\ Status("INCOMPLETE").status = "INCOMPLETE" /\ Status("CRC").status = "CRC"
      /\ Status("INCOMPLETE").frame \in Frames /\ Status("CRC").frame \in Frames
  BY DEF Status, NoFrame, Frames, Byte
<1>2. r.state = "CRC_LO" => [tag |-> r.tag, value |-> r.value] \in Frames
  BY ReceiverType DEF Frames
<1> QED
  BY <1>1, <1>2 DEF FeedResult

\* A tag leads to a handler or to none.
LEMMA RouteType == \A tag : Route(tag) \in {"waiting"} \cup Handlers
  BY DEF Route, Handlers

\* The next byte to be sent is a byte of the command, and the one after it.
LEMMA AdvanceType ==
  ASSUME TypeOK, Advance
  PROVE  /\ cmd' \in 1..Len(Script) /\ sentBytes' \in 0..Len(Line[cmd']) - 1
         /\ sentBytes + 1 \in 1..Len(Line[cmd])
         /\ Len(Line[cmd]) \in 6..261
         /\ Line[cmd][sentBytes + 1] \in Byte
<1>1. /\ cmd \in 1..Len(Script) /\ sentBytes \in 0..Len(Line[cmd]) - 1
      /\ Len(Line[cmd]) \in 6..261 /\ Line[cmd] \in Seq(Byte)
  BY LineIs DEF TypeOK
<1>2. PICK m \in 6..261 : m = Len(Line[cmd])
  BY <1>1
<1>3. sentBytes + 1 \in 1..m
  BY <1>1, <1>2
<1>4. Line[cmd][sentBytes + 1] \in Byte
  BY <1>1, <1>2, <1>3, ByteAt
<1>5. CASE sentBytes + 1 = Len(Line[cmd])
  <2>1. sentBytes' = 0 /\ cmd' \in 1..Len(Script)
    BY <1>1, <1>5, ScriptBounds DEF Advance
  <2>2. PICK k \in 6..261 : k = Len(Line[cmd'])
    BY <2>1, LineIs
  <2>3. 0 \in 0..k - 1
    OBVIOUS
  <2> QED  BY <1>1, <1>2, <1>3, <1>4, <2>1, <2>2, <2>3
<1>6. CASE sentBytes + 1 # Len(Line[cmd])
  <2>1. sentBytes' = sentBytes + 1 /\ cmd' = cmd
    BY <1>6 DEF Advance
  <2>2. sentBytes + 1 \in 0..m - 1
    BY <1>1, <1>2, <1>6
  <2> QED  BY <1>1, <1>2, <1>3, <1>4, <2>1, <2>2
<1> QED
  BY <1>5, <1>6

\* A byte put into the register is genuine.
LEMMA ItemIs ==
  ASSUME TypeOK, Advance, NEW b \in Byte, NEW ok \in BOOLEAN,
         ok => b = Line[cmd][sentBytes + 1]
  PROVE  Item(b, ok) \in Items /\ Genuine(Item(b, ok)) /\ Item(b, ok) # NoItem
<1>1. /\ cmd \in 1..Len(Script) /\ sentBytes + 1 \in 1..Len(Line[cmd])
      /\ Len(Line[cmd]) \in 6..261
  BY AdvanceType DEF TypeOK
<1>2. PICK m \in 6..261 : m = Len(Line[cmd])
  BY <1>1
<1>3. sentBytes + 1 \in Positions /\ sentBytes + 1 # 0
  <2>1. sentBytes + 1 \in 1..m
    BY <1>1, <1>2
  <2>2. m \in Nat /\ m <= 261
    BY Sizes
  <2> QED  BY <2>1, <2>2 DEF Positions
<1>4. /\ Item(b, ok).n = cmd /\ Item(b, ok).pos = sentBytes + 1
      /\ Item(b, ok).ok = ok /\ Item(b, ok).byte = b
      /\ Item(b, ok) = [byte |-> b, n |-> cmd, pos |-> sentBytes + 1, ok |-> ok]
  BY DEF Item
<1>5. Item(b, ok) \in Items
  BY <1>1, <1>3, <1>4 DEF Items
<1>6. Genuine(Item(b, ok))
  BY <1>1, <1>4 DEF Genuine
<1>7. Item(b, ok) # NoItem
  BY <1>3, <1>4 DEF NoItem
<1> QED
  BY <1>5, <1>6, <1>7

\* The fields of a byte on the line.
LEMMA ItemTypes ==
  ASSUME NEW i \in Items
  PROVE  i.byte \in Byte /\ i.n \in 1..Len(Script) /\ i.pos \in Positions /\ i.ok \in BOOLEAN
  BY DEF Items

\* A step that leaves the task alone keeps what is said of it.
LEMMA TaskUntouched ==
  ASSUME IInv, UNCHANGED <<recv, result, since, whole>>
  PROVE  InStep(recv, since)' /\ AgreesWithBlockDecoder' /\ WholeIsSince'
<1>1. InStep(recv, since)'
  BY DEF IInv, InStep, Inside
<1>2. AgreesWithBlockDecoder'
  BY DEF IInv, AgreesWithBlockDecoder
<1>3. WholeIsSince'
  BY DEF IInv, WholeIsSince
<1> QED
  BY <1>1, <1>2, <1>3

\* A byte arrives in the register, intact or damaged, or is lost there.
LEMMA ArrivalKeeps ==
  ASSUME IInv, Advance, UNCHANGED <<armed, irq, rxq, rx, recv, result, since, whole>>,
         ByteToRead', rdr' \in Items \cup {NoItem}, rdr' # NoItem => Genuine(rdr'),
         ore' \in BOOLEAN, damaged' \in 0..MaxDamaged, lost' \in 0..MaxLost
  PROVE  IInv'
<1>1. cmd' \in 1..Len(Script) /\ sentBytes' \in 0..Len(Line[cmd']) - 1
  BY AdvanceType DEF IInv
<1>2. TypeOK'
  BY <1>1 DEF IInv, TypeOK
<1>3. ItemsAreGenuine'
  BY DEF IInv, ItemsAreGenuine, Genuine
<1>4. NeverDeaf' /\ FreshStart'
  BY DEF IInv, NeverDeaf, FreshStart
<1> QED
  BY <1>2, <1>3, <1>4, TaskUntouched DEF IInv

\* Reading the flags keeps the invariant: it disarms only to call the error callback.
LEMMA ReadFlagsKeeps == IInv /\ ReadFlags => IInv'
<1> SUFFICES ASSUME IInv, ReadFlags PROVE IInv'
  OBVIOUS
<1>1. /\ ore' = FALSE /\ armed' \in BOOLEAN
      /\ \/ irq' \in {"byte", "byteAndError"} /\ rdr # NoItem /\ (Len(rxq) < Depth \/ lost < MaxLost)
         \/ irq' = "error"
      /\ UNCHANGED <<cmd, sentBytes, rdr, rxq, rx, recv, result, since, whole, damaged, lost>>
  BY DEF ReadFlags, IInv, TypeOK, line, hist, faults
<1>2. TypeOK'
  BY <1>1 DEF IInv, TypeOK
<1>3. NeverDeaf' /\ FreshStart' /\ ByteToRead'
  BY <1>1 DEF IInv, NeverDeaf, FreshStart, ByteToRead, Reading
<1>4. ItemsAreGenuine'
  BY <1>1 DEF IInv, ItemsAreGenuine, Genuine
<1> QED
  BY <1>1, <1>2, <1>3, <1>4, TaskUntouched DEF IInv

\* So does the error callback, which arms again.
LEMMA ErrorCallbackKeeps == IInv /\ ErrorCallback => IInv'
<1> SUFFICES ASSUME IInv, ErrorCallback PROVE IInv'
  OBVIOUS
<1>1. /\ armed' = TRUE /\ irq' = "none"
      /\ UNCHANGED <<cmd, sentBytes, rdr, ore, rxq, rx, recv, result, since, whole,
                     damaged, lost>>
  BY DEF ErrorCallback, line, hist, faults
<1>2. TypeOK'
  BY <1>1 DEF IInv, TypeOK
<1>3. NeverDeaf' /\ FreshStart' /\ ByteToRead'
  BY <1>1 DEF IInv, NeverDeaf, FreshStart, ByteToRead, Reading
<1>4. ItemsAreGenuine'
  BY <1>1 DEF IInv, ItemsAreGenuine, Genuine
<1> QED
  BY <1>1, <1>2, <1>3, <1>4, TaskUntouched DEF IInv

\* So does the byte that is read, with RxCplt, which arms again.
LEMMA ReadByteKeeps == IInv /\ ReadByte => IInv'
<1> SUFFICES ASSUME IInv, ReadByte PROVE IInv'
  OBVIOUS
<1>1. /\ rdr \in Items \cup {NoItem} /\ rdr # NoItem
      /\ Len(rxq) < Depth \/ lost < MaxLost
      /\ rxq \in Seq(Items) /\ Len(rxq) <= Depth /\ Len(rxq) \in Nat
      /\ lost \in 0..MaxLost /\ MaxLost \in Nat /\ Depth \in Nat
  BY CommRxAssumption, LenProperties DEF IInv, TypeOK, ByteToRead, ReadByte
<1>2. rdr \in Items /\ Genuine(rdr)
  BY <1>1 DEF IInv, ItemsAreGenuine
<1>3. /\ Append(rxq, rdr) \in Seq(Items)
      /\ Len(Append(rxq, rdr)) = Len(rxq) + 1
      /\ Append(rxq, rdr)[Len(rxq) + 1] = rdr
      /\ \A j \in 1..Len(rxq) : Append(rxq, rdr)[j] = rxq[j]
  BY <1>1, <1>2, AppendProperties
<1>4. /\ rxq' \in Seq(Items) /\ Len(rxq') <= Depth /\ lost' \in 0..MaxLost
      /\ \A j \in 1..Len(rxq') : Genuine(rxq'[j])
  <2>1. CASE Len(rxq) < Depth
    <3>1. rxq' = Append(rxq, rdr) /\ lost' = lost
      BY <2>1 DEF ReadByte, RxCplt
    <3>2. \A j \in 1..Len(rxq) + 1 : Genuine(Append(rxq, rdr)[j])
      <4> SUFFICES ASSUME NEW j \in 1..Len(rxq) + 1 PROVE Genuine(Append(rxq, rdr)[j])
        OBVIOUS
      <4>1. CASE j = Len(rxq) + 1
        BY <4>1, <1>2, <1>3
      <4>2. CASE j # Len(rxq) + 1
        <5>1. j \in 1..Len(rxq)
          BY <4>2, <1>1
        <5>2. Genuine(rxq[j])
          BY <5>1 DEF IInv, ItemsAreGenuine
        <5> QED  BY <5>1, <5>2, <1>3
      <4> QED  BY <4>1, <4>2
    <3> QED  BY <1>1, <1>3, <2>1, <3>1, <3>2
  <2>2. CASE ~(Len(rxq) < Depth)
    <3>1. rxq' = rxq /\ lost' = lost + 1 /\ lost < MaxLost
      BY <1>1, <2>2 DEF ReadByte, RxCplt
    <3>2. lost' \in 0..MaxLost
      BY <1>1, <3>1
    <3>3. \A j \in 1..Len(rxq) : Genuine(rxq[j])
      BY DEF IInv, ItemsAreGenuine
    <3> QED  BY <1>1, <3>1, <3>2, <3>3
  <2> QED  BY <2>1, <2>2
<1>5. /\ rdr' = NoItem /\ armed' = TRUE /\ irq' \in {"none", "error"}
      /\ UNCHANGED <<line, ore, rx, recv, result, hist, damaged>>
  BY DEF ReadByte, RxCplt
<1>6. UNCHANGED <<cmd, sentBytes, rx, recv, result, since, whole, damaged>>
  BY <1>5 DEF line, hist
<1>7. TypeOK'
  BY <1>4, <1>5, <1>6 DEF IInv, TypeOK
<1>8. ItemsAreGenuine'
  BY <1>4, <1>5 DEF ItemsAreGenuine, Genuine
<1>9. NeverDeaf' /\ FreshStart' /\ ByteToRead'
  BY <1>5, <1>6 DEF IInv, NeverDeaf, FreshStart, ByteToRead, Reading
<1> QED
  BY <1>6, <1>7, <1>8, <1>9, TaskUntouched DEF IInv

\* So does the start of comm_rx_task, which arms the first reception.
LEMMA StartKeeps == IInv /\ Start => IInv'
<1> SUFFICES ASSUME IInv, Start PROVE IInv'
  OBVIOUS
<1>1. /\ recv' = ReceiverInit /\ armed' = TRUE /\ rx' = "waiting"
      /\ UNCHANGED <<cmd, sentBytes, rdr, ore, irq, rxq, result, since, whole, damaged, lost>>
  BY DEF Start, line, hist, faults
<1>2. TypeOK'
  BY <1>1 DEF IInv, TypeOK, ReceiverInit, Receivers, States, Byte
<1>3. InStep(recv, since)'
  <2>1. since' = <<>>
    BY <1>1 DEF IInv, FreshStart, Start
  <2> QED  BY <1>1, <2>1 DEF InStep, ReceiverInit
<1>4. AgreesWithBlockDecoder' /\ WholeIsSince'
  BY <1>1 DEF IInv, AgreesWithBlockDecoder, WholeIsSince
<1>5. ItemsAreGenuine'
  BY <1>1 DEF IInv, ItemsAreGenuine, Genuine
<1>6. NeverDeaf' /\ FreshStart' /\ ByteToRead'
  BY <1>1 DEF IInv, NeverDeaf, FreshStart, ByteToRead, Reading
<1> QED
  BY <1>2, <1>3, <1>4, <1>5, <1>6 DEF IInv

\* So does a byte that is fed to the receiver.
LEMMA FeedKeeps == IInv /\ irq = "none" /\ Feed => IInv'
<1> SUFFICES ASSUME IInv, irq = "none", Feed PROVE IInv'
  OBVIOUS
<1> DEFINE i == Head(rxq)
<1>1. rxq \in Seq(Items) /\ rxq # <<>> /\ Len(rxq) \in Nat /\ Len(rxq) <= Depth
  BY LenProperties DEF IInv, TypeOK, Feed
<1>2. /\ i \in Items /\ i = rxq[1] /\ 1 \in 1..Len(rxq)
      /\ Tail(rxq) \in Seq(Items) /\ Len(Tail(rxq)) = Len(rxq) - 1
      /\ \A j \in 1..Len(Tail(rxq)) : Tail(rxq)[j] = rxq[j + 1]
  <2>1. 1 \in 1..Len(rxq)
    BY <1>1, EmptySeq
  <2> QED  BY <1>1, <2>1, HeadTailProperties
<1>3. Genuine(i)
  BY <1>2 DEF IInv, ItemsAreGenuine
<1>4. /\ recv' = FeedByte(recv, i.byte)
      /\ result' = FeedResult(recv, i.byte)
      /\ since' = SinceSync(i.byte)
      /\ whole' = WholeSo(i)
      /\ rxq' = Tail(rxq)
      /\ rx = "waiting"
      /\ rx' \in {"waiting"} \cup Handlers
      /\ UNCHANGED <<cmd, sentBytes, rdr, ore, armed, irq, damaged, lost>>
  <2>1. rx' = IF FeedResult(recv, i.byte).status = "OK"
              THEN Route(FeedResult(recv, i.byte).frame.tag) ELSE "waiting"
    BY DEF Feed
  <2>2. rx' \in {"waiting"} \cup Handlers
    BY <2>1, RouteType
  <2> QED  BY <2>2 DEF Feed, line, isr, faults
<1>5. i.byte \in Byte
  BY <1>2, ItemTypes
<1>6. recv \in Receivers /\ since \in Seq(Byte) /\ InStep(recv, since)
  BY DEF IInv, TypeOK
<1>7. SinceSync(i.byte) = SinceOf(recv, since, i.byte)
  BY DEF SinceSync, SinceOf
<1> HIDE DEF i
<1>8. /\ recv' \in Receivers /\ since' \in Seq(Byte) /\ InStep(recv', since')
      /\ result' = Decode(since')
  BY <1>4, <1>5, <1>6, <1>7, FeedTypes, FeedInStep
<1>9. /\ result'.status \in {"INCOMPLETE", "CRC", "OK"}
      /\ result'.frame \in Frames
  <2>1. recv.state = "CRC_LO" => Len(recv.value) <= 255
    <3>1. recv.len \in Nat /\ recv.len <= 255
      BY <1>6, ReceiverType, Bytes
    <3> QED  BY <1>6, <3>1 DEF InStep
  <2> QED  BY <1>4, <1>5, <1>6, <2>1, FeedResultType
<1>10. whole' \in [n : 1..Len(Script), k : 0..261]
  <2>1. /\ whole \in [n : 1..Len(Script), k : 0..261]
        /\ i.n \in 1..Len(Script) /\ i.pos \in 0..261
    <3>1. \A m \in 1..261 : m \in 0..261
      OBVIOUS
    <3>2. i.n \in 1..Len(Script) /\ i.pos \in 1..261
      BY <1>2, ItemTypes DEF Positions
    <3>3. whole \in [n : 1..Len(Script), k : 0..261]
      BY DEF IInv, TypeOK
    <3> HIDE DEF Positions
    <3> QED  BY <3>1, <3>2, <3>3, Zenon
  <2>2. Nothing \in [n : 1..Len(Script), k : 0..261]
    BY ScriptBounds DEF Nothing
  <2>3. [n |-> i.n, k |-> 1] \in [n : 1..Len(Script), k : 0..261]
    BY <2>1
  <2>4. [whole EXCEPT !.k = i.pos] \in [n : 1..Len(Script), k : 0..261]
    BY <2>1
  <2> QED  BY <1>4, <2>2, <2>3, <2>4 DEF WholeSo
<1>11. TypeOK'
  <2>1. Len(rxq') <= Depth
    BY <1>1, <1>2, <1>4, CommRxAssumption
  <2> QED  BY <1>2, <1>4, <1>8, <1>9, <1>10, <2>1 DEF IInv, TypeOK
<1>12. AgreesWithBlockDecoder'
  BY <1>8 DEF AgreesWithBlockDecoder
<1>13. ItemsAreGenuine'
  <2>1. \A j \in 1..Len(rxq') : Genuine(rxq'[j])
    <3> SUFFICES ASSUME NEW j \in 1..Len(rxq') PROVE Genuine(rxq'[j])
      OBVIOUS
    <3>1. j + 1 \in 1..Len(rxq) /\ rxq'[j] = rxq[j + 1]
      BY <1>1, <1>2, <1>4
    <3>2. Genuine(rxq[j + 1])
      BY <3>1 DEF IInv, ItemsAreGenuine
    <3> QED  BY <3>1, <3>2
  <2>2. rdr' # NoItem => Genuine(rdr')
    BY <1>4 DEF IInv, ItemsAreGenuine
  <2> QED  BY <2>1, <2>2 DEF ItemsAreGenuine, Genuine
<1>14. WholeIsSince'
  BY <1>2, <1>3, <1>4, FeedKeepsWhole
<1>15. NeverDeaf' /\ FreshStart' /\ ByteToRead'
  BY <1>4 DEF IInv, NeverDeaf, FreshStart, ByteToRead, Reading, Handlers
<1>16. InStep(recv, since)'
  BY <1>8 DEF InStep, Inside
<1> QED
  BY <1>11, <1>12, <1>13, <1>14, <1>15, <1>16 DEF IInv

\* So does every step.
LEMMA NextKeeps == IInv /\ [Next]_vars => IInv'
<1> SUFFICES ASSUME IInv, [Next]_vars PROVE IInv'
  OBVIOUS
<1>0. /\ ore \in BOOLEAN /\ damaged \in 0..MaxDamaged /\ lost \in 0..MaxLost
      /\ MaxDamaged \in Nat /\ MaxLost \in Nat
      /\ rdr \in Items \cup {NoItem} /\ (rdr # NoItem => Genuine(rdr))
      /\ Len(rxq) \in Nat /\ Len(rxq) <= Depth /\ Depth \in Nat
  BY CommRxAssumption, LenProperties DEF IInv, TypeOK, ItemsAreGenuine
<1>b. rdr = NoItem => ~Reading
  BY DEF IInv, ByteToRead
<1>1. CASE Arrives
  <2>1. /\ Advance /\ rdr' = Item(Line[cmd][sentBytes + 1], TRUE)
        /\ rdr = NoItem
        /\ UNCHANGED <<ore, armed, irq, rxq, rx, recv, result, since, whole, damaged, lost>>
    BY <1>1 DEF Arrives, hist, faults
  <2>2. Line[cmd][sentBytes + 1] \in Byte
    BY <2>1, AdvanceType DEF IInv
  <2>3. rdr' \in Items /\ Genuine(rdr')
    BY <2>1, <2>2, ItemIs DEF IInv
  <2>4. ByteToRead'
    BY <1>b, <2>1 DEF ByteToRead, Reading
  <2> QED  BY <1>0, <2>1, <2>3, <2>4, ArrivalKeeps
<1>2. CASE ArrivesDamaged
  <2>1. PICK b \in Damaged : rdr' = Item(b, FALSE)
    BY <1>2 DEF ArrivesDamaged
  <2>2. /\ Advance /\ damaged' = damaged + 1 /\ damaged < MaxDamaged
        /\ rdr = NoItem
        /\ UNCHANGED <<ore, armed, irq, rxq, rx, recv, result, since, whole, lost>>
    BY <1>2 DEF ArrivesDamaged, hist
  <2>3. rdr' \in Items /\ Genuine(rdr')
    BY <2>1, <2>2, ItemIs, CommRxAssumption DEF IInv
  <2>4. damaged' \in 0..MaxDamaged
    BY <1>0, <2>2
  <2>5. ByteToRead'
    BY <1>b, <2>2 DEF ByteToRead, Reading
  <2> QED  BY <1>0, <2>2, <2>3, <2>4, <2>5, ArrivalKeeps
<1>3. CASE Overrun
  <2>1. /\ Advance /\ lost' = lost + 1 /\ ore' = TRUE /\ rdr # NoItem
        /\ lost + (IF Reading /\ Len(rxq) = Depth THEN 1 ELSE 0) < MaxLost
        /\ UNCHANGED <<rdr, armed, irq, rxq, rx, recv, result, since, whole, damaged>>
    BY <1>3 DEF Overrun, hist
  <2>2. lost' \in 0..MaxLost /\ (Reading /\ Len(rxq) = Depth => lost + 1 < MaxLost)
    BY <1>0, <2>1
  <2>3. ByteToRead'
    <3> SUFFICES ASSUME Reading, ~(Len(rxq) < Depth) PROVE lost' < MaxLost
      BY <2>1 DEF ByteToRead, Reading
    <3>1. Len(rxq) = Depth
      BY <1>0
    <3> QED
      BY <2>1, <2>2, <3>1
  <2> QED  BY <1>0, <2>1, <2>2, <2>3, ArrivalKeeps
<1>4. CASE Interrupt
  BY <1>4, ReadFlagsKeeps, ReadByteKeeps, ErrorCallbackKeeps DEF Interrupt
<1>5. CASE Start
  BY <1>5, StartKeeps
<1>6. CASE irq = "none" /\ Feed
  BY <1>6, FeedKeeps
<1>7. CASE HandlerReturns
  <2>1. /\ rx \in Handlers /\ rx' = "waiting"
        /\ UNCHANGED <<cmd, sentBytes, rdr, ore, armed, irq, rxq, recv, result, since,
                       whole, damaged, lost>>
    BY <1>7 DEF HandlerReturns, line, isr, hist, faults
  <2>2. TypeOK' /\ NeverDeaf' /\ FreshStart' /\ ByteToRead'
    BY <2>1 DEF IInv, TypeOK, NeverDeaf, FreshStart, ByteToRead, Reading, Handlers
  <2>3. ItemsAreGenuine'
    BY <2>1 DEF IInv, ItemsAreGenuine, Genuine
  <2> QED  BY <2>1, <2>2, <2>3, TaskUntouched DEF IInv
<1>8. CASE UNCHANGED vars
  <2>1. UNCHANGED <<cmd, sentBytes, rdr, ore, armed, irq, rxq, rx, recv, result, since,
                    whole, damaged, lost>>
    BY <1>8 DEF vars, line, isr, hist, faults
  <2>2. TypeOK' /\ NeverDeaf' /\ FreshStart' /\ ByteToRead'
    BY <2>1 DEF IInv, TypeOK, NeverDeaf, FreshStart, ByteToRead, Reading
  <2>3. ItemsAreGenuine'
    BY <2>1 DEF IInv, ItemsAreGenuine, Genuine
  <2> QED  BY <2>1, <2>2, <2>3, TaskUntouched DEF IInv
<1> QED
  BY <1>1, <1>2, <1>3, <1>4, <1>5, <1>6, <1>7, <1>8 DEF Next, RxStep

\* So it always holds.
LEMMA Invariance == Spec => []IInv
<1> QED
  BY InitInv, NextKeeps, PTL DEF Spec

-----------------------------------------------------------------------------
(* The theorems                                                            *)

\* Every variable keeps its type, and the queue of received bytes its depth.
THEOREM TypeCorrect == Spec => []TypeOK
<1>1. IInv => TypeOK
  BY DEF IInv
<1> QED
  BY <1>1, Invariance, PTL

\* The streaming decoder agrees with tlv_decode() on every byte sequence.
THEOREM SameAsBlockDecoder == Spec => []AgreesWithBlockDecoder
<1>1. IInv => AgreesWithBlockDecoder
  BY DEF IInv
<1> QED
  BY <1>1, Invariance, PTL

\* A command whose bytes reach the decoder intact is delivered as it was sent.
THEOREM Delivery == Spec => []IntactIsDelivered
<1>1. IInv => IntactIsDelivered
  BY WholeIsDelivered DEF IInv
<1> QED
  BY <1>1, Invariance, PTL

\* After each interrupt the UART waits for the next byte, also when the HAL has ended
\* the reception for an overrun (HAL_UART_RxCpltCallback, HAL_UART_ErrorCallback).
THEOREM AlwaysArmed == Spec => []NeverDeaf
<1>1. IInv => NeverDeaf
  BY DEF IInv
<1> QED
  BY <1>1, Invariance, PTL

-----------------------------------------------------------------------------
(* Refinement of FrameStream: the commands in a queue of bytes             *)

\* What holds of 0, and of n + 1 whenever it holds of n, holds of every number.
LEMMA Induction ==
  ASSUME NEW S, 0 \in S, \A n \in Nat : n \in S => n + 1 \in S
  PROVE  \A n \in Nat : n \in S
<1> DEFINE T == Nat \ S
           R == {p \in Nat \X Nat : p[1] < p[2]}
<1>1. IsWellFoundedOn(R, Nat)
  <2>1. OpToRel(<, Nat) = R
    BY DEF OpToRel
  <2> QED
    BY <2>1, NatLessThanWellFounded
<1>2. SUFFICES ASSUME T # {} PROVE FALSE
  OBVIOUS
<1>3. PICK x \in T : \A y \in T : ~(<<y, x>> \in R)
  <2>1. T \subseteq Nat
    OBVIOUS
  <2> HIDE DEF T, R
  <2> QED
    BY <1>1, <1>2, <2>1, WFMin
<1>4. x \in Nat /\ x # 0 /\ x \notin S
  OBVIOUS
<1>5. x - 1 \in Nat /\ (x - 1) + 1 = x /\ x - 1 < x
  BY <1>4
<1>6. <<x - 1, x>> \in R
  BY <1>4, <1>5
<1>7. x - 1 \notin T
  BY <1>3, <1>6
<1>8. x - 1 \in S
  BY <1>5, <1>7
<1> QED
  BY <1>4, <1>5, <1>8

Slots    == Items \cup {NoItem}
Commands == {Script[n] : n \in 1..Len(Script)}

\* The commands whose last byte is among the first n of s, n growing up to k.
UpTo(s, k, upTo) ==
  upTo = [n \in 0..k |->
            IF n = 0 THEN <<>>
            ELSE IF LastByte(s[n]) THEN Append(upTo[n - 1], ScriptFrame(s[n]))
            ELSE upTo[n - 1]]

\* The recursive function of Queued exists, so that Queued is its last value.
LEMMA QueuedIs ==
  ASSUME NEW s \in Seq(Slots)
  PROVE  \E upTo : UpTo(s, Len(s), upTo) /\ Queued(s) = upTo[Len(s)]
<1> DEFINE E == {k \in Nat : \E upTo : UpTo(s, k, upTo)}
<1>1. 0 \in E
  <2>1. UpTo(s, 0, [n \in 0..0 |-> <<>>])
    BY DEF UpTo
  <2> QED
    BY <2>1
<1>2. ASSUME NEW k \in Nat, k \in E
      PROVE  k + 1 \in E
  <2>1. PICK g : UpTo(s, k, g)
    BY <1>2
  <2> DEFINE last == IF LastByte(s[k + 1]) THEN Append(g[k], ScriptFrame(s[k + 1])) ELSE g[k]
             h == [n \in 0..k + 1 |-> IF n = k + 1 THEN last ELSE g[n]]
  <2>2. ASSUME NEW n \in 0..k + 1
        PROVE  h[n] = IF n = 0 THEN <<>>
                      ELSE IF LastByte(s[n]) THEN Append(h[n - 1], ScriptFrame(s[n]))
                      ELSE h[n - 1]
    <3>1. CASE n = k + 1
      <4>1. n # 0 /\ n - 1 = k /\ k \in 0..k + 1 /\ k # k + 1
        BY <3>1
      <4>2. h[n] = last /\ h[k] = g[k]
        BY <3>1, <4>1
      <4> HIDE DEF h
      <4> QED
        BY <3>1, <4>1, <4>2
    <3>2. CASE n # k + 1
      <4>1. n \in 0..k
        BY <3>2
      <4>2. h[n] = g[n]
        BY <3>2
      <4>3. n # 0 => n - 1 \in 0..k + 1 /\ n - 1 # k + 1 /\ n - 1 \in 0..k
        BY <4>1
      <4>4. n # 0 => h[n - 1] = g[n - 1]
        BY <4>3
      <4>5. g[n] = IF n = 0 THEN <<>>
                   ELSE IF LastByte(s[n]) THEN Append(g[n - 1], ScriptFrame(s[n]))
                   ELSE g[n - 1]
        BY <2>1, <4>1 DEF UpTo
      <4> HIDE DEF h
      <4> QED
        BY <4>2, <4>4, <4>5
    <3> QED
      BY <3>1, <3>2
  <2>3. UpTo(s, k + 1, h)
    BY <2>2 DEF UpTo
  <2> HIDE DEF h
  <2> QED
    BY <2>3
<1>3. \A k \in Nat : k \in E
  <2> HIDE DEF E
  <2> QED
    BY <1>1, <1>2, Induction
<1>4. \E upTo : UpTo(s, Len(s), upTo)
  BY <1>3, LenProperties
<1> DEFINE upTo == CHOOSE f : UpTo(s, Len(s), f)
<1>5. UpTo(s, Len(s), upTo)
  BY <1>4
<1>6. Queued(s) = upTo[Len(s)]
  BY DEF Queued, UpTo
<1> QED
  BY <1>5, <1>6

\* No byte, no command.
LEMMA QueuedEmpty == Queued(<<>>) = <<>>
<1>1. <<>> \in Seq(Slots) /\ Len(<<>>) = 0
  BY EmptySeq
<1>2. PICK upTo : UpTo(<<>>, 0, upTo) /\ Queued(<<>>) = upTo[0]
  BY <1>1, QueuedIs
<1> QED
  BY <1>2 DEF UpTo

\* A byte more is a command more if it is the last of its command.
LEMMA QueuedAppend ==
  ASSUME NEW s \in Seq(Slots), NEW x \in Slots
  PROVE  Queued(Append(s, x)) = IF LastByte(x) THEN Append(Queued(s), ScriptFrame(x))
                                ELSE Queued(s)
<1> DEFINE l == Len(s)  a == Append(s, x)
<1>1. /\ l \in Nat /\ a \in Seq(Slots) /\ Len(a) = l + 1 /\ a[l + 1] = x
      /\ \A i \in 1..l : a[i] = s[i]
  BY LenProperties, AppendProperties
<1>2. PICK g : UpTo(s, l, g) /\ Queued(s) = g[l]
  BY QueuedIs
<1>3. PICK h : UpTo(a, l + 1, h) /\ Queued(a) = h[l + 1]
  BY <1>1, QueuedIs
<1> HIDE DEF l, a
<1> DEFINE G == {n \in Nat : n <= l => h[n] = g[n]}
<1>4. 0 \in G
  BY <1>1, <1>2, <1>3 DEF UpTo
<1>5. ASSUME NEW n \in Nat, n \in G
      PROVE  n + 1 \in G
  <2> SUFFICES ASSUME n + 1 <= l PROVE h[n + 1] = g[n + 1]
    OBVIOUS
  <2>1. /\ n + 1 \in 0..l /\ n + 1 \in 0..l + 1 /\ n + 1 \in 1..l
        /\ n + 1 # 0 /\ (n + 1) - 1 = n /\ n <= l
    BY <1>1
  <2>2. h[n] = g[n] /\ a[n + 1] = s[n + 1]
    BY <1>1, <1>5, <2>1
  <2>3. g[n + 1] = IF LastByte(s[n + 1]) THEN Append(g[n], ScriptFrame(s[n + 1])) ELSE g[n]
    BY <1>2, <2>1 DEF UpTo
  <2>4. h[n + 1] = IF LastByte(a[n + 1]) THEN Append(h[n], ScriptFrame(a[n + 1])) ELSE h[n]
    BY <1>3, <2>1 DEF UpTo
  <2> QED
    BY <2>2, <2>3, <2>4
<1>6. \A n \in Nat : n \in G
  <2> HIDE DEF G
  <2> QED
    BY <1>4, <1>5, Induction
<1>7. h[l] = g[l]
  BY <1>1, <1>6
<1>8. l + 1 \in 0..l + 1 /\ l + 1 # 0 /\ (l + 1) - 1 = l
  BY <1>1
<1>9. h[l + 1] = IF LastByte(x) THEN Append(h[l], ScriptFrame(x)) ELSE h[l]
  BY <1>1, <1>3, <1>8 DEF UpTo
<1> QED
  BY <1>2, <1>3, <1>7, <1>9 DEF a

\* The last byte of a command is of the script.
LEMMA CommandOf ==
  ASSUME NEW x \in Slots, LastByte(x)
  PROVE  x \in Items /\ ScriptFrame(x) \in Commands
<1>1. x \in Items
  BY DEF Slots, LastByte
<1> QED
  BY <1>1, ItemTypes DEF ScriptFrame, Commands

\* The commands of x alone.
Of(x) == IF LastByte(x) THEN <<ScriptFrame(x)>> ELSE <<>>

\* They are a sequence of commands.
LEMMA OfType == \A x \in Slots : Of(x) \in Seq(Commands)
<1> SUFFICES ASSUME NEW x \in Slots PROVE Of(x) \in Seq(Commands)
  OBVIOUS
<1>1. CASE LastByte(x)
  BY <1>1, CommandOf DEF Of
<1>2. CASE ~LastByte(x)
  BY <1>2, EmptySeq DEF Of
<1> QED
  BY <1>1, <1>2

\* What is queued are commands, and the oldest byte's come first.
LEMMA QueuedFirst ==
  ASSUME NEW s \in Seq(Slots), NEW x \in Slots
  PROVE  /\ Queued(s) \in Seq(Commands)
         /\ Queued(<<x>> \o s) = Of(x) \o Queued(s)
<1> DEFINE Good(n) == \A t \in Seq(Slots) : Len(t) = n =>
                        /\ Queued(t) \in Seq(Commands)
                        /\ Queued(<<x>> \o t) = Of(x) \o Queued(t)
           G == {n \in Nat : Good(n)}
<1>0. <<>> \in Seq(Slots) /\ <<>> \in Seq(Commands) /\ <<x>> \in Seq(Slots)
  BY EmptySeq
<1>1. 0 \in G
  <2> SUFFICES ASSUME NEW t \in Seq(Slots), Len(t) = 0
               PROVE  /\ Queued(t) \in Seq(Commands)
                      /\ Queued(<<x>> \o t) = Of(x) \o Queued(t)
    OBVIOUS
  <2>1. t = <<>> /\ Queued(t) = <<>>
    BY EmptySeq, QueuedEmpty
  <2>2. <<x>> \o t = <<x>> /\ <<x>> = Append(<<>>, x)
    BY <1>0, <2>1, ConcatEmptySeq
  <2>3. Queued(<<x>>) = IF LastByte(x) THEN Append(<<>>, ScriptFrame(x)) ELSE <<>>
    BY <1>0, <2>2, QueuedAppend, QueuedEmpty
  <2>4. Append(<<>>, ScriptFrame(x)) = <<ScriptFrame(x)>>
    OBVIOUS
  <2>5. Of(x) \o <<>> = Of(x)
    BY OfType, ConcatEmptySeq
  <2> QED
    BY <1>0, <2>1, <2>2, <2>3, <2>4, <2>5 DEF Of
<1>2. ASSUME NEW n \in Nat, n \in G
      PROVE  n + 1 \in G
  <2> SUFFICES ASSUME NEW t \in Seq(Slots), Len(t) = n + 1
               PROVE  /\ Queued(t) \in Seq(Commands)
                      /\ Queued(<<x>> \o t) = Of(x) \o Queued(t)
    OBVIOUS
  <2>1. t # <<>>
    BY EmptySeq
  <2>2. PICK u \in Seq(Slots), e \in Slots : t = Append(u, e)
    BY <2>1, SequenceEmptyOrAppend
  <2>3. Len(u) = n
    <3>1. Len(t) = Len(u) + 1 /\ Len(u) \in Nat
      BY <2>2, AppendProperties, LenProperties
    <3> QED
      BY <3>1
  <2>4. Queued(u) \in Seq(Commands) /\ Queued(<<x>> \o u) = Of(x) \o Queued(u)
    BY <1>2, <2>3
  <2>5. <<x>> \o t = Append(<<x>> \o u, e) /\ <<x>> \o u \in Seq(Slots)
    <3>1. <<e>> \in Seq(Slots) /\ <<x>> \o u \in Seq(Slots)
      BY <1>0, ConcatProperties
    <3>2. t = u \o <<e>> /\ Append(<<x>> \o u, e) = (<<x>> \o u) \o <<e>>
      BY <2>2, <3>1, AppendIsConcat
    <3> QED
      BY <1>0, <3>1, <3>2, ConcatAssociative
  <2>6. Queued(t) = IF LastByte(e) THEN Append(Queued(u), ScriptFrame(e)) ELSE Queued(u)
    BY <2>2, QueuedAppend
  <2>7. Queued(<<x>> \o t) = IF LastByte(e) THEN Append(Of(x) \o Queued(u), ScriptFrame(e))
                             ELSE Of(x) \o Queued(u)
    BY <2>4, <2>5, QueuedAppend
  <2>8. CASE ~LastByte(e)
    BY <2>4, <2>6, <2>7, <2>8
  <2>9. CASE LastByte(e)
    <3> DEFINE c == ScriptFrame(e)  A == Of(x)  B == Queued(u)
    <3>1. c \in Commands /\ A \in Seq(Commands) /\ B \in Seq(Commands)
      BY <2>4, <2>9, CommandOf, OfType
    <3>2. Queued(t) = Append(B, c) /\ Queued(<<x>> \o t) = Append(A \o B, c)
      BY <2>6, <2>7, <2>9
    <3> HIDE DEF c, A, B
    <3>3. Append(B, c) = B \o <<c>> /\ Append(A \o B, c) = (A \o B) \o <<c>>
          /\ Append(B, c) \in Seq(Commands) /\ <<c>> \in Seq(Commands)
      BY <3>1, ConcatProperties, AppendProperties, AppendIsConcat
    <3>4. (A \o B) \o <<c>> = A \o (B \o <<c>>)
      BY <3>1, <3>3, ConcatAssociative
    <3> QED
      BY <3>2, <3>3, <3>4 DEF A
  <2> QED
    BY <2>8, <2>9
<1>3. \A n \in Nat : n \in G
  <2> HIDE DEF G
  <2> QED
    BY <1>1, <1>2, Induction
<1> QED
  BY <1>3, LenProperties

\* Taking out what follows B leaves B and the rest.
LEMMA WithoutMiddle ==
  ASSUME NEW S, NEW B \in Seq(S), NEW c \in S, NEW t \in Seq(S)
  PROVE  /\ Stream!Without(Append(B, c) \o t, Len(B) + 1) = B \o t
         /\ Len(B) + 1 \in 1..Len(Append(B, c) \o t)
<1> DEFINE b == Len(B)  k == Len(t)  p == Append(B, c)  q == p \o t
           left == SubSeq(q, 1, b)  right == SubSeq(q, b + 2, Len(q))
<1>1. /\ b \in Nat /\ k \in Nat /\ p \in Seq(S) /\ Len(p) = b + 1
      /\ \A i \in 1..b : p[i] = B[i]
  BY LenProperties, AppendProperties
<1>2. /\ q \in Seq(S) /\ Len(q) = (b + 1) + k
      /\ \A i \in 1..(b + 1) + k : q[i] = IF i <= b + 1 THEN p[i] ELSE t[i - (b + 1)]
  BY <1>1, ConcatProperties
<1> HIDE DEF b, k, p, q
<1>3. \A i \in 1..(b + 1) + k : q[i] \in S
  BY <1>2, ElementOfSeq
<1>4. /\ left \in Seq(S) /\ Len(left) = b
      /\ \A i \in 1..b : left[i] = B[i]
  <2>1. /\ 1 \in Int /\ b \in Int /\ \A i \in 1..b : q[i] \in S
        /\ (IF 1 <= b THEN b - 1 + 1 ELSE 0) = b /\ b - 1 + 1 = b
        /\ \A i \in 1..b : 1 + i - 1 = i
    BY <1>1, <1>3
  <2>2. /\ left \in Seq(S) /\ Len(left) = (IF 1 <= b THEN b - 1 + 1 ELSE 0)
        /\ \A i \in 1..b - 1 + 1 : left[i] = q[1 + i - 1]
    BY <2>1, SubSeqProperties
  <2>3. \A i \in 1..b : q[i] = B[i]
    BY <1>1, <1>2
  <2> HIDE DEF left
  <2> QED
    BY <2>1, <2>2, <2>3
<1>5. right = t
  <2>1. /\ b + 2 \in Int /\ Len(q) \in Int
        /\ \A i \in b + 2..Len(q) : q[i] \in S
        /\ (IF b + 2 <= Len(q) THEN Len(q) - (b + 2) + 1 ELSE 0) = k
        /\ Len(q) - (b + 2) + 1 = k
    BY <1>1, <1>2, <1>3
  <2>2. /\ right \in Seq(S) /\ Len(right) = k
        /\ \A i \in 1..k : right[i] = q[b + 2 + i - 1]
    BY <2>1, SubSeqProperties
  <2>3. \A i \in 1..k : q[b + 2 + i - 1] = t[i]
    <3> SUFFICES ASSUME NEW i \in 1..k PROVE q[b + 2 + i - 1] = t[i]
      OBVIOUS
    <3>1. /\ b + 2 + i - 1 \in 1..(b + 1) + k /\ ~(b + 2 + i - 1 <= b + 1)
          /\ (b + 2 + i - 1) - (b + 1) = i
      BY <1>1
    <3> QED
      BY <1>2, <3>1
  <2> HIDE DEF right
  <2> QED
    BY <2>2, <2>3, SeqEqual DEF k
<1>6. left = B
  <2> HIDE DEF left
  <2> QED
    BY <1>4, SeqEqual DEF b
<1>7. Stream!Without(q, b + 1) = left \o right
  <2>1. (b + 1) - 1 = b /\ (b + 1) + 1 = b + 2
    BY <1>1
  <2> QED
    BY <2>1 DEF Stream!Without
<1>8. b + 1 \in 1..Len(q)
  BY <1>1, <1>2
<1> QED
  BY <1>5, <1>6, <1>7, <1>8 DEF q, p, b

-----------------------------------------------------------------------------
(* Refinement of FrameStream: the steps                                    *)

\* The command whose bytes are leaving, and the frame that is handled.
Rest    == IF sentBytes > 0 THEN <<Script[cmd]>> ELSE <<>>
Handled == IF rx \in Handlers THEN result.frame ELSE NoFrame

\* What is pending: the commands whose last byte is queued or held in the data register,
\* and the one that is leaving.
LEMMA PendingIs ==
  ASSUME IInv
  PROVE  /\ rxq \in Seq(Slots) /\ rdr \in Slots /\ Append(rxq, rdr) \in Seq(Slots)
         /\ Queued(rxq) \in Seq(Commands) /\ Queued(Append(rxq, rdr)) \in Seq(Commands)
         /\ Script[cmd] \in Commands /\ Rest \in Seq(Commands)
         /\ Pending = Queued(Append(rxq, rdr)) \o Rest
<1>1. rxq \in Seq(Slots) /\ rdr \in Slots
  BY SeqMonotonic DEF IInv, TypeOK, Slots
<1>2. Append(rxq, rdr) \in Seq(Slots)
  BY <1>1, AppendProperties
<1>3. Queued(rxq) \in Seq(Commands) /\ Queued(Append(rxq, rdr)) \in Seq(Commands)
  BY <1>1, <1>2, QueuedFirst
<1>4. Script[cmd] \in Commands
  BY DEF IInv, TypeOK, Commands
<1>5. Rest \in Seq(Commands)
  BY <1>4, EmptySeq DEF Rest
<1> QED
  BY <1>1, <1>2, <1>3, <1>4, <1>5 DEF Pending, Rest

\* NoItem is no byte.
LEMMA QueuedNoItem == \A s \in Seq(Slots) : Queued(Append(s, NoItem)) = Queued(s)
  BY QueuedAppend DEF Slots, LastByte

\* What one byte more, sent or lost, makes of the command that is leaving.
LEMMA RestSteps ==
  ASSUME IInv, Advance
  PROVE  /\ sentBytes + 1 = Len(Line[cmd]) => Rest = <<Script[cmd]>> /\ Rest' = <<>>
         /\ sentBytes + 1 # Len(Line[cmd]) =>
              Rest \in {<<>>, <<Script[cmd]>>} /\ Rest' = <<Script[cmd]>>
<1>1. PICK m \in 6..261 : m = Len(Line[cmd])
  BY LineIs DEF IInv, TypeOK
<1>2. sentBytes \in 0..m - 1
  BY <1>1 DEF IInv, TypeOK
<1>3. CASE sentBytes + 1 = Len(Line[cmd])
  <2>1. sentBytes + 1 = m /\ m \in Nat /\ m >= 6
    BY <1>1, <1>3, Sizes
  <2>2. sentBytes > 0
    BY <1>2, <2>1
  <2>3. sentBytes' = 0
    BY <1>3 DEF Advance
  <2>4. Rest' = <<>>
    BY <2>3 DEF Rest
  <2> QED
    BY <1>3, <2>2, <2>4 DEF Rest
<1>4. CASE sentBytes + 1 # Len(Line[cmd])
  <2>1. sentBytes' = sentBytes + 1 /\ cmd' = cmd /\ sentBytes + 1 > 0
    BY <1>2, <1>4 DEF Advance
  <2> QED
    BY <1>4, <2>1 DEF Rest
<1> QED
  BY <1>3, <1>4

\* A byte arrives: a command begins with its first byte.
LEMMA ArrivalMaps ==
  ASSUME IInv, Advance, rdr = NoItem, UNCHANGED <<rxq, rx, result>>,
         NEW b \in Byte, NEW ok \in BOOLEAN, ok => b = Line[cmd][sentBytes + 1],
         rdr' = Item(b, ok)
  PROVE  [Stream!Next]_(Stream!vars)
<1> DEFINE Q == Queued(rxq)  c == Script[cmd]
<1>1. /\ Q \in Seq(Commands) /\ c \in Commands /\ rxq \in Seq(Slots)
      /\ <<c>> \in Seq(Commands) /\ <<>> \in Seq(Commands)
  BY PendingIs, EmptySeq
<1>2. Pending = Q \o Rest
  BY <1>1, PendingIs, QueuedNoItem
<1>3. /\ rdr' \in Slots /\ rdr'.n = cmd /\ rdr'.pos = sentBytes + 1 /\ rdr' # NoItem
  BY ItemIs DEF IInv, Slots, Item
<1>4. LastByte(rdr') <=> sentBytes + 1 = Len(Line[cmd])
  BY <1>3 DEF LastByte
<1>5. ScriptFrame(rdr') = c
  BY <1>3 DEF ScriptFrame
<1>6. Pending' = (IF LastByte(rdr') THEN Append(Q, c) ELSE Q) \o Rest'
  <2>1. Queued(Append(rxq, rdr')) = IF LastByte(rdr') THEN Append(Q, c) ELSE Q
    BY <1>1, <1>3, <1>5, QueuedAppend
  <2> QED
    BY <2>1 DEF Pending, Rest
<1>7. Handled' = Handled
  BY DEF Handled
<1> HIDE DEF Q, c
<1>8. /\ Q \o <<>> = Q /\ Q \o <<c>> = Append(Q, c) /\ Append(Q, c) \o <<>> = Append(Q, c)
  BY <1>1, ConcatEmptySeq, AppendIsConcat, AppendProperties
<1>9. CASE sentBytes + 1 = Len(Line[cmd])
  <2>1. Rest = <<c>> /\ Rest' = <<>>
    BY <1>9, RestSteps DEF c
  <2>2. Pending' = Pending
    BY <1>2, <1>4, <1>6, <1>8, <1>9, <2>1
  <2> QED
    BY <1>7, <2>2 DEF Stream!vars, Handled
<1>10. CASE sentBytes + 1 # Len(Line[cmd])
  <2>1. Rest \in {<<>>, <<c>>} /\ Rest' = <<c>>
    BY <1>10, RestSteps DEF c
  <2>2. Pending' = Pending \/ Pending' = Append(Pending, c)
    BY <1>2, <1>4, <1>6, <1>8, <1>10, <2>1
  <2>3. CASE Pending' = Pending
    BY <1>7, <2>3 DEF Stream!vars, Handled
  <2>4. CASE Pending' = Append(Pending, c)
    BY <1>1, <1>7, <2>4 DEF Stream!Next, Stream!Send, Handled, Commands
  <2> QED
    BY <2>2, <2>3, <2>4
<1> QED
  BY <1>9, <1>10

\* A byte is lost in an overrun; a command is lost with its last byte.
LEMMA OverrunMaps ==
  ASSUME IInv, Overrun
  PROVE  [Stream!Next]_(Stream!vars)
<1> DEFINE A == Queued(Append(rxq, rdr))  c == Script[cmd]
<1>0. Advance /\ UNCHANGED <<rxq, rdr, rx, result>>
  BY DEF Overrun
<1>1. /\ A \in Seq(Commands) /\ c \in Commands
      /\ <<c>> \in Seq(Commands) /\ <<>> \in Seq(Commands)
  BY PendingIs, EmptySeq
<1>2. Pending = A \o Rest
  BY PendingIs
<1>3. Pending' = A \o Rest'
  BY <1>0 DEF Pending, Rest
<1>4. Handled' = Handled
  BY <1>0 DEF Handled
<1> HIDE DEF A, c
<1>5. /\ A \o <<>> = A /\ A \o <<c>> = Append(A, c) /\ Append(A, c) \o <<>> = Append(A, c)
  BY <1>1, ConcatEmptySeq, AppendIsConcat, AppendProperties
<1>6. CASE sentBytes + 1 = Len(Line[cmd])
  <2>1. Rest = <<c>> /\ Rest' = <<>>
    BY <1>0, <1>6, RestSteps DEF c
  <2>2. Pending = Append(A, c) \o <<>> /\ Pending' = A \o <<>>
    BY <1>2, <1>3, <1>5, <2>1
  <2>3. /\ Pending' = Stream!Without(Pending, Len(A) + 1)
        /\ Len(A) + 1 \in 1..Len(Pending)
    BY <1>1, <2>2, WithoutMiddle
  <2> QED
    BY <1>4, <2>3 DEF Stream!Next, Stream!Lose, Handled
<1>7. CASE sentBytes + 1 # Len(Line[cmd])
  <2>1. Rest \in {<<>>, <<c>>} /\ Rest' = <<c>>
    BY <1>0, <1>7, RestSteps DEF c
  <2>2. Pending' = Pending \/ Pending' = Append(Pending, c)
    BY <1>2, <1>3, <1>5, <2>1
  <2>3. CASE Pending' = Pending
    BY <1>4, <2>3 DEF Stream!vars, Handled
  <2>4. CASE Pending' = Append(Pending, c)
    BY <1>1, <1>4, <2>4 DEF Stream!Next, Stream!Send, Handled, Commands
  <2> QED
    BY <2>2, <2>3, <2>4
<1> QED
  BY <1>6, <1>7

\* The interrupt passes the byte on, or drops it, with its command if it is the last.
LEMMA ReadByteMaps ==
  ASSUME IInv, ReadByte
  PROVE  [Stream!Next]_(Stream!vars)
<1> DEFINE Q == Queued(rxq)  c == ScriptFrame(rdr)
<1>0. /\ rdr' = NoItem /\ UNCHANGED <<cmd, sentBytes, rx, result>>
      /\ rxq' = IF Len(rxq) < Depth THEN Append(rxq, rdr) ELSE rxq
  BY DEF ReadByte, RxCplt, line
<1>1. Handled' = Handled /\ Rest' = Rest
  BY <1>0 DEF Handled, Rest
<1>2. Pending' = Queued(rxq') \o Rest
  <2>1. rxq' \in Seq(Slots)
    BY <1>0, PendingIs
  <2>2. Queued(Append(rxq', NoItem)) = Queued(rxq')
    BY <2>1, QueuedNoItem
  <2> QED
    BY <1>0, <2>2 DEF Pending, Rest
<1>3. Pending = (IF LastByte(rdr) THEN Append(Q, c) ELSE Q) \o Rest
  BY PendingIs, QueuedAppend
<1>4. CASE Pending' = Pending
  BY <1>1, <1>4 DEF Stream!vars, Handled
<1>5. CASE Pending' # Pending
  <2>1. rxq' = rxq
    BY <1>0, <1>2, <1>5, PendingIs
  <2>2. LastByte(rdr)
    BY <1>2, <1>3, <1>5, <2>1
  <2>3. Q \in Seq(Commands) /\ c \in Commands /\ Rest \in Seq(Commands)
    BY <2>2, PendingIs, CommandOf
  <2>4. Pending = Append(Q, c) \o Rest /\ Pending' = Q \o Rest
    BY <1>2, <1>3, <2>1, <2>2
  <2> HIDE DEF Q, c
  <2>5. /\ Pending' = Stream!Without(Pending, Len(Q) + 1)
        /\ Len(Q) + 1 \in 1..Len(Pending)
    BY <2>3, <2>4, WithoutMiddle
  <2> QED
    BY <1>1, <2>5 DEF Stream!Next, Stream!Lose, Handled
<1> QED
  BY <1>4, <1>5

\* A frame comes out only with the last byte of its command, and is that command.
LEMMA AcceptedIsLast ==
  ASSUME IInv, IntactIsDelivered', OnlyWholePass', Feed, result'.status = "OK"
  PROVE  LastByte(Head(rxq)) /\ result'.frame = ScriptFrame(Head(rxq))
<1> DEFINE i == Head(rxq)
<1>1. whole' = WholeSo(i) /\ rxq # <<>>
  BY DEF Feed
<1>2. i \in Items
  BY <1>1, HeadTailProperties DEF IInv, TypeOK
<1> HIDE DEF i
<1>3. whole'.k = Len(Line[whole'.n]) /\ result'.frame = Script[whole'.n]
  BY DEF OnlyWholePass, IntactIsDelivered
<1>4. whole \in [n : 1..Len(Script), k : 0..261]
  BY DEF IInv, TypeOK
<1>5. /\ i.n \in 1..Len(Script) /\ Len(Line[i.n]) \in 6..261
      /\ 1 \in 1..Len(Script) /\ Len(Line[1]) \in 6..261
  BY <1>2, ItemTypes, LineIs, ScriptBounds
<1>6. whole' # Nothing
  <2> SUFFICES ASSUME whole' = Nothing PROVE FALSE
    OBVIOUS
  <2>1. whole'.n = 1 /\ whole'.k = 0
    BY DEF Nothing
  <2>2. 0 \in 6..261
    BY <1>3, <1>5, <2>1
  <2> QED
    BY <2>2
<1>7. whole' # [n |-> i.n, k |-> 1]
  <2> SUFFICES ASSUME whole' = [n |-> i.n, k |-> 1] PROVE FALSE
    OBVIOUS
  <2>1. whole'.n = i.n /\ whole'.k = 1
    OBVIOUS
  <2>2. 1 \in 6..261
    BY <1>3, <1>5, <2>1
  <2> QED
    BY <2>2
<1>8. i.n = whole.n /\ whole' = [whole EXCEPT !.k = i.pos]
  BY <1>1, <1>6, <1>7 DEF WholeSo
<1>9. whole'.n = i.n /\ whole'.k = i.pos
  BY <1>4, <1>8
<1>10. i # NoItem
  <2>1. i.pos \in Positions
    BY <1>2, ItemTypes
  <2> QED
    BY <2>1 DEF NoItem, Positions
<1> QED
  BY <1>3, <1>9, <1>10 DEF LastByte, ScriptFrame, i

\* A byte is fed: a command whose last byte it is goes to its handler, or is lost.
LEMMA FeedMaps ==
  ASSUME IInv, IntactIsDelivered', OnlyWholePass', Feed
  PROVE  [Stream!Next]_(Stream!vars)
<1> DEFINE i == Head(rxq)  U == Append(Tail(rxq), rdr)  R == Queued(U) \o Rest
           c == ScriptFrame(i)
<1>1. /\ rx = "waiting" /\ rxq # <<>> /\ rxq' = Tail(rxq)
      /\ rx' = IF result'.status = "OK" THEN Route(result'.frame.tag) ELSE "waiting"
      /\ UNCHANGED <<cmd, sentBytes, rdr>>
  BY DEF Feed, line, isr
<1>2. /\ i \in Slots /\ Tail(rxq) \in Seq(Slots) /\ U \in Seq(Slots)
      /\ Queued(U) \in Seq(Commands) /\ Rest \in Seq(Commands)
  <2>1. i \in Slots /\ Tail(rxq) \in Seq(Slots)
    BY <1>1, PendingIs, HeadTailProperties
  <2>2. U \in Seq(Slots)
    BY <2>1, PendingIs, AppendProperties
  <2> QED
    BY <2>1, <2>2, PendingIs, QueuedFirst
<1>3. Append(rxq, rdr) = <<i>> \o U
  <2> DEFINE a == Append(rxq, rdr)
  <2>1. a \in Seq(Slots) /\ a # <<>> /\ Head(a) = i /\ Tail(a) = U
    BY <1>1, PendingIs, AppendProperties, HeadTailAppend
  <2> HIDE DEF a, i, U
  <2>2. a = <<Head(a)>> \o Tail(a)
    <3>1. Len(a) \in Nat \ {0}
      BY <2>1, EmptySeq
    <3>2. 1 \in 1..Len(a) /\ Len(a) \in 1..Len(a) /\ 1 + 1 = 2
      BY <3>1
    <3>3. SubSeq(a, 1, Len(a)) = <<a[1]>> \o SubSeq(a, 2, Len(a))
      BY <2>1, <3>2, SubSeqRecursiveFirst
    <3>4. Head(a) = a[1]
      BY <2>1, <3>2, SubSeqFull, HeadTailOfSubSeq
    <3> QED
      BY <2>1, <3>3, <3>4, SubSeqFull, TailIsSubSeq
  <2> QED
    BY <2>1, <2>2 DEF a
<1>4. Pending = Of(i) \o R
  <2>1. Queued(Append(rxq, rdr)) = Of(i) \o Queued(U)
    BY <1>2, <1>3, QueuedFirst
  <2>2. Of(i) \in Seq(Commands)
    BY <1>2, OfType
  <2> HIDE DEF i, U
  <2>3. (Of(i) \o Queued(U)) \o Rest = Of(i) \o (Queued(U) \o Rest)
    BY <1>2, <2>2, ConcatAssociative
  <2> QED
    BY <2>1, <2>3, PendingIs
<1>5. Pending' = R
  BY <1>1 DEF Pending, Rest
<1>6. R \in Seq(Commands)
  BY <1>2, ConcatProperties
<1>7. Handled = NoFrame
  BY <1>1 DEF Handled, Handlers
<1>8. Handled' = IF rx' \in Handlers THEN result'.frame ELSE NoFrame
  BY DEF Handled
<1> HIDE DEF R, U, i, c
<1>9. CASE ~LastByte(i)
  <2>1. result'.status # "OK"
    BY <1>9, AcceptedIsLast DEF i
  <2>2. Handled' = NoFrame
    BY <1>1, <1>8, <2>1 DEF Handlers
  <2>3. Pending' = Pending
    BY <1>4, <1>5, <1>6, <1>9, ConcatEmptySeq DEF Of
  <2> QED
    BY <1>7, <2>2, <2>3 DEF Stream!vars, Handled
<1>10. CASE LastByte(i)
  <2>1. c \in Commands /\ Pending = <<c>> \o R /\ Pending' = R
    BY <1>2, <1>4, <1>5, <1>10, CommandOf DEF Of, c
  <2>2. CASE rx' \in Handlers
    <3>1. result'.status = "OK"
      BY <1>1, <2>2 DEF Handlers
    <3>2. Handled' = c
      BY <1>8, <2>2, <3>1, AcceptedIsLast DEF c, i
    <3>3. Pending # <<>> /\ Head(Pending) = c /\ Tail(Pending) = R
      <4>1. <<c>> \in Seq(Commands) /\ <<c>> # <<>> /\ Len(<<c>>) = 1 /\ <<c>>[1] = c
        BY <2>1
      <4>2. Pending \in Seq(Commands) /\ Pending # <<>>
        BY <1>6, <2>1, <4>1, ConcatProperties, ConcatEqualIffEmpty
      <4>3. /\ Len(Pending) = 1 + Len(R) /\ Pending[1] = c
            /\ \A j \in 1..Len(R) : Pending[j + 1] = R[j]
        <5> DEFINE k == Len(R)
        <5>1. k \in Nat
          BY <1>6, LenProperties
        <5>2. /\ Len(Pending) = 1 + k
              /\ \A j \in 1..1 + k : Pending[j] = IF j <= 1 THEN <<c>>[j] ELSE R[j - 1]
          BY <1>6, <2>1, <4>1, ConcatProperties
        <5> HIDE DEF k
        <5>3. Pending[1] = c
          BY <5>1, <5>2
        <5>4. \A j \in 1..k : Pending[j + 1] = R[j]
          <6> SUFFICES ASSUME NEW j \in 1..k PROVE Pending[j + 1] = R[j]
            OBVIOUS
          <6>1. j + 1 \in 1..1 + k /\ ~(j + 1 <= 1) /\ (j + 1) - 1 = j
            BY <5>1
          <6> QED
            BY <5>2, <6>1
        <5> QED
          BY <5>2, <5>3, <5>4 DEF k
      <4>4. Head(Pending) = c
        <5>1. Len(Pending) \in Nat \ {0}
          BY <4>2, EmptySeq
        <5>2. 1 \in 1..Len(Pending) /\ Len(Pending) \in 1..Len(Pending)
          BY <5>1
        <5> QED
          BY <4>2, <4>3, <5>2, SubSeqFull, HeadTailOfSubSeq
      <4>5. /\ Tail(Pending) \in Seq(Commands) /\ Len(Tail(Pending)) = Len(Pending) - 1
            /\ \A j \in 1..Len(Tail(Pending)) : Tail(Pending)[j] = Pending[j + 1]
        BY <4>2, HeadTailProperties
      <4>6. Len(Tail(Pending)) = Len(R)
        <5> DEFINE k == Len(R)
        <5>1. k \in Nat /\ Len(Pending) = 1 + k
          BY <1>6, <4>3, LenProperties
        <5> HIDE DEF k
        <5>2. Len(Pending) - 1 = k
          BY <5>1
        <5> QED
          BY <4>5, <5>2 DEF k
      <4> QED
        BY <1>6, <4>2, <4>3, <4>4, <4>5, <4>6, SeqEqual
    <3> QED
      BY <1>7, <2>1, <3>2, <3>3 DEF Stream!Next, Stream!Deliver, Handled
  <2>3. CASE rx' \notin Handlers
    <3>1. Handled' = Handled
      BY <1>7, <1>8, <2>3
    <3>2. Append(<<>>, c) = <<c>> /\ Len(<<>>) + 1 = 1 /\ <<>> \o R = R
          /\ <<>> \in Seq(Commands)
      BY <1>6, ConcatEmptySeq, EmptySeq
    <3>3. Pending' = Stream!Without(Pending, 1) /\ 1 \in 1..Len(Pending)
      <4>1. /\ Stream!Without(Append(<<>>, c) \o R, Len(<<>>) + 1) = <<>> \o R
            /\ Len(<<>>) + 1 \in 1..Len(Append(<<>>, c) \o R)
        BY <1>6, <2>1, <3>2, WithoutMiddle
      <4> QED
        BY <2>1, <3>2, <4>1
    <3> QED
      BY <3>1, <3>3 DEF Stream!Next, Stream!Lose, Handled
  <2> QED
    BY <2>2, <2>3
<1> QED
  BY <1>9, <1>10

\* Every step maps to a step of FrameStream or to a stutter.
LEMMA StreamStep ==
  ASSUME IInv, IntactIsDelivered', OnlyWholePass', [Next]_vars
  PROVE  [Stream!Next]_(Stream!vars)
<1>1. CASE Arrives
  <2> DEFINE b == Line[cmd][sentBytes + 1]
  <2>1. Advance /\ rdr = NoItem /\ UNCHANGED <<rxq, rx, result>> /\ rdr' = Item(b, TRUE)
    BY <1>1 DEF Arrives
  <2>2. b \in Byte
    BY <2>1, AdvanceType DEF IInv
  <2> QED
    BY <2>1, <2>2, ArrivalMaps
<1>2. CASE ArrivesDamaged
  <2>1. Advance /\ rdr = NoItem /\ UNCHANGED <<rxq, rx, result>>
    BY <1>2 DEF ArrivesDamaged
  <2>2. PICK b \in Byte : rdr' = Item(b, FALSE)
    BY <1>2, CommRxAssumption DEF ArrivesDamaged
  <2> QED
    BY <2>1, <2>2, ArrivalMaps
<1>3. CASE Overrun
  BY <1>3, OverrunMaps
<1>4. CASE Interrupt
  <2>1. CASE ReadByte
    BY <2>1, ReadByteMaps
  <2>2. CASE ReadFlags \/ ErrorCallback
    <3>1. UNCHANGED <<cmd, sentBytes, rdr, rxq, rx, result>>
      BY <2>2 DEF ReadFlags, ErrorCallback, line
    <3>2. Pending' = Pending /\ Handled' = Handled
      BY <3>1 DEF Pending, Handled
    <3> QED
      BY <3>2 DEF Stream!vars, Handled
  <2> QED
    BY <1>4, <2>1, <2>2 DEF Interrupt
<1>5. CASE Start
  <2>1. UNCHANGED <<cmd, sentBytes, rdr, rxq, result>> /\ rx \notin Handlers /\ rx' \notin Handlers
    BY <1>5 DEF Start, line, Handlers
  <2>2. Pending' = Pending /\ Handled' = Handled
    BY <2>1 DEF Pending, Handled
  <2> QED
    BY <2>2 DEF Stream!vars, Handled
<1>6. CASE Feed
  BY <1>6, FeedMaps
<1>7. CASE HandlerReturns
  <2>1. UNCHANGED <<cmd, sentBytes, rdr, rxq>> /\ rx' \notin Handlers
    BY <1>7 DEF HandlerReturns, line, isr, Handlers
  <2>2. Pending' = Pending /\ Handled' = NoFrame
    BY <2>1 DEF Pending, Handled
  <2>3. CASE Handled = NoFrame
    BY <2>2, <2>3 DEF Stream!vars, Handled
  <2>4. CASE Handled # NoFrame
    BY <2>2, <2>4 DEF Stream!Next, Stream!Finish, Handled
  <2> QED
    BY <2>3, <2>4
<1>8. CASE UNCHANGED vars
  <2>1. Pending' = Pending /\ Handled' = Handled
    BY <1>8 DEF vars, line, isr, Pending, Handled
  <2> QED
    BY <2>1 DEF Stream!vars, Handled
<1> QED
  BY <1>1, <1>2, <1>3, <1>4, <1>5, <1>6, <1>7, <1>8 DEF Next, RxStep

\* Nothing is on its way at first.
LEMMA StreamInit == Init => Stream!Init
<1> SUFFICES ASSUME Init PROVE Stream!Init
  OBVIOUS
<1>1. rxq = <<>> /\ rdr = NoItem /\ sentBytes = 0 /\ rx \notin Handlers
  BY DEF Init, Handlers
<1>2. Queued(Append(<<>>, NoItem)) = <<>>
  BY QueuedNoItem, QueuedEmpty, EmptySeq
<1>3. <<>> \o <<>> = <<>>
  BY EmptySeq, ConcatEmptySeq
<1>4. Pending = <<>>
  BY <1>1, <1>2, <1>3 DEF Pending
<1> QED
  BY <1>1, <1>4 DEF Stream!Init

\* If the CRC lets through nothing but whole commands, every handler runs for a
\* command that was sent, once and in order, whatever else is damaged or lost.
THEOREM Refinement == Spec /\ []OnlyWholePass => ImplementsFrameStream
<1>1. IInv /\ IntactIsDelivered' /\ OnlyWholePass' /\ [Next]_vars
        => [Stream!Next]_(Stream!vars)
  BY StreamStep
<1> QED
  BY <1>1, StreamInit, Invariance, Delivery, PTL DEF Spec, ImplementsFrameStream, Stream!Spec
=============================================================================
