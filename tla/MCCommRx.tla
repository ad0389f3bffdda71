------------------------------ MODULE MCCommRx ------------------------------
(***************************************************************************)
(* CommRx for TLC: the real CRC and commands as the Central Computer sends *)
(* them.                                                                   *)
(***************************************************************************)
EXTENDS CommRx, Bitwise

\* Tables, which TLC computes once.
XorByte == [x \in Byte |-> [y \in Byte |-> x ^^ y]]

\* tlv_crc16_update: the eight shifts of CRC-16/CCITT-FALSE in one, for a high
\* byte that has met the new byte.
Shifts == [h \in Byte |->
  LET x == XorByte[h][h \div 16]
  IN  <<XorByte[(x * 16) % 256][x \div 8], XorByte[(x * 32) % 256][x]>>]

\* tlv_crc16: 0xFFFF, then byte by byte; the CRC is <<high, low>>.
\* (Op(v), with v evaluated once, is written as a choice from one value.)
CrcUpdate(crc, b) ==
  CHOOSE r \in {<<XorByte[crc[2]][s[1]], s[2]>> : s \in {Shifts[XorByte[crc[1]][b]]}} : TRUE

\* Bytes i to j of s, in halves, so that the recursion stays flat.
RECURSIVE CrcRun(_, _, _, _)
CrcRun(crc, s, i, j) ==
  IF i = j THEN CrcUpdate(crc, s[i])
  ELSE CHOOSE r \in {CrcRun(half, s, (i + j) \div 2 + 1, j) :
                        half \in {CrcRun(crc, s, i, (i + j) \div 2)}} : TRUE

Crc16(s) == CHOOSE r \in {CrcRun(<<255, 255>>, all, 1, Len(all)) : all \in {s}} : TRUE

\* SET_TEMP_WARNING from -91 to 90, a payload that reads like the two sync bytes,
\* and GET_TIME, which has none.
Commands == << [tag |-> 33, value |-> <<165, 90>>],
               [tag |-> 40, value |-> <<>>] >>

\* Noise makes a sync byte or a zero of a byte.
Noise == {165, 0}
=============================================================================
