---------------------------------- MODULE CRC ----------------------------------
(***************************************************************************)
(* The CRC-16/DNP of a frame (crc.c), as both sides compute it.            *)
(***************************************************************************)
EXTENDS Integers, Sequences, Bitwise

\* FoldLeft, by halves and each half before the next: its depth is the logarithm of the length.
Fold(op(_, _), base, s) ==
  LET RECURSIVE F(_, _, _)
      F(x, i, j) == IF i > j THEN x
                    ELSE IF i = j THEN op(x, s[i])
                    ELSE LET k == (i + j) \div 2
                         IN  CHOOSE z \in {F(y, k + 1, j) : y \in {F(x, i, k)}} : TRUE
  IN  F(base, 1, Len(s))

Xor8 == [a \in 0 .. 255 |-> [b \in 0 .. 255 |-> a ^^ b]]
\* DNP of crc.c, of the reflected polynomial 0xa6bc, but with 0xed35 added to
\* every entry: high and low byte.
ShiftOut[x \in 0 .. 65535, n \in 0 .. 8] ==
  IF n = 0 THEN x
  ELSE ShiftOut[IF x % 2 = 1 THEN (x \div 2) ^^ 42684 ELSE x \div 2, n - 1]
DNP == [i \in 0 .. 255 |-> LET t == ShiftOut[i, 8] ^^ 60725 IN <<t \div 256, t % 256>>]

\* Of the CRC so far and of the bytes that follow.
CRC_DNP(crc, bytes) ==
  LET step(c, b) == LET t == DNP[Xor8[c % 256][b]] IN 256 * t[1] + Xor8[c \div 256][t[2]]
  IN  Fold(step, crc, bytes)
CRC16(header, data) == CRC_DNP(65535, header \o <<2>> \o data \o <<3>>)
=============================================================================
