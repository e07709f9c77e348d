------------------------------ MODULE UbcspCrc ------------------------------
(***************************************************************************)
(* The CRC of a frame, four bits at a time with a table as ubcsp.c has it, *)
(* and the CRC-CCITT it is meant to be, a bit at a time.  For TLC only:    *)
(* Bitwise is recursive.                                                   *)
(***************************************************************************)
EXTENDS Integers, Sequences, Bitwise

LOCAL INSTANCE Folds

crc_table ==
  [i \in 0 .. 15 |->
     <<0, 4225, 8450, 12675, 16900, 21125, 25350, 29575,
       33800, 38025, 42250, 46475, 50700, 54925, 59150, 63375>>[i + 1]]

\* Only the lower half of the octet is taken in.
ubcsp_calc_crc_slip(ch, crc) ==
  LET half(c, n) == (c \div 16) ^^ crc_table[(c ^^ n) % 16]
  IN  half(half(crc, ch), ch)

ubcsp_calc_crc(ch, crc) ==
  LET half(c, n) == (c \div 16) ^^ crc_table[(c ^^ n) % 16]
  IN  half(half(crc, ch), ch \div 16)

\* The lowest n bits of x, the other way round.
Mirrored(x, n) ==
  MapThenFoldSet(LAMBDA a, b : a + b, 0,
                 LAMBDA b : ((x \div 2^b) % 2) * 2^(n - 1 - b),
                 LAMBDA s : CHOOSE b \in s : TRUE, 0 .. n - 1)

ubcsp_crc_reverse(crc) == Mirrored(crc, 16)

\* Reference: the remainder modulo x^16 + x^12 + x^5 + 1, the highest power on
\* the left, starting from all ones, the lowest bit of every octet first.
Divided[r \in 0 .. 65535, bits \in 0 .. 8] ==
  IF bits = 0 THEN r
  ELSE Divided[IF r >= 32768 THEN ((2 * r) % 65536) ^^ 4129 ELSE 2 * r, bits - 1]

Ccitt[s \in Seq(0 .. 255)] ==
  IF s = <<>> THEN 65535
  ELSE LET r == Ccitt[SubSeq(s, 1, Len(s) - 1)]
       IN  Divided[r ^^ (256 * Mirrored(s[Len(s)], 8)), 8]

=============================================================================
