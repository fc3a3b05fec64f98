----------------------------- MODULE HalfFloat -----------------------------
(***************************************************************************)
(* half_to_float (half.hpp): a visibility of a raw file is a pair of       *)
(* 16-bit floats, of a format that has no infinities.                      *)
(* A float is the record of its bit fields.                                *)
(***************************************************************************)
EXTENDS Integers

Half == 0..(2^16 - 1)

\* Exponent of the leading bit of m > 0.
Log2(m) == CHOOSE k \in 0..30 : 2^k <= m /\ m \div 2 < 2^k

\* as_uint(float(m)) >> 23: the exponent field of an integer made a float.
ExponentOfFloat(m) == IF m = 0 THEN 0 ELSE 127 + Log2(m)

\* x & 0x007FE000
Masked(x) == (x % 2^23) - (x % 2^13)

\* The three terms that half_to_float joins; they share no bits.
half_to_float(h) ==
  LET e == (h \div 2^10) % 2^5
      m == (h % 2^10) * 2^13
      v == ExponentOfFloat(m)
  IN  [ sign |-> h \div 2^15,
        exponent |-> IF e # 0 THEN e + 112 ELSE IF m # 0 THEN v - 37 ELSE 0,
        fraction |-> IF e # 0 THEN m
                     ELSE IF m # 0 THEN Masked(m * 2^(150 - v)) ELSE 0 ]

----------------------------------------------------------------------------
\* The number a half stands for is its significand times 2^power: the format
\* has 10 bits of fraction and no exponent kept for infinities.
Significand(h) ==
  IF (h \div 2^10) % 2^5 = 0 THEN h % 2^10 ELSE 2^10 + (h % 2^10)

Power(h) == IF (h \div 2^10) % 2^5 = 0 THEN -24 ELSE ((h \div 2^10) % 2^5) - 25

\* A decoded half is a finite number, and the number it stands for.
DecodedExactly(h) ==
  LET f == half_to_float(h)
  IN  /\ f.sign = h \div 2^15
      /\ IF Significand(h) = 0 THEN f.exponent = 0 /\ f.fraction = 0
         ELSE /\ f.exponent \in 1..254 /\ f.fraction \in 0..(2^23 - 1)
              /\ \E k \in 13..23 : /\ 2^23 + f.fraction = Significand(h) * 2^k
                                   /\ f.exponent - 150 + k = Power(h)

=============================================================================
