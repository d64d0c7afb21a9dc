------------------------------- MODULE Words -------------------------------
(* Unsigned machine words of 32 bits, too wide for the checker's integers, as  *)
(* a high and a low half: what SM3.c and SM4.c do with unsigned int.           *)
EXTENDS Integers, Sequences, SequencesExt, Bitwise

Half == 65536
XorOf(a, b) == <<a[1] ^^ b[1], a[2] ^^ b[2]>>
AndOf(a, b) == <<a[1] & b[1], a[2] & b[2]>>
Xor3(a, b, c) == XorOf(a, XorOf(b, c))
Plus(a, b) == <<(a[1] + b[1] + ((a[2] + b[2]) \div Half)) % Half, (a[2] + b[2]) % Half>>
Complement(a) == <<Half - 1 - a[1], Half - 1 - a[2]>>

\* The bits that leave a half at its top enter the other one at its bottom.
Rotl(a, n) ==
  LET k == n % 16
      up(x, y) == ((x * 2^k) % Half) + y \div 2^(16 - k)
      hi == up(a[1], a[2])  lo == up(a[2], a[1])
  IN  IF n >= 16 THEN <<lo, hi>> ELSE <<hi, lo>>

\* A word of four bytes, the most significant one first, and back.
OfBytes(b) == <<b[1] * 256 + b[2], b[3] * 256 + b[4]>>
ToBytes(a) == <<a[1] \div 256, a[1] % 256, a[2] \div 256, a[2] % 256>>
=============================================================================
