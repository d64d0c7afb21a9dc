----------------------------- MODULE MiraclBig -----------------------------
(* The numbers of the MIRACL library and what mrcore.c does with one of them: *)
(* a number is an array of words, a length and a sign bit, and a call names   *)
(* its operands, so that two of them may be the same number.  The memory is a *)
(* record m: m.r maps each name to a number, m.ERNUM is the sticky error of   *)
(* the instance and m.check says whether results are checked against nib.     *)
(* An operator with the name of a C function returns the memory it leaves.    *)
EXTENDS Integers, Sequences

CONSTANTS W,        \* bits of a word (32 in this build)
          nib,      \* words of a number
          TooBig,   \* what size() answers of a number that is no small integer
          AndOf(_, _), XorOf(_, _) \* bitwise operations on words

TwoTo[i \in 0 .. W] == IF i = 0 THEN 1 ELSE 2 * TwoTo[i-1]
B    == TwoTo[W]                 \* what a word counts up to: the base of numbers
Ext  == 2 * nib + 2              \* the words modelled of every array
Idx  == 0 .. Ext - 1
BTo[i \in Idx] == IF i = 0 THEN 1 ELSE B * BTo[i-1]

ASSUME SizesAssumption == /\ W \in Nat \ {0} /\ nib \in Nat \ {0}
                          /\ TooBig \in Nat \ {0} /\ TooBig <= B

Word == 0 .. B - 1
PLUS == 1
MINUS == -1
ERR_DIV_BY_ZERO == 2
ERR_OVERFLOW == 3
ERR_NEG_RESULT == 4
ERR_BAD_PARAMETERS == 7
ERR_NEG_ROOT == 9
ERR_NEG_POWER == 10
ERR_BAD_ROOT == 11
ERR_TOO_BIG == 14

Least(a, b) == IF a < b THEN a ELSE b
Most(a, b) == IF a < b THEN b ELSE a
Abs(n) == IF n < 0 THEN -n ELSE n
\* The quotient and the remainder of C, truncated towards zero.
Quot(a, b) == LET q == Abs(a) \div Abs(b) IN IF (a < 0) = (b < 0) THEN q ELSE -q
Rem(a, b) == a - b * Quot(a, b)

\* What a loop carries from each of its n steps to the next: c[0] is what it
\* starts with and c[i+1] what step i makes of c[i].
Chain(n, start, step(_, _)) ==
  LET c[i \in 0 .. n] == IF i = 0 THEN <<start>>
                         ELSE LET p == c[i-1] IN Append(p, step(i - 1, p[i]))
      all == c[n]
  IN  [i \in 0 .. n |-> all[i+1]]

\* The same for steps that are functions of what they are handed.
Carried(n, start, step) == Chain(n, start, LAMBDA i, v : step[i][v])

\* A number: its words, of which the first len count, and its sign bit.
Big  == [w : [Idx -> Word], len : 0 .. Ext, neg : BOOLEAN]
Zero == [w |-> [i \in Idx |-> 0], len |-> 0, neg |-> FALSE]

\* The integer the first n words stand for, and that of a number.
Low(w, n) == Carried(n, 0, [i \in Idx |-> [v \in Nat |-> v + w[i] * BTo[i]]])[n]
Value(b) == IF b.neg THEN -Low(b.w, b.len) ELSE Low(b.w, b.len)

\* Leading zeros stripped, zero without a sign (mr_lzero).
Significant(w, n) == CHOOSE k \in 0 .. n : /\ k > 0 => w[k-1] # 0
                                           /\ \A i \in k .. n - 1 : w[i] = 0
mr_lzero(b) == LET k == Significant(b.w, b.len)
               IN  [b EXCEPT !.len = k, !.neg = b.neg /\ k > 0]

\* The number n as MIRACL stores it, the words above it clear.
OfInt(n) == mr_lzero([w |-> [i \in Idx |-> (Abs(n) \div BTo[i]) % B], len |-> Ext, neg |-> n < 0])

\* Every word from the length on is clear, and the form is the canonical one.
CleanTail(b) == \A i \in Idx : i >= b.len => b.w[i] = 0
Canonical(b) == /\ b.len > 0 => b.w[b.len - 1] # 0
                /\ b.neg => b.len > 0

-----------------------------------------------------------------------------
(* The instance: an error, once raised, stays until the next mirsys().        *)
mr_berror(m, nerr) == [m EXCEPT !.ERNUM = nerr]
\* The words are written out one by one before they are stored.
Settled(b) == LET all == Carried(Ext - 1, b.w[0], [i \in Idx |-> [v \in Word |-> b.w[i+1]]])
              IN  [b EXCEPT !.w = [i \in Idx |-> all[i]]]
Put(m, z, b) == [m EXCEPT !.r[z] = Settled(b)]

\* Only the words in use are cleared: the ones above must be clear already.
ZeroBig(b) == [w |-> [i \in Idx |-> IF i < b.len THEN 0 ELSE b.w[i]], len |-> 0, neg |-> FALSE]
zero(m, x) == Put(m, x, ZeroBig(m.r[x]))

CopyBig(X, Y) == [w |-> [i \in Idx |-> IF i < X.len THEN X.w[i]
                                       ELSE IF i < Y.len THEN 0 ELSE Y.w[i]],
                  len |-> X.len, neg |-> X.neg]
copy(m, x, y) == IF x = y THEN m ELSE Put(m, y, CopyBig(m.r[x], m.r[y]))

\* The sign bit alone; the source flips or sets it in place in the length.
SetSign(m, x, s) == [m EXCEPT !.r[x].neg = s]
negify(m, x, y) == LET c == copy(m, x, y)
                   IN  SetSign(c, y, IF c.r[y].len # 0 THEN ~c.r[y].neg ELSE c.r[y].neg)
absol(m, x, y) == SetSign(copy(m, x, y), y, FALSE)
exsign(b) == IF b.neg THEN MINUS ELSE PLUS
insign(m, s, x) == IF m.r[x].len = 0 THEN m ELSE SetSign(m, x, s < 0)

uconvert(m, n, x) == LET z == zero(m, x)
                     IN  IF n = 0 THEN z
                         ELSE [z EXCEPT !.r[x].w[0] = n, !.r[x].len = 1]
convert(m, n, x) == IF n = 0 THEN zero(m, x)
                    ELSE SetSign(uconvert(m, Abs(n), x), x, n < 0)
\* The variant for a word-sized argument stores its word without clearing first.
tconvert(m, n, x) == IF n = 0 THEN zero(m, x)
                     ELSE [m EXCEPT !.r[x].w[0] = Abs(n), !.r[x].len = 1, !.r[x].neg = n < 0]

-----------------------------------------------------------------------------
(* Questions about numbers.                                                   *)
size(b) == LET n == IF b.len = 0 THEN 0
                    ELSE IF b.len = 1 /\ b.w[0] < TooBig THEN b.w[0] ELSE TooBig
           IN  IF b.neg THEN -n ELSE n

CompareBig(X, Y) ==
  LET sig == exsign(X)
      differ == {i \in 0 .. X.len - 1 : X.w[i] # Y.w[i]}
      top == CHOOSE i \in differ : \A j \in differ : j <= i
  IN  IF X.neg # Y.neg THEN sig
      ELSE IF X.len > Y.len THEN sig
      ELSE IF X.len < Y.len THEN -sig
      ELSE IF differ = {} THEN 0
      ELSE IF X.w[top] > Y.w[top] THEN sig ELSE -sig
mr_compare(m, x, y) == IF x = y THEN 0 ELSE CompareBig(m.r[x], m.r[y])

mr_testbit(b, n) == (b.w[n \div W] \div 2^(n % W)) % 2
mr_addbit(b, n) == [b EXCEPT !.w[n \div W] = (@ + 2^(n % W)) % B,
                             !.len = Most(@, n \div W + 1)]
\* t bits of b from bit i, each t apart: the index of the comb methods.
recode(b, t, w, i) == Chain(w, 0, LAMBDA j, v : v + 2^j * mr_testbit(b, i + j * t))[w]

-----------------------------------------------------------------------------
(* Words moved and combined.                                                  *)
mr_shift(m, x, n, z) ==
  LET c  == copy(m, x, z)
      Z  == c.r[z]
      bl == Z.len + n
      up == [i \in Idx |-> IF i < n THEN 0 ELSE IF i < bl THEN Z.w[i-n] ELSE Z.w[i]]
      dn == [i \in Idx |-> IF i < bl THEN Z.w[i-n] ELSE IF i < bl - n THEN 0 ELSE Z.w[i]]
  IN  IF m.ERNUM # 0 THEN m
      ELSE IF Z.len = 0 \/ n = 0 THEN c
      ELSE IF bl <= 0 THEN zero(c, z)
      ELSE IF bl > nib /\ m.check THEN mr_berror(c, ERR_OVERFLOW)
      ELSE Put(c, z, [w |-> IF n > 0 THEN up ELSE dn, len |-> bl, neg |-> Z.neg])

\* The first nr words combined by op, the rest of z's old words cleared.
Combine(m, x, y, z, nr, op(_, _)) ==
  LET X == m.r[x]  Y == m.r[y]  Z == m.r[z]
  IN  IF x = y THEN copy(m, x, z)
      ELSE Put(m, z, mr_lzero([w |-> [i \in Idx |-> IF i < nr THEN op(X.w[i], Y.w[i])
                                                    ELSE IF i < Z.len THEN 0 ELSE Z.w[i]],
                               len |-> nr, neg |-> FALSE]))
mr_and(m, x, y, z) == Combine(m, x, y, z, Least(m.r[x].len, m.r[y].len), LAMBDA a, b : AndOf(a, b))
mr_xor(m, x, y, z) == Combine(m, x, y, z, Most(m.r[x].len, m.r[y].len), LAMBDA a, b : XorOf(a, b))
=============================================================================
