---------------------------- MODULE MiraclEuclid ----------------------------
(* Greatest common divisors, inverses and Jacobi symbols (mrxgcd.c, mrjack.c) *)
(* on the numbers of MiraclBig.  The source swaps the pointers of its scratch *)
(* numbers; here their contents change places.                                *)
EXTENDS MiraclPowers

Swap(m, x, y) == [m EXCEPT !.r[x] = m.r[y], !.r[y] = m.r[x]]

-----------------------------------------------------------------------------
(* Words of the small cases (mrcore.c).                                       *)

\* Euclid's algorithm on single words; every round halves the larger one at
\* least every second time.
WordGcd(x, y) ==
  LET r[k \in 0 .. 2 * W + 2] == IF k = 0 THEN <<x, y>>
                                 ELSE LET p == r[k-1] IN IF p[2] = 0 THEN p ELSE <<p[2], p[1] % p[2]>>
  IN  r[2 * W + 2][1]

\* Newton's iteration on a word, ended when a guess comes back; B, which is no
\* word, stands for the division by zero of a guess that has become 0.
WordSqrt(num, guess) ==
  LET next(g) == (((num \div g) + g) % B) \div 2
      body(s) == IF s.done THEN s
                 ELSE IF s.guess = 0 THEN [s EXCEPT !.guess = B, !.done = TRUE]
                 ELSE LET sqr == next(s.guess)
                      IN  IF sqr = s.guess \/ sqr = s.old
                          THEN [guess |-> IF (sqr * sqr) % B > num THEN sqr - 1 ELSE sqr,
                                old |-> s.old, done |-> TRUE]
                          ELSE [guess |-> sqr, old |-> s.guess, done |-> FALSE]
  IN  IF num = 0 THEN 0 ELSE IF num < 4 THEN 1
      ELSE Repeat(body, [guess |-> guess, old |-> guess, done |-> FALSE], B).guess

\* a double word divided by a word, and the remainder
muldvm(a, c, m) == <<((a * B + c) \div m) % B, (a * B + c) % m>>

-----------------------------------------------------------------------------
(* Lehmer's method: several quotients are found from the leading words alone. *)

MaxBase == B \div 2

\* u / v of double words, 0 when it is no single word; the subtractions that
\* find a small quotient wrap around as the source's do.
qdiv(u, v) ==
  LET D == B * B
      x(k) == (u - k * v) % D
      small == {k \in 1 .. 8 : x(k) < v}
      lq == 8 + x(8) \div v
  IN  IF small # {} THEN CHOOSE k \in small : \A j \in small : k <= j
      ELSE IF lq >= MaxBase THEN 0 ELSE lq

\* The leading double words of w1 and w2, scaled to fill them when there are
\* more words below; they are the whole numbers when last is TRUE.
LeadingWords(X, Y) ==
  LET n == X.len
      top == (X.w[n-1] + 1) % B
      Lead(Z) == LET h == muldvm(Z.w[n-1], Z.w[n-2], top)
                 IN  h[1] * B + muldvm(h[2], Z.w[n-3], top)[1]
  IN  IF n = 1 THEN [u |-> X.w[0], v |-> Y.w[0], last |-> TRUE]
      ELSE IF n > 2 /\ top # 0 THEN [u |-> Lead(X), v |-> Lead(Y), last |-> FALSE]
      ELSE [u |-> X.w[n-1] * B + X.w[n-2], v |-> Y.w[n-1] * B + Y.w[n-2], last |-> n = 2]

\* The quotient both bounds on u / v agree on, 0 when they do not.
SureQuotient(s, last) ==
  LET D == B * B
      lowD  == IF s.dplus THEN s.v - s.c ELSE s.v + s.c
      highD == IF s.dplus THEN s.v + s.d ELSE s.v - s.d
      q  == qdiv(IF s.dplus THEN (s.u + s.a) % D ELSE (s.u - s.a) % D, lowD % D)
      q2 == qdiv(IF s.dplus THEN (s.u - s.b) % D ELSE (s.u + s.b) % D, highD % D)
  IN  IF last THEN IF s.v = 0 THEN 0 ELSE qdiv(s.u, s.v)
      ELSE IF lowD % B = 0 \/ highD % B = 0 \/ q # q2 THEN 0 ELSE q

\* The cofactors a, b, c, d of as many steps as are certain and fit a word.
LehmerCofactors(lead, iter) ==
  LET body(s) ==
        LET q == SureQuotient(s, lead.last)
            full == IF q = 1 THEN (s.b + s.d) % B >= MaxBase ELSE q >= (MaxBase - s.b) \div s.d
        IN  IF s.stop THEN s
            ELSE IF q = 0 \/ full THEN [s EXCEPT !.stop = TRUE]
            ELSE [u |-> s.v, v |-> s.u - q * s.v, a |-> s.c, c |-> s.a + q * s.c,
                  b |-> s.d, d |-> (s.b + q * s.d) % B, dplus |-> ~s.dplus,
                  iter |-> s.iter + 1, stop |-> FALSE]
  IN  Repeat(body, [u |-> lead.u, v |-> lead.v, a |-> 1, b |-> 0, c |-> 0, d |-> 1,
                    dplus |-> TRUE, iter |-> iter, stop |-> FALSE], 4 * W)

\* One full division, and one that stands for all the steps of the cofactors.
PlainStep(m) ==
  LET q == Swap(divide(m, "w1", "w2", "w5"), "w1", "w2")
      p == multiply(q, "w4", "w5", "w0")
  IN  Swap(add(p, "w3", "w0", "w3"), "w3", "w4")

CombinedStep(m, f) ==
  LET times(s, x, y) == mr_pmul(mr_pmul(mr_pmul(mr_pmul(s, x, f.c, "w5"), x, f.a, x),
                                        y, f.b, "w0"), y, f.d, y)
      t1 == times(m, "w1", "w2")
      s1 == IF f.dplus THEN mr_psub(mr_psub(t1, "w1", "w0", "w1"), "w2", "w5", "w2")
            ELSE mr_psub(mr_psub(t1, "w0", "w1", "w1"), "w5", "w2", "w2")
      t2 == times(s1, "w3", "w4")
      s2 == IF f.a = 0 THEN copy(t2, "w0", "w3") ELSE mr_padd(t2, "w3", "w0", "w3")
  IN  mr_padd(s2, "w4", "w5", "w4")

\* gcd(x, y), the cofactor xd of x and - when yd is another number - that of y.
xgcd(m, x, y, xd, yd, z) ==
  LET a0 == insign(insign(copy(copy(m, x, "w1"), y, "w2"), PLUS, "w1"), PLUS, "w2")
      a1 == zero(convert(a0, 1, "w3"), "w4")
      none == [a |-> 0, b |-> 0, c |-> 0, d |-> 0, dplus |-> TRUE, iter |-> 0]
      body(s) ==
        IF s.stop \/ size(s.m.r["w2"]) = 0 THEN s
        ELSE LET step == IF s.f.b = 0 THEN PlainStep(s.m) ELSE CombinedStep(s.m, s.f)
                 iter == IF s.f.b = 0 THEN s.f.iter + 1 ELSE s.f.iter
             IN  IF step.ERNUM # 0 \/ size(step.r["w2"]) = 0
                 THEN [m |-> step, f |-> [s.f EXCEPT !.iter = iter], stop |-> TRUE]
                 ELSE [m |-> step, stop |-> FALSE,
                       f |-> LehmerCofactors(LeadingWords(step.r["w1"], step.r["w2"]), iter)]
      end == Repeat(body, [m |-> a1, f |-> none, stop |-> FALSE], Steps)
      odd == (end.f.iter + (IF exsign(m.r[x]) = MINUS THEN 1 ELSE 0)) % 2 = 1
      w3 == IF odd THEN subtract(end.m, y, "w3", "w3") ELSE end.m
      w4 == IF xd = yd THEN w3
            ELSE copy(mad(negify(w3, x, "w2"), "w2", "w3", "w1", y, "w4", "w4"), "w4", yd)
      out == copy(w4, "w3", xd)
  IN  IF m.ERNUM # 0 THEN m ELSE IF z # xd /\ z # yd THEN copy(out, "w1", z) ELSE out
xgcd_ret(m, x, y, xd, yd, z) == IF m.ERNUM # 0 THEN 0 ELSE size(xgcd(m, x, y, xd, yd, z).r["w1"])

invmodp(m, x, y, z) == xgcd(m, x, y, z, z, z)
invmodp_ret(m, x, y, z) == xgcd_ret(m, x, y, z, z, z)

-----------------------------------------------------------------------------
(* The Jacobi symbol (a/n) by the binary algorithm of Shallit and Sorenson.   *)
TrailingZeros(b) == CHOOSE k \in 0 .. Ext * W - 1 : mr_testbit(b, k) = 1 /\ \A j \in 0 .. k - 1 : mr_testbit(b, j) = 0

\* What k halvings of the first number do to the symbol, its partner being nm8 modulo 8.
Halvings(nm8, k, t) == IF nm8 \in {3, 5} /\ k % 2 = 1 THEN -t ELSE t

\* Mutant: the numbers change places without the reciprocity law.
NoReciprocity(nm8, k8, t) == t
Reciprocity(nm8, k8, t) == IF nm8 % 4 = 3 /\ k8 % 4 = 3 THEN -t ELSE t

\* All factors of two go, the larger number gives up the smaller one and the
\* difference, which is even, is halved.
JackRound(s) ==
  LET k == TrailingZeros(s.m.r["w1"])
      e == sftbit(s.m, "w1", -k, "w1")
      t == Halvings(s.nm8, k, s.t)
      less == mr_compare(e, "w1", "w2") < 0
      sw == IF less THEN Swap(e, "w1", "w2") ELSE e
      nm8 == IF less THEN remain(sw, "w2", 8) ELSE s.nm8
      u == IF less THEN Reciprocity(s.nm8, nm8, t) ELSE t
  IN  [m |-> subdiv(mr_psub(sw, "w1", "w2", "w1"), "w1", 2, "w1"),
       nm8 |-> nm8, t |-> Halvings(nm8, 1, u)]

jack(m, a, n) ==
  LET body(s) == IF size(s.m.r["w1"]) = 0 THEN s ELSE JackRound(s)
      c == copy(m, n, "w2")
      nm8 == remain(c, "w2", 8)
      start == IF size(m.r[a]) < 0
               THEN [m |-> negify(c, a, "w1"), nm8 |-> nm8, t |-> IF nm8 % 4 = 3 THEN -1 ELSE 1]
               ELSE [m |-> copy(c, a, "w1"), nm8 |-> nm8, t |-> 1]
      e == Repeat(body, start, W * (m.r[a].len + m.r[n].len))
  IN  IF m.ERNUM # 0 \/ size(m.r[a]) = 0 \/ size(m.r[n]) < 1 THEN [m |-> m, ret |-> 0]
      ELSE IF nm8 % 2 = 0 THEN [m |-> remain_mem(c, "w2", 8), ret |-> 0]
      ELSE [m |-> e.m, ret |-> IF size(e.m.r["w2"]) = 1 THEN e.t ELSE 0]
=============================================================================
