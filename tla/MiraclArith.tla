---------------------------- MODULE MiraclArith ----------------------------
(* The word-level arithmetic of MIRACL: mrarth0.c (addition), mrarth1.c       *)
(* (by one word), mrarth2.c (multiplication and division) and mrbits.c.  A    *)
(* loop that carries a word from one step to the next is a function of the    *)
(* step; the operands may be the same number in every combination.            *)
EXTENDS MiraclBig

CONSTANT SqrFaster      \* words above which a square is computed on its own

-----------------------------------------------------------------------------
(* Addition and subtraction of magnitudes.                                    *)

\* Mutant: a sum equal to the word is taken for one without a carry.
NextCarryLost(sum, word, carry) == IF sum < word THEN 1 ELSE 0
\* The carry is read off the sum: a sum equal to the word leaves it as it was.
NextCarry(sum, word, carry) == IF sum > word THEN 0 ELSE IF sum < word THEN 1 ELSE carry

NextBorrow(diff, word, borrow) == IF diff < word THEN 0 ELSE IF diff > word THEN 1 ELSE borrow

\* The carry into every word: past the la words both numbers have, only a carry
\* goes on.
SumWord(X, Y, i, carry) == (X.w[i] + Y.w[i] + carry) % B
SumCarries(X, Y, la, lz) ==
  Carried(lz, 0, [i \in Idx |-> [carry \in 0 .. 1 |->
    IF i >= la /\ carry = 0 THEN 0 ELSE NextCarry(SumWord(X, Y, i, carry), X.w[i], carry)]])
\* The words of the sum over the old words of the result.
SumWords(X, Y, old, c, la, lz, room) ==
  [i \in Idx |-> IF i < la \/ (i < lz /\ c[i] > 0) THEN SumWord(X, Y, i, c[i])
                 ELSE IF i = lz /\ c[lz] > 0 /\ room THEN c[lz] ELSE old[i]]

\* x + y into z, of which lz words are in use.
SumInto(m, x, y, z, la, lz) ==
  LET c == SumCarries(m.r[x], m.r[y], la, lz)
      room == lz < nib \/ ~m.check
      w == SumWords(m.r[x], m.r[y], m.r[z].w, c, la, lz, room)
      len == IF room THEN lz + 1 ELSE lz
  IN  IF c[lz] > 0 /\ ~room
      THEN mr_berror(Put(m, z, [w |-> w, len |-> lz, neg |-> FALSE]), ERR_OVERFLOW)
      ELSE Put(m, z, [w |-> w, len |-> IF len > 0 /\ w[len-1] = 0 THEN len - 1 ELSE len,
                      neg |-> FALSE])

\* The longer number is copied to z first, unless the shorter one is there.
mr_padd(m, x, y, z) ==
  LET X == m.r[x]  Y == m.r[y]
      longer  == IF Y.len > X.len THEN y ELSE x
      shorter == IF Y.len > X.len THEN x ELSE y
      lz == Most(X.len, Y.len)
  IN  IF shorter # z THEN SumInto(copy(m, longer, z), x, y, z, Least(X.len, Y.len), lz)
      ELSE SumInto(m, x, y, z, lz, lz)

\* The borrow out of every word, and the words of the difference.
DiffWord(X, Y, i, borrow) == (X.w[i] - Y.w[i] - borrow) % B
DiffBorrows(X, Y, ly, lx) ==
  Carried(lx + 1, 0, [i \in Idx |-> [borrow \in 0 .. 1 |->
    IF i >= ly /\ borrow = 0 THEN 0 ELSE NextBorrow(DiffWord(X, Y, i, borrow), X.w[i], borrow)]])
DiffWords(X, Y, old, b, ly, lx) ==
  [i \in Idx |-> IF i <= lx /\ (i < ly \/ b[i] > 0) THEN DiffWord(X, Y, i, b[i]) ELSE old[i]]

DiffInto(m, x, y, z, ly, lx) ==
  LET b == DiffBorrows(m.r[x], m.r[y], ly, lx)
      done == [w |-> DiffWords(m.r[x], m.r[y], m.r[z].w, b, ly, lx), len |-> lx, neg |-> FALSE]
  IN  IF b[lx + 1] > 0 THEN mr_berror(Put(m, z, done), ERR_NEG_RESULT) ELSE Put(m, z, mr_lzero(done))

\* z = x - y; a y that is not below x runs off the words of x.
mr_psub(m, x, y, z) ==
  LET lx == m.r[x].len
  IN  IF m.r[y].len > lx THEN mr_berror(m, ERR_NEG_RESULT)
      ELSE IF y # z THEN DiffInto(copy(m, x, z), x, y, z, m.r[y].len, lx)
      ELSE DiffInto(m, x, y, z, lx, lx)

\* Signs are taken off the operands and the magnitudes combined; the result
\* gets its sign, the operands that are not the result theirs back (mr_select).
Unsigned(m, x, y) == SetSign(SetSign(m, x, FALSE), y, FALSE)
Signed(m, z, minus) == IF minus THEN SetSign(m, z, ~m.r[z].neg) ELSE m
Restored(m, x, sx, y, sy, z) ==
  LET s == IF x # z /\ sx < 0 THEN SetSign(m, x, TRUE) ELSE m
  IN  IF y # z /\ y # x /\ sy < 0 THEN SetSign(s, y, TRUE) ELSE s

mr_select(m, x, d, y, z) ==
  LET sx == exsign(m.r[x])  sy == exsign(m.r[y])
      a  == Unsigned(m, x, y)
      xgty == mr_compare(a, x, y)
      alike == sx = d * sy
      yxFirst == IF sx < 0 THEN xgty <= 0 ELSE xgty < 0
      sum == IF xgty >= 0 THEN mr_padd(a, x, y, z) ELSE mr_padd(a, y, x, z)
      diff == IF yxFirst THEN mr_psub(a, y, x, z) ELSE mr_psub(a, x, y, z)
      minus == IF alike THEN sx < 0 ELSE (sx < 0) # yxFirst
  IN  Restored(Signed(IF alike THEN sum ELSE diff, z, minus), x, sx, y, sy, z)

add(m, x, y, z) == IF m.ERNUM # 0 THEN m ELSE mr_select(m, x, PLUS, y, z)
subtract(m, x, y, z) == IF m.ERNUM # 0 THEN m ELSE mr_select(m, x, MINUS, y, z)
incr(m, x, n, z) == IF m.ERNUM # 0 THEN m ELSE mr_select(convert(m, n, "w0"), x, PLUS, "w0", z)
decr(m, x, n, z) == IF m.ERNUM # 0 THEN m ELSE mr_select(convert(m, n, "w0"), x, MINUS, "w0", z)

-----------------------------------------------------------------------------
(* One word against a number.                                                 *)

\* What every word of x * sn hands to the next one.
ProductCarries(X, sn) == Carried(X.len, 0, [i \in Idx |-> [carry \in Word |-> (X.w[i] * sn + carry) \div B]])
ProductWords(X, sn, old, c, room) ==
  [i \in Idx |-> IF i < X.len THEN (X.w[i] * sn + c[i]) % B
                 ELSE IF i = X.len /\ c[X.len] > 0 /\ room THEN c[X.len] ELSE old[i]]
\* x * sn, for an sn other than 0.
ProductInto(m, x, sn, z) ==
  LET X == m.r[x]
      Z0 == IF x # z THEN ZeroBig(m.r[z]) ELSE X
      c == ProductCarries(X, sn)
      room == X.len < nib \/ ~m.check
      w == ProductWords(X, sn, Z0.w, c, room)
      len == X.len + (IF c[X.len] > 0 THEN 1 ELSE 0)
  IN  IF c[X.len] > 0 /\ ~room THEN mr_berror(Put(m, z, [Z0 EXCEPT !.w = w]), ERR_OVERFLOW)
      ELSE Put(m, z, [w |-> w, len |-> len, neg |-> X.neg /\ len > 0])
mr_pmul(m, x, sn, z) == IF sn = 0 THEN zero(m, z) ELSE ProductInto(m, x, sn, z)

premult(m, x, n, z) ==
  LET p == mr_pmul(m, x, Abs(n), z)
  IN  IF m.ERNUM # 0 THEN m
      ELSE IF n = 0 THEN zero(m, z)
      ELSE IF n = 1 THEN copy(m, x, z)
      ELSE IF n < 0 /\ p.r[z].len # 0 THEN SetSign(p, z, ~p.r[z].neg) ELSE p

\* The remainders that division by sn leaves when the top i words are done.
Remainders(X, sn) == Carried(X.len, 0, [i \in Idx |-> [r \in Word |-> (r * B + X.w[X.len - 1 - i]) % sn]])
sdiv_rem(X, sn) == Remainders(X, sn)[X.len]
QuotientOver(X, sn, old) ==
  LET r == Remainders(X, sn)
  IN  [i \in Idx |-> IF i < X.len THEN (r[X.len - 1 - i] * B + X.w[i]) \div sn ELSE old[i]]
mr_sdiv(m, x, sn, z) ==
  LET X == m.r[x]
      Z0 == IF x # z THEN ZeroBig(m.r[z]) ELSE X
  IN  Put(m, z, mr_lzero([w |-> QuotientOver(X, sn, Z0.w), len |-> X.len, neg |-> X.neg]))

\* x/2 moves every bit down by one, the low bit of the next word coming in.
Halve(X) == LET h == [X EXCEPT !.w = [i \in Idx |-> IF i >= X.len THEN X.w[i]
                       ELSE (X.w[i] \div 2) + (IF i = X.len - 1 THEN 0 ELSE (X.w[i+1] % 2) * TwoTo[W-1])]]
            IN  IF h.w[X.len - 1] = 0 THEN mr_lzero(h) ELSE h

\* The quotient goes to z, the remainder - of the sign of x - is the answer.
subdiv(m, x, n, z) ==
  LET X == m.r[x]
      q == mr_sdiv(m, x, Abs(n), z)
  IN  IF m.ERNUM # 0 THEN m
      ELSE IF n = 0 THEN mr_berror(m, ERR_DIV_BY_ZERO)
      ELSE IF X.len = 0 THEN zero(m, z)
      ELSE IF n = 1 THEN copy(m, x, z)
      ELSE IF n = 2 THEN LET c == copy(m, x, z) IN Put(c, z, Halve(c.r[z]))
      ELSE IF n < 0 /\ q.r[z].len # 0 THEN SetSign(q, z, ~q.r[z].neg) ELSE q
subdiv_rem(m, x, n) ==
  LET X == m.r[x]
      r == IF n = 2 THEN X.w[0] % 2 ELSE sdiv_rem(X, Abs(n))
  IN  IF m.ERNUM # 0 \/ n = 0 \/ X.len = 0 \/ n = 1 THEN 0 ELSE IF X.neg THEN -r ELSE r

\* The lowest word is enough when n divides the base; the rest divides a copy.
ByLowWord(n) == n \in {2, 8} /\ B % n = 0
remain(m, x, n) ==
  LET X == m.r[x]  low == X.w[0] % n
  IN  IF m.ERNUM # 0 THEN 0
      ELSE IF ByLowWord(n) THEN IF X.neg THEN -low ELSE low
      ELSE subdiv_rem(m, x, n)
remain_mem(m, x, n) == IF m.ERNUM # 0 \/ ByLowWord(n) THEN m
                       ELSE subdiv(copy(m, x, "w0"), "w0", n, "w0")
subdivisible(m, x, n) == remain(m, x, n) = 0

\* Bits set in x, counted by halving a copy until nothing is left.
hamming(m, x) ==
  LET h[k \in 0 .. Ext * W] ==
        IF k = 0 THEN [b |-> [m.r[x] EXCEPT !.neg = FALSE], n |-> 0]
        ELSE LET p == h[k-1] IN IF p.b.len = 0 THEN p
                                ELSE [b |-> Halve(p.b), n |-> p.n + (p.b.w[0] % 2)]
  IN  IF m.ERNUM # 0 THEN 0 ELSE h[m.r[x].len * W].n

-----------------------------------------------------------------------------
(* Multiplication: into w0 - w5 when that is the result - and copied from it. *)

\* Word off of w gets the sum of x * y[j] along the row, the carry the word
\* after the last one.
AddRow(w, x, y, from, to, off) ==
  LET c == Carried(to - from, 0, [j \in Idx |-> [carry \in Word |->
             (x * y[from + j] + carry + w[off + from + j]) \div B]])
  IN  [i \in Idx |-> IF i - off \in from .. to - 1
                     THEN (x * y[i-off] + c[i-off-from] + w[i]) % B
                     ELSE IF i = off + to THEN c[to-from] ELSE w[i]]

\* Every word of x against the whole of y.
SchoolProduct(X, Y, w0) ==
  Carried(X.len, w0, [i \in Idx |-> [w \in [Idx -> Word] |-> AddRow(w, X.w[i], Y.w, 0, Y.len, i)]])[X.len]

\* The square of word t of the diagonal comes in with the carry of the one before.
AddSquare(d, x, t) ==
  LET s == x * x + d.c + d.w[t]
      top == (d.w[t+1] + s \div B) % B
  IN  [w |-> [d.w EXCEPT ![t] = s % B, ![t+1] = top], c |-> IF top < s \div B THEN 1 ELSE 0]

\* A long square: the products of different words once, doubled by an addition,
\* then the squares of the words along the diagonal.
Crossed(X, w0) ==
  Carried(X.len - 1, w0, [i \in Idx |-> [w \in [Idx -> Word] |->
    AddRow(w, X.w[i], X.w, i + 1, X.len, i)]])[X.len - 1]
Squared(X, w) ==
  Carried(X.len, [w |-> w, c |-> 0], [i \in Idx |-> [d \in [w : [Idx -> Word], c : 0 .. 1] |->
    AddSquare(d, X.w[i], 2 * i)]])[X.len].w
SquareProduct(m, X, r) ==
  LET cross == [w |-> Crossed(X, m.r[r].w), len |-> 2 * X.len - 1, neg |-> FALSE]
  IN  Squared(X, mr_padd(Put(m, r, cross), r, r, r).r[r].w)

multiply(m, x, y, z) ==
  LET X == m.r[x]  Y == m.r[y]
      w0 == IF x # "w5" /\ y # "w5" /\ z = "w5" THEN "w5" ELSE "w0"
      c0 == zero(m, w0)
      w == IF x = y /\ X.len > SqrFaster THEN SquareProduct(c0, X, w0)
           ELSE SchoolProduct(X, Y, c0.r[w0].w)
      p == mr_lzero([w |-> w, len |-> X.len + Y.len, neg |-> X.neg # Y.neg])
  IN  IF m.ERNUM # 0 THEN m
      ELSE IF X.len = 0 \/ Y.len = 0 THEN zero(m, z)
      ELSE IF m.check /\ X.len + Y.len > nib THEN mr_berror(c0, ERR_OVERFLOW)
      ELSE copy(Put(c0, w0, p), w0, z)

-----------------------------------------------------------------------------
(* Division.                                                                  *)

\* The factor that brings the top word of y to half the base or more.
NormFactor(Y) == LET r == (Y.w[Y.len - 1] + 1) % B IN IF r = 0 THEN 1 ELSE B \div r
normalise(m, x, y) == LET c == copy(m, x, y)  d == NormFactor(c.r[y])
                      IN  IF d = 1 THEN c ELSE mr_pmul(c, y, d, y)

\* A quotient word is guessed from the top words of what is left and of y, and
\* lowered while the next words show it too large: ra is what the guess leaves of
\* the top words, over tells that it is more than a word.
Refined(g, low, ldy, sdy) ==
  LET p == g.q * sdy  ra == (g.ra + ldy) % B
  IN  IF \/ g.over
         \/ p \div B < g.ra
         \/ p \div B = g.ra /\ p % B <= low
      THEN g ELSE [q |-> g.q - 1, ra |-> ra, over |-> ra < ldy]
TrialDigit(w, k, ldy, sdy) ==
  LET same == w[k+1] = ldy
      top == w[k+1] * B + w[k]
      ra == IF same THEN (ldy + w[k]) % B ELSE top % ldy
      first == [q |-> IF same THEN B - 1 ELSE top \div ldy, ra |-> ra, over |-> same /\ ra < ldy]
  IN  Carried(B, first, [i \in Word |-> [g \in [q : Word, ra : Word, over : BOOLEAN] |->
                                         Refined(g, w[k-1], ldy, sdy)]])[B].q

\* What attemp times y borrows from every word of w from word m up, and what it
\* leaves of these words.
Borrows(w, y, y0, m, attemp) ==
  Carried(y0, 0, [i \in Idx |-> [bw \in Word |-> LET t == attemp * y[i] + bw
                                                IN  (t \div B) + (IF w[m+i] < t % B THEN 1 ELSE 0)]])
Lessened(w, y, y0, m, attemp) ==
  LET b == Borrows(w, y, y0, m, attemp)
  IN  [i \in Idx |-> IF i - m \in 0 .. y0 - 1 THEN (w[i] - attemp * y[i-m] - b[i-m]) % B ELSE w[i]]
\* y added to w from word m up.
PutBack(w, y, y0, m) ==
  LET c == Carried(y0, 0, [i \in Idx |-> [carry \in 0 .. 1 |-> NextCarry((w[m+i] + y[i] + carry) % B, y[i], carry)]])
  IN  [i \in Idx |-> IF i - m \in 0 .. y0 - 1 THEN (w[i] + y[i-m] + c[i-m]) % B
                     ELSE IF i = m + y0 THEN 0 ELSE w[i]]

\* Mutant: the trial quotient word is trusted.
TakeOffTrusting(w, y, y0, m, attemp) ==
  [w |-> [Lessened(w, y, y0, m, attemp) EXCEPT ![m+y0] = (@ - Borrows(w, y, y0, m, attemp)[y0]) % B], q |-> attemp]
\* attemp times y comes off w from word m up; a guess still one too large is
\* noticed by the word above and y is added back.
TakeOff(w, y, y0, m, attemp) ==
  LET b == Borrows(w, y, y0, m, attemp)
      less == Lessened(w, y, y0, m, attemp)
  IN  IF w[m+y0] < b[y0] THEN [w |-> PutBack(less, y, y0, m), q |-> attemp - 1]
      ELSE [w |-> [less EXCEPT ![m+y0] = @ - b[y0]], q |-> attemp]

\* Word k - y0 + 1 of the quotient.  A leading zero shortens the quotient instead
\* of being stored.
QuotientStep(s, k, Y, y0) ==
  LET q == TrialDigit(s.w, k, Y.w[y0-1], Y.w[y0-2])
      t == IF q > 0 THEN TakeOff(s.w, Y.w, y0, k - y0 + 1, q) ELSE [w |-> s.w, q |-> 0]
  IN  IF k = s.len - 1 /\ t.q = 0 THEN [w |-> t.w, z |-> s.z, len |-> s.len - 1]
      ELSE [w |-> t.w, z |-> [s.z EXCEPT ![k - y0 + 1] = t.q], len |-> s.len]
\* The words of the quotient from the top down, with what is left of w0.
QuotientWords(w0, w00, Y, y0, Z0) ==
  Carried(w00 - y0 + 1, [w |-> w0, z |-> Z0, len |-> w00],
          [i \in Idx |-> [s \in [w : [Idx -> Word], z : [Idx -> Word], len : 0 .. Ext] |->
                         QuotientStep(s, w00 - 1 - i, Y, y0)]])[w00 - y0 + 1]

\* x, copied to w0, by a y of two words or more: both are scaled until the top
\* word of y is large, and the remainder and y are scaled back at the end.
LongDivision(m, x, y, z, sx, sy) ==
  LET w00 == m.r["w0"].len  y0 == m.r[y].len
      n == normalise(IF y # z THEN zero(m, z) ELSE m, y, y)
      d == NormFactor(m.r[y])
      off == [n EXCEPT !.check = FALSE]
      u == IF d = 1 THEN off ELSE mr_pmul(off, "w0", d, "w0")
      s == QuotientWords(u.r["w0"].w, w00, u.r[y], y0, u.r[z].w)
      v0 == Put(u, "w0", [w |-> s.w, len |-> y0, neg |-> FALSE])
      v1 == IF y = z THEN v0
            ELSE Put(v0, z, mr_lzero([w |-> s.z, len |-> s.len - y0 + 1, neg |-> sx # sy]))
      rem == IF x = z THEN v1
             ELSE LET l == Put(v1, "w0", mr_lzero(v1.r["w0"]))
                      c == IF d = 1 THEN copy(l, "w0", x) ELSE mr_sdiv(l, "w0", d, x)
                  IN  IF c.r[x].len = 0 THEN c ELSE SetSign(c, x, sx)
      back == IF d = 1 THEN rem ELSE mr_sdiv(rem, y, d, y)
  IN  SetSign([back EXCEPT !.check = m.check], y, sy)

\* Operands of one length and a small quotient: y comes off until it is larger.
LessOnce(p, y) == IF mr_compare(p.m, "w0", y) < 0 THEN p
                  ELSE [m |-> mr_psub(p.m, "w0", y, "w0"), d |-> p.d + 1]
SmallQuotient(m, y) ==
  LET W0 == m.r["w0"]  Y == m.r[y]  n == W0.len
      off[i \in 0 .. 8] == IF i = 0 THEN [m |-> m, d |-> 0] ELSE LessOnce(off[i-1], y)
  IN  IF n # Y.len THEN [m |-> m, d |-> 0]
      ELSE IF n = 1 THEN [m |-> Put(m, "w0", mr_lzero([W0 EXCEPT !.w[0] = @ % Y.w[0]])),
                          d |-> W0.w[0] \div Y.w[0]]
      ELSE IF W0.w[n-1] \div 4 < Y.w[n-1] THEN off[8] ELSE [m |-> m, d |-> 0]

\* A number of one word, or zero.
Word1(m, r, n, neg) == LET c == zero(m, r)
                       IN  Put(c, r, [c.r[r] EXCEPT !.w[0] = n, !.len = IF n > 0 THEN 1 ELSE 0,
                                                    !.neg = n > 0 /\ neg])
\* z = x / y and x = x mod y; the quotient alone when x = z, the remainder
\* alone when y = z.
divide(m, x, y, z) ==
  LET sx == m.r[x].neg  sy == m.r[y].neg
      a == copy(SetSign(SetSign(m, x, FALSE), y, FALSE), x, "w0")
      small == SmallQuotient(a, y)
      b == small.m
      b1 == IF x = z THEN b
            ELSE LET c == copy(b, "w0", x) IN IF c.r[x].len = 0 THEN c ELSE SetSign(c, x, sx)
      b2 == IF y = z THEN b1 ELSE Word1(b1, z, small.d, sx # sy)
      yw == m.r[y].w[0]
      q  == mr_sdiv(b, "w0", yw, "w0")
      q1 == IF y = z THEN q ELSE SetSign(copy(q, "w0", z), z, sx # sy)
      q2 == IF x = z THEN q1 ELSE Word1(q1, x, sdiv_rem(b.r["w0"], yw), sx)
  IN  IF m.ERNUM # 0 THEN m
      ELSE IF m.r[y].len = 0 THEN mr_berror(m, ERR_DIV_BY_ZERO)
      ELSE IF x = y THEN mr_berror(m, ERR_BAD_PARAMETERS)
      ELSE IF m.check /\ a.r["w0"].len - a.r[y].len + 1 > nib THEN mr_berror(a, ERR_OVERFLOW)
      ELSE IF mr_compare(b, "w0", y) < 0 THEN SetSign(b2, y, sy)
      ELSE IF a.r[y].len = 1 THEN SetSign(q2, y, sy)
      ELSE LongDivision(b, x, y, z, sx, sy)

divisible(m, x, y) == m.ERNUM = 0 /\ size(divide(copy(m, x, "w0"), "w0", y, y).r["w0"]) = 0
divisible_mem(m, x, y) == IF m.ERNUM # 0 THEN m ELSE divide(copy(m, x, "w0"), "w0", y, y)

\* Mutant: z is added even when it is a factor.
madAlways(m, x, y, z, w, q, r) ==
  LET p == multiply([m EXCEPT !.check = FALSE], x, y, "w0")
      d == divide(add(p, "w0", z, "w0"), "w0", w, q)
  IN  IF m.ERNUM # 0 THEN m
      ELSE IF w = r THEN mr_berror(m, ERR_BAD_PARAMETERS)
      ELSE [(IF q # r THEN copy(d, "w0", r) ELSE d) EXCEPT !.check = m.check]
\* q = (x * y + z) / w and r the remainder; nothing is added when z is x or y.
mad(m, x, y, z, w, q, r) ==
  LET off == multiply([m EXCEPT !.check = FALSE], x, y, "w0")
      sum == IF x # z /\ y # z THEN add(off, "w0", z, "w0") ELSE off
      d == divide(sum, "w0", w, q)
      c == IF q # r THEN copy(d, "w0", r) ELSE d
  IN  IF m.ERNUM # 0 THEN m
      ELSE IF w = r THEN mr_berror(m, ERR_BAD_PARAMETERS)
      ELSE [c EXCEPT !.check = m.check]
=============================================================================
