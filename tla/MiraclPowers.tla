---------------------------- MODULE MiraclPowers ----------------------------
(* Powers, roots and bits of numbers (mrarth3.c, mrbits.c) and the bytes a    *)
(* number is read from and written to (mrarth1.c).  A loop is Repeat of its   *)
(* body on the record of what it changes; a body whose loop has ended returns *)
(* the record unchanged.                                                      *)
EXTENDS MiraclArith

CONSTANT ByteBits       \* bits of a byte (8)
ASSUME ByteAssumption == ByteBits \in Nat \ {0} /\ W % ByteBits = 0

Repeat(body(_), s, n) == LET r[i \in 0 .. n] == IF i = 0 THEN s ELSE body(r[i-1]) IN r[n]
Steps == 2 * W * Ext        \* more than the rounds of any loop over bits

-----------------------------------------------------------------------------
(* Bits.                                                                      *)
BitsOf(word) == CHOOSE k \in 0 .. W : word < 2^k /\ \A j \in 0 .. k - 1 : word >= 2^j
logb2(m, x) == LET X == m.r[x]
               IN  IF m.ERNUM # 0 \/ X.len = 0 THEN 0 ELSE W * (X.len - 1) + BitsOf(X.w[X.len - 1])

\* Whole words move first, then one word multiplies or divides.
sftbit(m, x, n, z) ==
  LET c == copy(m, x, z)
      s == mr_shift(c, z, Quot(n, W), z)
      sm == 2^(Abs(n) % W)
  IN  IF m.ERNUM # 0 THEN m
      ELSE IF n = 0 THEN c
      ELSE IF n > 0 THEN mr_pmul(s, z, sm, z) ELSE mr_sdiv(s, z, sm, z)

expb2(m, n, x) ==
  LET c == convert(m, 1, x)
      s == mr_shift(c, x, n \div W, x)
  IN  IF m.ERNUM # 0 THEN m
      ELSE IF n = 0 THEN c
      ELSE IF n < 0 THEN mr_berror(c, ERR_NEG_POWER)
      ELSE [s EXCEPT !.r[x].w[s.r[x].len - 1] = (@ * 2^(n % W)) % B]

-----------------------------------------------------------------------------
(* Powers.                                                                    *)

\* b^n by the bits of n from the top down.
expint(m, b, n, x) ==
  LET c == convert(m, 1, x)
      top == CHOOSE k \in 0 .. 30 : n < 2^(k+1) /\ 2^k <= n
      body(s) == IF s.bit < 0 THEN s
                 ELSE LET sq == multiply(s.m, x, x, x)
                      IN  [m |-> IF (n \div 2^s.bit) % 2 = 1 THEN premult(sq, x, b, x) ELSE sq,
                           bit |-> s.bit - 1]
  IN  IF m.ERNUM # 0 THEN m
      ELSE IF n = 0 THEN c
      ELSE IF n < 0 THEN mr_berror(c, ERR_NEG_POWER)
      ELSE IF b = 2 THEN expb2(c, n, x)
      ELSE Repeat(body, [m |-> c, bit |-> top], top + 1).m

\* w = x^n, modulo z when z is another number than w.  The result is cleared
\* before an error of an earlier call is looked at.
power(m, x, n, z, w) ==
  LET c == zero(copy(m, x, "w5"), w)
      one == convert(c, 1, w)
      plain(s) ==
        IF s.stop THEN s
        ELSE LET p == IF s.n % 2 = 1 THEN multiply(s.m, w, "w5", w) ELSE s.m
                 n2 == s.n \div 2
             IN  IF p.ERNUM # 0 \/ n2 = 0 THEN [s EXCEPT !.m = p, !.stop = TRUE]
                 ELSE [m |-> multiply(p, "w5", "w5", "w5"), n |-> n2, stop |-> FALSE]
      modular(s) ==
        IF s.stop THEN s
        ELSE LET p == IF s.n % 2 = 1 THEN mad(s.m, w, "w5", "w5", z, z, w) ELSE s.m
                 n2 == s.n \div 2
             IN  IF p.ERNUM # 0 \/ n2 = 0 THEN [s EXCEPT !.m = p, !.stop = TRUE]
                 ELSE [m |-> mad(p, "w5", "w5", "w5", z, z, "w5"), n |-> n2, stop |-> FALSE]
      norm == NormFactor(c.r[z])
      start == divide(normalise(one, z, z), "w5", z, z)
      run(body(_), mm) == Repeat(body, [m |-> mm, n |-> n, stop |-> FALSE], 31).m
      done == run(modular, start)
  IN  IF m.ERNUM # 0 \/ c.r["w5"].len = 0 THEN c
      ELSE IF n = 0 THEN one
      ELSE IF n < 0 THEN mr_berror(one, ERR_NEG_POWER)
      ELSE IF w = z THEN run(plain, one)
      ELSE IF norm = 1 THEN done ELSE divide(mr_sdiv(done, z, norm, z), w, z, z)

-----------------------------------------------------------------------------
(* Roots: Newton's iteration on ever more words of x.                         *)

\* One iteration on the words of x that shift s leaves: w2 gets the next
\* guess, dif the small part of its change and rem that of the remainder.
NewtonStep(m, x, n, s) ==
  LET a == mr_shift(copy(m, "w2", "w3"), x, s, "w4")
      p == power([a EXCEPT !.check = FALSE], "w2", n - 1, "w6", "w6")
      q == divide([p EXCEPT !.check = TRUE], "w4", "w6", "w2")
      d == subtract(q, "w2", "w3", "w2")
  IN  [m |-> add(subdiv(d, "w2", n, "w2"), "w2", "w3", "w2"),
       rem |-> size(q.r["w4"]), dif |-> size(d.r["w2"])]

\* Mutant: the last guess of Newton's iteration is kept.
LowerGuessNever(m, x, n, dif, rem) == [m |-> m, rem |-> rem, dif |-> dif]
\* At full length the last guess is lowered until its power is not above x.
LowerGuess(m, x, n, dif, rem) ==
  LET body(t) == IF t.dif >= 0 THEN t
                 ELSE LET g == decr(t.m, "w2", 1, "w2")
                          p == power([g EXCEPT !.check = FALSE], "w2", n, "w6", "w6")
                      IN  [m |-> [p EXCEPT !.check = TRUE], rem |-> 0, dif |-> mr_compare(p, x, "w6")]
  IN  Repeat(body, [m |-> m, rem |-> rem, dif |-> dif], n)

\* The steps on few words double their precision until it is used up; then as
\* many words again come in.
RootLoop(m, x, n) ==
  LET s0 == -(((m.r[x].len - 1) \div n) * n)
      lg2 == logb2(m, "w2") - 1
      body(t) ==
        IF t.stop \/ t.m.ERNUM # 0 THEN t
        ELSE LET k == NewtonStep(t.m, x, n, t.s)
                 d == IF t.d = 0 THEN 1 ELSE 2 * t.d
                 s == t.s + d * n
                 dd == IF s >= 0 THEN d - Quot(s, n) ELSE d
                 low == LowerGuess(k.m, x, n, k.dif, k.rem)
             IN  IF 2 * t.p < lg2 + t.d * W THEN [t EXCEPT !.m = k.m, !.p = 2 * @]
                 ELSE IF t.full /\ Abs(k.dif) < n
                 THEN [t EXCEPT !.m = low.m, !.stop = TRUE, !.exact = low.rem = 0 /\ low.dif = 0]
                 ELSE [m |-> mr_shift(k.m, "w2", dd, "w2"), p |-> t.p, d |-> dd,
                       s |-> IF s >= 0 THEN 0 ELSE s, full |-> t.full \/ s >= 0,
                       stop |-> FALSE, exact |-> FALSE]
      w2 == mr_shift(m, "w2", Quot(s0, n), "w2")
  IN  Repeat(body, [m |-> w2, p |-> 1, d |-> 0, s |-> s0, full |-> s0 = 0, stop |-> FALSE,
                    exact |-> FALSE], Steps)

\* w = the n-th root of x rounded towards zero; the answer is TRUE for an
\* exact root.  The sign of x is off while the root of its magnitude is taken.
nroot(m, x, n, w) ==
  LET sx == exsign(m.r[x])
      e1 == IF n < 1 THEN mr_berror(m, ERR_BAD_ROOT) ELSE m
      e2 == IF n % 2 = 0 /\ sx = MINUS THEN mr_berror(e1, ERR_NEG_ROOT) ELSE e1
      pos == insign(m, PLUS, x)
      lgx == logb2(pos, x)
      loop == RootLoop(expb2(pos, 1 + (lgx - 1) \div n, "w2"), x, n)
  IN  IF m.ERNUM # 0 THEN [m |-> m, exact |-> FALSE]
      ELSE IF size(m.r[x]) = 0 \/ n = 1 THEN [m |-> copy(m, x, w), exact |-> TRUE]
      ELSE IF e2.ERNUM # 0 THEN [m |-> e2, exact |-> FALSE]
      ELSE IF n >= lgx THEN [m |-> convert(insign(pos, sx, x), sx, w), exact |-> lgx = 1]
      ELSE IF ~loop.stop THEN [m |-> loop.m, exact |-> FALSE]
      ELSE [m |-> insign(insign(copy(loop.m, "w2", w), sx, w), sx, x), exact |-> loop.exact]

-----------------------------------------------------------------------------
(* Octet strings, the most significant byte first.                            *)
PerWord == W \div ByteBits
FromBytes(s) == Chain(Len(s), 0, LAMBDA i, v : (v * 2^ByteBits + s[i+1]) % B)[Len(s)]

\* Leading zero bytes are skipped and the rest packed into words from its end.
bytes_to_big(m, ptr, x) ==
  LET z == zero(m, x)
      first == CHOOSE k \in 1 .. Len(ptr) + 1 : /\ \A j \in 1 .. k - 1 : ptr[j] = 0
                                                /\ k <= Len(ptr) => ptr[k] # 0
      len == Len(ptr) - first + 1
      n == (len + PerWord - 1) \div PerWord
      word(i) == FromBytes(SubSeq(ptr, Most(first, Len(ptr) + 1 - (i + 1) * PerWord),
                                  Len(ptr) - i * PerWord))
  IN  IF m.ERNUM # 0 THEN m
      ELSE IF len = 0 THEN z
      ELSE IF n > nib /\ m.check THEN mr_berror([z EXCEPT !.r[x].len = n], ERR_OVERFLOW)
      ELSE Put(z, x, mr_lzero([w |-> [i \in Idx |-> IF i < n THEN word(i) ELSE z.r[x].w[i]],
                               len |-> n, neg |-> FALSE]))

\* The bytes of x: exactly max of them when justified, as few as hold it when
\* not; the answer is what was written.
Octet(X, i) == (X.w[i \div PerWord] \div 2^((i % PerWord) * ByteBits)) % 2^ByteBits
ByteLen(X) == (X.len - 1) * PerWord + ((BitsOf(X.w[X.len - 1]) + ByteBits - 1) \div ByteBits)
big_to_bytes(m, max, x, justify) ==
  LET X == mr_lzero(m.r[x])
      len == ByteLen(X)
      n == IF justify THEN max ELSE len
  IN  IF m.ERNUM # 0 \/ max < 0 \/ (max = 0 /\ justify) THEN <<>>
      ELSE IF size(m.r[x]) = 0 THEN [i \in 1 .. IF justify THEN max ELSE 0 |-> 0]
      ELSE IF max > 0 /\ len > max THEN <<>>
      ELSE [i \in 1 .. n |-> IF n - i < len THEN Octet(X, n - i) ELSE 0]
big_to_bytes_mem(m, max, x, justify) ==
  IF m.ERNUM # 0 \/ max < 0 \/ (max = 0 /\ justify) \/ size(m.r[x]) = 0 THEN m
  ELSE LET l == Put(m, x, mr_lzero(m.r[x]))
       IN  IF max > 0 /\ ByteLen(l.r[x]) > max THEN mr_berror(l, ERR_TOO_BIG) ELSE l
=============================================================================
