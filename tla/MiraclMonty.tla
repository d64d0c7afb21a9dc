---------------------------- MODULE MiraclMonty ----------------------------
(* Arithmetic modulo a number without division (mrmonty.c), and the square    *)
(* roots and Lucas sequences built on it (mrsroot.c, mrlucas.c).  A residue x *)
(* is kept as x * B^len(modulus); the numbers "modulus", "pR" and "one" of    *)
(* the memory and its fields ndash, NO_CARRY, qnr and pmod8 are the instance. *)
EXTENDS MiraclEuclid

ASSUME NibbleAssumption == W >= 4

ERR_BAD_MODULUS == 19
ERR_NO_MODULUS == 20

-----------------------------------------------------------------------------
(* Into the representation and out of it.                                     *)

nres(m, x, y) ==
  LET d == divide(copy(m, x, y), y, "modulus", "modulus")
      a == IF size(d.r[y]) < 0 THEN add(d, y, "modulus", y) ELSE d
      s == mr_shift([a EXCEPT !.check = FALSE], y, a.r["modulus"].len, "w0")
      w0 == [divide(s, "w0", "modulus", "modulus") EXCEPT !.check = TRUE]
  IN  IF m.ERNUM # 0 THEN m
      ELSE IF size(m.r["modulus"]) = 0 THEN mr_berror(m, ERR_NO_MODULUS)
      ELSE copy(w0, "w0", y)

\* Mutant: of the two carries into the word above only the last is noticed.
CancelWordOnce(s, N, ndash, i) ==
  LET row == AddRow(s.w, (ndash * s.w[i]) % B, N.w, 0, N.len, i)
      top == N.len + i
      both == (s.w[top] + s.delay + row[top]) % B
  IN  [w |-> [row EXCEPT ![top] = both], delay |-> IF both < row[top] THEN 1 ELSE 0]
\* The lowest word left is cancelled by a multiple of the modulus, and the two
\* words carried out of the row go into the word above it.
CancelWord(s, N, ndash, i) ==
  LET row == AddRow(s.w, (ndash * s.w[i]) % B, N.w, 0, N.len, i)
      top == N.len + i
      delayed == (s.w[top] + s.delay) % B
      both == (delayed + row[top]) % B
  IN  [w |-> [row EXCEPT ![top] = both],
       delay |-> IF both < row[top] \/ delayed < s.delay THEN 1 ELSE 0]

\* Mutant: what is left may be the modulus itself.
BelowModulus(m, x) == IF mr_compare(m, x, "modulus") > 0 THEN mr_psub(m, x, "modulus", x) ELSE m
ReduceOnce(m, x) == IF mr_compare(m, x, "modulus") >= 0 THEN mr_psub(m, x, "modulus", x) ELSE m

redc(m, x, y) ==
  LET c == copy(m, x, "w0")
      N == m.r["modulus"]
      s == Chain(N.len, [w |-> c.r["w0"].w, delay |-> 0],
                 LAMBDA i, v : CancelWord(v, N, m.ndash, i))[N.len]
      u == Put(c, "w0", [w |-> [s.w EXCEPT ![2 * N.len] = s.delay],
                         len |-> 2 * N.len + 1, neg |-> FALSE])
      d == mr_shift(u, "w0", -N.len, "w0")
      l == Put(d, "w0", mr_lzero(d.r["w0"]))
  IN  IF m.ERNUM # 0 THEN m ELSE copy(ReduceOnce(l, "w0"), "w0", y)

-----------------------------------------------------------------------------
(* The modulus.                                                               *)

\* A quadratic non-residue by the modulus modulo 8, where -1 or -2 is one.
NonResidue(n8) == CASE n8 \in {3, 7} -> -1 [] n8 = 5 -> -2 [] OTHER -> 0

\* A modulus already set is not set up again; one that is too small or even is
\* refused after the instance has begun to change.
prepare_monty(m, n) ==
  LET N == m.r[n]
      a == zero(zero(m, "w6"), "w15")
      n8 == remain(a, n, 8)
      b == convert([remain_mem(a, n, 9) EXCEPT !.pmod8 = n8, !.qnr = NonResidue(n8),
                      !.NO_CARRY = N.w[N.len - 1] \div 2^(W-4) < 5], 1, "one")
      base == [b EXCEPT !.r["w6"].w = [@ EXCEPT ![0] = 0, ![1] = 1], !.r["w6"].len = 2,
                        !.r["w15"].w[0] = N.w[0], !.r["w15"].len = 1]
      inv == invmodp(base, "w15", "w6", "w14")
      set == copy([inv EXCEPT !.ndash = (B - inv.r["w14"].w[0]) % B], n, "modulus")
      pR == [mr_shift([set EXCEPT !.check = FALSE], "modulus", N.len, "pR") EXCEPT !.check = TRUE]
  IN  IF m.ERNUM # 0 THEN m
      ELSE IF size(m.r["modulus"]) # 0 /\ mr_compare(m, n, "modulus") = 0 THEN m
      ELSE IF size(N) <= 2 THEN mr_berror(m, ERR_BAD_MODULUS)
      ELSE IF invmodp_ret(base, "w15", "w6", "w14") # 1 THEN mr_berror(inv, ERR_BAD_MODULUS)
      ELSE nres(pR, "one", "one")

kill_monty(m) == zero(m, "modulus")

-----------------------------------------------------------------------------
(* Sums and differences modulo the number top.                                *)
\* Mutant: a sum equal to the modulus is kept.
SumAtMost(m, x, y, w, top) ==
  LET s == mr_padd(m, x, y, w)
  IN  IF m.ERNUM # 0 THEN m
      ELSE IF mr_compare(s, w, top) > 0 THEN mr_psub(s, w, top, w) ELSE s
SumModulo(m, x, y, w, top) ==
  LET s == mr_padd(m, x, y, w)
  IN  IF m.ERNUM # 0 THEN m
      ELSE IF mr_compare(s, w, top) >= 0 THEN mr_psub(s, w, top, w) ELSE s
DifferenceModulo(m, x, y, w, top) ==
  IF m.ERNUM # 0 THEN m
  ELSE IF mr_compare(m, x, y) >= 0 THEN mr_psub(m, x, y, w)
  ELSE mr_psub(mr_psub(m, y, x, w), top, w, w)

nres_modadd(m, x, y, w) == SumModulo(m, x, y, w, "modulus")
nres_modsub(m, x, y, w) == DifferenceModulo(m, x, y, w, "modulus")
\* The same on products that are not reduced yet, below pR.
nres_double_modadd(m, x, y, w) == SumModulo(m, x, y, w, "pR")
nres_double_modsub(m, x, y, w) == DifferenceModulo(m, x, y, w, "pR")

nres_negate(m, x, w) == IF size(m.r[x]) = 0 THEN zero(m, w)
                        ELSE IF m.ERNUM # 0 THEN m ELSE mr_psub(m, "modulus", x, w)

\* x / k: the modulus is added until k divides, k - 1 times at most; when k is a
\* factor of the modulus and not of x that goes on until the sum overflows.
DivideBy(m, x, w, k) ==
  LET body(s) == IF remain(s, "w1", k) = 0 THEN s
                 ELSE add(remain_mem(s, "w1", k), "w1", "modulus", "w1")
      c == Repeat(body, copy(m, x, "w1"), k)
      e == IF remain(c, "w1", k) = 0 THEN c ELSE mr_berror(c, ERR_OVERFLOW)
  IN  copy(subdiv(e, "w1", k, "w1"), "w1", w)
nres_div2(m, x, w) ==
  LET c == copy(m, x, "w1")
      even == IF remain(c, "w1", 2) # 0 THEN add(c, "w1", "modulus", "w1") ELSE c
  IN  copy(subdiv(even, "w1", 2, "w1"), "w1", w)
nres_div3(m, x, w) == DivideBy(m, x, w, 3)
nres_div5(m, x, w) == DivideBy(m, x, w, 5)

-----------------------------------------------------------------------------
(* Products and quotients.  Zero operands are settled before the error flag.  *)
nres_modmult(m, x, y, w) ==
  LET p == multiply([m EXCEPT !.check = FALSE], x, y, "w0")
  IN  IF m.r[x].len = 0 \/ m.r[y].len = 0 THEN zero(m, w)
      ELSE IF m.ERNUM # 0 THEN m
      ELSE [redc(p, "w0", w) EXCEPT !.check = TRUE]

\* Up to 6 by additions, beyond by a word product and a division.
nres_premult(m, x, k, w) ==
  LET twice(s, a, b) == nres_modadd(s, a, a, b)
      n == Abs(k)
      small == CASE n = 1 -> copy(m, x, w)
                 [] n = 2 -> twice(m, x, w)
                 [] n = 3 -> nres_modadd(twice(m, x, "w0"), x, "w0", w)
                 [] n = 4 -> twice(twice(m, x, w), w, w)
                 [] n = 5 -> nres_modadd(twice(twice(m, x, "w0"), "w0", "w0"), x, "w0", w)
                 [] n = 6 -> LET t == twice(m, x, w) IN nres_modadd(twice(t, w, "w0"), w, "w0", w)
      large == copy(divide(mr_pmul(m, x, n, "w0"), "w0", "modulus", "modulus"), "w0", w)
      done == IF n <= 6 THEN small ELSE large
  IN  IF k = 0 THEN zero(m, w)
      ELSE IF m.ERNUM # 0 THEN m
      ELSE IF k < 0 THEN nres_negate(done, w, w) ELSE done

\* w = x / y; the answer is the common divisor of y and the modulus, and w is
\* zero when that is not 1.
moddiv_gcd(m, x, y) == IF m.ERNUM # 0 \/ x = y THEN 0
                       ELSE invmodp_ret(redc(m, y, "w6"), "w6", "modulus", "w6")
nres_moddiv(m, x, y, w) ==
  LET inv == invmodp(redc(m, y, "w6"), "w6", "modulus", "w6")
  IN  IF m.ERNUM # 0 THEN m
      ELSE IF x = y THEN mr_berror(m, ERR_BAD_PARAMETERS)
      ELSE IF moddiv_gcd(m, x, y) # 1 THEN zero(inv, w)
      ELSE nres_modmult(nres(inv, "w6", "w6"), x, "w6", w)

\* Mutant: out of the representation once.
InvertOnce(m) == invmodp(redc(m, "w6", "w6"), "w6", "modulus", "w6")
\* What the inverse of a product is found from: out of the representation twice,
\* so that the inverse is again in it.
InvertProduct(m) == invmodp(redc(redc(m, "w6", "w6"), "w6", "w6"), "w6", "modulus", "w6")

\* y = 1/x and z = 1/w with one inversion.
nres_double_inverse(m, x, y, w, z) ==
  LET p == nres_modmult(m, x, w, "w6")
      i == nres_modmult(InvertProduct(p), w, "w6", "w5")
  IN  IF size(p.r["w6"]) = 0 THEN mr_berror(p, ERR_DIV_BY_ZERO)
      ELSE copy(nres_modmult(i, x, "w6", z), "w5", y)

\* The inverses of all x[i] in the w[i]: products of the first i, one
\* inversion, and the way back down.
nres_multi_inverse(m, x, w) ==
  LET k == Len(x)
      one == copy(m, "one", w[1])
      up == Chain(k - 1, copy(convert(m, 1, w[1]), x[1], w[2]),
                  LAMBDA i, s : IF i = 0 THEN s ELSE nres_modmult(s, w[i+1], x[i+1], w[i+2]))[k-1]
      p == nres_modmult(up, w[k], x[k], "w6")
      top == nres_modmult(copy(InvertProduct(p), x[k], "w5"), w[k], "w6", w[k])
      down == Chain(k - 2, top, LAMBDA j, s :
                LET i == k - 1 - j
                    v == nres_modmult(nres_modmult(s, w[i], "w5", w[i]), w[i], "w6", w[i])
                IN  nres_modmult(v, "w5", x[i], "w5"))[k-2]
  IN  IF k = 0 THEN m
      ELSE IF x = w THEN mr_berror(m, ERR_BAD_PARAMETERS)
      ELSE IF k = 1 THEN nres_moddiv(one, w[1], x[1], w[1])
      ELSE IF size(p.r["w6"]) = 0 THEN mr_berror(p, ERR_DIV_BY_ZERO)
      ELSE nres_modmult(down, "w5", "w6", w[1])

-----------------------------------------------------------------------------
(* The quadratic extension: r + i*sqrt(qnr).                                  *)
Carefree(m) == m.NO_CARRY /\ m.qnr = -1

\* The square of a + b*sqrt(qnr).
nres_complex(m, a, b, r, i) ==
  LET plain == mr_padd(mr_psub(mr_padd(mr_padd(m, a, b, "w1"), a, "modulus", "w2"), "w2", b, "w2"), a, a, r)
      fast == nres_modmult(nres_modmult(plain, r, b, i), "w1", "w2", r)
      w2 == nres_modsub(nres_modadd(m, a, b, "w1"), a, b, "w2")
      v2 == IF m.qnr = -2 THEN nres_modsub(w2, "w2", b, "w2") ELSE w2
      ri == nres_modmult(nres_modmult(v2, a, b, i), "w1", "w2", r)
      r2 == IF m.qnr = -2 THEN nres_modadd(ri, r, i, r) ELSE ri
  IN  IF m.ERNUM # 0 THEN m
      ELSE IF Carefree(m) THEN fast ELSE nres_modadd(r2, i, i, i)

\* (a0 + a1*sqrt(qnr)) * (b0 + b1*sqrt(qnr)), reduced only at the end.
nres_lazy(m, a0, a1, b0, b1, r, i) ==
  LET p == multiply(multiply([m EXCEPT !.check = FALSE], a0, b0, "w0"), a1, b1, "w5")
      plain == mr_padd(mr_padd(mr_padd(p, "w0", "w5", "w6"), a0, a1, "w1"), b0, b1, "w2")
      d == nres_double_modadd(p, "w0", "w5", "w6")
      d5 == IF m.qnr = -2 THEN nres_double_modadd(d, "w5", "w5", "w5") ELSE d
      sums == IF Carefree(m) THEN plain ELSE nres_modadd(nres_modadd(d5, a0, a1, "w1"), b0, b1, "w2")
      re == redc(nres_double_modsub(sums, "w0", "w5", "w0"), "w0", r)
      x == multiply(re, "w1", "w2", "w0")
      im == IF Carefree(m) THEN mr_psub(x, "w0", "w6", "w0") ELSE nres_double_modsub(x, "w0", "w6", "w0")
  IN  IF m.ERNUM # 0 THEN m ELSE [redc(im, "w0", i) EXCEPT !.check = TRUE]
=============================================================================
