---------------------------- MODULE MiraclRoots ----------------------------
(* Lucas sequences and square roots modulo a prime (mrlucas.c, mrsroot.c).    *)
EXTENDS MiraclMonty

\* Mutant: the constant is not brought into the representation.
SetPlain(m, n, w) == convert(m, n, w)
SetResidue(m, n, w) == nres(convert(m, n, w), w, w)

\* v = V_r(p) and vp = V_{r-1}(p), by the bits of r - 1 from the top down; of
\* two that are the same number v wins.
nres_lucas(m, p, r, vp, v) ==
  LET w4 == SetResidue(copy(m, p, "w3"), 2, "w4")
      w9 == copy(copy(w4, "w4", "w8"), "w3", "w9")
      start == decr(insign(copy(w9, r, "w1"), PLUS, "w1"), "w1", 1, "w1")
      nb == logb2(start, "w1")
      times(s, x, y, less) == nres_modsub(nres_modmult(s, x, y, x), x, less, x)
      end == Chain(nb, start, LAMBDA k, s :
               IF mr_testbit(s.r["w1"], nb - 1 - k) = 1
               THEN times(times(s, "w8", "w9", "w3"), "w9", "w9", "w4")
               ELSE times(times(s, "w9", "w8", "w3"), "w8", "w8", "w4"))[nb]
      done == copy(end, "w9", v)
  IN  IF m.ERNUM # 0 THEN m
      ELSE IF size(m.r[r]) = 0 THEN SetResidue(zero(m, vp), 2, v)
      ELSE IF size(m.r[r]) \in {1, -1} THEN copy(SetResidue(m, 2, vp), p, v)
      ELSE IF v # vp THEN copy(done, "w8", vp) ELSE done

lucas(m, p, r, n, vp, v) ==
  LET l == redc(nres_lucas(nres(prepare_monty(m, n), p, "w3"), "w3", r, "w8", "w9"), "w9", v)
  IN  IF m.ERNUM # 0 THEN m ELSE IF v # vp THEN redc(l, "w8", vp) ELSE l

\* w^w10 by the bits of w10 from below, for a modulus that is 3 modulo 4.
PowerOfRoot(m, w) ==
  LET body(s) ==
        LET h == subdiv(s.m, "w10", 2, "w10")
            t == IF subdiv_rem(s.m, "w10", 2) # 0 THEN nres_modmult(h, w, "w2", w) ELSE h
            stop == t.ERNUM # 0 \/ size(t.r["w10"]) = 0
        IN  IF s.stop THEN s
            ELSE [m |-> IF stop THEN t ELSE nres_modmult(t, "w2", "w2", "w2"), stop |-> stop]
  IN  Repeat(body, [m |-> copy(nres(m, w, "w2"), "one", w), stop |-> FALSE], W * nib + 1).m

\* Mueller's method: the first t for which w*t*t - 4 is no square (js) is looked
\* for, and a Lucas sequence of w*t*t - 2 gives t times the root.
MuellerRoot(m, w, js) ==
  LET times(s, x, t) == divide(premult(s, x, t, "w4"), "w4", "modulus", "modulus")
      body(s) ==
        LET t == s.t + 1
            w4 == IF t = 1 THEN copy(s.m, w, "w4") ELSE times(times(s.m, w, t), "w4", t)
            w1 == decr(w4, "w4", 4, "w1")
            j == jack(w1, "w1", "modulus")
        IN  IF s.stop THEN s
            ELSE [m |-> j.m, t |-> t, stop |-> j.ret = js \/ j.m.ERNUM # 0]
      e == Repeat(body, [m |-> m, t |-> 0, stop |-> FALSE], Value(m.r["modulus"]))
      w3 == nres(decr(e.m, "w4", 2, "w3"), "w3", "w3")
      l == nres_lucas(w3, "w3", "w10", w, w)
  IN  IF e.t = 1 THEN l ELSE nres_moddiv(SetResidue(l, e.t, "w11"), w, "w11", w)

Residuosity(m, x, w) == LET c == redc(copy(m, x, w), w, w) IN jack(c, w, "modulus")

\* w = sqrt(x), FALSE when there is none.
sqroot_ok(m, x, w) == LET c == redc(copy(m, x, w), w, w)
                      IN  /\ m.ERNUM = 0
                          /\ size(m.r[x]) = 0 \/ size(c.r[w]) \in {1, 4} \/ Residuosity(m, x, w).ret = 1
nres_sqroot(m, x, w) ==
  LET c == redc(copy(m, x, w), w, w)
      j == Residuosity(m, x, w)
      js == (m.pmod8 % 4) - 2
      e == subdiv(incr(j.m, "modulus", js, "w10"), "w10", 4, "w10")
  IN  IF m.ERNUM # 0 THEN m
      ELSE IF size(m.r[x]) = 0 THEN copy(m, x, w)
      ELSE IF size(c.r[w]) = 1 THEN nres(c, w, w)
      ELSE IF size(c.r[w]) = 4 THEN SetResidue(c, 2, w)
      ELSE IF j.ret # 1 THEN zero(j.m, w)
      ELSE IF js = 1 THEN PowerOfRoot(e, w) ELSE MuellerRoot(e, w, js)

\* The root of an ordinary number modulo p; an even p has none.
sqroot_ret(m, x, p, w) == /\ m.ERNUM = 0 /\ ~subdivisible(m, p, 2)
                          /\ sqroot_ok(nres(prepare_monty(m, p), x, w), w, w)
sqroot(m, x, p, w) ==
  LET n == nres(prepare_monty(m, p), x, w)
      s == nres_sqroot(n, w, w)
  IN  IF m.ERNUM # 0 THEN m
      ELSE IF subdivisible(m, p, 2) THEN zero(m, w)
      ELSE IF sqroot_ok(n, w, w) THEN redc(s, w, w) ELSE zero(s, w)
=============================================================================
