----------------------------- MODULE FieldCalc -----------------------------
(* What the modular arithmetic of MIRACL promises, on the residues 0 .. p-1:  *)
(* a call leaves the named residues the values its operation defines and gives *)
(* the answer it must, or fails because there is none.                        *)
EXTENDS Integers, Sequences

CONSTANTS Reg, Beyond

SettingModulus == {"prepare", "lucas", "sqroot"}
Residues(n) == 0 .. n - 1
Small(n) == IF n < Beyond THEN n ELSE Beyond
CommonDivisor(x, n) == CHOOSE d \in 1 .. n : /\ x % d = 0 /\ n % d = 0
                                             /\ \A e \in d + 1 .. n : x % e # 0 \/ n % e # 0
Inverse(x, n) == CHOOSE y \in Residues(n) : (x * y) % n = 1
\* V_k of the Lucas sequence of P.
Lucas(P, k, n) == LET v[i \in 0 .. k + 1] == IF i = 0 THEN 2 % n ELSE IF i = 1 THEN P % n
                                             ELSE (P * v[i-1] - v[i-2]) % n
                  IN  v[k]
SquareOfUnit(n) == IF n % 8 = 5 THEN -2 ELSE -1

\* The ways in which a call may change the residues: sets of pairs of a name and
\* a value, a later pair of the same name winning.
Outcomes(c, v, p) ==
  LET a == c.a  X == v[a[1]]  Y == v[a[2]]
      one(z, n) == { << <<z, n % p>> >> }
      divided(z, k) == { << <<z, y>> >> : y \in {y \in Residues(p) : (k * y) % p = X} }
      two(r, m, i, n) == { << <<i, n % p>>, <<r, m % p>> >> }
      u == SquareOfUnit(p)
  IN  CASE c.op = "nres"    -> one(a[2], a[1])
        [] c.op = "modadd"  -> one(a[3], X + Y)
        [] c.op = "modsub"  -> one(a[3], X - Y)
        [] c.op = "modmult" -> one(a[3], X * Y)
        [] c.op = "negate"  -> one(a[2], -X)
        [] c.op = "premult" -> one(a[3], X * a[2])
        [] c.op = "div2"    -> divided(a[2], 2)
        [] c.op = "div3"    -> divided(a[2], 3)
        [] c.op = "div5"    -> divided(a[2], 5)
        [] c.op = "moddiv"  -> one(a[3], IF CommonDivisor(Y, p) = 1 THEN X * Inverse(Y, p) ELSE 0)
        [] c.op = "double_inverse" -> { << <<a[4], Inverse(v[a[3]], p)>>, <<a[2], Inverse(X, p)>> >> }
        [] c.op = "complex" -> two(a[3], X * X + u * Y * Y, a[4], 2 * X * Y)
        [] c.op = "lazy"    -> two(a[5], X * v[a[3]] + u * Y * v[a[4]], a[6], X * v[a[4]] + Y * v[a[3]])
        [] c.op = "nres_sqroot" -> LET roots == {y \in Residues(p) : (y * y) % p = X}
                                   IN  IF roots = {} THEN one(a[2], 0) ELSE { << <<a[2], y>> >> : y \in roots }
        [] c.op = "nres_lucas"  -> { << <<a[3], IF a[2] = 0 THEN 0 ELSE Lucas(X, a[2] - 1, p)>>,
                                        <<a[4], Lucas(X, a[2], p)>> >> }
        [] OTHER -> { <<>> }

\* Whether ret is an answer the call may give.
Answers(c, v, p, ret) ==
  LET a == c.a
      n == a[Len(a)]
  IN  CASE c.op = "redc"   -> ret = v[a[1]]
        [] c.op = "moddiv" -> ret = Small(CommonDivisor(v[a[2]], p))
        [] c.op = "nres_sqroot" -> ret = \E y \in Residues(p) : (y * y) % p = v[a[1]]
        [] c.op = "multi_inverse" -> \A i \in DOMAIN a : IF v[a[i]] = 0 THEN ret[i] = 0
                                                         ELSE ret[i] = Inverse(v[a[i]], p)
        [] c.op = "sqroot" -> IF n % 2 = 1 /\ \E y \in Residues(n) : (y * y - a[1]) % n = 0
                              THEN ret[1] /\ ret[2] \in Residues(n) /\ (ret[2] * ret[2] - a[1]) % n = 0
                              ELSE ret = <<FALSE, 0>>
        [] c.op = "lucas"  -> ret = <<IF a[2] = 0 THEN 0 ELSE Lucas(a[1], a[2] - 1, n), Lucas(a[1], a[2], n)>>
        [] OTHER -> ret = 0

\* No value exists, or the operands overlap where the operation forbids it.
Undefined(c, v, p) ==
  LET a == c.a
  IN  \/ c.op \in {"prepare", "lucas"} /\ (a[Len(a)] <= 2 \/ a[Len(a)] % 2 = 0)
      \/ c.op = "sqroot" /\ a[Len(a)] = 1
      \/ c.op = "nres" /\ p = 0
      \/ c.op = "moddiv" /\ a[1] = a[2]
      \/ c.op = "double_inverse" /\ 0 \in {v[a[1]], v[a[3]]}
      \/ c.op = "multi_inverse" /\ Len(a) > 1 /\ \E i \in DOMAIN a : v[a[i]] = 0

Apply(pairs, v) == LET at(r) == {i \in DOMAIN pairs : pairs[i][1] = r}
                   IN  [r \in Reg |-> IF at(r) = {} THEN v[r]
                                      ELSE pairs[CHOOSE i \in at(r) : \A j \in at(r) : j <= i][2]]

\* The modulus a call leaves; an even one given to sqroot is answered without
\* being set.  When the modulus changes, the residues are those of the old one.
Chosen(c, p) == IF c.op \in SettingModulus /\ ~(c.op = "sqroot" /\ c.a[Len(c.a)] % 2 = 0)
                THEN c.a[Len(c.a)] ELSE p

\* The call c on the residues v may fail; or it may leave w modulo n and answer ret.
MayFail(c, v, p) == Undefined(c, v, p) \/ Outcomes(c, v, p) = {}
MayReturn(c, v, p, w, n, ret) ==
  /\ ~Undefined(c, v, p)
  /\ n = Chosen(c, p)
  /\ n = p => \E pairs \in Outcomes(c, v, p) : w = Apply(pairs, v)
  /\ Answers(c, v, p, ret)
=============================================================================
