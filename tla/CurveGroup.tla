----------------------------- MODULE CurveGroup -----------------------------
(* What mrcurve.c promises: calls on named points of a curve modulo a prime   *)
(* are the operations of its group.  A curve c is a record [p, a, b]; a finite *)
(* point is the pair of its affine coordinates, the point at infinity the     *)
(* empty tuple.                                                               *)
EXTENDS Integers, Sequences

CONSTANT curve

O == <<>>
Residues == 0 .. curve.p - 1
Inverse(n) == CHOOSE i \in Residues : (n * i) % curve.p = 1
On(x, y) == (y * y - x * x * x - curve.a * x - curve.b) % curve.p = 0
Points == {O} \union {q \in Residues \X Residues : On(q[1], q[2])}

Neg(P) == IF P = O THEN O ELSE <<P[1], (-P[2]) % curve.p>>
\* The third point of the line with this slope through both, mirrored.
Third(slope, P, Q) == LET x == (slope * slope - P[1] - Q[1]) % curve.p
                      IN  <<x, (slope * (P[1] - x) - P[2]) % curve.p>>
Sum(P, Q) ==
  IF P = O THEN Q ELSE IF Q = O THEN P
  ELSE IF P = Neg(Q) THEN O
  ELSE IF P = Q THEN Third(((3 * P[1] * P[1] + curve.a) * Inverse((2 * P[2]) % curve.p)) % curve.p, P, P)
  ELSE Third(((Q[2] - P[2]) * Inverse((Q[1] - P[1]) % curve.p)) % curve.p, P, Q)
Repeated(n, P) == LET m[i \in 0 .. n] == IF i = 0 THEN O ELSE Sum(m[i-1], P) IN m[n]
Multiple(k, P) == IF k < 0 THEN Repeated(-k, Neg(P)) ELSE Repeated(k, P)

\* The points a call may leave, v being what it started on and ret its answer.  A
\* finite point whose new coordinates are refused is any pair of residues.
Outcomes(c, v, ret) ==
  LET a == c.a
      gets(P, q) == {[v EXCEPT ![P] = q]}
      refused(P) == IF v[P] = O THEN {v} ELSE {[v EXCEPT ![P] = q] : q \in Residues \X Residues}
  IN  CASE c.op \in {"set", "decompress"} /\ ~ret -> refused(a[3])
        [] c.op = "set"  -> gets(a[3], <<a[1] % curve.p, a[2] % curve.p>>)
        [] c.op = "decompress" ->
             {[v EXCEPT ![a[3]] = q] : q \in {r \in Points \ {O} : r[1] = a[1] % curve.p /\ r[2] % 2 = a[2]}}
        [] c.op = "infinity" -> gets(a[1], O)
        [] c.op = "negate" -> gets(a[1], Neg(v[a[1]]))
        [] c.op = "double" -> gets(a[1], Sum(v[a[1]], v[a[1]]))
        [] c.op = "copy"   -> gets(a[2], v[a[1]])
        [] c.op = "add"    -> gets(a[2], Sum(v[a[2]], v[a[1]]))
        [] c.op = "sub"    -> gets(a[2], Sum(v[a[2]], Neg(v[a[1]])))
        [] c.op = "mult"   -> gets(a[3], Multiple(a[1], v[a[2]]))
        [] c.op = "mult2"  -> gets(a[5], Sum(Multiple(a[1], v[a[2]]), Multiple(a[3], v[a[4]])))
        [] OTHER -> {v}

\* The answer of a call.  A sum tells whether it met its operand again or left
\* infinity, but infinity added to infinity counts as an ordinary sum.
Answers(c, v, w, ret) ==
  LET a == c.a
      left == IF c.op \in {"add", "sub"} THEN w[a[2]] ELSE O
      sum(P, Q) == /\ ret \in 0 .. 2
                   /\ ret = 0 => left = O
                   /\ ret = 2 => P = Q
                   /\ ret = 1 => P = O \/ Q = O \/ (left # O /\ P # Q)
  IN  CASE c.op = "set" -> ret = On(a[1], a[2])
        [] c.op \in {"decompress", "x"} -> ret = \E y \in Residues : On(a[1], y)
        [] c.op = "get"  -> ret = IF v[a[1]] = O THEN <<0, 0, 0>>
                                    ELSE <<v[a[1]][1], v[a[1]][2], v[a[1]][2] % 2>>
        [] c.op = "comp" -> ret = (v[a[1]] = v[a[2]])
        [] c.op = "add"  -> sum(v[a[1]], v[a[2]])
        [] c.op = "sub"  -> IF a[1] = a[2] THEN ret = 0 ELSE sum(Neg(v[a[1]]), v[a[2]])
        [] c.op = "mult" -> ret \in 0 .. 40 /\ 2^ret <= 1 + 3 * a[1] * a[1]
        [] OTHER -> ret = 0

\* The call c on the points v may leave w and answer ret.
MayReturn(c, v, w, ret) == w \in Outcomes(c, v, ret) /\ Answers(c, v, w, ret)
=============================================================================
