---------------------------- MODULE IntegerCalc ----------------------------
(* What the arithmetic of MIRACL promises, on the integers: a call either     *)
(* gives every named number exactly the value its operation defines - however *)
(* its operands overlap - and the answer it must, or it fails because that    *)
(* value does not fit a number or does not exist.                             *)
EXTENDS Integers, Sequences

CONSTANTS Reg,          \* the numbers of the program
          Limit,        \* every number is below this in magnitude
          Beyond,       \* the answer for a number that is no small integer
          ByteBase,     \* values of a byte
          AndOf(_, _), XorOf(_, _), \* bitwise operations on naturals
          Tight         \* products below this are certain not to fail

Fits(n) == -Limit < n /\ n < Limit
Least(a, b) == IF a < b THEN a ELSE b
Most(a, b) == IF a < b THEN b ELSE a
Mag(n) == IF n < 0 THEN -n ELSE n
\* Division rounds towards zero and the remainder has the sign of the dividend.
Quot(n, d) == LET q == Mag(n) \div Mag(d) IN IF (n < 0) = (d < 0) THEN q ELSE -q
Rem(n, d) == n - d * Quot(n, d)
Sign(n) == IF n < 0 THEN -1 ELSE IF n = 0 THEN 0 ELSE 1
BitLength(n) == IF n = 0 THEN 0 ELSE CHOOSE k \in 1 .. 60 : 2^(k-1) <= n /\ n < 2^k
Ones(n) == LET o[k \in 0 .. 30] == IF k = 0 THEN 0 ELSE o[k-1] + ((n \div 2^(k-1)) % 2) IN o[30]

Pow(x, n) == IF n = 0 THEN 1 ELSE x^n
\* The root of a magnitude, rounded down; the value of an octet string.
Root(x, n) == CHOOSE r \in 0 .. x : r^n <= x /\ x < (r + 1)^n
Octets(s, base) == LET o[i \in 0 .. Len(s)] == IF i = 0 THEN 0 ELSE o[i-1] * base + s[i] IN o[Len(s)]
Digits(x, base) == IF x = 0 THEN 0 ELSE CHOOSE k \in 1 .. 30 : base^(k-1) <= x /\ x < base^k

Divides(d, n) == n % d = 0
Gcd(x, y) == LET g[k \in 0 .. 30] == IF k = 0 THEN <<Mag(x), Mag(y)>>
                                    ELSE LET p == g[k-1]
                                         IN  IF p[2] = 0 THEN p ELSE <<p[2], p[1] % p[2]>>
             IN  g[30][1]
\* The quadratic character modulo a prime, extended over the primes of n.
LeastFactor(n) == CHOOSE p \in 2 .. n : Divides(p, n) /\ \A e \in 2 .. p - 1 : ~Divides(e, n)
Legendre(x, p) == IF Divides(p, x) THEN 0 ELSE IF \E s \in 1 .. p - 1 : Divides(p, s * s - x) THEN 1 ELSE -1
Jacobi(x, n) == LET j[k \in 1 .. n] == IF k = 1 THEN 1
                                        ELSE LET p == LeastFactor(k) IN Legendre(x, p) * j[k \div p]
                IN  j[n]

\* The numbers a call assigns, as pairs of a name and a value; a later pair
\* of the same name wins.
Assigned(c, v) ==
  LET a == c.a
      X == v[a[1]]
      Y == v[a[2]]
  IN  CASE c.op \in {"convert", "tconvert"} -> << <<a[2], a[1]>> >>
        [] c.op = "copy"     -> << <<a[2], X>> >>
        [] c.op = "negify"   -> << <<a[2], -X>> >>
        [] c.op = "absol"    -> << <<a[2], Mag(X)>> >>
        [] c.op = "add"      -> << <<a[3], X + Y>> >>
        [] c.op = "subtract" -> << <<a[3], X - Y>> >>
        [] c.op = "multiply" -> << <<a[3], X * Y>> >>
        [] c.op = "incr"     -> << <<a[3], X + a[2]>> >>
        [] c.op = "decr"     -> << <<a[3], X - a[2]>> >>
        [] c.op = "premult"  -> << <<a[3], X * a[2]>> >>
        [] c.op = "subdiv"   -> << <<a[3], Quot(X, a[2])>> >>
        [] c.op = "divide"   -> IF a[2] = a[3] THEN << <<a[1], Rem(X, Y)>> >>
                                ELSE << <<a[1], Rem(X, Y)>>, <<a[3], Quot(X, Y)>> >>
        [] c.op = "mad"      -> LET n == X * Y + (IF a[3] \in {a[1], a[2]} THEN 0 ELSE v[a[3]])
                                    q == << <<a[5], Quot(n, v[a[4]])>> >>
                                    r == << <<a[6], Rem(n, v[a[4]])>> >>
                                IN  IF a[5] = a[6] THEN q ELSE IF a[5] = a[4] THEN r ELSE q \o r
        [] c.op \in {"mr_shift", "sftbit"} ->
              << <<a[3], IF a[2] >= 0 THEN X * 2^a[2] ELSE Quot(X, 2^(-a[2]))>> >>
        [] c.op = "expb2"    -> << <<a[2], 2^a[1]>> >>
        [] c.op = "mr_and"   -> << <<a[3], IF a[1] = a[2] THEN X ELSE AndOf(Mag(X), Mag(Y))>> >>
        [] c.op = "mr_xor"   -> << <<a[3], IF a[1] = a[2] THEN X ELSE XorOf(Mag(X), Mag(Y))>> >>
        [] c.op = "expint"   -> << <<a[3], Pow(a[1], a[2])>> >>
        [] c.op = "power"    -> << <<a[4], IF X = 0 THEN 0 ELSE IF a[3] = a[4] \/ a[2] = 0 THEN Pow(X, a[2])
                                           ELSE Rem(Pow(X, a[2]), v[a[3]])>> >>
        [] c.op = "nroot"    -> << <<a[3], IF X = 0 \/ a[2] = 1 THEN X ELSE Sign(X) * Root(Mag(X), a[2])>> >>
        [] c.op = "bytes_to_big" -> << <<a[1], Octets(a[2], ByteBase)>> >>
        [] OTHER -> <<>>

\* Any cofactor of x will do; that of y follows.  A positive y keeps it positive.
Cofactors(c, v) ==
  LET a == c.a  X == v[a[1]]  Y == v[a[2]]  G == Gcd(X, Y)
      inv == c.op = "invmodp"
      xd == a[3]
      one == inv \/ a[3] = a[4]
  IN  { << <<IF one THEN xd ELSE a[4], IF one THEN d ELSE Quot(G - X * d, Y)>>, <<xd, d>> >>
        \o IF ~inv /\ a[5] \notin {a[3], a[4]} THEN << <<a[5], G>> >> ELSE <<>>
        : d \in {e \in -(2 * Mag(Y) + 1) .. Mag(Y) + 1 :
                  /\ IF Y = 0 THEN X * e = G ELSE Divides(Mag(Y), X * e - G)
                  /\ Y > 0 => 0 <= e /\ e <= Y} }
Outcomes(c, v) == IF c.op \in {"xgcd", "invmodp"} THEN Cofactors(c, v) ELSE {Assigned(c, v)}

Answer(c, v) ==
  LET a == c.a
      X == v[a[1]]
      Y == v[a[2]]
  IN  CASE c.op \in {"subdiv", "remain"} -> Rem(X, a[2])
        [] c.op = "compare"   -> Sign(X - Y)
        [] c.op = "hamming"   -> Ones(Mag(X))
        [] c.op = "logb2"     -> BitLength(Mag(X))
        [] c.op = "testbit"   -> (Mag(X) \div 2^a[2]) % 2
        [] c.op = "divisible" -> IF Rem(X, Y) = 0 THEN 1 ELSE 0
        [] c.op = "nroot"     -> IF X = 0 \/ Mag(X) = Pow(Root(Mag(X), a[2]), a[2]) THEN 1 ELSE 0
        [] c.op = "big_to_bytes" ->
             LET n == IF a[3] THEN Most(a[2], 0) ELSE Digits(Mag(X), ByteBase)
             IN  IF a[2] < 0 THEN <<>> ELSE [i \in 1 .. n |-> (Mag(X) \div ByteBase^(n-i)) % ByteBase]
        [] c.op \in {"xgcd", "invmodp"} -> Least(Gcd(X, Y), Beyond)
        [] c.op = "jack" -> IF X = 0 \/ Y < 1 \/ Y % 2 = 0 THEN 0 ELSE Jacobi(X, Y)
        [] c.op = "igcd" -> Gcd(a[1], a[2])
        [] c.op = "isqrt" -> Root(a[1], 2)
        [] OTHER -> 0

\* No value exists, or the operands overlap where the operation forbids it.
Undefined(c, v) ==
  LET a == c.a
  IN  \/ c.op \in {"subdiv", "remain"} /\ a[2] = 0
      \/ c.op = "divisible" /\ v[a[2]] = 0
      \/ c.op = "divide" /\ (v[a[2]] = 0 \/ a[1] = a[2])
      \/ c.op = "mad" /\ (v[a[4]] = 0 \/ a[4] = a[6])
      \/ c.op = "expb2" /\ a[1] < 0
      \/ c.op = "expint" /\ a[2] < 0
      \/ c.op = "power" /\ v[a[1]] # 0 /\ a[2] < 0
      \/ c.op = "nroot" /\ v[a[1]] # 0 /\ (a[2] < 1 \/ (a[2] % 2 = 0 /\ v[a[1]] < 0))
      \/ c.op = "xgcd" /\ a[3] # a[4] /\ v[a[2]] = 0
      \/ c.op = "big_to_bytes" /\ a[2] > 0 /\ Digits(Mag(v[a[1]]), ByteBase) > a[2]

Coarse(c, v) == \/ c.op = "multiply" /\ Mag(v[c.a[1]] * v[c.a[2]]) >= Tight
                \/ c.op \in {"xgcd", "invmodp"} /\ Most(Mag(v[c.a[1]]), Mag(v[c.a[2]])) >= Tight
                \/ c.op = "expint" /\ Mag(Pow(c.a[1], c.a[2])) >= Tight
                \/ c.op = "power" /\ c.a[3] = c.a[4] /\ Mag(Pow(v[c.a[1]], c.a[2])) >= Tight

Apply(pairs, v) == LET at(r) == {i \in DOMAIN pairs : pairs[i][1] = r}
                   IN  [r \in Reg |-> IF at(r) = {} THEN v[r]
                                      ELSE pairs[CHOOSE i \in at(r) : \A j \in at(r) : j <= i][2]]

\* The call c on the values v may fail; or it may leave the values w and answer ret.
MayFail(c, v) == \/ Undefined(c, v) \/ Coarse(c, v)
                 \/ \E i \in DOMAIN Assigned(c, v) : ~Fits(Assigned(c, v)[i][2])
MayReturn(c, v, w, ret) ==
  /\ ~Undefined(c, v)
  /\ \E pairs \in Outcomes(c, v) : /\ \A i \in DOMAIN pairs : Fits(pairs[i][2])
                                   /\ w = Apply(pairs, v)
  /\ ret = Answer(c, v)
=============================================================================
