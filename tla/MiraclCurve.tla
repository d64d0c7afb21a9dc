---------------------------- MODULE MiraclCurve ----------------------------
(* The points of the curve y^2 = x^3 + A*x + B modulo a prime, as mrcurve.c   *)
(* calculates with them.  A point has a marker: at infinity, normalized (its  *)
(* Z is not used), or general, standing for (X/Z^2, Y/Z^3).  Coordinates are  *)
(* residues in Montgomery's representation, n*R of the residue n.  The memory *)
(* is a record m: m.pt maps a name to a point, m.ERNUM is the sticky error of *)
(* the instance.  An operator with the name of a C function returns the       *)
(* memory it leaves; the scratch numbers of the instance are not part of it.  *)
EXTENDS Integers, Sequences, SequencesExt

CONSTANTS R,        \* the radix of the representation, above every modulus
          TooBig,   \* what size() answers of a number that is no small integer
          Store     \* odd multiples kept in the table of a multiplication (8)

ASSUME CurveAssumption == /\ R \in Nat \ {0} /\ TooBig \in Nat \ {0, 1}
                          /\ Store \in 2 .. 8

VARIABLE mip    \* the part of the instance that a curve fixes

GENERAL == 0
NORMALIZED == 1
INFINITY == 2
PROJECTIVE == 0
AFFINE == 1
BEST == 2
OVER == 0
ADD == 1
DOUBLE == 2
ERR_DIV_BY_ZERO == 2
ERR_BAD_PARAMETERS == 7
ERR_COMPOSITE_MODULUS == 28

Magnitude(n) == IF n < 0 THEN -n ELSE n
size(n) == IF n >= TooBig THEN TooBig ELSE IF n <= -TooBig THEN -TooBig ELSE n
Bit(n, i) == (n \div 2^i) % 2
logb2(n) == IF n = 0 THEN 0 ELSE 1 + CHOOSE i \in 0 .. n : 2^i <= n /\ n < 2^(i+1)

-----------------------------------------------------------------------------
(* Residues.                                                                  *)
a ++ b == LET s == a + b IN IF s >= mip.modulus THEN s - mip.modulus ELSE s
a -- b == LET d == a - b IN IF d < 0 THEN d + mip.modulus ELSE d
a ** b == (a * b * mip.unit) % mip.modulus
k \odot a == (k * a) % mip.modulus
Half(a) == IF a % 2 = 0 THEN a \div 2 ELSE (a + mip.modulus) \div 2
Nres(n) == (n * R) % mip.modulus
Redc(a) == (a * mip.unit) % mip.modulus
\* a/b, where there is no divisor that b and the modulus share.
Shared(b) == \E d \in 2 .. mip.modulus : b % d = 0 /\ mip.modulus % d = 0
a // b == CHOOSE q \in 0 .. mip.modulus - 1 : q ** b = a % mip.modulus

\* A times v, and B, by what their sizes allow.
TimesA(v) == IF Magnitude(mip.Asize) = TooBig THEN v ** mip.A ELSE mip.Asize \odot v
PlainB == IF Magnitude(mip.Bsize) = TooBig THEN mip.B ELSE Nres(mip.Bsize)
epoint_getrhs(x) == ((x ** x) ** x) ++ TimesA(x) ++ PlainB

\* Mutant: the sign of the small number is forgotten.
SizeUnsigned(n, p) == LET opposite == p - (n % p)
                      IN  IF size(n) = TooBig /\ opposite < TooBig THEN opposite ELSE size(n)
\* The size by which A and B are known: a big positive number that is minus
\* something small modulo p counts as that small negative number.
SizeModulo(n, p) == LET opposite == p - (n % p)
                    IN  IF size(n) = TooBig /\ opposite < TooBig THEN -opposite ELSE size(n)
\* The instance after ecurve_init() with a modulus that prepare_monty() accepts.
ecurve_init(a, b, p, type) ==
  [modulus |-> p, unit |-> CHOOSE u \in 0 .. p - 1 : (u * R) % p = 1, one |-> R % p,
   A |-> (a * R) % p, B |-> (b * R) % p, Asize |-> SizeModulo(a, p), Bsize |-> SizeModulo(b, p),
   coord |-> IF type = BEST THEN PROJECTIVE ELSE type]

-----------------------------------------------------------------------------
(* One point.                                                                 *)
Fresh == [X |-> 0, Y |-> 0, Z |-> 0, marker |-> INFINITY]
Failed(m, e) == [m EXCEPT !.ERNUM = e]
Infinite(m, P) == m.pt[P].marker = INFINITY
Place(m, P, x, y, z, marker) == [m EXCEPT !.pt[P] = [X |-> x, Y |-> y, Z |-> z, marker |-> marker]]

\* Mutant: the Z of a general point stays behind.
CopyWithoutZ(m, P, Q) == LET a == m.pt[P] IN Place(m, Q, a.X, a.Y, m.pt[Q].Z, a.marker)
epoint_copy(m, P, Q) ==
  LET a == m.pt[P]
  IN  IF P = Q THEN m
      ELSE Place(m, Q, a.X, a.Y, IF a.marker = GENERAL THEN a.Z ELSE m.pt[Q].Z, a.marker)
\* epoint_set() without coordinates.
AtInfinity(m, P) == IF m.ERNUM # 0 THEN m
                    ELSE Place(m, P, mip.one, mip.one, m.pt[P].Z, INFINITY)

\* With both coordinates: the point keeps them whether it is valid or not, and
\* gets the marker of a valid one.
Marked(m, P, x, y, valid) == Place(m, P, x, y, m.pt[P].Z, IF valid THEN NORMALIZED ELSE m.pt[P].marker)
set_valid(x, y) == Nres(y) ** Nres(y) = epoint_getrhs(Nres(x))
epoint_set(m, x, y, P) == IF m.ERNUM # 0 THEN m ELSE Marked(m, P, Nres(x), Nres(y), set_valid(x, y))
\* With one: y is a root, or zero when there is none, or the modulus less it.
RootsOf(v) == {y \in 0 .. mip.modulus - 1 : y ** y = v}
decompress_valid(x) == RootsOf(epoint_getrhs(Nres(x))) # {}
decompress(m, x, cb, P, root) ==
  LET y == IF Redc(root) % 2 # cb THEN mip.modulus - root ELSE root
  IN  IF m.ERNUM # 0 THEN m ELSE Marked(m, P, Nres(x), y, decompress_valid(x))
epoint_x(x) == RootsOf(epoint_getrhs(Nres(x))) # {}

\* (X*i^2, Y*i^3), i being 1/Z.
Scaled(m, P, i) == LET ii == i ** i
                   IN  Place(m, P, m.pt[P].X ** ii, m.pt[P].Y ** (ii ** i), mip.one, NORMALIZED)
epoint_norm(m, P) ==
  IF mip.coord = AFFINE \/ m.pt[P].marker # GENERAL \/ m.ERNUM # 0 THEN m
  ELSE IF Shared(m.pt[P].Z) THEN Failed(AtInfinity(m, P), ERR_COMPOSITE_MODULUS)
  ELSE Scaled(m, P, mip.one // m.pt[P].Z)
\* Mutant: points at infinity are not looked for.
MultiNormFinite(m, Ps) ==
  LET z(P) == IF m.pt[P].marker = NORMALIZED THEN mip.one ELSE m.pt[P].Z
  IN  IF mip.coord = AFFINE \/ m.ERNUM # 0 THEN m
      ELSE IF \E i \in DOMAIN Ps : z(Ps[i]) = 0 THEN Failed(m, ERR_DIV_BY_ZERO)
      ELSE FoldLeft(LAMBDA n, P : Scaled(n, P, mip.one // z(P)), m, Ps)
\* All the points of a sequence, with one inversion when none is at infinity.
epoint_multi_norm(m, Ps) ==
  LET z(P) == IF m.pt[P].marker = NORMALIZED THEN mip.one ELSE m.pt[P].Z
  IN  IF mip.coord = AFFINE \/ m.ERNUM # 0 THEN m
      ELSE IF \E i \in DOMAIN Ps : Infinite(m, Ps[i]) THEN FoldLeft(epoint_norm, m, Ps)
      ELSE IF \E i \in DOMAIN Ps : z(Ps[i]) = 0 THEN Failed(m, ERR_DIV_BY_ZERO)
      ELSE FoldLeft(LAMBDA n, P : Scaled(n, P, mip.one // z(P)), m, Ps)

\* The affine coordinates, and the low bit of y.
epoint_get(m, P) ==
  LET q == epoint_norm(m, P).pt[P]
  IN  IF Infinite(m, P) THEN <<0, 0, 0>> ELSE <<Redc(q.X), Redc(q.Y), Redc(q.Y) % 2>>

\* Mutant: zero is subtracted from the modulus.
NegateZero(m, P) == IF m.ERNUM # 0 \/ Infinite(m, P) THEN m
                    ELSE [m EXCEPT !.pt[P].Y = mip.modulus - @]
epoint_negate(m, P) == IF m.ERNUM # 0 \/ Infinite(m, P) \/ m.pt[P].Y = 0 THEN m
                       ELSE [m EXCEPT !.pt[P].Y = mip.modulus - @]

-----------------------------------------------------------------------------
(* Two points.                                                                *)
\* The Z that counts, and (X, Y) brought over the Z of another point.
ZOf(a) == IF a.marker = GENERAL THEN a.Z ELSE mip.one
Over(a, b) == LET z == ZOf(b)  zz == z ** z
              IN  [X |-> a.X ** zz, Y |-> a.Y ** (zz ** z)]

epoint_comp(m, P, Q) ==
  LET a == m.pt[P]  b == m.pt[Q]
  IN  /\ m.ERNUM = 0
      /\ \/ P = Q
         \/ Infinite(m, P) /\ Infinite(m, Q)
         \/ /\ ~Infinite(m, P) /\ ~Infinite(m, Q)
            /\ IF mip.coord = AFFINE THEN a.X = b.X /\ a.Y = b.Y ELSE Over(a, b) = Over(b, a)

\* Three times X squared and A times the fourth power of Z.
Tangent(a) ==
  LET zz == IF a.marker = NORMALIZED THEN Nres(1) ELSE a.Z ** a.Z
      xx == 3 \odot (a.X ** a.X)
  IN  CASE mip.Asize = -3 -> 3 \odot ((a.X -- zz) ** (a.X ++ zz))
        [] mip.Asize = 0  -> xx
        [] OTHER          -> xx ++ TimesA(zz ** zz)
DoubleAffine(m, P) ==
  LET a == m.pt[P]
      coefficient == IF Magnitude(mip.Asize) = TooBig THEN mip.A ELSE Nres(mip.Asize)
      slope == ((3 \odot (a.X ** a.X)) ++ coefficient) // (2 \odot a.Y)
      x == (slope ** slope) -- (2 \odot a.X)
  IN  IF Shared(2 \odot a.Y) THEN Failed(AtInfinity(m, P), ERR_COMPOSITE_MODULUS)
      ELSE Place(m, P, x, ((a.X -- x) ** slope) -- a.Y, a.Z, a.marker)
DoubleProjective(m, P) ==
  LET a == m.pt[P]
      yy == a.Y ** a.Y
      s == 4 \odot (a.X ** yy)
      t == Tangent(a)
      x == ((t ** t) -- s) -- s
      z == IF a.marker = NORMALIZED THEN a.Y ELSE a.Z ** a.Y
      eighth == 2 \odot ((2 \odot yy) ** (2 \odot yy))
  IN  Place(m, P, x, (t ** (s -- x)) -- eighth, 2 \odot z, GENERAL)
ecurve_double(m, P) ==
  IF m.ERNUM # 0 \/ Infinite(m, P) THEN m
  ELSE IF m.pt[P].Y = 0 THEN AtInfinity(m, P)
  ELSE IF mip.coord = AFFINE THEN DoubleAffine(m, P) ELSE DoubleProjective(m, P)

\* How far two finite points are apart, over a common Z.
Apart(m, P, Q) ==
  LET u == Over(m.pt[Q], m.pt[P])  v == Over(m.pt[P], m.pt[Q])
  IN  IF mip.coord = AFFINE
      THEN [dx |-> m.pt[P].X -- m.pt[Q].X, dy |-> m.pt[P].Y -- m.pt[Q].Y]
      ELSE [dx |-> u.X -- v.X, dy |-> u.Y -- v.Y, sx |-> u.X ++ v.X, sy |-> u.Y ++ v.Y]
\* Mutant: points of one x count as equal.
SameX(m, P, Q) == Apart(m, P, Q).dx = 0
\* Q becomes the sum of different points; padd_fails tells that they are equal.
padd_fails(m, P, Q) == LET d == Apart(m, P, Q) IN d.dx = 0 /\ d.dy = 0
ChordAffine(m, P, Q, d) ==
  LET slope == d.dy // d.dx
      x == ((slope ** slope) -- m.pt[P].X) -- m.pt[Q].X
  IN  IF Shared(d.dx) THEN Failed(AtInfinity(m, Q), ERR_COMPOSITE_MODULUS)
      ELSE Place(m, Q, x, ((m.pt[Q].X -- x) ** slope) -- m.pt[Q].Y, m.pt[Q].Z, NORMALIZED)
ChordProjective(m, P, Q, d) ==
  LET dd == d.dx ** d.dx
      w == dd ** d.sx
      x == (d.dy ** d.dy) -- w
      y == (d.dy ** ((w -- x) -- x)) -- ((dd ** d.dx) ** d.sy)
  IN  Place(m, Q, x, Half(y), (ZOf(m.pt[Q]) ** ZOf(m.pt[P])) ** d.dx, GENERAL)
\* Mutant: opposite points are added like any others.
PaddOpposite(m, P, Q) ==
  LET d == Apart(m, P, Q)
  IN  IF mip.coord = AFFINE THEN ChordAffine(m, P, Q, d) ELSE ChordProjective(m, P, Q, d)
ecurve_padd(m, P, Q) ==
  LET d == Apart(m, P, Q)
  IN  IF d.dx = 0 THEN AtInfinity(m, Q)
      ELSE IF mip.coord = AFFINE THEN ChordAffine(m, P, Q, d) ELSE ChordProjective(m, P, Q, d)

\* Q becomes the sum.
ecurve_add(m, P, Q) ==
  IF m.ERNUM # 0 THEN m
  ELSE IF P = Q THEN ecurve_double(m, Q)
  ELSE IF Infinite(m, Q) THEN epoint_copy(m, P, Q)
  ELSE IF Infinite(m, P) THEN m
  ELSE IF padd_fails(m, P, Q) THEN ecurve_double(m, Q)
  ELSE ecurve_padd(m, P, Q)
add_ret(m, P, Q) ==
  LET over == IF Infinite(ecurve_add(m, P, Q), Q) THEN OVER ELSE ADD
  IN  IF m.ERNUM # 0 THEN OVER
      ELSE IF P = Q THEN IF over = OVER THEN OVER ELSE DOUBLE
      ELSE IF Infinite(m, Q) \/ Infinite(m, P) THEN ADD
      ELSE IF padd_fails(m, P, Q) THEN DOUBLE ELSE over

\* Mutant: P stays negated.
SubWithoutRestoring(m, P, Q) ==
  IF m.ERNUM # 0 THEN m
  ELSE IF P = Q THEN AtInfinity(m, Q)
  ELSE IF Infinite(m, P) THEN m
  ELSE ecurve_add(epoint_negate(m, P), P, Q)
\* Q becomes the difference; P is negated and negated back.
ecurve_sub(m, P, Q) ==
  IF m.ERNUM # 0 THEN m
  ELSE IF P = Q THEN AtInfinity(m, Q)
  ELSE IF Infinite(m, P) THEN m
  ELSE epoint_negate(ecurve_add(epoint_negate(m, P), P, Q), P)
sub_ret(m, P, Q) ==
  IF m.ERNUM # 0 \/ P = Q THEN OVER
  ELSE IF Infinite(m, P) THEN ADD
  ELSE add_ret(epoint_negate(m, P), P, Q)

-----------------------------------------------------------------------------
(* Multiples.                                                                 *)

\* Mutant: the digit given back stays counted.
WindowOverrun(x, x3, i) ==
  LET d(j) == Bit(x3, j) - Bit(x, j)
      r[j \in 1 .. i] == IF j = i THEN d(i) ELSE 2 * r[j+1] + d(j)
      beyond == {j \in 1 .. i - 1 : Magnitude(r[j]) > 2 * Store - 1}
      stop == IF beyond = {} THEN 1 ELSE CHOOSE j \in beyond : \A k \in beyond : k <= j
      last == IF beyond # {} /\ r[stop] % 2 # 0 THEN stop + 1 ELSE stop
      zeros == CHOOSE k \in 0 .. i : r[last] % 2^k = 0 /\ (r[last] \div 2^k) % 2 # 0
  IN  IF d(i) = 0 THEN [n |-> 0, nbs |-> 1, nzs |-> 0]
      ELSE [n |-> r[last] \div 2^zeros, nbs |-> i - stop + 1 - zeros, nzs |-> zeros]
\* A window of the signed digits of (x3-x)/2, from bit i down: digits are read
\* until their value exceeds the table, one is given back when it is odd by
\* then, and the zeros at its end are counted apart.
mr_naf_window(x, x3, i) ==
  LET d(j) == Bit(x3, j) - Bit(x, j)
      r[j \in 1 .. i] == IF j = i THEN d(i) ELSE 2 * r[j+1] + d(j)
      beyond == {j \in 1 .. i - 1 : Magnitude(r[j]) > 2 * Store - 1}
      stop == IF beyond = {} THEN 1 ELSE CHOOSE j \in beyond : \A k \in beyond : k <= j
      last == IF beyond # {} /\ r[stop] % 2 # 0 THEN stop + 1 ELSE stop
      zeros == CHOOSE k \in 0 .. i : r[last] % 2^k = 0 /\ (r[last] \div 2^k) % 2 # 0
  IN  IF d(i) = 0 THEN [n |-> 0, nbs |-> 1, nzs |-> 0]
      ELSE [n |-> r[last] \div 2^zeros, nbs |-> i - last + 1 - zeros, nzs |-> zeros]

RECURSIVE Doubled(_, _, _)
Doubled(m, P, n) == IF n = 0 THEN m ELSE Doubled(ecurve_double(m, P), P, n - 1)

\* The table of odd multiples P, 3P, .. (2*Store-1)P of a multiplication.
Table == SubSeq(<<"t0", "t1", "t2", "t3", "t4", "t5", "t6", "t7">>, 1, Store)
OddMultiples(m, P) ==
  LET last == Table[Store]
      t == [m EXCEPT !.pt = [Q \in DOMAIN m.pt \union ToSet(Table) |->
                               IF Q \in DOMAIN m.pt THEN m.pt[Q] ELSE Fresh]]
      twice == ecurve_double(epoint_copy(epoint_copy(t, P, Table[1]), Table[1], last), last)
      up == FoldLeft(LAMBDA n, i : ecurve_add(epoint_copy(n, Table[i-1], Table[i]), last, Table[i]),
                     twice, [k \in 1 .. Store - 2 |-> k + 1])
  IN  epoint_multi_norm(ecurve_add(up, Table[Store-1], last), Table)

\* From bit i of 3e down, counting the additions.
RECURSIVE Windows(_, _, _, _, _)
Windows(m, P, e, i, nadds) ==
  LET w == mr_naf_window(e, 3 * e, i)
      d == Doubled(m, P, w.nbs)
      a == CASE w.n > 0 -> ecurve_add(d, Table[w.n \div 2 + 1], P)
             [] w.n < 0 -> ecurve_sub(d, Table[(-w.n) \div 2 + 1], P)
             [] OTHER   -> d
  IN  IF i < 1 THEN [m |-> m, nadds |-> nadds]
      ELSE Windows(Doubled(a, P, w.nzs), P, e, i - w.nbs - w.nzs, nadds + IF w.n # 0 THEN 1 ELSE 0)

\* Mutant: the sign of the factor is dropped.
UnsignedCopy(m, e, P, Q) == epoint_copy(m, P, Q)
\* Q becomes e times P.
SignedCopy(m, e, P, Q) == LET c == epoint_copy(m, P, Q) IN IF e < 0 THEN epoint_negate(c, Q) ELSE c
Multiplied(m, e, P, Q) == LET k == Magnitude(e)
                          IN  Windows(AtInfinity(OddMultiples(SignedCopy(m, e, P, Q), Q), Q),
                                      Q, k, logb2(3 * k) - 1, 0)
ecurve_mult(m, e, P, Q) ==
  IF m.ERNUM # 0 THEN m
  ELSE IF e = 0 THEN AtInfinity(m, Q)
  ELSE IF Magnitude(e) = 1 THEN SignedCopy(m, e, P, Q)
  ELSE LET r == Multiplied(m, e, P, Q).m
       IN  [r EXCEPT !.pt = [N \in DOMAIN m.pt |-> r.pt[N]]]
mult_ret(m, e, P, Q) == IF m.ERNUM # 0 \/ Magnitude(e) <= 1 THEN 0 ELSE Multiplied(m, e, P, Q).nadds

-----------------------------------------------------------------------------
(* Sums of two multiples.                                                     *)

\* Mutant: the difference gets the y of the mirrored point.
AddSubMirrored(m, P, Q, PP, PM) ==
  LET a == m.pt[P]  b == m.pt[Q]
      by == mip.one // (a.X -- b.X)
      sum == a.X ++ b.X
      along(s, y) == LET x == (s ** s) -- sum IN <<x, ((b.X -- x) ** s) -- y>>
      p == along((a.Y -- b.Y) ** by, b.Y)
      q == along((a.Y ++ b.Y) ** by, b.Y)
      plus == ecurve_add(epoint_copy(m, P, PP), Q, PP)
  IN  IF m.ERNUM # 0 THEN m
      ELSE IF GENERAL \in {a.marker, b.marker} THEN Failed(m, ERR_BAD_PARAMETERS)
      ELSE IF a.X = b.X THEN ecurve_sub(epoint_copy(plus, P, PM), Q, PM)
      ELSE Place(Place(m, PP, p[1], p[2], m.pt[PP].Z, NORMALIZED), PM, q[1], q[2], m.pt[PM].Z, NORMALIZED)
\* P+Q and P-Q of normalized points, with one inversion.
ecurve_add_sub(m, P, Q, PP, PM) ==
  LET a == m.pt[P]  b == m.pt[Q]
      by == mip.one // (a.X -- b.X)
      sum == a.X ++ b.X
      along(s, y) == LET x == (s ** s) -- sum IN <<x, ((b.X -- x) ** s) -- y>>
      p == along((a.Y -- b.Y) ** by, b.Y)
      q == along((a.Y ++ b.Y) ** by, 0)
      plus == ecurve_add(epoint_copy(m, P, PP), Q, PP)
  IN  IF m.ERNUM # 0 THEN m
      ELSE IF GENERAL \in {a.marker, b.marker} THEN Failed(m, ERR_BAD_PARAMETERS)
      ELSE IF a.X = b.X THEN ecurve_sub(epoint_copy(plus, P, PM), Q, PM)
      ELSE Place(Place(m, PP, p[1], p[2], m.pt[PP].Z, NORMALIZED),
                 PM, q[1], q[2] ++ b.Y, m.pt[PM].Z, NORMALIZED)

\* The joint sparse form of two numbers: pairs of signed digits, lowest first.
RECURSIVE mr_jsf(_, _, _, _)
mr_jsf(k0, k1, d0, d1) ==
  LET l0 == (k0 + d0) % 8  l1 == (k1 + d1) % 8
      digit(l, other) == LET u == IF l % 2 = 0 THEN 0 ELSE 2 - (l % 4)
                         IN  IF l \in {3, 5} /\ other % 4 = 2 THEN -u ELSE u
      u0 == digit(l0, l1)  u1 == digit(l1, l0)
      carry(d, u) == IF d + d = 1 + u THEN 1 - d ELSE d
  IN  IF <<k0, k1, d0, d1>> = <<0, 0, 0, 0>> THEN <<>>
      ELSE << <<u0, u1>> >> \o mr_jsf(k0 \div 2, k1 \div 2, carry(d0, u0), carry(d1, u1))

\* T becomes e times P and f times Q.
ecurve_mult2(m, e, P, f, Q, T) ==
  LET own == {"p1", "p2", "sum", "difference"}
      start == [m EXCEPT !.pt = [N \in DOMAIN m.pt \union own |->
                                   IF N \in DOMAIN m.pt THEN m.pt[N] ELSE Fresh]]
      q == SignedCopy(epoint_norm(start, Q), f, Q, "p2")
      p == SignedCopy(epoint_norm(q, P), e, P, "p1")
      ready == ecurve_add_sub(AtInfinity(p, T), "p1", "p2", "sum", "difference")
      term(u) == CASE u[2] = 0      -> "p2"
                   [] u[1] = 0      -> "p1"
                   [] u[1] = u[2]   -> "sum"
                   [] OTHER         -> "difference"
      signOf(u) == IF u[2] # 0 THEN u[2] ELSE u[1]
      step(n, u) == LET d == ecurve_double(n, T)
                    IN  CASE signOf(u) = 1  -> ecurve_add(d, term(u), T)
                          [] signOf(u) = -1 -> ecurve_sub(d, term(u), T)
                          [] OTHER -> d
      r == FoldLeft(step, ready, Reverse(mr_jsf(Magnitude(f), Magnitude(e), 0, 0)))
  IN  IF m.ERNUM # 0 THEN m
      ELSE IF e = 0 THEN ecurve_mult(m, f, Q, T)
      ELSE [r EXCEPT !.pt = [N \in DOMAIN m.pt |-> r.pt[N]]]
=============================================================================
