----------------------------- MODULE CurveCalls -----------------------------
(* A program that calls the elliptic curve arithmetic of MIRACL on points of  *)
(* its own, the operands of a call chosen with every overlap and in every form *)
(* the library may hold them in, and what the library makes of the call: the  *)
(* algorithms of MiraclCurve.                                                 *)
EXTENDS MiraclCurve, TLC

CONSTANTS Names,        \* the points of the program
          Programs      \* the programs of the run: the curves [a, b, p, type], the Z of
                        \* general points, which points are anything at first, the calls
                        \* made and the coordinates and scalars they are made with

VARIABLES program,
          curve,        \* what the library was initialised with
          pt,           \* the points, as the library represents them
          call          \* the operation called, with its operands

vars == <<program, curve, mip, pt, call>>
NoCall == [op |-> "none", a |-> <<>>]
Group == INSTANCE CurveGroup WITH curve <- [p |-> mip.modulus, a |-> curve.a % mip.modulus, b |-> curve.b % mip.modulus]

\* The forms in which the library may hold a point of the curve; a point at
\* infinity has the coordinates it had before, or ones, or those epoint_set
\* refused, a Y that is the modulus among them.
Forms(ZValues) ==
  LET on == {q \in (0 .. curve.p - 1) \X (0 .. curve.p - 1) :
               (q[2] * q[2] - q[1] * q[1] * q[1] - curve.a * q[1] - curve.b) % curve.p = 0}
      form(n) == (n * R) % curve.p
      normal(q) == [X |-> form(q[1]), Y |-> form(q[2]), Z |-> 0, marker |-> NORMALIZED]
      general(q, z) == [X |-> form(q[1] * z * z), Y |-> form(q[2] * z * z * z), Z |-> form(z), marker |-> GENERAL]
  IN  {Fresh, [Fresh EXCEPT !.X = mip.one, !.Y = mip.one], [Fresh EXCEPT !.X = 1, !.Y = mip.modulus, !.Z = 3]}
        \union {normal(q) : q \in on}
        \union IF mip.coord = AFFINE THEN {} ELSE {general(q, z) : q \in on, z \in ZValues}

Init == /\ program \in Programs
        /\ curve \in program.curves
        /\ mip = ecurve_init(curve.a, curve.b, curve.p, curve.type)
        /\ pt \in [Names -> Forms(program.zs)] /\ \A P \in Names \ program.varied : pt[P] = Fresh
        /\ call = NoCall

Called(op, args) == /\ call = NoCall /\ op \in program.ops
                    /\ call' = [op |-> op, a |-> args]
                    /\ UNCHANGED <<program, curve, mip, pt>>

CallOnePoint(P) == \E op \in {"infinity", "get", "norm", "negate", "double"} : Called(op, <<P>>)
CallTwoPoints(P, Q) == \E op \in {"copy", "comp", "add", "sub"} : Called(op, <<P, Q>>)
CallSet(x, y, P) == Called("set", <<x, y, P>>)
\* The library leaves to its callers the low bit 1 of a y that is zero.
CallDecompress(x, cb, P) == ~(cb = 1 /\ epoint_getrhs(Nres(x)) = 0) /\ Called("decompress", <<x, cb, P>>)
CallHasPoint(x) == Called("x", <<x>>)
CallMultiNorm(P, Q) == P # Q /\ Called("multi_norm", <<P, Q>>)
CallMult(e, P, Q) == Called("mult", <<e, P, Q>>)
\* And operands at infinity of a joint multiple.
CallMult2(e, P, f, Q, T) == /\ e # 0 => INFINITY \notin {pt[P].marker, pt[Q].marker}
                            /\ Called("mult2", <<e, P, f, Q, T>>)

Next ==
  \/ \E P \in Names : CallOnePoint(P)
  \/ \E P, Q \in Names : CallTwoPoints(P, Q)
  \/ \E P, Q \in Names : CallMultiNorm(P, Q)
  \/ \E x, y \in program.coordinates, P \in Names : CallSet(x, y, P)
  \/ \E x \in program.coordinates, cb \in {0, 1}, P \in Names : CallDecompress(x, cb, P)
  \/ \E x \in program.coordinates : CallHasPoint(x)
  \/ \E e \in program.scalars, P, Q \in Names : CallMult(e, P, Q)
  \/ \E e, f \in program.scalars, P, Q, T \in Names : CallMult2(e, P, f, Q, T)

Spec == Init /\ [][Next]_vars

-----------------------------------------------------------------------------
(* The library.                                                               *)
\* The affine point that a point stands for.
Affine(q) ==
  LET over == IF q.marker = GENERAL THEN mip.one // q.Z ELSE mip.one
      ii == over ** over
  IN  IF q.marker = INFINITY THEN <<>>
      ELSE <<Redc(q.X ** ii), Redc(q.Y ** (ii ** over))>>
Points(m) == [P \in Names |-> Affine(m.pt[P])]

\* What a call with the operands a may make of the memory m: the memory it leaves
\* and its answer.  A root may come out either way, and is zero where there is
\* none.
Ran(n, ret) == {[m |-> n, ret |-> ret]}
Done(n)     == Ran(n, 0)
Roots(x) == LET roots == RootsOf(epoint_getrhs(Nres(x))) IN IF roots = {} THEN {0} ELSE roots

Set(m, a)         == Ran(epoint_set(m, a[1], a[2], a[3]), set_valid(a[1], a[2]))
Decompress(m, a)  == UNION {Ran(decompress(m, a[1], a[2], a[3], root), decompress_valid(a[1])) : root \in Roots(a[1])}
HasPoint(m, a)    == Ran(m, epoint_x(a[1]))
SetInfinity(m, a) == Done(AtInfinity(m, a[1]))
Get(m, a)         == Ran(epoint_norm(m, a[1]), epoint_get(m, a[1]))
Norm(m, a)        == Done(epoint_norm(m, a[1]))
MultiNorm(m, a)   == Done(epoint_multi_norm(m, a))
Copy(m, a)        == Done(epoint_copy(m, a[1], a[2]))
Comp(m, a)        == Ran(m, epoint_comp(m, a[1], a[2]))
Negate(m, a)      == Done(epoint_negate(m, a[1]))
Double(m, a)      == Done(ecurve_double(m, a[1]))
Add(m, a)         == Ran(ecurve_add(m, a[1], a[2]), add_ret(m, a[1], a[2]))
Sub(m, a)         == Ran(ecurve_sub(m, a[1], a[2]), sub_ret(m, a[1], a[2]))
Mult(m, a)        == Ran(ecurve_mult(m, a[1], a[2], a[3]), mult_ret(m, a[1], a[2], a[3]))
Mult2(m, a)       == Done(ecurve_mult2(m, a[1], a[2], a[3], a[4], a[5]))

Run(c, m) ==
  CASE c.op = "set" -> Set(m, c.a)              [] c.op = "decompress" -> Decompress(m, c.a)
    [] c.op = "x" -> HasPoint(m, c.a)           [] c.op = "infinity" -> SetInfinity(m, c.a)
    [] c.op = "get" -> Get(m, c.a)              [] c.op = "norm" -> Norm(m, c.a)
    [] c.op = "multi_norm" -> MultiNorm(m, c.a) [] c.op = "copy" -> Copy(m, c.a)
    [] c.op = "comp" -> Comp(m, c.a)            [] c.op = "negate" -> Negate(m, c.a)
    [] c.op = "double" -> Double(m, c.a)        [] c.op = "add" -> Add(m, c.a)
    [] c.op = "sub" -> Sub(m, c.a)              [] c.op = "mult" -> Mult(m, c.a)
    [] c.op = "mult2" -> Mult2(m, c.a)
Memory == [pt |-> pt, ERNUM |-> 0]

-----------------------------------------------------------------------------
(* Properties.                                                                *)

\* Every call means its operation of the group, whichever form the points have,
\* whichever of its operands are the same point, whichever size A and B are
\* known by: the formulas, the windows over the digits of 3e-e, the table with
\* its one inversion and the joint sparse form all work out (mrcurve.c).
Implements ==
  [][\A c \in {call'} :
       \A ran \in Run(c, Memory) :
         \A w \in {Points(ran.m)} : Group!MayReturn(c, Points(Memory), w, ran.ret)]_vars

\* A point that was finite when epoint_set refused its new coordinates: it has
\* them all the same, under the marker it had, and is no point of the curve.
Spoilt(c, ret, P) == /\ c.op \in {"set", "decompress"} /\ ~ret
                     /\ P = c.a[3] /\ pt[P].marker # INFINITY

\* A call leaves points of the curve with coordinates below the modulus and a Z
\* that can be divided by, and never runs into an inverse that does not exist:
\* what the additions and negations that correct once take for granted.  The one
\* exception is a finite point given coordinates off the curve (mrcurve.c:148-185);
\* a point at infinity, which is all that SM2_sv.c sets, stays there instead.
Sound ==
  [][\A c \in {call'} :
       \A ran \in Run(c, Memory) :
         /\ ran.m.ERNUM = 0
         /\ \A P \in Names :
              LET q == ran.m.pt[P]
              IN  q.marker # INFINITY /\ ~Spoilt(c, ran.ret, P) =>
                    /\ {q.X, q.Y} \subseteq 0 .. mip.modulus - 1
                    /\ q.marker = GENERAL => mip.coord = PROJECTIVE /\ q.Z \in 1 .. mip.modulus - 1
                    /\ Affine(q) \in Group!Points]_vars
=============================================================================
