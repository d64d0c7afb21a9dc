---------------------------- MODULE MCCurveCalls ----------------------------
(* Small curves for CurveCalls.                                               *)
EXTENDS CurveCalls

Pair == {"P", "Q"}
Curve(a, b, p, type) == [a |-> a, b |-> b, p |-> p, type |-> type]
\* A is minus three, zero, small, big, minus something small; three curves have
\* points of order two.
Sizes == {Curve(10, 3, 13, BEST), Curve(-3, 8, 13, PROJECTIVE), Curve(0, 3, 7, BEST), Curve(2, 1, 5, PROJECTIVE),
          Curve(6, 12, 13, BEST), Curve(12, 9, 13, BEST), Curve(1, 0, 7, BEST),
          Curve(10, 3, 13, AFFINE), Curve(2, 2, 11, AFFINE), Curve(6, 12, 13, AFFINE)}
Few   == {Curve(10, 3, 13, BEST), Curve(2, 1, 5, PROJECTIVE), Curve(8, 4, 11, AFFINE)}
Small == {Curve(2, 4, 5, BEST), Curve(1, 0, 7, BEST), Curve(2, 4, 5, AFFINE)}

Program(curves, zs, varied, ops) == [curves |-> curves, zs |-> zs, varied |-> varied, ops |-> ops,
                                     coordinates |-> {}, scalars |-> {}]
OnePoints  == [Program(Sizes, {1, 2, 4}, {"P"},
                       {"set", "infinity", "decompress", "x", "get", "norm", "negate", "double"})
               EXCEPT !.coordinates = -1 .. 12]
Sums       == Program(Sizes, {1, 2, 4}, Pair, {"multi_norm", "copy", "comp", "add", "sub"})
Multiples  == [Program(Few, {3}, {"P"}, {"mult"}) EXCEPT !.scalars = {-60, -9, -2} \union {e \in 0 .. 60 : e % 4 = 3 \/ e < 8}]
Joint      == [Program(Small, {3}, Pair, {"mult2"}) EXCEPT !.scalars = {-2, 0, 1, 3, 6, 11}]
AllPrograms == {OnePoints, Sums, Multiples, Joint}
=============================================================================
