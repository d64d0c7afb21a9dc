---------------------------- MODULE MCMontyCalc ----------------------------
(* Small moduli for MontyCalc: words of four bits.                            *)
EXTENDS MontyCalc, Bitwise

AndBits(a, b) == a & b
XorBits(a, b) == a ^^ b

Pair == {"a", "b"}
Program(moduli, x, y, ops) == [moduli |-> moduli, a |-> x, rest |-> y, ops |-> ops, newModuli |-> {},
                             integers |-> {}, factors |-> {}, indices |-> {}]
\* Every residue of the one-word moduli, composite ones among them.
OneWord == [Program({0, 3, 5, 7, 9, 13, 15}, 0 .. 14, 0 .. 14,
              {"prepare", "nres", "redc", "modadd", "modsub", "modmult", "negate", "div2", "div3", "div5",
               "premult", "moddiv", "double_inverse", "complex"})
            EXCEPT !.newModuli = {1, 2, 3, 7, 12, 21}, !.integers = {-30, -1, 0, 1, 4, 13, 200},
                   !.factors = {-7, -1, 0, 1, 2, 3, 9}]
\* Two-word moduli with and without room for a carry, sums and products unreduced.
TwoWords == Program({19, 67, 101, 251, 255}, {0, 1, 8, 18, 66, 100, 250, 254}, {0, 5, 18, 99, 254},
              {"redc", "modadd", "modsub", "modmult", "moddiv", "multi_inverse", "complex", "lazy"})
\* Square roots and Lucas sequences modulo primes of every class modulo 8.
Roots == [Program({3, 5, 7, 11, 13, 17, 23, 73}, 0 .. 72, {1}, {"nres_sqroot", "nres_lucas", "sqroot", "lucas"})
          EXCEPT !.newModuli = {1, 12, 17}, !.integers = {-1, 4, 13}, !.indices = 0 .. 5]
AllPrograms == {OneWord, TwoWords, Roots}
=============================================================================
