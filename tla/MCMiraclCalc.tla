---------------------------- MODULE MCMiraclCalc ----------------------------
(* Small numbers for MiraclCalc: three words of three bits.                   *)
EXTENDS MiraclCalc, Bitwise

AndBits(a, b) == a & b
XorBits(a, b) == a ^^ b

Names     == {"a", "b"}
PlusMinus(S) == S \union {-n : n \in S}
Thin(S, n) == {i \in S : i % n = 1}
Ends      == {0, 1, 7, 8, 9, 63, 64, 448, 511}
NoArgument == [small |-> {}, shifts |-> {}, exponents |-> {}, octets |-> {}, radicands |-> {}]
With(x, y, ops) == [a |-> x, rest |-> y, ops |-> ops] @@ NoArgument

\* Sums, differences, comparisons and words of numbers of one to three words.
Sums == With(PlusMinus(Ends \union {5, 40, 52, 60, 439}), PlusMinus(Ends \union {12, 56}),
             {"copy", "negify", "absol", "add", "subtract", "multiply", "divisible", "mr_and", "mr_xor",
              "compare", "logb2", "hamming"})
\* The same numbers with a small integer, or shifted.
Digits == [With(PlusMinus(Ends \union {5, 40, 52, 60, 439}), {0, -511},
                {"convert", "incr", "decr", "premult", "subdiv", "remain", "mr_shift", "sftbit", "expb2", "testbit"})
           EXCEPT !.small = -7 .. 7, !.shifts = -9 .. 9]
\* Every two-word divisor, dividends of three words that make a guess fail, and
\* divisors of three words, for which a refined guess still fails.
Division == With(Thin(0 .. 511, 5), (8 .. 63) \union {65, 67, 75, 127}, {"divide"})
Fused == With(PlusMinus({0, 7, 60, 511}), PlusMinus({1, 9, 63, 448}), {"mad"})
Powers == [With(PlusMinus({0, 1, 2, 3, 5, 8} \union Thin(9 .. 511, 31)), {-16, 0, 7}, {"power", "expint", "nroot"})
           EXCEPT !.exponents = -1 .. 3, !.small = -7 .. 7]
HighPowers == [With(PlusMinus({2, 3, 31, 32, 33, 63}), {-16, 0, 7}, {"power", "expint", "nroot"})
               EXCEPT !.exponents = 4 .. 5, !.small = -7 .. 7]
Strings == [With({0, -9, 8, 85, 300, 511}, {0}, {"bytes_to_big", "big_to_bytes"})
            EXCEPT !.exponents = -1 .. 10,
                   !.octets = UNION {[1 .. n -> {0, 1}] : n \in {0, 1, 4, 7}} \union {[i \in 1 .. 10 |-> 1]}]
Euclid == With({0, 1, 2, 24, 511} \union Thin(8 .. 511, 23), {0, 75, 511}, {"xgcd", "invmodp", "jack"})
\* A negative divisor makes its own cofactor up to twice the other number, which
\* therefore stays below half of the largest one.
EuclidBelow == With(PlusMinus({0, 1, 24, 250} \union Thin(8 .. 250, 22)), {-15, -75, 75}, {"xgcd", "invmodp", "jack"})
\* The root of the largest word comes out as zero from some guesses.
Small == [With({0}, {0}, {"igcd", "isqrt"}) EXCEPT !.radicands = 0 .. B - 2]

AllPrograms == {Sums, Digits, Division, Fused, Powers, HighPowers, Strings, Euclid, EuclidBelow, Small}
=============================================================================
