---------------------------- MODULE NumberLemmas ----------------------------
(***************************************************************************)
(* What the proofs need of numbers: induction, quotients and rests, and    *)
(* congruence.                                                             *)
(***************************************************************************)
EXTENDS Integers, TLAPS, WellFoundedInduction

LEMMA LessWF == IsWellFoundedOn({ss \in Nat \X Nat : ss[1] < ss[2]}, Nat)
BY NatLessThanWellFounded DEF OpToRel

\* Induction, over a set instead of an operator.
LEMMA SetInduction ==
  ASSUME NEW S, 0 \in S, \A n \in Nat : n \in S => n + 1 \in S
  PROVE  Nat \subseteq S
<1> DEFINE R == {ss \in Nat \X Nat : ss[1] < ss[2]}
           T == Nat \ S
<1>1. IsWellFoundedOn(R, Nat)
  BY LessWF
<1> SUFFICES ASSUME T # {} PROVE FALSE
  OBVIOUS
<1>2. PICK x \in T : \A y \in T : ~ (<<y, x>> \in R)
  <2> HIDE DEF R
  <2> QED
    BY <1>1, WFMin
<1>3. x - 1 \in T /\ <<x - 1, x>> \in R
  BY <1>2
<1> QED
  BY <1>2, <1>3

\* What a first value has, and every step keeps, all values of a row have.
LEMMA StepsKeep ==
  ASSUME NEW n \in Nat, NEW S, NEW f, f[0] \in S, \A k \in 1 .. n : f[k-1] \in S => f[k] \in S
  PROVE  \A k \in 0 .. n : f[k] \in S
<1> DEFINE R == {k \in Nat : k <= n => f[k] \in S}
<1>1. 0 \in R
  OBVIOUS
<1>2. ASSUME NEW k \in Nat, k \in R PROVE k + 1 \in R
  <2> SUFFICES ASSUME k + 1 <= n PROVE f[k + 1] \in S
    OBVIOUS
  <2>1. k + 1 \in 1 .. n /\ (k + 1) - 1 = k /\ f[k] \in S
    BY <1>2
  <2> QED
    BY <2>1
<1>3. Nat \subseteq R
  <2> HIDE DEF R
  <2> QED
    BY <1>1, <1>2, SetInduction
<1> QED
  BY <1>3

\* A row whose values come one out of the other, and that there is one.
IsSteps(f, n, first, step) == f = [k \in 0 .. n |-> IF k = 0 THEN first ELSE step[<<f[k-1], k>>]]
LEMMA RowOfSteps ==
  ASSUME NEW n \in Nat, NEW S, NEW first \in S, NEW step \in [S \X Nat -> S]
  PROVE  \E f \in [0 .. n -> S] : IsSteps(f, n, first, step)
<1> DEFINE Row(f, m) == /\ f \in [0 .. m -> S] /\ f[0] = first
                        /\ \A k \in 1 .. m : f[k] = step[<<f[k-1], k>>]
           R == {m \in Nat : \E f : Row(f, m)}
<1>1. 0 \in R
  <2>1. Row([k \in 0 .. 0 |-> first], 0)
    OBVIOUS
  <2> QED
    BY <2>1
<1>2. ASSUME NEW m \in Nat, m \in R PROVE m + 1 \in R
  <2>1. PICK f : Row(f, m)
    BY <1>2
  <2> DEFINE g == [k \in 0 .. m + 1 |-> IF k = m + 1 THEN step[<<f[m], k>>] ELSE f[k]]
  <2>2. step[<<f[m], m + 1>>] \in S
    BY <2>1
  <2>3. g \in [0 .. m + 1 -> S]
    BY <2>1, <2>2
  <2>4. g[0] = first
    BY <2>1
  <2>5. ASSUME NEW k \in 1 .. m + 1 PROVE g[k] = step[<<g[k-1], k>>]
    BY <2>1
  <2>6. Row(g, m + 1)
    BY <2>3, <2>4, <2>5
  <2> HIDE DEF g, Row
  <2> QED
    BY <2>6
<1>3. Nat \subseteq R
  <2> HIDE DEF R
  <2> QED
    BY <1>1, <1>2, SetInduction
<1>4. PICK f : Row(f, n)
  BY <1>3
<1> QED
  BY <1>4 DEF IsSteps

LEMMA Division ==
  ASSUME NEW P \in Nat \ {0}, NEW a \in Nat, NEW e \in 0 .. P - 1
  PROVE  (P * a + e) \div P = a /\ (P * a + e) % P = e
<1> DEFINE x == P * a + e
           q == x \div P
           r == x % P
<1>1. x \in Nat
  OBVIOUS
<1>2. q \in Nat /\ r \in 0 .. P - 1 /\ x = P * q + r
  BY <1>1
<1>3. x = P * a + e
  OBVIOUS
<1> HIDE DEF x, q, r
<1>4. ~(a > q)
  <2> SUFFICES ASSUME a > q PROVE FALSE
    OBVIOUS
  <2>1. PICK d \in Nat : a = q + 1 + d
    BY <1>2
  <2>2. P * a = P * q + P + P * d /\ P * d >= 0 /\ P * q \in Nat /\ P * d \in Nat
    BY <1>2, <2>1
  <2> QED
    BY <1>2, <1>3, <2>2
<1>5. ~(q > a)
  <2> SUFFICES ASSUME q > a PROVE FALSE
    OBVIOUS
  <2>1. PICK d \in Nat : q = a + 1 + d
    BY <1>2
  <2>2. P * q = P * a + P + P * d /\ P * d >= 0 /\ P * a \in Nat /\ P * d \in Nat
    BY <1>2, <2>1
  <2> QED
    BY <1>2, <1>3, <2>2
<1>6. q = a
  BY <1>2, <1>4, <1>5
<1>7. r = e
  BY <1>2, <1>3, <1>6
<1> QED
  BY <1>6, <1>7 DEF x, q, r

LEMMA RestOfMultiple ==
  ASSUME NEW P \in Nat \ {0}, NEW a \in Nat
  PROVE  (P * a) \div P = a /\ (P * a) % P = 0
<1>1. (P * a + 0) \div P = a /\ (P * a + 0) % P = 0
  BY Division
<1>2. P * a + 0 = P * a
  OBVIOUS
<1> QED
  BY <1>1, <1>2

LEMMA RestOfSum ==
  ASSUME NEW P \in Nat \ {0}, NEW x \in Nat, NEW y \in Nat
  PROVE  ((x % P) + y) % P = (x + y) % P
<1> DEFINE q == x \div P
           r == x % P
           s == (r + y) \div P
           t == (r + y) % P
<1>1. q \in Nat /\ r \in 0 .. P - 1 /\ x = P * q + r
  OBVIOUS
<1>2. r + y \in Nat
  BY <1>1
<1> HIDE DEF q, r
<1>3. s \in Nat /\ t \in 0 .. P - 1 /\ r + y = P * s + t
  BY <1>2
<1> HIDE DEF s, t
<1>4. x + y = P * (q + s) + t /\ q + s \in Nat
  BY <1>1, <1>3
<1>5. (x + y) % P = t
  BY <1>3, <1>4, Division
<1> QED
  BY <1>5 DEF r, t

\* Numbers that were reduced keep the digits below.
KeepsDigit(x, M, P, B) == ((x % M) \div P) % B = (x \div P) % B
LEMMA DigitOfRest ==
  ASSUME NEW x \in Nat, NEW P \in Nat \ {0}, NEW B \in Nat \ {0}, NEW c \in Nat \ {0},
         NEW M, M = P * (B * c)
  PROVE  KeepsDigit(x, M, P, B)
<1> DEFINE q == x \div M
           r == x % M
           d == r \div P
           e == r % P
           f == d \div B
           g == d % B
<1>1. M \in Nat \ {0}
  OBVIOUS
<1>2. q \in Nat /\ r \in Nat /\ x = M * q + r
  <2> DEFINE m == M
  <2>1. m \in Nat \ {0}
    BY <1>1
  <2> HIDE DEF m
  <2>2. x \div m \in Nat /\ x % m \in Nat /\ x = m * (x \div m) + (x % m)
    BY <2>1
  <2> QED
    BY <2>2 DEF m
<1>3. M = P * (B * c)
  OBVIOUS
<1> HIDE DEF q, r
<1>4. d \in Nat /\ e \in 0 .. P - 1 /\ r = P * d + e
  BY <1>2
<1> HIDE DEF d, e
<1>5. f \in Nat /\ g \in 0 .. B - 1 /\ d = B * f + g
  BY <1>4
<1> HIDE DEF f, g
<1>6. x \div P = B * (c * q) + d
  <2>1. c * q \in Nat
    BY <1>2
  <2>2. B * (c * q) + d \in Nat
    BY <1>4, <2>1
  <2>3. M * q = P * (B * (c * q))
    BY <1>2, <1>3
  <2>4. x = P * (B * (c * q) + d) + e
    BY <1>2, <1>4, <2>1, <2>3
  <2> QED
    BY <1>4, <2>2, <2>4, Division
<1>7. (x \div P) % B = g
  <2>1. c * q + f \in Nat
    BY <1>2, <1>5
  <2>2. B * (c * q) + d = B * (c * q + f) + g
    BY <1>2, <1>5
  <2> QED
    BY <1>5, <1>6, <2>1, <2>2, Division
<1>8. d % B = g
  BY <1>5, Division
<1> QED
  BY <1>7, <1>8 DEF d, r, KeepsDigit

-----------------------------------------------------------------------------
(* Congruence: two numbers differ by a multiple of the modulus.               *)

Same(a, b, M) == \E q \in Int : a = b + M * q

LEMMA SameAsRest ==
  ASSUME NEW M \in Nat \ {0}, NEW a \in Int
  PROVE  a % M \in 0 .. M - 1 /\ Same(a % M, a, M) /\ Same(a, a % M, M)
<1> DEFINE q == a \div M
           r == a % M
<1>1. q \in Int /\ r \in 0 .. M - 1 /\ a = M * q + r
  OBVIOUS
<1> HIDE DEF q, r
<1>2. a = r + M * q
  BY <1>1
<1>3. M * (-q) = -(M * q) /\ M * q \in Int
  BY <1>1
<1>4. r = a + M * (-q) /\ -q \in Int
  BY <1>1, <1>3
<1> QED
  BY <1>1, <1>2, <1>4 DEF Same, r

LEMMA SameSelf ==
  ASSUME NEW M \in Nat \ {0}, NEW a \in Int
  PROVE  Same(a, a, M) /\ Same(M, 0, M)
<1>1. M * 0 = 0 /\ M * 1 = M
  OBVIOUS
<1>2. a = a + M * 0 /\ M = 0 + M * 1
  BY <1>1
<1> QED
  BY <1>2 DEF Same

LEMMA SameBack ==
  ASSUME NEW M \in Nat \ {0}, NEW a \in Int, NEW b \in Int, Same(a, b, M)
  PROVE  Same(b, a, M)
<1>1. PICK q \in Int : a = b + M * q
  BY DEF Same
<1>2. M * (-q) = -(M * q) /\ M * q \in Int /\ -q \in Int
  OBVIOUS
<1>3. b = a + M * (-q)
  BY <1>1, <1>2
<1> QED
  BY <1>2, <1>3 DEF Same

LEMMA SameChain ==
  ASSUME NEW M \in Nat \ {0}, NEW a \in Int, NEW b \in Int, NEW c \in Int,
         Same(a, b, M), Same(b, c, M)
  PROVE  Same(a, c, M)
<1>1. PICK q \in Int : a = b + M * q
  BY DEF Same
<1>2. PICK s \in Int : b = c + M * s
  BY DEF Same
<1>3. M * (q + s) = M * q + M * s /\ M * q \in Int /\ M * s \in Int /\ q + s \in Int
  OBVIOUS
<1>4. a = c + M * (q + s)
  BY <1>1, <1>2, <1>3
<1> QED
  BY <1>3, <1>4 DEF Same

LEMMA SameSum ==
  ASSUME NEW M \in Nat \ {0}, NEW a \in Int, NEW b \in Int, NEW c \in Int, NEW d \in Int,
         Same(a, b, M), Same(c, d, M)
  PROVE  Same(a + c, b + d, M) /\ Same(a - c, b - d, M)
<1>1. PICK q \in Int : a = b + M * q
  BY DEF Same
<1>2. PICK s \in Int : c = d + M * s
  BY DEF Same
<1>3. /\ M * (q + s) = M * q + M * s /\ M * (q - s) = M * q - M * s
      /\ M * q \in Int /\ M * s \in Int /\ q + s \in Int /\ q - s \in Int
  OBVIOUS
<1>4. a + c = (b + d) + M * (q + s) /\ a - c = (b - d) + M * (q - s)
  BY <1>1, <1>2, <1>3
<1> QED
  BY <1>3, <1>4 DEF Same

LEMMA SameTimes ==
  ASSUME NEW M \in Nat \ {0}, NEW a \in Int, NEW b \in Int, NEW c \in Int, Same(a, b, M)
  PROVE  Same(a * c, b * c, M) /\ Same(c * a, c * b, M)
<1>1. PICK q \in Int : a = b + M * q
  BY DEF Same
<1>2. /\ (b + M * q) * c = b * c + M * (q * c) /\ q * c \in Int
      /\ c * (b + M * q) = c * b + M * (q * c)
  OBVIOUS
<1>3. a * c = b * c + M * (q * c) /\ c * a = c * b + M * (q * c)
  BY <1>1, <1>2
<1> QED
  BY <1>2, <1>3 DEF Same

LEMMA SameRests ==
  ASSUME NEW M \in Nat \ {0}, NEW a \in Int, NEW b \in Int, Same(a, b, M)
  PROVE  a % M = b % M
<1> DEFINE r == a % M
           s == b % M
<1>1. r \in 0 .. M - 1 /\ s \in 0 .. M - 1 /\ Same(r, a, M) /\ Same(b, s, M)
  BY SameAsRest
<1> HIDE DEF r, s
<1>2. Same(r, b, M)
  BY <1>1, SameChain
<1>3. Same(r, s, M)
  BY <1>1, <1>2, SameChain
<1>4. PICK q \in Int : r = s + M * q
  BY <1>3 DEF Same
<1>5. q = 0
  <2>1. q >= 1 => M * q >= M
    OBVIOUS
  <2>2. q <= -1 => M * q <= -M
    OBVIOUS
  <2>3. M * q \in Int
    OBVIOUS
  <2> QED
    BY <1>1, <1>4, <2>1, <2>2, <2>3
<1>6. r = s
  BY <1>1, <1>4, <1>5
<1> QED
  BY <1>6 DEF r, s

LEMMA SmallRest ==
  ASSUME NEW M \in Nat \ {0}, NEW a \in 0 .. M - 1
  PROVE  a % M = a
OBVIOUS
=============================================================================
