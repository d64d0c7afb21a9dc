---------------------------- MODULE Miracl_proofs ----------------------------
(***************************************************************************)
(* The arithmetic of MIRACL, for every width of a word, every number of    *)
(* words and every overlap of the operands: sums and differences           *)
(* (mrarth0.c), products and quotients by one word (mrarth1.c), products   *)
(* and squares (multiply of mrarth2.c), with the copies, signs,            *)
(* comparisons and conversions of mrcore.c, have the values the integers   *)
(* give them.  Quotients and remainders follow in MiraclDivide_proofs.     *)
(***************************************************************************)
EXTENDS MiraclCalc, NumberLemmas

-----------------------------------------------------------------------------
(* Loops that carry a word, and the sizes.                                    *)

\* What Carried answers: the first value, and every next one out of the last.
CarriesOn(c, n, start, step) == c[0] = start /\ \A i \in 0 .. n - 1 : c[i+1] = step[i][c[i]]
\* Every step leads from its set of values to the next one.
Through(n, S, step) == \A i \in 0 .. n - 1 : \A v \in S[i] : step[i][v] \in S[i+1]
LEMMA CarriedThrough ==
  ASSUME NEW n \in Nat, NEW S, NEW start \in S[0], NEW step, Through(n, S, step)
  PROVE  /\ Carried(n, start, step) = [i \in 0 .. n |-> Carried(n, start, step)[i]]
         /\ \A i \in 0 .. n : Carried(n, start, step)[i] \in S[i]
         /\ CarriesOn(Carried(n, start, step), n, start, step)
<1> DEFINE All == UNION {S[i] : i \in 0 .. n}
           Row(c) == c = [i \in 0 .. n |-> IF i = 0 THEN <<start>>
                                           ELSE Append(c[i-1], step[i - 1][c[i-1][i]])]
           next == [x \in Seq(All) \X Nat |-> IF x[2] \in 1 .. n /\ Len(x[1]) = x[2] /\ x[1][x[2]] \in S[x[2] - 1]
                                              THEN Append(x[1], step[x[2] - 1][x[1][x[2]]]) ELSE x[1]]
           Right(p, k) == /\ p \in Seq(All) /\ Len(p) = k + 1 /\ p[1] = start
                          /\ \A j \in 1 .. k : p[j+1] = step[j-1][p[j]]
                          /\ \A j \in 0 .. k : p[j+1] \in S[j]
<1>0. \A i \in 0 .. n : \A v \in S[i] : v \in All
  OBVIOUS
<1> HIDE DEF All
<1>a. ASSUME NEW k \in 1 .. n, NEW v \in S[k - 1] PROVE step[k - 1][v] \in S[k] /\ step[k - 1][v] \in All
  <2>1. k - 1 \in 0 .. n - 1 /\ (k - 1) + 1 = k /\ k \in 0 .. n
    OBVIOUS
  <2>2. step[k - 1][v] \in S[(k - 1) + 1]
    BY <2>1 DEF Through
  <2> QED
    BY <1>0, <2>1, <2>2
<1>1. ASSUME NEW k \in 1 .. n, NEW p, Right(p, k - 1)
      PROVE  Right(Append(p, step[k - 1][p[k]]), k)
  <2>1. p[k] \in S[k - 1]
    <3>1. k - 1 \in 0 .. k - 1 /\ (k - 1) + 1 = k
      OBVIOUS
    <3>2. p[(k - 1) + 1] \in S[k - 1]
      BY <1>1, <3>1
    <3> QED
      BY <3>1, <3>2
  <2>2. step[k-1][p[k]] \in S[k] /\ step[k-1][p[k]] \in All
    BY <1>a, <2>1
  <2> DEFINE q == Append(p, step[k - 1][p[k]])
  <2>3. q \in Seq(All) /\ Len(q) = k + 1 /\ (\A j \in 1 .. k : q[j] = p[j]) /\ q[k+1] = step[k - 1][p[k]]
    BY <1>1, <2>2
  <2> HIDE DEF q
  <2>4. q[1] = start
    BY <1>1, <2>3
  <2>5. \A j \in 1 .. k : q[j+1] = step[j-1][q[j]]
    <3> TAKE j \in 1 .. k
    <3>1. CASE j = k
      BY <2>3, <3>1
    <3>2. CASE j # k
      <4>1. j \in 1 .. k - 1 /\ j + 1 \in 1 .. k
        BY <3>2
      <4>2. p[j+1] = step[j-1][p[j]]
        BY <1>1, <4>1
      <4> QED
        BY <2>3, <4>1, <4>2
    <3> QED
      BY <3>1, <3>2
  <2>6. \A j \in 0 .. k : q[j+1] \in S[j]
    <3> TAKE j \in 0 .. k
    <3>1. CASE j = k
      BY <2>2, <2>3, <3>1
    <3>2. CASE j # k
      <4>1. j \in 0 .. k - 1 /\ j + 1 \in 1 .. k
        BY <3>2
      <4>2. p[j+1] \in S[j]
        BY <1>1, <4>1
      <4> QED
        BY <2>3, <4>1, <4>2
    <3> QED
      BY <3>1, <3>2
  <2>7. Right(q, k)
    BY <2>3, <2>4, <2>5, <2>6
  <2> QED
    BY <2>7 DEF q
<1>2. \E c : Row(c)
  <2>1. next \in [Seq(All) \X Nat -> Seq(All)]
    <3> SUFFICES ASSUME NEW x \in Seq(All) \X Nat PROVE next[x] \in Seq(All)
      OBVIOUS
    <3>1. CASE x[2] \in 1 .. n /\ Len(x[1]) = x[2] /\ x[1][x[2]] \in S[x[2] - 1]
      <4>1. x[1] \in Seq(All)
        BY <3>1
      <4>2. step[x[2] - 1][x[1][x[2]]] \in All
        BY <1>a, <3>1
      <4> QED
        BY <3>1, <4>1, <4>2
    <3>2. CASE ~(x[2] \in 1 .. n /\ Len(x[1]) = x[2] /\ x[1][x[2]] \in S[x[2] - 1])
      BY <3>2
    <3> QED
      BY <3>1, <3>2
  <2>2. <<start>> \in Seq(All)
    BY <1>0
  <2>3. PICK f \in [0 .. n -> Seq(All)] : IsSteps(f, n, <<start>>, next)
    <3> HIDE DEF next
    <3> QED
      BY <2>1, <2>2, RowOfSteps
  <2>4. \A k \in 0 .. n : f[k] = IF k = 0 THEN <<start>> ELSE next[<<f[k-1], k>>]
    <3> HIDE DEF next
    <3> QED
      BY ZenonT(30), <2>3 DEF IsSteps
  <2>12. \A p \in Seq(All), k \in 1 .. n :
           Len(p) = k /\ p[k] \in S[k - 1] => next[<<p, k>>] = Append(p, step[k - 1][p[k]])
    BY SMTT(30)
  <2>13. f[0] = <<start>> /\ \A k \in 1 .. n : f[k] = next[<<f[k-1], k>>]
    <3> HIDE DEF next
    <3>1. 0 \in 0 .. n /\ \A k \in 1 .. n : k \in 0 .. n /\ k # 0
      OBVIOUS
    <3>2. f[0] = IF 0 = 0 THEN <<start>> ELSE next[<<f[0-1], 0>>]
      BY <2>4, <3>1
    <3> QED
      BY <2>4, <3>1, <3>2
  <2> HIDE DEF next
  <2> DEFINE T == {k \in Nat : k <= n => Right(f[k], k)}
  <2>5. 0 \in T
    <3>1. Right(<<start>>, 0)
      <4>1. <<start>> \in Seq(All)
        BY <2>2
      <4>2. \A j \in 0 .. 0 : <<start>>[j+1] \in S[j]
        OBVIOUS
      <4> QED
        BY <4>1, <4>2
    <3> QED
      BY <2>13, <3>1
  <2>6. ASSUME NEW k \in Nat, k \in T PROVE k + 1 \in T
    <3> SUFFICES ASSUME k + 1 <= n PROVE Right(f[k+1], k + 1)
      <4> HIDE DEF Right
      <4> QED
        OBVIOUS
    <3>1. Right(f[k], (k + 1) - 1) /\ k + 1 \in 1 .. n /\ (k + 1) - 1 = k
      BY <2>6
    <3>3. f[k] \in Seq(All) /\ Len(f[k]) = k + 1 /\ f[k][k+1] \in S[k]
      <4>1. Right(f[k], k)
        <5> HIDE DEF Right
        <5> QED
          BY <3>1
      <4>2. \A j \in 0 .. k : f[k][j+1] \in S[j]
        BY <4>1
      <4>3. k \in 0 .. k
        OBVIOUS
      <4> QED
        BY <4>1, <4>2, <4>3
    <3>2. f[k+1] = Append(f[k], step[(k + 1) - 1][f[k][k+1]])
      <4> HIDE DEF Right
      <4> QED
        BY <2>12, <2>13, <3>1, <3>3
    <3> HIDE DEF Right
    <3> QED
      BY <3>1, <3>2, <1>1
  <2>7. Nat \subseteq T
    <3> HIDE DEF T
    <3> QED
      BY <2>5, <2>6, SetInduction
  <2>8. ASSUME NEW i \in 1 .. n PROVE f[i] = Append(f[i-1], step[i - 1][f[i-1][i]])
    <3>1. i - 1 \in 0 .. n /\ i - 1 \in Nat /\ i - 1 <= n /\ (i - 1) + 1 = i
      OBVIOUS
    <3>2. Right(f[i-1], i - 1)
      <4> HIDE DEF Right
      <4> QED
        BY <2>7, <3>1
    <3>3. Len(f[i-1]) = i /\ f[i-1] \in Seq(All) /\ f[i-1][i] \in S[i - 1]
      <4>1. f[i-1][(i-1)+1] \in S[i - 1]
        BY <3>1, <3>2
      <4> QED
        BY <3>1, <3>2, <4>1
    <3> QED
      BY <2>12, <2>13, <3>3
  <2>9. \A k \in 0 .. n : f[k] = IF k = 0 THEN <<start>> ELSE Append(f[k-1], step[k - 1][f[k-1][k]])
    <3> SUFFICES ASSUME NEW k \in 0 .. n
                 PROVE  f[k] = IF k = 0 THEN <<start>> ELSE Append(f[k-1], step[k - 1][f[k-1][k]])
      OBVIOUS
    <3>1. CASE k = 0
      BY <2>13, <3>1
    <3>2. CASE k # 0
      BY SMTT(30), <2>8, <3>2
    <3> QED
      BY <3>1, <3>2
  <2>10. Row(f)
    BY <2>9
  <2> QED
    BY <2>10
<1> DEFINE c == CHOOSE c : Row(c)
<1>3. Row(c)
  BY ZenonT(30), <1>2
<1>4. Carried(n, start, step) = [i \in 0 .. n |-> c[n][i+1]]
  BY DEF Carried, Chain
<1> HIDE DEF c
<1> DEFINE T == {k \in Nat : k <= n => Right(c[k], k)}
<1>5. 0 \in T
  <2>1. c[0] = <<start>>
    BY <1>3
  <2>2. <<start>> \in Seq(All)
    BY <1>0
  <2>3. \A j \in 0 .. 0 : <<start>>[j+1] \in S[j]
    OBVIOUS
  <2>4. Right(<<start>>, 0)
    BY <2>2, <2>3
  <2> HIDE DEF Right
  <2> QED
    BY <2>1, <2>4
<1>6. ASSUME NEW k \in Nat, k \in T PROVE k + 1 \in T
  <2> SUFFICES ASSUME k + 1 <= n PROVE Right(c[k+1], k + 1)
    OBVIOUS
  <2>1. Right(c[k], (k + 1) - 1) /\ k + 1 \in 1 .. n
    BY SMTT(30), <1>6
  <2>2. c[k+1] = Append(c[k], step[(k + 1) - 1][c[k][k+1]])
    <3>1. k + 1 \in 0 .. n /\ k + 1 # 0 /\ (k + 1) - 1 = k
      BY <2>1
    <3> QED
      BY <1>3, <3>1
  <2> HIDE DEF Right, Row
  <2> QED
    BY <2>1, <2>2, <1>1
<1>7. Nat \subseteq T
  <2> HIDE DEF T
  <2> QED
    BY <1>5, <1>6, SetInduction
<1>8. Right(c[n], n)
  BY <1>7
<1> DEFINE d == Carried(n, start, step)
<1>9. \A i \in 0 .. n : d[i] = c[n][i+1]
  BY <1>4
<1> HIDE DEF d
<1>10. d = [i \in 0 .. n |-> d[i]]
  BY <1>4 DEF d
<1>11. \A i \in 0 .. n : d[i] \in S[i]
  BY <1>8, <1>9
<1>12. CarriesOn(d, n, start, step)
  <2>1. d[0] = start
    <3>1. 0 \in 0 .. n /\ 0 + 1 = 1
      OBVIOUS
    <3> QED
      BY <1>8, <1>9, <3>1
  <2>2. \A i \in 0 .. n - 1 : d[i+1] = step[i][d[i]]
    <3> TAKE i \in 0 .. n - 1
    <3>1. i \in 0 .. n /\ i + 1 \in 0 .. n /\ i + 1 \in 1 .. n /\ (i + 1) - 1 = i
      OBVIOUS
    <3>2. c[n][(i + 1) + 1] = step[(i + 1) - 1][c[n][i+1]]
      BY <1>8, <3>1
    <3> QED
      BY <1>9, <3>1, <3>2
  <2> QED
    BY <2>1, <2>2 DEF CarriesOn
<1> QED
  BY <1>10, <1>11, <1>12 DEF d

\* The same with one set for all values.

\* The first n steps lead from S to S.
Inside(n, S, step) == \A i \in 0 .. n - 1 : \A v \in S : step[i][v] \in S
LEMMA CarriedIs ==
  ASSUME NEW n \in Nat, NEW S, NEW start \in S, NEW step, Inside(n, S, step)
  PROVE  /\ Carried(n, start, step) \in [0 .. n -> S]
         /\ CarriesOn(Carried(n, start, step), n, start, step)
<1> DEFINE E == [i \in 0 .. n |-> S]
<1>1. \A i \in 0 .. n : E[i] = S
  OBVIOUS
<1> HIDE DEF E
<1>2. Through(n, E, step) /\ start \in E[0]
  BY <1>1 DEF Through, Inside
<1> DEFINE c == Carried(n, start, step)
<1>3. c = [i \in 0 .. n |-> c[i]] /\ (\A i \in 0 .. n : c[i] \in E[i]) /\ CarriesOn(c, n, start, step)
  BY <1>2, CarriedThrough
<1> HIDE DEF c
<1>4. c \in [0 .. n -> S]
  BY <1>1, <1>3
<1> QED
  BY <1>3, <1>4 DEF c

\* A longer loop begins with the values of a shorter one.
BeginsWith(d, c, n) == \A i \in 0 .. n : d[i] = c[i]
LEMMA CarriedPrefix ==
  ASSUME NEW n \in Nat, NEW m \in Nat, m = n + 1, NEW S, NEW start \in S, NEW step, Inside(m, S, step)
  PROVE  BeginsWith(Carried(m, start, step), Carried(n, start, step), n)
<1> DEFINE c == Carried(n, start, step)
           d == Carried(m, start, step)
           T == {i \in Nat : i <= n => d[i] = c[i]}
<1>1. CarriesOn(c, n, start, step)
  <2>1. Inside(n, S, step)
    BY DEF Inside
  <2> QED
    BY <2>1, CarriedIs
<1>2. CarriesOn(d, m, start, step)
  BY CarriedIs
<1> HIDE DEF c, d
<1>3. 0 \in T
  BY <1>1, <1>2 DEF CarriesOn
<1>4. ASSUME NEW i \in Nat, i \in T PROVE i + 1 \in T
  <2> SUFFICES ASSUME i + 1 <= n PROVE d[i+1] = c[i+1]
    OBVIOUS
  <2>1. i \in 0 .. n - 1 /\ i \in 0 .. m - 1 /\ d[i] = c[i]
    BY <1>4
  <2> QED
    BY <1>1, <1>2, <2>1 DEF CarriesOn
<1>5. Nat \subseteq T
  <2> HIDE DEF T
  <2> QED
    BY <1>3, <1>4, SetInduction
<1> QED
  BY <1>5 DEF c, d, BeginsWith

\* The equations of the two tables of powers.
TwoToRow(f) == f = [i \in 0 .. W |-> IF i = 0 THEN 1 ELSE 2 * f[i-1]]
BToRow(f) == f = [i \in Idx |-> IF i = 0 THEN 1 ELSE B * f[i-1]]
LEMMA TwoToIs == TwoToRow(TwoTo) /\ \A i \in 0 .. W : TwoTo[i] \in Nat \ {0}
<1> DEFINE next == [x \in (Nat \ {0}) \X Nat |-> 2 * x[1]]
<1>0. W \in Nat
  BY SizesAssumption
<1>1. \E f : TwoToRow(f)
  <2>1. next \in [(Nat \ {0}) \X Nat -> Nat \ {0}] /\ 1 \in Nat \ {0}
    OBVIOUS
  <2>2. PICK f \in [0 .. W -> Nat \ {0}] : IsSteps(f, W, 1, next)
    <3> HIDE DEF next
    <3> QED
      BY <1>0, <2>1, RowOfSteps
  <2>5. \A u \in Nat \ {0}, k \in Nat : next[<<u, k>>] = 2 * u
    OBVIOUS
  <2>3. \A k \in 1 .. W : next[<<f[k-1], k>>] = 2 * f[k-1]
    <3>1. \A k \in 1 .. W : k \in Nat /\ f[k-1] \in Nat \ {0}
      BY <1>0, <2>2
    <3> HIDE DEF next
    <3> QED
      BY <2>5, <3>1
  <2>4. TwoToRow(f)
    <3> HIDE DEF next
    <3>1. f = [k \in 0 .. W |-> IF k = 0 THEN 1 ELSE next[<<f[k-1], k>>]]
      BY <2>2 DEF IsSteps
    <3>2. \A k \in 0 .. W : k # 0 => k \in 1 .. W
      BY <1>0
    <3>3. \A k \in 0 .. W : (IF k = 0 THEN 1 ELSE next[<<f[k-1], k>>]) = (IF k = 0 THEN 1 ELSE 2 * f[k-1])
      BY <2>3, <3>2
    <3> QED
      BY <3>1, <3>3 DEF TwoToRow
  <2> QED
    BY <2>4
<1>2. TwoTo = CHOOSE f : TwoToRow(f)
  BY DEF TwoTo, TwoToRow
<1>3. TwoToRow(TwoTo)
  BY <1>1, <1>2
<1> DEFINE T == {i \in Nat : i <= W => TwoTo[i] \in Nat \ {0}}
<1>4. 0 \in T
  BY <1>0, <1>3 DEF TwoToRow
<1>5. ASSUME NEW i \in Nat, i \in T PROVE i + 1 \in T
  <2> SUFFICES ASSUME i + 1 <= W PROVE TwoTo[i+1] \in Nat \ {0}
    OBVIOUS
  <2>1. TwoTo[i] \in Nat \ {0}
    BY <1>0, <1>5
  <2>2. i + 1 \in 0 .. W /\ i + 1 # 0 /\ (i + 1) - 1 = i
    BY <1>0
  <2>3. TwoTo[i+1] = 2 * TwoTo[i]
    BY <1>3, <2>2 DEF TwoToRow
  <2> QED
    BY <2>1, <2>3
<1>6. Nat \subseteq T
  <2> HIDE DEF T
  <2> QED
    BY <1>4, <1>5, SetInduction
<1> QED
  BY <1>3, <1>6

\* What the assumption on the sizes says of what is built from them.
LEMMA Sizes == /\ W \in Nat \ {0} /\ nib \in Nat \ {0} /\ TooBig \in Nat \ {0} /\ TooBig <= B
               /\ Ext \in Nat /\ Ext >= 4 /\ nib + 1 <= Ext - 1 /\ nib <= Ext /\ Ext = 2 * nib + 2
               /\ B \in Nat /\ B >= 2 /\ Word = 0 .. B - 1 /\ Idx = 0 .. Ext - 1
<1>1. W \in 0 .. W /\ W - 1 \in 0 .. W /\ W # 0
  BY SizesAssumption
<1>2. TwoTo[W] = 2 * TwoTo[W-1] /\ TwoTo[W-1] \in Nat \ {0}
  BY <1>1, TwoToIs DEF TwoToRow
<1>3. B \in Nat /\ B >= 2
  BY <1>2 DEF B
<1> QED
  BY <1>3, SizesAssumption DEF Ext, Idx, Word

\* The weight of a word is B times that of the word below it.
LEMMA BToIs == /\ BTo[0] = 1 /\ \A i \in Idx : BTo[i] \in Nat \ {0}
               /\ \A i \in 0 .. Ext - 2 : BTo[i+1] = B * BTo[i]
<1> DEFINE next == [x \in (Nat \ {0}) \X Nat |-> B * x[1]]
<1>0. Ext \in Nat /\ Ext - 1 \in Nat /\ Idx = 0 .. Ext - 1 /\ B \in Nat \ {0}
  BY Sizes
<1> DEFINE n == Ext - 1
<1>1. \E f : BToRow(f)
  <2>1. next \in [(Nat \ {0}) \X Nat -> Nat \ {0}] /\ 1 \in Nat \ {0}
    <3>1. \A u \in Nat \ {0} : B * u \in Nat \ {0}
      BY <1>0
    <3> QED
      BY <3>1
  <2>2. PICK f \in [0 .. n -> Nat \ {0}] : IsSteps(f, n, 1, next)
    <3> HIDE DEF next
    <3> QED
      BY <1>0, <2>1, RowOfSteps
  <2>5. \A u \in Nat \ {0}, k \in Nat : next[<<u, k>>] = B * u
    OBVIOUS
  <2>3. \A k \in 1 .. n : next[<<f[k-1], k>>] = B * f[k-1]
    <3>1. \A k \in 1 .. n : k \in Nat /\ f[k-1] \in Nat \ {0}
      BY <1>0, <2>2
    <3> HIDE DEF next
    <3> QED
      BY <2>5, <3>1
  <2>4. BToRow(f)
    <3> HIDE DEF next, n
    <3>1. f = [k \in 0 .. n |-> IF k = 0 THEN 1 ELSE next[<<f[k-1], k>>]]
      BY <2>2 DEF IsSteps
    <3>2. \A k \in 0 .. n : k # 0 => k \in 1 .. n
      BY <1>0
    <3>3. \A k \in 0 .. n : (IF k = 0 THEN 1 ELSE next[<<f[k-1], k>>]) = (IF k = 0 THEN 1 ELSE B * f[k-1])
      BY <2>3, <3>2
    <3>4. Idx = 0 .. n
      BY <1>0 DEF n
    <3> QED
      BY <3>1, <3>3, <3>4 DEF BToRow
  <2> QED
    BY <2>4
<1>2. BTo = CHOOSE f : BToRow(f)
  BY DEF BTo, BToRow
<1>3. BToRow(BTo)
  BY <1>1, <1>2
<1>4. BTo[0] = 1
  BY <1>0, <1>3 DEF BToRow
<1>7. \A i \in 0 .. Ext - 2 : BTo[i+1] = B * BTo[i]
  <2> TAKE i \in 0 .. Ext - 2
  <2>1. i + 1 \in Idx /\ i + 1 # 0 /\ (i + 1) - 1 = i
    BY <1>0
  <2> QED
    BY <1>3, <2>1 DEF BToRow
<1> DEFINE T == {i \in Nat : i < Ext => BTo[i] \in Nat \ {0}}
<1>5. 0 \in T
  BY <1>4
<1>6. ASSUME NEW i \in Nat, i \in T PROVE i + 1 \in T
  <2> SUFFICES ASSUME i + 1 < Ext PROVE BTo[i+1] \in Nat \ {0}
    OBVIOUS
  <2>1. BTo[i] \in Nat \ {0} /\ i \in 0 .. Ext - 2
    BY <1>0, <1>6
  <2> QED
    BY <1>0, <1>7, <2>1
<1>8. Nat \subseteq T
  <2> HIDE DEF T
  <2> QED
    BY <1>5, <1>6, SetInduction
<1> QED
  BY <1>0, <1>4, <1>7, <1>8

-----------------------------------------------------------------------------
(* What the first n words stand for.                                          *)
Words == [Idx -> Word]

\* The value of the first words, one word after the other.
LEMMA LowIs ==
  ASSUME NEW w \in Words
  PROVE  /\ Low(w, 0) = 0
         /\ \A n \in 0 .. Ext : Low(w, n) \in Nat
         /\ \A n \in 0 .. Ext - 1 : Low(w, n + 1) = Low(w, n) + w[n] * BTo[n]
<1> DEFINE step == [i \in Idx |-> [v \in Nat |-> v + w[i] * BTo[i]]]
<1>1. \A i \in Idx : w[i] \in Nat /\ BTo[i] \in Nat /\ w[i] * BTo[i] \in Nat
  BY SMTT(30), Sizes, BToIs DEF Words
<1>2. \A i \in Idx, v \in Nat : step[i][v] = v + w[i] * BTo[i] /\ step[i][v] \in Nat
  BY <1>1
<1>3. \A n \in Nat : Low(w, n) = Carried(n, 0, step)[n]
  BY DEF Low
<1> HIDE DEF step
<1>4. ASSUME NEW n \in 0 .. Ext
      PROVE  Carried(n, 0, step) \in [0 .. n -> Nat] /\ CarriesOn(Carried(n, 0, step), n, 0, step)
  <2>1. n \in Nat /\ Inside(n, Nat, step) /\ 0 \in Nat
    BY SMTT(30), <1>2, Sizes DEF Inside
  <2> QED
    BY <2>1, CarriedIs
<1>5. Low(w, 0) = 0
  <2>1. 0 \in Nat /\ 0 \in 0 .. Ext
    BY Sizes
  <2>2. Low(w, 0) = Carried(0, 0, step)[0]
    BY <1>3, <2>1
  <2>3. CarriesOn(Carried(0, 0, step), 0, 0, step)
    BY <1>4, <2>1
  <2> QED
    BY <2>2, <2>3 DEF CarriesOn
<1>6. ASSUME NEW n \in 0 .. Ext PROVE Low(w, n) \in Nat
  <2>1. n \in Nat /\ n \in 0 .. n
    BY Sizes
  <2> QED
    BY <1>3, <1>4, <2>1
<1>7. ASSUME NEW n \in 0 .. Ext - 1 PROVE Low(w, n + 1) = Low(w, n) + w[n] * BTo[n]
  <2>1. n \in Nat /\ n + 1 \in 0 .. Ext /\ n \in 0 .. (n + 1) - 1 /\ n \in 0 .. n /\ n \in Idx
    BY Sizes
  <2>2. Inside(n + 1, Nat, step)
    <3>1. \A i \in 0 .. (n + 1) - 1 : i \in Idx
      BY Sizes
    <3> QED
      BY <1>2, <3>1 DEF Inside
  <2>3. Carried(n + 1, 0, step)[n] = Carried(n, 0, step)[n]
    <3> DEFINE m == n + 1
    <3>1. 0 \in Nat /\ m \in Nat /\ m = n + 1 /\ Inside(m, Nat, step)
      BY <2>1, <2>2
    <3> HIDE DEF m
    <3>2. BeginsWith(Carried(m, 0, step), Carried(n, 0, step), n)
      BY <2>1, <3>1, CarriedPrefix
    <3> QED
      BY <2>1, <3>2 DEF m, BeginsWith
  <2>4. Carried(n + 1, 0, step)[n + 1] = step[n][Carried(n + 1, 0, step)[n]]
    BY <1>4, <2>1 DEF CarriesOn
  <2>5. Low(w, n) \in Nat /\ n \in 0 .. Ext
    BY <1>6, <2>1, Sizes
  <2> QED
    BY <1>2, <1>3, <2>1, <2>3, <2>4, <2>5
<1> QED
  BY <1>5, <1>6, <1>7

\* The types of a word, its weight and the value below it.
LEMMA At ==
  ASSUME NEW w \in Words, NEW i \in Idx
  PROVE  w[i] \in Nat /\ w[i] < B /\ BTo[i] \in Nat /\ BTo[i] > 0 /\ Low(w, i) \in Nat
<1>1. i \in 0 .. Ext
  BY Sizes
<1>2. w[i] \in Word
  BY DEF Words
<1>3. w[i] \in Nat /\ w[i] < B
  BY <1>2, Sizes
<1>4. BTo[i] \in Nat /\ BTo[i] > 0
  BY BToIs
<1>5. Low(w, i) \in Nat
  BY <1>1, LowIs
<1> QED
  BY <1>3, <1>4, <1>5
LEMMA LowNat ==
  ASSUME NEW w \in Words, NEW n \in 0 .. Ext
  PROVE  Low(w, n) \in Nat
BY LowIs

\* Numbers whose first words agree stand for the same integer.
LEMMA LowSame ==
  ASSUME NEW w \in Words, NEW v \in Words, NEW n \in 0 .. Ext, \A i \in 0 .. n - 1 : w[i] = v[i]
  PROVE  Low(w, n) = Low(v, n)
<1> DEFINE T == {i \in Nat : i <= n => Low(w, i) = Low(v, i)}
<1>1. 0 \in T
  BY LowIs
<1>2. ASSUME NEW i \in Nat, i \in T PROVE i + 1 \in T
  <2> SUFFICES ASSUME i + 1 <= n PROVE Low(w, i + 1) = Low(v, i + 1)
    OBVIOUS
  <2>1. i \in 0 .. Ext - 1 /\ w[i] = v[i] /\ Low(w, i) = Low(v, i)
    BY <1>2, Sizes
  <2> QED
    BY <2>1, LowIs
<1>3. Nat \subseteq T
  <2> HIDE DEF T
  <2> QED
    BY <1>1, <1>2, SetInduction
<1> QED
  BY <1>3, Sizes

\* n words stand for less than the base to the power n.
LEMMA LowBelow ==
  ASSUME NEW w \in Words, NEW n \in Idx
  PROVE  Low(w, n) \in Nat /\ Low(w, n) < BTo[n]
<1> DEFINE T == {i \in Nat : i <= n => Low(w, i) < BTo[i]}
<1>1. 0 \in T
  BY LowIs, BToIs
<1>2. ASSUME NEW i \in Nat, i \in T PROVE i + 1 \in T
  <2> SUFFICES ASSUME i + 1 <= n PROVE Low(w, i + 1) < BTo[i + 1]
    OBVIOUS
  <2>1. i \in 0 .. Ext - 1 /\ i \in 0 .. Ext - 2 /\ i \in 0 .. Ext /\ i \in Idx /\ Low(w, i) < BTo[i]
    BY <1>2, Sizes
  <2>2. Low(w, i + 1) = Low(w, i) + w[i] * BTo[i] /\ BTo[i + 1] = B * BTo[i]
    BY <2>1, LowIs, BToIs
  <2>3. w[i] \in 0 .. B - 1 /\ BTo[i] \in Nat /\ Low(w, i) \in Nat
    BY <2>1, LowIs, BToIs, Sizes DEF Words
  <2>4. ASSUME NEW a \in Nat, NEW d \in 0 .. B - 1, NEW l \in Nat, l < a
        PROVE  l + d * a < B * a
    <3>1. PICK e \in Nat : B = d + 1 + e
      <4>1. B - 1 - d \in Nat /\ B = d + 1 + (B - 1 - d)
        BY Sizes
      <4> QED
        BY <4>1
    <3>2. (d + 1 + e) * a = d * a + a + e * a /\ e * a \in Nat /\ d * a \in Nat
      OBVIOUS
    <3>3. B * a = d * a + a + e * a
      BY <3>1, <3>2
    <3> DEFINE p == d * a
               q == e * a
               r == B * a
    <3> HIDE DEF p, q, r
    <3>4. p \in Nat /\ q \in Nat /\ r = p + a + q
      BY <3>2, <3>3 DEF p, q, r
    <3>5. l + p < r
      BY <2>4, <3>4
    <3> QED
      BY <3>5 DEF p, r
  <2> QED
    BY <2>1, <2>2, <2>3, <2>4
<1>3. Nat \subseteq T
  <2> HIDE DEF T
  <2> QED
    BY <1>1, <1>2, SetInduction
<1> QED
  BY <1>3, Sizes, LowIs

\* Words that are clear count for nothing, and further words take nothing away.
LEMMA LowMore ==
  ASSUME NEW w \in Words, NEW k \in 0 .. Ext, NEW n \in k .. Ext
  PROVE  /\ Low(w, k) <= Low(w, n)
         /\ (\A i \in k .. n - 1 : w[i] = 0) => Low(w, n) = Low(w, k)
<1> DEFINE T == {i \in Nat : k + i <= n => /\ Low(w, k) <= Low(w, k + i)
                                           /\ (\A j \in k .. n - 1 : w[j] = 0) => Low(w, k + i) = Low(w, k)}
<1>0. k \in Nat /\ n \in Nat /\ n <= Ext
  BY Sizes
<1>1. 0 \in T
  BY <1>0, LowIs
<1>2. ASSUME NEW i \in Nat, i \in T PROVE i + 1 \in T
  <2> SUFFICES ASSUME k + (i + 1) <= n
               PROVE  /\ Low(w, k) <= Low(w, k + (i + 1))
                      /\ (\A j \in k .. n - 1 : w[j] = 0) => Low(w, k + (i + 1)) = Low(w, k)
    OBVIOUS
  <2> DEFINE h == k + i
  <2>1. h \in 0 .. Ext - 1 /\ h \in 0 .. Ext /\ k \in 0 .. Ext /\ h \in k .. n - 1 /\ h \in Idx /\ k + (i + 1) = h + 1
    BY <1>0, Sizes
  <2>2. Low(w, k) <= Low(w, h) /\ ((\A j \in k .. n - 1 : w[j] = 0) => Low(w, h) = Low(w, k))
    BY <1>0, <1>2
  <2>9. w[h] \in Nat /\ BTo[h] \in Nat
    <3> HIDE DEF h
    <3> QED
      BY <2>1, BToIs, Sizes DEF Words
  <2>10. Low(w, h) \in Nat /\ Low(w, k) \in Nat
    <3> HIDE DEF h
    <3> QED
      BY <2>1, LowIs
  <2>3. w[h] \in Nat /\ BTo[h] \in Nat /\ w[h] * BTo[h] \in Nat /\ Low(w, h) \in Nat /\ Low(w, k) \in Nat
    <3> HIDE DEF h
    <3> QED
      BY <2>9, <2>10
  <2>4. Low(w, h + 1) = Low(w, h) + w[h] * BTo[h]
    BY <2>1, LowIs
  <2> HIDE DEF h
  <2>5. (\A j \in k .. n - 1 : w[j] = 0) => w[h] * BTo[h] = 0
    BY <2>1, <2>3
  <2> DEFINE p == w[h] * BTo[h]
             clear == \A j \in k .. n - 1 : w[j] = 0
  <2> HIDE DEF p, clear
  <2>6. p \in Nat /\ Low(w, h + 1) = Low(w, h) + p /\ (clear => p = 0) /\ (clear => Low(w, h) = Low(w, k))
    BY <2>2, <2>3, <2>4, <2>5 DEF p, clear
  <2>7. Low(w, k) <= Low(w, h + 1) /\ (clear => Low(w, h + 1) = Low(w, k))
    BY <2>2, <2>3, <2>6
  <2> QED
    BY <2>1, <2>7 DEF clear
<1>3. Nat \subseteq T
  <2> HIDE DEF T
  <2> QED
    BY <1>1, <1>2, SetInduction
<1>4. n - k \in T /\ k + (n - k) = n
  <2> HIDE DEF T
  <2> QED
    BY <1>0, <1>3
<1> QED
  BY <1>4, <1>0

\* A top word that is not clear counts at least the power below it.
LEMMA LowTop ==
  ASSUME NEW w \in Words, NEW n \in 0 .. Ext - 1, w[n] # 0
  PROVE  BTo[n] <= Low(w, n + 1)
<1>1. n \in Idx /\ n \in 0 .. Ext
  BY Sizes
<1>2. w[n] \in Nat /\ w[n] # 0 /\ BTo[n] \in Nat /\ Low(w, n) \in Nat
  BY <1>1, At
<1>3. Low(w, n + 1) = Low(w, n) + w[n] * BTo[n]
  BY LowIs
<1>4. ASSUME NEW d \in Nat, d # 0, NEW a \in Nat, NEW l \in Nat PROVE a <= l + d * a
  <2>1. PICK e \in Nat : d = e + 1
    <3>1. d - 1 \in Nat /\ d = (d - 1) + 1
      BY <1>4
    <3> QED
      BY <3>1
  <2>2. (e + 1) * a = e * a + a /\ e * a \in Nat
    OBVIOUS
  <2>3. d * a = e * a + a
    BY <2>1, <2>2
  <2> QED
    BY <2>2, <2>3
<1> QED
  BY <1>2, <1>3, <1>4

\* Words that agree from k on count the same there.
LEMMA LowRest ==
  ASSUME NEW w \in Words, NEW v \in Words, NEW k \in 0 .. Ext, NEW n \in k .. Ext,
         \A i \in k .. n - 1 : w[i] = v[i]
  PROVE  Low(w, n) - Low(w, k) = Low(v, n) - Low(v, k)
<1> DEFINE T == {i \in Nat : k + i <= n => Low(w, k + i) - Low(w, k) = Low(v, k + i) - Low(v, k)}
<1>0. k \in Nat /\ n \in Nat /\ n <= Ext /\ k \in 0 .. Ext
  BY Sizes
<1>9. Low(w, k) \in Nat /\ Low(v, k) \in Nat
  BY LowIs
<1>1. 0 \in T
  BY <1>0, <1>9
<1>2. ASSUME NEW i \in Nat, i \in T PROVE i + 1 \in T
  <2> SUFFICES ASSUME k + (i + 1) <= n
               PROVE  Low(w, k + (i + 1)) - Low(w, k) = Low(v, k + (i + 1)) - Low(v, k)
    OBVIOUS
  <2> DEFINE h == k + i
  <2>1. h \in 0 .. Ext - 1 /\ h \in 0 .. Ext /\ h \in k .. n - 1 /\ h \in Idx /\ k + (i + 1) = h + 1
    BY <1>0, Sizes
  <2>2. Low(w, h) - Low(w, k) = Low(v, h) - Low(v, k)
    BY <1>0, <1>2
  <2> HIDE DEF h
  <2>3. w[h] = v[h] /\ w[h] \in Nat /\ BTo[h] \in Nat
    BY SMTT(30), <2>1, BToIs, Sizes DEF Words
  <2>4. Low(w, h + 1) = Low(w, h) + w[h] * BTo[h] /\ Low(v, h + 1) = Low(v, h) + v[h] * BTo[h]
    BY <2>1, LowIs
  <2> DEFINE p == w[h] * BTo[h]
  <2>5. p \in Nat /\ Low(w, h + 1) = Low(w, h) + p /\ Low(v, h + 1) = Low(v, h) + p
    BY <2>3, <2>4
  <2>6. Low(w, h) \in Nat /\ Low(v, h) \in Nat
    BY <2>1, LowIs
  <2> HIDE DEF p
  <2>7. Low(w, h + 1) - Low(w, k) = Low(v, h + 1) - Low(v, k)
    BY <1>9, <2>2, <2>5, <2>6
  <2> QED
    BY <2>1, <2>7
<1>3. Nat \subseteq T
  <2> HIDE DEF T
  <2> QED
    BY <1>1, <1>2, SetInduction
<1>4. n - k \in T /\ k + (n - k) = n
  <2> HIDE DEF T
  <2> QED
    BY <1>0, <1>3
<1> QED
  BY <1>4, <1>0

\* Of two numbers the one with the smaller top differing word is smaller.
LEMMA LowLess ==
  ASSUME NEW w \in Words, NEW v \in Words, NEW n \in Idx, NEW i \in 0 .. n - 1,
         w[i] < v[i], \A j \in i + 1 .. n - 1 : w[j] = v[j]
  PROVE  Low(w, n) < Low(v, n)
<1>1. i \in 0 .. Ext - 1 /\ i \in Idx /\ i \in 0 .. Ext /\ n \in i + 1 .. Ext /\ i + 1 \in 0 .. Ext
  BY Sizes
<1>2. Low(w, i) \in Nat /\ Low(w, i) < BTo[i] /\ BTo[i] \in Nat /\ Low(v, i) \in Nat
  BY <1>1, LowBelow, BToIs
<1>3. Low(w, i + 1) = Low(w, i) + w[i] * BTo[i] /\ Low(v, i + 1) = Low(v, i) + v[i] * BTo[i]
  BY <1>1, LowIs
<1>4. w[i] \in Nat /\ v[i] \in Nat
  BY <1>1, Sizes DEF Words
<1>5. ASSUME NEW c \in Nat, NEW d \in Nat, c < d, NEW a \in Nat, NEW l \in Nat, l < a, NEW h \in Nat
      PROVE  l + c * a < h + d * a
  <2>1. PICK e \in Nat : d = c + 1 + e
    <3>1. d - 1 - c \in Nat /\ d = c + 1 + (d - 1 - c)
      BY <1>5
    <3> QED
      BY <3>1
  <2>2. (c + 1 + e) * a = c * a + a + e * a /\ e * a \in Nat /\ c * a \in Nat
    OBVIOUS
  <2> DEFINE p == c * a
             q == e * a
             r == d * a
  <2>3. p \in Nat /\ q \in Nat /\ r = p + a + q
    BY <2>1, <2>2
  <2> HIDE DEF p, q, r
  <2>4. l + p < h + r
    BY <1>5, <2>3
  <2> QED
    BY <2>4 DEF p, r
<1>6. Low(w, i + 1) < Low(v, i + 1)
  BY <1>2, <1>3, <1>4, <1>5
<1>7. Low(w, n) - Low(w, i + 1) = Low(v, n) - Low(v, i + 1)
  <2> DEFINE k == i + 1
  <2>1. k \in 0 .. Ext /\ n \in k .. Ext /\ \A j \in k .. n - 1 : w[j] = v[j]
    BY <1>1
  <2> HIDE DEF k
  <2>2. Low(w, n) - Low(w, k) = Low(v, n) - Low(v, k)
    BY <2>1, LowRest
  <2> QED
    BY <2>2 DEF k
<1>8. Low(w, n) \in Nat /\ Low(w, i + 1) \in Nat /\ Low(v, n) \in Nat /\ Low(v, i + 1) \in Nat
  <2>1. n \in 0 .. Ext
    BY Sizes
  <2> QED
    BY <1>1, <2>1, LowNat
<1> QED
  BY <1>6, <1>7, <1>8

\* Added word by word with a carry, two numbers give their sum.
AddsUp(x, y, z, c, n) == /\ c[0] = 0
                         /\ \A i \in 0 .. n - 1 : /\ c[i] \in Nat /\ c[i+1] \in Nat
                                                  /\ z[i] + B * c[i+1] = x[i] + y[i] + c[i]
Added(P, xi, yi, zi, di, b, X, Y, Z) == (Z + zi * P) + di * (b * P) = (X + xi * P) + (Y + yi * P)
LEMMA LowSum ==
  ASSUME NEW x \in Words, NEW y \in Words, NEW z \in Words, NEW c, NEW n \in Idx, AddsUp(x, y, z, c, n)
  PROVE  Low(z, n) + c[n] * BTo[n] = Low(x, n) + Low(y, n)
<1> DEFINE T == {i \in Nat : i <= n => Low(z, i) + c[i] * BTo[i] = Low(x, i) + Low(y, i)}
<1>1. 0 \in T
  BY LowIs, BToIs DEF AddsUp
<1>2. ASSUME NEW i \in Nat, i \in T PROVE i + 1 \in T
  <2> SUFFICES ASSUME i + 1 <= n
               PROVE  Low(z, i + 1) + c[i + 1] * BTo[i + 1] = Low(x, i + 1) + Low(y, i + 1)
    OBVIOUS
  <2>1. i \in 0 .. Ext - 1 /\ i \in 0 .. Ext - 2 /\ i \in 0 .. Ext /\ i \in Idx /\ i \in 0 .. n - 1
    BY Sizes
  <2>2. Low(z, i) + c[i] * BTo[i] = Low(x, i) + Low(y, i)
    BY <1>2, <2>1
  <2>3. /\ Low(x, i + 1) = Low(x, i) + x[i] * BTo[i] /\ Low(y, i + 1) = Low(y, i) + y[i] * BTo[i]
        /\ Low(z, i + 1) = Low(z, i) + z[i] * BTo[i]
    BY <2>1, LowIs
  <2>4. BTo[i+1] = B * BTo[i] /\ BTo[i] \in Nat /\ B \in Nat
    BY <2>1, BToIs, Sizes
  <2>5. /\ x[i] \in Nat /\ y[i] \in Nat /\ z[i] \in Nat /\ c[i] \in Nat /\ c[i+1] \in Nat
        /\ z[i] + B * c[i+1] = x[i] + y[i] + c[i]
    BY SMTT(30), <2>1, Sizes DEF Words, AddsUp
  <2>6. Low(x, i) \in Nat /\ Low(y, i) \in Nat /\ Low(z, i) \in Nat
    BY <2>1, LowIs
  <2>7. ASSUME NEW P \in Nat, NEW xi \in Nat, NEW yi \in Nat, NEW zi \in Nat, NEW ci \in Nat, NEW di \in Nat,
               NEW b \in Nat, zi + b * di = xi + yi + ci,
               NEW X \in Nat, NEW Y \in Nat, NEW Z \in Nat, Z + ci * P = X + Y
        PROVE  Added(P, xi, yi, zi, di, b, X, Y, Z)
    <3> SUFFICES (Z + zi * P) + di * (b * P) = (X + xi * P) + (Y + yi * P)
      BY DEF Added
    <3>1. (zi + b * di) * P = zi * P + di * (b * P) /\ (xi + yi + ci) * P = xi * P + yi * P + ci * P
      OBVIOUS
    <3>2. zi * P + di * (b * P) = xi * P + yi * P + ci * P
      BY <2>7, <3>1
    <3> DEFINE p == zi * P
               q == di * (b * P)
               r == xi * P
               s == yi * P
               t == ci * P
    <3>3. p \in Nat /\ q \in Nat /\ r \in Nat /\ s \in Nat /\ t \in Nat /\ p + q = r + s + t /\ Z + t = X + Y
      BY <2>7, <3>2
    <3> HIDE DEF p, q, r, s, t
    <3>4. (Z + p) + q = (X + r) + (Y + s)
      BY <3>3
    <3> QED
      BY <3>4 DEF p, q, r, s
  <2>8. (Low(z, i) + z[i] * BTo[i]) + c[i+1] * (B * BTo[i]) = (Low(x, i) + x[i] * BTo[i]) + (Low(y, i) + y[i] * BTo[i])
    <3>1. Added(BTo[i], x[i], y[i], z[i], c[i+1], B, Low(x, i), Low(y, i), Low(z, i))
      BY <2>2, <2>4, <2>5, <2>6, <2>7
    <3> QED
      BY <3>1 DEF Added
  <2> QED
    BY <2>3, <2>4, <2>8
<1>3. Nat \subseteq T
  <2> HIDE DEF T
  <2> QED
    BY <1>1, <1>2, SetInduction
<1> QED
  BY <1>3, Sizes

-----------------------------------------------------------------------------
(* Numbers in the form the library keeps them in.                             *)
Good(b) == b \in Big /\ CleanTail(b) /\ Canonical(b)

\* A number is its words, its length and its sign.
LEMMA BigIs ==
  ASSUME NEW b
  PROVE  b \in Big <=> /\ b = [w |-> b.w, len |-> b.len, neg |-> b.neg]
                       /\ b.w \in Words /\ b.len \in 0 .. Ext /\ b.neg \in BOOLEAN
BY DEF Big, Words

LEMMA GoodIs ==
  ASSUME NEW b, Good(b)
  PROVE  b \in Big /\ b.w \in Words /\ b.len \in 0 .. Ext /\ b.len \in Nat /\ CleanTail(b)
BY BigIs, Sizes DEF Good

\* Where the leading zeros of the first n words begin.
LEMMA SignificantIs ==
  ASSUME NEW w \in Words, NEW n \in 0 .. Ext
  PROVE  /\ Significant(w, n) \in 0 .. n
         /\ Significant(w, n) > 0 => w[Significant(w, n) - 1] # 0
         /\ \A i \in Significant(w, n) .. n - 1 : w[i] = 0
<1> DEFINE Is(k, m) == (k > 0 => w[k-1] # 0) /\ \A i \in k .. m - 1 : w[i] = 0
           T == {m \in Nat : m <= n => \E k \in 0 .. m : Is(k, m)}
<1>0. n \in Nat
  BY Sizes
<1>1. 0 \in T
  <2>1. 0 \in 0 .. 0 /\ Is(0, 0)
    OBVIOUS
  <2> QED
    BY <2>1
<1>2. ASSUME NEW m \in Nat, m \in T PROVE m + 1 \in T
  <2> SUFFICES ASSUME m + 1 <= n PROVE \E k \in 0 .. m + 1 : Is(k, m + 1)
    OBVIOUS
  <2>1. PICK k \in 0 .. m : Is(k, m)
    BY <1>0, <1>2
  <2>2. CASE w[m] = 0
    <3>1. Is(k, m + 1) /\ k \in 0 .. m + 1
      BY <2>1, <2>2
    <3> QED
      BY <3>1
  <2>3. CASE w[m] # 0
    <3>1. Is(m + 1, m + 1) /\ m + 1 \in 0 .. m + 1
      BY <2>3
    <3> QED
      BY <3>1
  <2> QED
    BY <2>2, <2>3
<1>3. Nat \subseteq T
  <2> HIDE DEF T
  <2> QED
    BY <1>1, <1>2, SetInduction
<1>4. \E k \in 0 .. n : Is(k, n)
  BY <1>0, <1>3
<1>5. Significant(w, n) = CHOOSE k \in 0 .. n : Is(k, n)
  BY DEF Significant
<1>6. Significant(w, n) \in 0 .. n /\ Is(Significant(w, n), n)
  <2> HIDE DEF Is
  <2> QED
    BY <1>4, <1>5
<1> QED
  BY <1>6

\* Stripping leading zeros changes no value and leaves the canonical form.
LEMMA LzeroIs ==
  ASSUME NEW b \in Big, CleanTail(b)
  PROVE  /\ Good(mr_lzero(b)) /\ Value(mr_lzero(b)) = Value(b)
         /\ mr_lzero(b).w = b.w /\ mr_lzero(b).len <= b.len /\ (~b.neg => ~mr_lzero(b).neg)
<1> DEFINE k == Significant(b.w, b.len)
           c == mr_lzero(b)
<1>1. b.w \in Words /\ b.len \in 0 .. Ext /\ b.neg \in BOOLEAN /\ b.len \in Nat
  BY Sizes, BigIs
<1>2. k \in 0 .. b.len /\ (k > 0 => b.w[k-1] # 0) /\ \A i \in k .. b.len - 1 : b.w[i] = 0
  BY <1>1, SignificantIs
<1>3. c = [b EXCEPT !.len = k, !.neg = b.neg /\ k > 0]
  BY DEF mr_lzero
<1> HIDE DEF k, c
<1>4. k \in 0 .. Ext /\ b.len \in k .. Ext
  BY <1>1, <1>2, Sizes
<1>5. c.w = b.w /\ c.len = k /\ c.neg = (b.neg /\ k > 0) /\ c \in Big
  BY <1>1, <1>3, <1>4 DEF Big
<1>6. CleanTail(c)
  <2> SUFFICES ASSUME NEW i \in Idx, i >= c.len PROVE c.w[i] = 0
    BY DEF CleanTail
  <2>1. CASE i >= b.len
    BY <1>5, <2>1 DEF CleanTail
  <2>2. CASE ~(i >= b.len)
    <3>1. i \in k .. b.len - 1
      BY <1>1, <1>4, <1>5, <2>2, Sizes
    <3> QED
      BY <1>2, <1>5, <3>1
  <2> QED
    BY <2>1, <2>2
<1>7. Canonical(c)
  BY <1>2, <1>5, <1>4 DEF Canonical
<1>8. Low(b.w, b.len) = Low(b.w, k)
  BY <1>1, <1>2, <1>4, LowMore
<1>9. k = 0 => Low(b.w, k) = 0
  BY <1>1, LowIs
<1>10. Value(c) = Value(b)
  <2>1. Value(b) = IF b.neg THEN -Low(b.w, k) ELSE Low(b.w, k)
    BY <1>8 DEF Value
  <2>2. Value(c) = IF b.neg /\ k > 0 THEN -Low(b.w, k) ELSE Low(b.w, k)
    BY <1>5 DEF Value
  <2>3. Low(b.w, k) \in Nat /\ k \in Nat
    BY <1>1, <1>4, LowNat, Sizes
  <2> QED
    BY <1>1, <1>9, <2>1, <2>2, <2>3
<1> QED
  BY <1>2, <1>5, <1>6, <1>7, <1>10, <1>1 DEF Good, c

\* The rest by the next power has one digit more.
NextDigit(x, P, M, b) == x % M = (x % P) + ((x \div P) % b) * P
LEMMA RestByNext ==
  ASSUME NEW x \in Nat, NEW P \in Nat \ {0}, NEW b \in Nat \ {0}, NEW M, M = b * P
  PROVE  NextDigit(x, P, M, b)
<1> DEFINE q == x \div P
           r == x % P
           s == q \div b
           d == q % b
<1>1. q \in Nat /\ r \in 0 .. P - 1 /\ x = P * q + r
  OBVIOUS
<1> HIDE DEF q, r
<1>2. s \in Nat /\ d \in 0 .. b - 1 /\ q = b * s + d
  BY <1>1
<1> HIDE DEF s, d
<1>3. P * (b * s + d) = M * s + d * P /\ M \in Nat \ {0}
  <2>1. P * (b * s + d) = (b * P) * s + d * P /\ b * P \in Nat \ {0}
    BY <1>2
  <2> QED
    BY <2>1
<1>4. x = M * s + (d * P + r)
  BY <1>1, <1>2, <1>3
<1>5. d * P + r \in 0 .. M - 1
  <2>1. PICK e \in Nat : b = d + 1 + e
    <3>1. b - 1 - d \in Nat /\ b = d + 1 + (b - 1 - d)
      BY <1>2
    <3> QED
      BY <3>1
  <2>2. (d + 1 + e) * P = d * P + P + e * P /\ e * P \in Nat /\ d * P \in Nat
    BY <1>2
  <2> DEFINE p == d * P
             t == e * P
  <2>3. M = p + P + t /\ p \in Nat /\ t \in Nat
    BY <2>1, <2>2
  <2> HIDE DEF p, t
  <2>4. p + r \in 0 .. M - 1
    BY <1>1, <2>3
  <2> QED
    BY <2>4 DEF p
<1>6. (M * s + (d * P + r)) % M = d * P + r
  <2> DEFINE e == d * P + r
  <2>1. e \in 0 .. M - 1
    BY <1>5
  <2> HIDE DEF e
  <2>2. (M * s + e) % M = e
    BY <1>2, <1>3, <2>1, Division
  <2> QED
    BY <2>2 DEF e
<1>7. x % M = d * P + r
  BY <1>4, <1>6
<1>8. d * P + r = r + d * P
  BY <1>1, <1>2
<1> QED
  BY <1>7, <1>8 DEF NextDigit, q, r, d

\* A higher word weighs no less.
LEMMA BToGrows ==
  ASSUME NEW i \in Idx, NEW j \in i .. Ext - 1
  PROVE  BTo[i] <= BTo[j]
<1> DEFINE T == {k \in Nat : i + k < Ext => BTo[i] <= BTo[i + k]}
<1>0. i \in Nat /\ j \in Nat /\ i <= j /\ j < Ext
  BY Sizes
<1>1. 0 \in T
  BY <1>0, BToIs
<1>2. ASSUME NEW k \in Nat, k \in T PROVE k + 1 \in T
  <2> SUFFICES ASSUME i + (k + 1) < Ext PROVE BTo[i] <= BTo[i + (k + 1)]
    OBVIOUS
  <2> DEFINE h == i + k
  <2>1. h \in 0 .. Ext - 2 /\ h \in Idx /\ i + (k + 1) = h + 1
    BY <1>0, Sizes
  <2>2. BTo[i] <= BTo[h]
    BY <1>0, <1>2, Sizes
  <2> HIDE DEF h
  <2>3. BTo[h + 1] = B * BTo[h] /\ BTo[h] \in Nat /\ BTo[i] \in Nat
    BY <2>1, BToIs
  <2>4. PICK e \in Nat : B = e + 1
    <3>1. B - 1 \in Nat /\ B = (B - 1) + 1
      BY Sizes
    <3> QED
      BY <3>1
  <2>5. ASSUME NEW a \in Nat PROVE a <= B * a
    <3>1. (e + 1) * a = e * a + a /\ e * a \in Nat
      OBVIOUS
    <3>2. B * a = e * a + a
      BY <2>4, <3>1
    <3> QED
      BY <3>1, <3>2
  <2>6. BTo[h] <= BTo[h + 1]
    BY <2>3, <2>5
  <2>7. BTo[h + 1] \in Nat
    <3>1. h + 1 \in Idx
      BY <2>1, Sizes
    <3> QED
      BY <3>1, BToIs
  <2> QED
    BY <2>1, <2>2, <2>3, <2>6, <2>7
<1>3. Nat \subseteq T
  <2> HIDE DEF T
  <2> QED
    BY <1>1, <1>2, SetInduction
<1>4. j - i \in T /\ i + (j - i) = j
  <2> HIDE DEF T
  <2> QED
    BY <1>0, <1>3
<1> QED
  BY <1>0, <1>4

\* The words beyond a clean number's length add nothing.
LEMMA LowWhole ==
  ASSUME NEW b \in Big, CleanTail(b), NEW n \in b.len .. Ext
  PROVE  Low(b.w, n) = Low(b.w, b.len)
<1>1. b.w \in Words /\ b.len \in 0 .. Ext
  BY BigIs
<1>2. ASSUME NEW i \in b.len .. n - 1 PROVE b.w[i] = 0
  <2>1. i \in Idx /\ i >= b.len
    BY <1>1, Sizes
  <2> QED
    BY <2>1 DEF CleanTail
<1> QED
  BY <1>1, <1>2, LowMore

\* A number of at most n words is below the base to the power n, a longer one not.
LEMMA LengthTells ==
  ASSUME NEW b, Good(b), NEW n \in Idx
  PROVE  (b.len <= n) <=> Low(b.w, b.len) < BTo[n]
<1>1. b.w \in Words /\ b.len \in 0 .. Ext /\ b.len \in Nat /\ n \in Nat
  BY BigIs, Sizes DEF Good
<1>2. ASSUME b.len <= n PROVE Low(b.w, b.len) < BTo[n]
  <2>1. b.len \in Idx /\ n \in b.len .. Ext - 1
    BY <1>1, <1>2, Sizes
  <2>2. Low(b.w, b.len) \in Nat /\ Low(b.w, b.len) < BTo[b.len] /\ BTo[b.len] <= BTo[n]
    BY <1>1, <2>1, LowBelow, BToGrows
  <2>3. BTo[b.len] \in Nat /\ BTo[n] \in Nat
    BY <2>1, BToIs
  <2> QED
    BY <2>2, <2>3
<1>3. ASSUME ~(b.len <= n) PROVE BTo[n] <= Low(b.w, b.len)
  <2> DEFINE k == b.len - 1
  <2>1. k \in 0 .. Ext - 1 /\ k \in n .. Ext - 1 /\ k + 1 = b.len /\ k \in Idx
    BY <1>1, <1>3, Sizes
  <2>2. b.w[k] # 0
    BY <1>1, <1>3 DEF Good, Canonical
  <2> HIDE DEF k
  <2>3. BTo[k] <= Low(b.w, k + 1)
    BY <1>1, <2>1, <2>2, LowTop
  <2>4. BTo[n] <= BTo[k]
    BY <2>1, BToGrows
  <2>5. BTo[k] \in Nat /\ BTo[n] \in Nat /\ Low(b.w, b.len) \in Nat
    BY <1>1, <2>1, BToIs, LowNat
  <2> QED
    BY <2>1, <2>3, <2>4, <2>5
<1>4. Low(b.w, b.len) \in Nat /\ BTo[n] \in Nat
  BY <1>1, LowNat, BToIs
<1> QED
  BY <1>2, <1>3, <1>4

\* A number as MIRACL stores it stands for that number.
LEMMA OfIntIs ==
  ASSUME NEW n \in Int, Abs(n) < BTo[nib]
  PROVE  Good(OfInt(n)) /\ Value(OfInt(n)) = n /\ OfInt(n).len <= nib
<1> DEFINE a == Abs(n)
           w == [i \in Idx |-> (a \div BTo[i]) % B]
           b == [w |-> w, len |-> Ext, neg |-> n < 0]
<1>1. a \in Nat /\ a < BTo[nib] /\ n = IF n < 0 THEN -a ELSE a
  BY DEF Abs
<1>2. nib \in Idx /\ nib \in Nat /\ nib \in 0 .. Ext /\ Ext \in nib .. Ext /\ Ext \in 0 .. Ext
  BY Sizes
<1>3. OfInt(n) = mr_lzero(b)
  BY DEF OfInt
<1> HIDE DEF a
<1>4. \A i \in Idx : a \div BTo[i] \in Nat /\ (a \div BTo[i]) % B \in 0 .. B - 1
  <2> TAKE i \in Idx
  <2>1. BTo[i] \in Nat \ {0} /\ B \in Nat \ {0}
    BY BToIs, Sizes
  <2>2. a \div BTo[i] \in Nat
    BY <1>1, <2>1
  <2> QED
    BY <2>1, <2>2
<1>5. w \in Words
  BY <1>4, Sizes DEF Words
<1>6. b \in Big /\ b.w = w /\ b.len = Ext /\ b.neg = (n < 0) /\ b.neg \in BOOLEAN
  <2>1. b.w = w /\ b.len = Ext /\ b.neg = (n < 0) /\ b = [w |-> b.w, len |-> b.len, neg |-> b.neg]
    BY <1>5
  <2>2. (n < 0) \in BOOLEAN
    OBVIOUS
  <2> HIDE DEF b, w
  <2>3. b.neg \in BOOLEAN
    BY <2>1, <2>2
  <2>4. b.w \in Words /\ b.len \in 0 .. Ext
    BY <1>2, <1>5, <2>1
  <2> QED
    BY <2>1, <2>3, <2>4, BigIs
<1> DEFINE T == {k \in Nat : k < Ext => Low(w, k) = a % BTo[k]}
<1>7. 0 \in T
  <2>1. Low(w, 0) = 0 /\ BTo[0] = 1 /\ a % 1 = 0
    BY <1>1, <1>5, LowIs, BToIs
  <2> HIDE DEF w
  <2> QED
    BY <2>1
<1>8. ASSUME NEW k \in Nat, k \in T PROVE k + 1 \in T
  <2> SUFFICES ASSUME k + 1 < Ext PROVE Low(w, k + 1) = a % BTo[k + 1]
    OBVIOUS
  <2>1. k \in 0 .. Ext - 1 /\ k \in 0 .. Ext - 2 /\ k \in Idx
    BY Sizes
  <2>2. Low(w, k) = a % BTo[k]
    BY <1>8, Sizes
  <2>3. w[k] = (a \div BTo[k]) % B
    BY <2>1
  <2> HIDE DEF w
  <2>4. Low(w, k + 1) = Low(w, k) + w[k] * BTo[k]
    BY <1>5, <2>1, LowIs
  <2>5. BTo[k+1] = B * BTo[k] /\ BTo[k] \in Nat \ {0} /\ B \in Nat \ {0}
    BY <2>1, BToIs, Sizes
  <2>6. NextDigit(a, BTo[k], BTo[k+1], B)
    BY <1>1, <2>5, RestByNext
  <2> QED
    BY <2>2, <2>3, <2>4, <2>6 DEF NextDigit
<1>9. Nat \subseteq T
  <2> HIDE DEF T
  <2> QED
    BY <1>7, <1>8, SetInduction
<1>10. Low(w, nib) = a
  <2>1. Low(w, nib) = a % BTo[nib]
    BY <1>2, <1>9, Sizes
  <2>2. BTo[nib] \in Nat \ {0} /\ a \in 0 .. BTo[nib] - 1
    BY <1>1, <1>2, BToIs
  <2> HIDE DEF w
  <2> QED
    BY <2>1, <2>2, SmallRest
<1>11. ASSUME NEW i \in Idx, i >= nib PROVE w[i] = 0
  <2>1. i \in nib .. Ext - 1
    BY <1>2, <1>11, Sizes
  <2>2. BTo[nib] <= BTo[i] /\ BTo[i] \in Nat \ {0} /\ BTo[nib] \in Nat
    BY <1>2, <2>1, BToGrows, BToIs
  <2>3. a \in 0 .. BTo[i] - 1
    BY <1>1, <2>2
  <2>4. a \div BTo[i] = 0
    BY <2>2, <2>3
  <2>5. 0 % B = 0
    BY Sizes
  <2> QED
    BY <2>4, <2>5
<1> HIDE DEF w
<1>12. Low(w, Ext) = a
  <2>1. \A i \in nib .. Ext - 1 : w[i] = 0
    BY <1>2, <1>11, Sizes
  <2>2. Low(w, Ext) = Low(w, nib)
    BY <1>2, <1>5, <2>1, LowMore
  <2> QED
    BY <1>10, <2>2
<1> HIDE DEF b
<1>13. CleanTail(b)
  <2>1. \A i \in Idx : ~(i >= Ext)
    BY Sizes
  <2> QED
    BY <1>6, <2>1 DEF CleanTail
<1>14. Value(b) = n
  BY <1>1, <1>6, <1>12 DEF Value
<1>15. Good(mr_lzero(b)) /\ Value(mr_lzero(b)) = n /\ mr_lzero(b).w = w
  BY <1>6, <1>13, <1>14, LzeroIs
<1>16. mr_lzero(b).len <= nib
  <2> DEFINE c == mr_lzero(b)
  <2>1. c.len \in 0 .. Ext /\ (c.len > 0 => c.w[c.len - 1] # 0) /\ c.w = w
    BY <1>15, BigIs DEF Good, Canonical
  <2> HIDE DEF c
  <2>2. SUFFICES ASSUME c.len > nib PROVE FALSE
    BY <2>1, Sizes DEF c
  <2>3. c.len - 1 \in Idx /\ c.len - 1 >= nib /\ c.len > 0
    BY <2>1, <2>2, Sizes
  <2> QED
    BY <1>11, <2>1, <2>3
<1> QED
  BY <1>3, <1>15, <1>16

-----------------------------------------------------------------------------
(* The memory: one number changed, the others as they were.                   *)
Names    == Reg \union Scratch
Memories == [r : [Names -> Big], ERNUM : Int, check : BOOLEAN]
Others(m, n, z) == /\ n \in Memories /\ n.check = m.check
                   /\ \A y \in Names : y # z => n.r[y] = m.r[y]
Changed(m, n, z) == Others(m, n, z) /\ n.ERNUM = m.ERNUM

\* A memory is its numbers, its error and its check.
LEMMA MemoryIs ==
  ASSUME NEW m
  PROVE  m \in Memories <=> /\ m = [r |-> m.r, ERNUM |-> m.ERNUM, check |-> m.check]
                            /\ m.r \in [Names -> Big] /\ m.ERNUM \in Int /\ m.check \in BOOLEAN
BY DEF Memories

\* Writing the words out changes nothing.
LEMMA SettledIs ==
  ASSUME NEW b \in Big
  PROVE  Settled(b) = b
<1> DEFINE st == [i \in Idx |-> [v \in Word |-> b.w[i+1]]]
           n == Ext - 1
           all == Carried(n, b.w[0], st)
<1>1. b.w \in Words /\ n \in Nat /\ 0 \in Idx /\ Idx = 0 .. n
  BY BigIs, Sizes
<1>2. \A i \in 0 .. n - 1, v \in Word : st[i][v] = b.w[i+1]
  BY <1>1
<1>3. b.w[0] \in Word /\ \A i \in 0 .. n - 1 : b.w[i+1] \in Word
  <2>1. \A i \in 0 .. n - 1 : i + 1 \in Idx
    BY <1>1
  <2> QED
    BY <1>1, <2>1 DEF Words
<1>4. Settled(b) = [b EXCEPT !.w = [i \in Idx |-> all[i]]]
  BY DEF Settled
<1> HIDE DEF st
<1>5. Inside(n, Word, st)
  BY <1>2, <1>3 DEF Inside
<1>6. all \in [0 .. n -> Word] /\ CarriesOn(all, n, b.w[0], st)
  <2> HIDE DEF n
  <2> QED
    BY <1>1, <1>3, <1>5, CarriedIs
<1> HIDE DEF all
<1>7. \A i \in Idx : all[i] = b.w[i]
  <2> TAKE i \in Idx
  <2>1. CASE i = 0
    BY <1>6, <2>1 DEF CarriesOn
  <2>2. CASE i # 0
    <3>1. i - 1 \in 0 .. n - 1 /\ (i - 1) + 1 = i /\ i - 1 \in 0 .. n
      BY <1>1, <2>2
    <3>2. all[(i - 1) + 1] = st[i - 1][all[i - 1]] /\ all[i-1] \in Word
      BY <1>6, <3>1 DEF CarriesOn
    <3> QED
      BY <1>2, <3>1, <3>2
  <2> QED
    BY <2>1, <2>2
<1>8. [i \in Idx |-> all[i]] = b.w
  BY <1>1, <1>7 DEF Words
<1>9. b = [w |-> b.w, len |-> b.len, neg |-> b.neg]
  BY BigIs
<1> QED
  BY <1>4, <1>8, <1>9

\* A number that is put into z is in z, and only there.
LEMMA PutIs ==
  ASSUME NEW m \in Memories, NEW z \in Names, NEW b \in Big
  PROVE  Changed(m, Put(m, z, b), z) /\ Put(m, z, b).r[z] = b
<1>1. Put(m, z, b) = [m EXCEPT !.r[z] = b]
  BY SettledIs DEF Put
<1> QED
  BY <1>1 DEF Changed, Others, Memories

\* Setting the sign of a number changes nothing else.
LEMMA SetSignIs ==
  ASSUME NEW m \in Memories, NEW z \in Names, NEW s \in BOOLEAN
  PROVE  /\ Changed(m, SetSign(m, z, s), z)
         /\ LET b == SetSign(m, z, s).r[z]
            IN  b.w = m.r[z].w /\ b.len = m.r[z].len /\ b.neg = s /\ (m.r[z].neg = s => b = m.r[z])
<1> DEFINE b == [m.r[z] EXCEPT !.neg = s]
<1>1. SetSign(m, z, s) = [m EXCEPT !.r[z] = b]
  BY DEF SetSign
<1>2. m.r[z] \in Big /\ m.r \in [Names -> Big]
  BY MemoryIs
<1>3. b \in Big /\ b.w = m.r[z].w /\ b.len = m.r[z].len /\ b.neg = s /\ (m.r[z].neg = s => b = m.r[z])
  BY <1>2 DEF Big
<1> HIDE DEF b
<1>4. Changed(m, [m EXCEPT !.r[z] = b], z) /\ [m EXCEPT !.r[z] = b].r[z] = b
  BY <1>3 DEF Changed, Others, Memories
<1> QED
  BY <1>1, <1>3, <1>4

\* A number whose upper words are clear is zero when its words in use are cleared.
LEMMA ZeroIs ==
  ASSUME NEW m \in Memories, NEW z \in Names, CleanTail(m.r[z])
  PROVE  Changed(m, zero(m, z), z) /\ zero(m, z).r[z] = Zero
<1> DEFINE X == m.r[z]
<1>1. X \in Big /\ X.w \in Words /\ X.len \in 0 .. Ext
  BY MemoryIs, BigIs
<1>2. ZeroBig(X) = Zero
  <2>1. \A i \in Idx : (IF i < X.len THEN 0 ELSE X.w[i]) = 0
    <3> TAKE i \in Idx
    <3>1. ~(i < X.len) => i >= X.len
      BY <1>1, Sizes
    <3> QED
      BY <3>1 DEF CleanTail
  <2> QED
    BY <2>1 DEF ZeroBig, Zero
<1>3. Zero \in Big
  BY Sizes DEF Zero, Big
<1> QED
  BY <1>2, <1>3, PutIs DEF zero

\* Zero has the kept form and the value 0.
LEMMA ZeroGood == Good(Zero) /\ Value(Zero) = 0 /\ Zero.len = 0 /\ Low(Zero.w, Zero.len) = 0 /\ ~Zero.neg
<1>1. Zero \in Big /\ Zero.w \in Words /\ Zero.len = 0 /\ ~Zero.neg /\ \A i \in Idx : Zero.w[i] = 0
  BY Sizes DEF Zero, Big, Words
<1> HIDE DEF Zero
<1>2. Low(Zero.w, 0) = 0
  BY <1>1, LowIs
<1> QED
  BY <1>1, <1>2, Sizes DEF Good, CleanTail, Canonical, Value

\* A number is copied whole into any number whose upper words are clear.
LEMMA CopyIs ==
  ASSUME NEW m \in Memories, NEW x \in Names, NEW z \in Names, CleanTail(m.r[x]), CleanTail(m.r[z])
  PROVE  Changed(m, copy(m, x, z), z) /\ copy(m, x, z).r[z] = m.r[x]
<1> DEFINE X == m.r[x]
           Y == m.r[z]
<1>1. X \in Big /\ X.w \in Words /\ X.len \in 0 .. Ext /\ Y.w \in Words /\ Y.len \in 0 .. Ext
  BY MemoryIs, BigIs
<1>2. CopyBig(X, Y) = X
  <2>1. \A i \in Idx : (IF i < X.len THEN X.w[i] ELSE IF i < Y.len THEN 0 ELSE Y.w[i]) = X.w[i]
    <3> TAKE i \in Idx
    <3>1. (~(i < X.len) => i >= X.len) /\ (~(i < Y.len) => i >= Y.len)
      BY <1>1, Sizes
    <3> QED
      BY <3>1 DEF CleanTail
  <2>2. [i \in Idx |-> IF i < X.len THEN X.w[i] ELSE IF i < Y.len THEN 0 ELSE Y.w[i]] = X.w
    BY <1>1, <2>1 DEF Words
  <2>3. X = [w |-> X.w, len |-> X.len, neg |-> X.neg]
    BY <1>1, BigIs
  <2> HIDE DEF X, Y
  <2> QED
    BY <2>2, <2>3 DEF CopyBig
<1>3. CASE x = z
  BY <1>3 DEF copy, Changed, Others
<1>4. CASE x # z
  BY <1>1, <1>2, <1>4, PutIs DEF copy
<1> QED
  BY <1>3, <1>4

-----------------------------------------------------------------------------
(* Addition and subtraction of magnitudes.                                    *)
Mag(b) == Low(b.w, b.len)

\* Reading the carry off the sum of two words and a carry is right.
CarryRight(x, y, c) == LET s == (x + y + c) % B
                       IN  /\ s \in Word /\ NextCarry(s, x, c) \in 0 .. 1
                           /\ s + B * NextCarry(s, x, c) = x + y + c
LEMMA CarryIs ==
  ASSUME NEW x \in Word, NEW y \in Word, NEW c \in 0 .. 1
  PROVE  CarryRight(x, y, c)
<1>1. x \in Nat /\ x < B /\ y \in Nat /\ y < B /\ c \in Nat /\ c <= 1 /\ B \in Nat \ {0} /\ Word = 0 .. B - 1
  BY Sizes
<1>2. CASE x + y + c < B
  <2>1. x + y + c \in 0 .. B - 1
    BY <1>1, <1>2
  <2>2. (x + y + c) % B = x + y + c
    BY <1>1, <2>1
  <2> QED
    BY <1>1, <2>1, <2>2 DEF CarryRight, NextCarry
<1>3. CASE ~(x + y + c < B)
  <2> DEFINE e == x + y + c - B
  <2>1. e \in 0 .. B - 1 /\ x + y + c = B * 1 + e /\ 1 \in Nat
    BY <1>1, <1>3
  <2> HIDE DEF e
  <2>2. (B * 1 + e) % B = e
    BY <1>1, <2>1, Division
  <2>3. (x + y + c) % B = e
    BY <2>1, <2>2
  <2> QED
    BY <1>1, <2>1, <2>3 DEF CarryRight, NextCarry
<1> QED
  BY <1>2, <1>3

\* And so is reading the borrow off the difference.
BorrowRight(x, y, c) == LET d == (x - y - c) % B
                        IN  /\ d \in Word /\ NextBorrow(d, x, c) \in 0 .. 1
                            /\ d + y + c = x + B * NextBorrow(d, x, c)
LEMMA BorrowIs ==
  ASSUME NEW x \in Word, NEW y \in Word, NEW c \in 0 .. 1
  PROVE  BorrowRight(x, y, c)
<1>1. x \in Nat /\ x < B /\ y \in Nat /\ y < B /\ c \in Nat /\ c <= 1 /\ B \in Nat \ {0} /\ Word = 0 .. B - 1
  BY Sizes
<1>2. CASE x >= y + c
  <2>1. x - y - c \in 0 .. B - 1
    BY <1>1, <1>2
  <2>2. (x - y - c) % B = x - y - c
    BY <1>1, <2>1
  <2> QED
    BY <1>1, <2>1, <2>2 DEF BorrowRight, NextBorrow
<1>3. CASE ~(x >= y + c)
  <2> DEFINE e == x - y - c + B
             a == x - y - c
  <2>1. e \in 0 .. B - 1 /\ a \in Int /\ e \in Int /\ e = a + B * 1 /\ a = x - y - c /\ e = x - y - c + B
    BY <1>1, <1>3
  <2> HIDE DEF e, a
  <2>2. Same(e, a, B)
    BY <1>1, <2>1 DEF Same
  <2>3. e % B = a % B
    BY <1>1, <2>1, <2>2, SameRests
  <2>4. e % B = e
    BY <1>1, <2>1, SmallRest
  <2>5. (x - y - c) % B = e
    BY <2>1, <2>3, <2>4
  <2> QED
    BY <1>1, <2>1, <2>5 DEF BorrowRight, NextBorrow
<1> QED
  BY <1>2, <1>3

\* The magnitudes a call works with, one word short of all the room there is.
Operand(b) == Good(b) /\ b.len <= 2 * nib
\* z holds s without a sign and no other number changed; or s does not fit.
Holds(m, n, z, s) ==
  /\ Others(m, n, z)
  /\ \/ /\ n.ERNUM = m.ERNUM
        /\ Good(n.r[z]) /\ ~n.r[z].neg /\ Mag(n.r[z]) = s /\ (m.check => n.r[z].len <= nib)
     \/ n.ERNUM = ERR_OVERFLOW /\ m.check /\ s >= BTo[nib]


\* What mr_padd has made sure of when it starts to add the words of x and y up:
\* from word la on, where the shorter number has ended, z holds their sum.
SumReady(m, x, y, z, la, lz) ==
  /\ Operand(m.r[x]) /\ Operand(m.r[y]) /\ la <= lz
  /\ lz = Most(m.r[x].len, m.r[y].len) /\ (m.check => lz <= nib)
  /\ \A i \in Idx : i >= la => /\ m.r[z].w[i] = m.r[x].w[i] + m.r[y].w[i]
                               /\ m.r[x].w[i] \in {0, m.r[z].w[i]}

\* The words and the carry of a sum, whatever z held, as long as the words past
\* the shorter number are already those of the longer one.
LEMMA SumIntoIs ==
  ASSUME NEW m \in Memories, NEW x \in Names, NEW y \in Names, NEW z \in Names,
         NEW lz \in Nat, NEW la \in Nat, SumReady(m, x, y, z, la, lz)
  PROVE  Holds(m, SumInto(m, x, y, z, la, lz), z, Mag(m.r[x]) + Mag(m.r[y]))
<1> DEFINE X == m.r[x]  Y == m.r[y]  Z == m.r[z].w
           st == [i \in Idx |-> [carry \in 0 .. 1 |->
                   IF i >= la /\ carry = 0 THEN 0 ELSE NextCarry(SumWord(X, Y, i, carry), X.w[i], carry)]]
           c == SumCarries(X, Y, la, lz)
           room == lz < nib \/ ~m.check
           w == SumWords(X, Y, Z, c, la, lz, room)
           len == IF room THEN lz + 1 ELSE lz
           full == [w |-> w, len |-> lz, neg |-> FALSE]
           done == [w |-> w, len |-> IF len > 0 /\ w[len-1] = 0 THEN len - 1 ELSE len, neg |-> FALSE]
           s == Mag(X) + Mag(Y)
<1>0. SumInto(m, x, y, z, la, lz) = IF c[lz] > 0 /\ ~room THEN mr_berror(Put(m, z, full), ERR_OVERFLOW)
                                    ELSE Put(m, z, done)
  BY DEF SumInto
<1>1. c = Carried(lz, 0, st)
  BY DEF SumCarries
<1>2. /\ X \in Big /\ Y \in Big /\ X.w \in Words /\ Y.w \in Words /\ Z \in Words
      /\ X.len \in 0 .. Ext /\ Y.len \in 0 .. Ext /\ X.len <= 2 * nib /\ Y.len <= 2 * nib
      /\ CleanTail(X) /\ CleanTail(Y)
  BY BigIs, MemoryIs DEF SumReady, Operand, Good
<1>3. /\ lz <= 2 * nib /\ lz \in Idx /\ lz + 1 \in Idx /\ lz + 1 \in 0 .. Ext /\ lz \in 0 .. Ext /\ lz \in 0 .. Ext - 1
      /\ lz \in X.len .. Ext /\ lz \in Y.len .. Ext /\ X.len \in Nat /\ Y.len \in Nat /\ (lz = X.len \/ lz = Y.len)
      /\ la <= lz /\ (m.check => lz <= nib)
  <2>1. la <= lz /\ (m.check => lz <= nib) /\ lz = Most(X.len, Y.len)
    BY DEF SumReady
  <2> HIDE DEF X, Y
  <2>2. /\ X.len \in Nat /\ Y.len \in Nat /\ (lz = X.len \/ lz = Y.len)
        /\ X.len <= lz /\ Y.len <= lz /\ lz <= 2 * nib
    BY <1>2, <2>1, Sizes DEF Most
  <2>3. lz \in Idx /\ lz + 1 \in Idx /\ lz + 1 \in 0 .. Ext /\ lz \in 0 .. Ext /\ lz \in 0 .. Ext - 1
    BY <2>2, Sizes
  <2> QED
    BY <1>2, <2>1, <2>2, <2>3
<1>4. \A i \in Idx, cy \in 0 .. 1 : CarryRight(X.w[i], Y.w[i], cy)
  <2>1. \A i \in Idx : X.w[i] \in Word /\ Y.w[i] \in Word
    BY <1>2 DEF Words
  <2> QED
    BY <2>1, CarryIs
<1>5. \A i \in Idx : X.w[i] \in Nat /\ Y.w[i] \in Nat /\ Z[i] \in Nat /\ X.w[i] < B /\ Y.w[i] < B /\ Z[i] < B
  BY <1>2, At
\* Past the shorter number a carry of zero stays zero.
<1>6. \A i \in Idx : i >= la => Z[i] = X.w[i] + Y.w[i]
  BY DEF SumReady
<1>7. ASSUME NEW i \in Idx, NEW cy \in 0 .. 1
      PROVE  /\ st[i][cy] \in 0 .. 1
             /\ IF i >= la /\ cy = 0 THEN Z[i] + B * st[i][cy] = X.w[i] + Y.w[i] + cy
                ELSE SumWord(X, Y, i, cy) + B * st[i][cy] = X.w[i] + Y.w[i] + cy
             /\ SumWord(X, Y, i, cy) \in Word
  <2>1. st[i][cy] = IF i >= la /\ cy = 0 THEN 0 ELSE NextCarry(SumWord(X, Y, i, cy), X.w[i], cy)
    OBVIOUS
  <2>2. CarryRight(X.w[i], Y.w[i], cy)
    BY <1>4
  <2> HIDE DEF st, X, Y, Z
  <2>3. CASE i >= la /\ cy = 0
    <3>1. st[i][cy] = 0 /\ Z[i] = X.w[i] + Y.w[i] /\ B * 0 = 0
      BY <1>6, <2>1, <2>3, Sizes
    <3> QED
      BY <1>5, <2>2, <2>3, <3>1 DEF CarryRight, SumWord
  <2>4. CASE ~(i >= la /\ cy = 0)
    BY <2>1, <2>2, <2>4 DEF CarryRight, SumWord
  <2> QED
    BY <2>3, <2>4
<1> HIDE DEF st, X, Y, Z
<1>8. Inside(lz, 0 .. 1, st)
  <2>1. \A i \in 0 .. lz - 1 : i \in Idx
    BY <1>3, Sizes
  <2> QED
    BY <1>7, <2>1 DEF Inside
<1>9. c \in [0 .. lz -> 0 .. 1] /\ CarriesOn(c, lz, 0, st)
  <2>1. 0 \in 0 .. 1
    OBVIOUS
  <2> HIDE DEF c
  <2> QED
    BY <1>1, <1>8, <2>1, CarriedIs
<1>10. ASSUME NEW i \in Idx
       PROVE  w[i] = IF i < la \/ (i < lz /\ c[i] > 0) THEN SumWord(X, Y, i, c[i])
                     ELSE IF i = lz /\ c[lz] > 0 /\ room THEN c[lz] ELSE Z[i]
  BY DEF SumWords
<1> HIDE DEF c, w, room
<1>11. ASSUME NEW i \in Idx, i < lz
       PROVE  w[i] \in Word /\ w[i] + B * c[i+1] = X.w[i] + Y.w[i] + c[i]
  <2>1. i \in 0 .. lz - 1 /\ i \in 0 .. lz /\ c[i] \in 0 .. 1 /\ c[i+1] = st[i][c[i]]
    BY SMTT(30), <1>3, <1>9, <1>11, Sizes DEF CarriesOn
  <2>2. CASE i >= la /\ c[i] = 0
    <3>1. w[i] = Z[i]
      <4>1. ~(i < la) /\ ~(c[i] > 0) /\ i # lz
        BY <1>3, <1>11, <2>2, Sizes
      <4> QED
        BY <1>10, <4>1
    <3>2. Z[i] + B * st[i][c[i]] = X.w[i] + Y.w[i] + c[i]
      BY <1>7, <2>1, <2>2
    <3>3. Z[i] \in Word
      BY <1>5, Sizes
    <3> QED
      BY <2>1, <3>1, <3>2, <3>3
  <2>3. CASE ~(i >= la /\ c[i] = 0)
    <3>1. w[i] = SumWord(X, Y, i, c[i])
      <4>1. i < la \/ (i < lz /\ c[i] > 0)
        BY SMTT(30), <1>3, <1>11, <2>1, <2>3, Sizes
      <4> QED
        BY <1>10, <4>1
    <3> QED
      BY <1>7, <2>1, <2>3, <3>1
  <2> QED
    BY <2>2, <2>3
<1>12. \A i \in Idx : i >= lz => X.w[i] = 0 /\ Y.w[i] = 0 /\ Z[i] = 0
  <2> TAKE i \in Idx
  <2> HAVE i >= lz
  <2>1. i >= X.len /\ i >= Y.len /\ i >= la
    BY <1>3, Sizes
  <2>2. X.w[i] = 0 /\ Y.w[i] = 0
    BY <1>2, <2>1 DEF CleanTail
  <2> QED
    BY <1>6, <2>1, <2>2
<1>13. \A i \in Idx : i >= lz => w[i] = IF i = lz /\ c[lz] > 0 /\ room THEN c[lz] ELSE 0
  <2> TAKE i \in Idx
  <2> HAVE i >= lz
  <2>1. ~(i < la) /\ ~(i < lz)
    BY <1>3, Sizes
  <2> QED
    BY <1>10, <1>12, <2>1
<1>14. c[lz] \in 0 .. 1 /\ c[0] = 0 /\ room \in BOOLEAN
  <2>1. lz \in 0 .. lz
    BY <1>3
  <2> QED
    BY <1>9, <2>1 DEF CarriesOn, room
<1>15. w \in Words
  <2>1. \A i \in Idx : w[i] \in Word
    <3> TAKE i \in Idx
    <3>1. CASE i < lz
      BY <1>11, <3>1
    <3>2. CASE ~(i < lz)
      BY <1>3, <1>13, <1>14, <3>2, Sizes
    <3> QED
      BY <3>1, <3>2
  <2> QED
    BY <2>1 DEF w, SumWords, Words
<1>16. Low(w, lz) + c[lz] * BTo[lz] = Low(X.w, lz) + Low(Y.w, lz)
  <2>1. AddsUp(X.w, Y.w, w, c, lz)
    <3> SUFFICES ASSUME NEW i \in 0 .. lz - 1
                 PROVE  /\ c[i] \in Nat /\ c[i+1] \in Nat
                        /\ w[i] + B * c[i+1] = X.w[i] + Y.w[i] + c[i]
      BY <1>14 DEF AddsUp
    <3>1. i \in Idx /\ i < lz /\ i \in 0 .. lz /\ i + 1 \in 0 .. lz
      BY <1>3, Sizes
    <3>2. c[i] \in Nat /\ c[i+1] \in Nat
      <4>1. c[i] \in 0 .. 1 /\ c[i+1] \in 0 .. 1
        BY <1>9, <3>1 DEF CarriesOn
      <4> QED
        BY <4>1
    <3>3. w[i] + B * c[i+1] = X.w[i] + Y.w[i] + c[i]
      BY <1>11, <3>1
    <3> QED
      BY <3>2, <3>3
  <2> QED
    BY <1>2, <1>3, <1>15, <2>1, LowSum
<1>17. Low(X.w, lz) = Mag(X) /\ Low(Y.w, lz) = Mag(Y) /\ s \in Nat
  <2>1. Low(X.w, lz) = Mag(X) /\ Low(Y.w, lz) = Mag(Y)
    BY <1>2, <1>3, LowWhole DEF Mag
  <2>2. Low(X.w, lz) \in Nat /\ Low(Y.w, lz) \in Nat
    BY <1>2, <1>3, LowNat
  <2> QED
    BY <2>1, <2>2
<1>18. Low(w, lz) + c[lz] * BTo[lz] = s
  BY <1>16, <1>17
<1> DEFINE b(k) == [w |-> w, len |-> k, neg |-> FALSE]
\* A length that ends in a word in use, with clear words above it, is right.
<1>19. ASSUME NEW k \in 0 .. Ext
       PROVE  b(k) \in Big /\ b(k).w = w /\ b(k).len = k /\ b(k).neg = FALSE
  BY <1>15, <1>19 DEF Big, Words
<1>20. ASSUME NEW k \in 0 .. Ext, \A i \in Idx : i >= k => w[i] = 0, k > 0 => w[k-1] # 0
       PROVE  Good(b(k)) /\ Mag(b(k)) = Low(w, k)
  <2> HIDE DEF b
  <2> QED
    BY <1>19, <1>20 DEF Good, CleanTail, Canonical, Mag
<1> HIDE DEF b
<1>21. done = b(done.len) /\ full = b(lz) /\ done.len = IF len > 0 /\ w[len-1] = 0 THEN len - 1 ELSE len
  BY DEF b
<1>22. BTo[lz] \in Nat /\ Low(w, lz) \in Nat /\ BTo[nib] \in Nat
  <2>1. nib \in Idx
    BY Sizes
  <2>2. Low(w, lz) \in Nat
    BY <1>3, <1>15, LowNat
  <2> QED
    BY <1>3, <2>1, <2>2, BToIs
<1> HIDE DEF full, done, s
<1>23. CASE c[lz] > 0 /\ ~room
  <2> DEFINE n == Put(m, z, b(lz))
  <2>1. Changed(m, n, z)
    BY <1>3, <1>19, PutIs
  <2> HIDE DEF n
  <2>2. SumInto(m, x, y, z, la, lz) = mr_berror(n, ERR_OVERFLOW)
    BY <1>0, <1>21, <1>23 DEF n
  <2>3. Others(m, mr_berror(n, ERR_OVERFLOW), z) /\ mr_berror(n, ERR_OVERFLOW).ERNUM = ERR_OVERFLOW
    BY <2>1 DEF Changed, Others, Memories, mr_berror, ERR_OVERFLOW
  <2>4. m.check /\ lz >= nib
    BY <1>3, <1>23, Sizes, MemoryIs DEF room
  <2>5. BTo[nib] <= BTo[lz]
    <3>1. nib \in Idx /\ lz \in nib .. Ext - 1
      BY <1>3, <2>4, Sizes
    <3> QED
      BY <3>1, BToGrows
  <2>6. c[lz] = 1 /\ 1 * BTo[lz] = BTo[lz]
    BY <1>14, <1>22, <1>23
  <2>7. s >= BTo[nib]
    BY <1>18, <1>22, <2>5, <2>6
  <2> QED
    BY <2>2, <2>3, <2>4, <2>7 DEF Holds, s, X, Y
<1>24. CASE ~(c[lz] > 0 /\ ~room)
  <2>1. ASSUME NEW k \in 0 .. Ext, done.len = k, \A i \in Idx : i >= k => w[i] = 0, k > 0 => w[k-1] # 0,
               Low(w, k) = s, m.check => k <= nib
        PROVE  Holds(m, SumInto(m, x, y, z, la, lz), z, s)
    <3> DEFINE n == Put(m, z, b(k))
    <3>1. Changed(m, n, z) /\ n.r[z] = b(k)
      BY ZenonT(30), <1>19, PutIs
    <3> HIDE DEF n
    <3>2. SumInto(m, x, y, z, la, lz) = n
      BY <1>0, <1>21, <1>24, <2>1 DEF n
    <3>3. Good(n.r[z]) /\ Mag(n.r[z]) = s /\ n.r[z].neg = FALSE /\ n.r[z].len = k
      BY <1>19, <1>20, <2>1, <3>1
    <3> QED
      BY <2>1, <3>1, <3>2, <3>3 DEF Holds, Changed
  <2>2. CASE c[lz] > 0
    <3>1. c[lz] = 1 /\ 1 * BTo[lz] = BTo[lz] /\ room
      BY <1>14, <1>22, <1>24, <2>2
    <3>2. w[lz] = 1 /\ (lz + 1) - 1 = lz /\ len = lz + 1
      BY <1>3, <1>13, <2>2, <3>1, Sizes
    <3>3. done.len = lz + 1
      <4>1. w[len - 1] = 1 /\ len = lz + 1
        BY <3>2
      <4> HIDE DEF len
      <4>2. done.len = len
        BY <1>21, <4>1
      <4> QED
        BY <4>1, <4>2
    <3>4. \A i \in Idx : i >= lz + 1 => w[i] = 0
      BY <1>3, <1>13, Sizes
    <3>5. Low(w, lz + 1) = Low(w, lz) + w[lz] * BTo[lz]
      BY <1>3, <1>15, LowIs
    <3>6. Low(w, lz + 1) = s
      BY <1>18, <3>1, <3>2, <3>5
    <3>7. m.check => lz + 1 <= nib
      BY <1>3, <3>1, Sizes DEF room
    <3> DEFINE k == lz + 1
    <3>8. /\ k \in 0 .. Ext /\ done.len = k /\ (\A i \in Idx : i >= k => w[i] = 0)
          /\ (k > 0 => w[k-1] # 0) /\ Low(w, k) = s /\ (m.check => k <= nib)
      BY <1>3, <3>2, <3>3, <3>4, <3>6, <3>7
    <3> HIDE DEF k
    <3>9. Holds(m, SumInto(m, x, y, z, la, lz), z, s)
      BY <2>1, <3>8
    <3> QED
      BY <3>9 DEF s, X, Y
  <2>3. CASE ~(c[lz] > 0)
    <3>1. c[lz] = 0 /\ 0 * BTo[lz] = 0
      BY <1>14, <1>22, <2>3
    <3>2. \A i \in Idx : i >= lz => w[i] = 0
      BY <1>13, <2>3
    <3>3. Low(w, lz) = s
      BY <1>18, <1>22, <3>1
    <3>4. lz > 0 => w[lz-1] # 0
      <4> SUFFICES ASSUME lz > 0, w[lz-1] = 0 PROVE FALSE
        OBVIOUS
      <4> DEFINE t == lz - 1
      <4>1. t \in Idx /\ t \in 0 .. Ext - 1 /\ t + 1 = lz /\ t \in 0 .. Ext
        BY SMTT(30), <1>3, Sizes
      <4>2. w[t] = 0 /\ (X.len = lz => X.w[t] # 0) /\ (Y.len = lz => Y.w[t] # 0)
        BY DEF SumReady, Operand, Good, Canonical, X, Y
      <4> HIDE DEF t
      <4>3. BTo[t] \in Nat /\ Low(w, t) < BTo[t] /\ Low(w, t) \in Nat
        BY <1>15, <4>1, LowBelow, BToIs
      <4>4. Low(w, lz) = Low(w, t)
        <5>1. Low(w, t + 1) = Low(w, t) + w[t] * BTo[t]
          BY <1>15, <4>1, LowIs
        <5>2. w[t] * BTo[t] = 0
          BY <4>2, <4>3
        <5> QED
          BY <4>1, <4>3, <5>1, <5>2
      <4>5. Low(X.w, lz) >= BTo[t] \/ Low(Y.w, lz) >= BTo[t]
        <5>1. CASE X.len = lz
          <6>1. BTo[t] <= Low(X.w, t + 1)
            BY <1>2, <4>1, <4>2, <5>1, LowTop
          <6>2. Low(X.w, lz) \in Nat
            BY <1>2, <1>3, LowNat
          <6> QED
            BY <4>1, <4>3, <6>1, <6>2
        <5>2. CASE Y.len = lz
          <6>1. BTo[t] <= Low(Y.w, t + 1)
            BY <1>2, <4>1, <4>2, <5>2, LowTop
          <6>2. Low(Y.w, lz) \in Nat
            BY <1>2, <1>3, LowNat
          <6> QED
            BY <4>1, <4>3, <6>1, <6>2
        <5> QED
          BY <1>3, <5>1, <5>2
      <4>6. Low(X.w, lz) \in Nat /\ Low(Y.w, lz) \in Nat
        BY <1>2, <1>3, LowNat
      <4> QED
        BY <1>16, <1>22, <3>1, <4>3, <4>4, <4>5, <4>6
    <3>5. done.len = lz
      <4>1. CASE room
        <5>1. w[lz] = 0 /\ len = lz + 1 /\ (lz + 1) - 1 = lz /\ lz + 1 > 0
          BY <1>3, <3>2, <4>1
        <5> QED
          BY <1>21, <5>1
      <4>2. CASE ~room
        <5>1. len = lz
          BY <4>2
        <5> QED
          BY <1>21, <3>4, <5>1
      <4> QED
        BY <4>1, <4>2
    <3>6. m.check => lz <= nib
      BY <1>3
    <3>7. Holds(m, SumInto(m, x, y, z, la, lz), z, s)
      BY <1>3, <2>1, <3>2, <3>3, <3>4, <3>5, <3>6
    <3> QED
      BY <3>7 DEF s, X, Y
  <2> QED
    BY <2>2, <2>3
<1> QED
  BY <1>23, <1>24

\* mr_padd adds the magnitudes of any two numbers into any number, and fails
\* only where the sum does not fit.
LEMMA PaddIs ==
  ASSUME NEW m \in Memories, NEW x \in Names, NEW y \in Names, NEW z \in Names,
         Operand(m.r[x]), Operand(m.r[y]), CleanTail(m.r[z]),
         m.check => m.r[x].len <= nib /\ m.r[y].len <= nib
  PROVE  Holds(m, mr_padd(m, x, y, z), z, Mag(m.r[x]) + Mag(m.r[y]))
<1> DEFINE X == m.r[x]  Y == m.r[y]
           longer  == IF Y.len > X.len THEN y ELSE x
           shorter == IF Y.len > X.len THEN x ELSE y
           lz == Most(X.len, Y.len)
           least == Least(X.len, Y.len)
           s == Mag(X) + Mag(Y)
<1>0. mr_padd(m, x, y, z) = IF shorter # z THEN SumInto(copy(m, longer, z), x, y, z, least, lz)
                            ELSE SumInto(m, x, y, z, lz, lz)
  BY DEF mr_padd
<1>1. /\ X.w \in Words /\ Y.w \in Words /\ X.len \in 0 .. Ext /\ Y.len \in 0 .. Ext
      /\ CleanTail(X) /\ CleanTail(Y)
  BY BigIs, MemoryIs DEF Operand, Good
<1>2. /\ lz \in Nat /\ least \in 0 .. lz /\ X.len <= lz /\ Y.len <= lz /\ X.len \in Nat /\ Y.len \in Nat
      /\ (m.check => lz <= nib) /\ lz \in 0 .. lz
  BY <1>1, Sizes DEF Most, Least
<1>3. /\ longer \in {x, y} /\ shorter \in {x, y} /\ (longer # shorter \/ x = y)
      /\ (longer = x /\ shorter = y) \/ (longer = y /\ shorter = x)
      /\ m.r[longer].len = lz /\ m.r[shorter].len = least
  BY <1>1, <1>2 DEF Most, Least
<1>4. \A i \in Idx : X.w[i] \in Nat /\ Y.w[i] \in Nat
  BY <1>1, At
<1>5. CASE shorter # z
  <2> DEFINE c0 == copy(m, longer, z)
  <2>1. Changed(m, c0, z) /\ c0.r[z] = m.r[longer]
    <3>1. CleanTail(m.r[longer]) /\ longer \in Names
      BY <1>1
    <3> HIDE DEF longer
    <3> QED
      BY <3>1, CopyIs
  <2> HIDE DEF c0, longer, shorter, lz, least
  <2>2. \A v \in {x, y} : c0.r[v] = m.r[v]
    <3> TAKE v \in {x, y}
    <3>1. CASE v = z
      <4>1. v = longer
        BY <1>3, <1>5, <3>1
      <4> QED
        BY <2>1, <3>1, <4>1
    <3>2. CASE v # z
      BY <2>1, <3>2 DEF Changed, Others
    <3> QED
      BY <3>1, <3>2
  <2>3. c0 \in Memories /\ c0.check = m.check /\ c0.ERNUM = m.ERNUM /\ c0.r[x] = X /\ c0.r[y] = Y
    BY <2>1, <2>2 DEF Changed, Others
  <2>4. ASSUME NEW i \in Idx, i >= least
        PROVE  c0.r[z].w[i] = c0.r[x].w[i] + c0.r[y].w[i] /\ c0.r[x].w[i] \in {0, c0.r[z].w[i]}
    <3>1. CleanTail(m.r[shorter]) /\ i >= m.r[shorter].len
      BY <1>1, <1>3, <2>4
    <3>2. m.r[shorter].w[i] = 0
      BY <3>1 DEF CleanTail
    <3>3. c0.r[z].w[i] = m.r[longer].w[i]
      BY <2>1
    <3> QED
      BY <1>3, <1>4, <2>3, <3>2, <3>3
  <2>5. Operand(c0.r[x]) /\ Operand(c0.r[y]) /\ lz = Most(c0.r[x].len, c0.r[y].len) /\ (c0.check => lz <= nib)
    BY <1>2, <2>3 DEF lz
  <2>6. Holds(c0, SumInto(c0, x, y, z, least, lz), z, Mag(c0.r[x]) + Mag(c0.r[y]))
    <3>1. SumReady(c0, x, y, z, least, lz) /\ least \in Nat
      BY <1>2, <2>4, <2>5 DEF SumReady
    <3> QED
      BY SMTT(30), <1>2, <2>3, <3>1, SumIntoIs
  <2>7. Holds(c0, mr_padd(m, x, y, z), z, s)
    BY <1>0, <1>5, <2>3, <2>6 DEF c0, s
  <2> HIDE DEF s
  <2>8. Holds(m, mr_padd(m, x, y, z), z, s)
    BY <2>1, <2>3, <2>7 DEF Holds, Changed, Others
  <2> QED
    BY <2>8 DEF s
<1>6. CASE shorter = z
  <2> HIDE DEF lz, least, longer, shorter
  <2>1. ASSUME NEW i \in Idx, i >= lz
        PROVE  m.r[z].w[i] = m.r[x].w[i] + m.r[y].w[i] /\ m.r[x].w[i] \in {0, m.r[z].w[i]}
    <3>1. i >= X.len /\ i >= Y.len
      BY <1>2, <2>1, Sizes
    <3>2. X.w[i] = 0 /\ Y.w[i] = 0
      BY <1>1, <3>1 DEF CleanTail
    <3>3. m.r[z].w[i] = 0
      BY <1>3, <1>6, <3>2
    <3> QED
      BY <3>2, <3>3
  <2>2. Holds(m, SumInto(m, x, y, z, lz, lz), z, Mag(m.r[x]) + Mag(m.r[y]))
    <3>1. lz = Most(m.r[x].len, m.r[y].len)
      BY SMTT(30) DEF lz
    <3>2. SumReady(m, x, y, z, lz, lz)
      BY <1>2, <2>1, <3>1 DEF SumReady
    <3> QED
      BY <1>2, <3>2, SumIntoIs
  <2> QED
    BY <1>0, <1>6, <2>2
<1> QED
  BY <1>5, <1>6

\* z holds the difference s without a sign, and no other number changed.
HoldsDiff(m, n, z, s, lx) ==
  Changed(m, n, z) /\ Good(n.r[z]) /\ ~n.r[z].neg /\ Mag(n.r[z]) = s /\ n.r[z].len <= lx
LEMMA DiffIntoIs ==
  ASSUME NEW m \in Memories, NEW x \in Names, NEW y \in Names, NEW z \in Names,
         Operand(m.r[x]), Operand(m.r[y]), Mag(m.r[y]) <= Mag(m.r[x]),
         NEW lx \in Nat, lx = m.r[x].len, m.r[y].len <= lx, NEW ly \in 0 .. lx,
         \A i \in Idx : i >= ly => m.r[x].w[i] = m.r[z].w[i] + m.r[y].w[i] /\ m.r[y].w[i] = 0
  PROVE  HoldsDiff(m, DiffInto(m, x, y, z, ly, lx), z, Mag(m.r[x]) - Mag(m.r[y]), lx)
<1> DEFINE X == m.r[x]  Y == m.r[y]  Z == m.r[z].w
           lz == lx + 1
           st == [i \in Idx |-> [borrow \in 0 .. 1 |->
                   IF i >= ly /\ borrow = 0 THEN 0 ELSE NextBorrow(DiffWord(X, Y, i, borrow), X.w[i], borrow)]]
           b == DiffBorrows(X, Y, ly, lx)
           w == DiffWords(X, Y, Z, b, ly, lx)
           done == [w |-> w, len |-> lx, neg |-> FALSE]
           s == Mag(X) - Mag(Y)
<1>0. DiffInto(m, x, y, z, ly, lx) = IF b[lz] > 0 THEN mr_berror(Put(m, z, done), ERR_NEG_RESULT)
                                     ELSE Put(m, z, mr_lzero(done))
  BY DEF DiffInto
<1>1. b = Carried(lz, 0, st)
  BY DEF DiffBorrows
<1>2. /\ X \in Big /\ Y \in Big /\ X.w \in Words /\ Y.w \in Words /\ Z \in Words
      /\ X.len \in 0 .. Ext /\ Y.len \in 0 .. Ext /\ X.len <= 2 * nib
      /\ CleanTail(X) /\ CleanTail(Y)
  BY BigIs, MemoryIs DEF Operand, Good
<1>3. /\ lz \in Nat /\ lx \in Idx /\ lz \in Idx /\ lz \in 0 .. Ext /\ lx \in 0 .. Ext /\ lx \in 0 .. Ext - 1
      /\ lx \in X.len .. Ext /\ lx \in Y.len .. Ext /\ X.len \in Nat /\ Y.len \in Nat /\ ly \in Nat /\ ly <= lx
      /\ lz \in X.len .. Ext /\ lz \in Y.len .. Ext /\ lz = lx + 1 /\ lx = X.len
  BY SMTT(30), <1>2, Sizes
<1>4. \A i \in Idx, cy \in 0 .. 1 : BorrowRight(X.w[i], Y.w[i], cy)
  <2>1. \A i \in Idx : X.w[i] \in Word /\ Y.w[i] \in Word
    BY <1>2 DEF Words
  <2> QED
    BY <2>1, BorrowIs
<1>5. \A i \in Idx : X.w[i] \in Nat /\ Y.w[i] \in Nat /\ Z[i] \in Nat /\ X.w[i] < B /\ Y.w[i] < B /\ Z[i] < B
  BY <1>2, At
<1>6. \A i \in Idx : i >= ly => X.w[i] = Z[i] + Y.w[i] /\ Y.w[i] = 0
  OBVIOUS
<1>7. ASSUME NEW i \in Idx, NEW cy \in 0 .. 1
      PROVE  /\ st[i][cy] \in 0 .. 1
             /\ IF i >= ly /\ cy = 0 THEN Z[i] + Y.w[i] + cy = X.w[i] + B * st[i][cy]
                ELSE DiffWord(X, Y, i, cy) + Y.w[i] + cy = X.w[i] + B * st[i][cy]
             /\ DiffWord(X, Y, i, cy) \in Word
  <2>1. st[i][cy] = IF i >= ly /\ cy = 0 THEN 0 ELSE NextBorrow(DiffWord(X, Y, i, cy), X.w[i], cy)
    OBVIOUS
  <2>2. BorrowRight(X.w[i], Y.w[i], cy)
    BY <1>4
  <2> HIDE DEF st, X, Y, Z
  <2>3. CASE i >= ly /\ cy = 0
    <3>1. st[i][cy] = 0 /\ X.w[i] = Z[i] + Y.w[i] /\ B * 0 = 0
      BY <1>6, <2>1, <2>3, Sizes
    <3> QED
      BY <1>5, <2>2, <2>3, <3>1 DEF BorrowRight, DiffWord
  <2>4. CASE ~(i >= ly /\ cy = 0)
    BY <2>1, <2>2, <2>4 DEF BorrowRight, DiffWord
  <2> QED
    BY <2>3, <2>4
<1> HIDE DEF st, X, Y, Z, lz
<1>8. Inside(lz, 0 .. 1, st)
  <2>1. \A i \in 0 .. lz - 1 : i \in Idx
    BY <1>3, Sizes
  <2> QED
    BY <1>7, <2>1 DEF Inside
<1>9. b \in [0 .. lz -> 0 .. 1] /\ CarriesOn(b, lz, 0, st)
  <2>1. 0 \in 0 .. 1
    OBVIOUS
  <2> HIDE DEF b
  <2> QED
    BY <1>1, <1>3, <1>8, <2>1, CarriedIs
<1>10. ASSUME NEW i \in Idx
       PROVE  w[i] = IF i <= lx /\ (i < ly \/ b[i] > 0) THEN DiffWord(X, Y, i, b[i]) ELSE Z[i]
  BY DEF DiffWords
<1> HIDE DEF b, w
<1>11. ASSUME NEW i \in Idx, i < lz
       PROVE  w[i] \in Word /\ w[i] + Y.w[i] + b[i] = X.w[i] + B * b[i+1]
  <2>0. i \in 0 .. lz - 1 /\ i \in 0 .. lz /\ i <= lx
    BY <1>3, <1>11, Sizes
  <2>1. i \in 0 .. lz - 1 /\ i \in 0 .. lz /\ b[i] \in 0 .. 1 /\ b[i+1] = st[i][b[i]] /\ i <= lx
    BY <1>9, <2>0 DEF CarriesOn
  <2>2. CASE i >= ly /\ b[i] = 0
    <3>1. w[i] = Z[i]
      <4>1. ~(i < ly) /\ ~(b[i] > 0)
        BY <1>3, <1>11, <2>2, Sizes
      <4> QED
        BY <1>10, <4>1
    <3>2. Z[i] + Y.w[i] + b[i] = X.w[i] + B * st[i][b[i]]
      BY <1>7, <2>1, <2>2
    <3>3. Z[i] \in Word
      BY <1>5, Sizes
    <3> QED
      BY <2>1, <3>1, <3>2, <3>3
  <2>3. CASE ~(i >= ly /\ b[i] = 0)
    <3>1. w[i] = DiffWord(X, Y, i, b[i])
      <4>1. i <= lx /\ (i < ly \/ b[i] > 0)
        BY <1>3, <1>11, <2>1, <2>3, Sizes
      <4> QED
        BY <1>10, <4>1
    <3> QED
      BY <1>7, <2>1, <2>3, <3>1
  <2> QED
    BY <2>2, <2>3
<1>12. \A i \in Idx : i >= lx => X.w[i] = 0 /\ Y.w[i] = 0 /\ Z[i] = 0
  <2> TAKE i \in Idx
  <2> HAVE i >= lx
  <2>1. i >= X.len /\ i >= ly
    BY <1>3, Sizes
  <2>2. X.w[i] = 0
    BY <1>2, <2>1 DEF CleanTail
  <2> QED
    BY <1>5, <1>6, <2>1, <2>2
<1>13. \A i \in Idx : i >= lz => w[i] = 0
  <2> TAKE i \in Idx
  <2> HAVE i >= lz
  <2>1. ~(i <= lx) /\ i >= lx
    BY <1>3, Sizes
  <2> QED
    BY <1>10, <1>12, <2>1
<1>14. b[lz] \in 0 .. 1 /\ b[0] = 0
  <2>1. lz \in 0 .. lz
    BY <1>3
  <2> QED
    BY <1>9, <2>1 DEF CarriesOn
<1>15. w \in Words
  <2>1. \A i \in Idx : w[i] \in Word
    <3> TAKE i \in Idx
    <3>1. CASE i < lz
      BY <1>11, <3>1
    <3>2. CASE ~(i < lz)
      BY <1>3, <1>13, <3>2, Sizes
    <3> QED
      BY <3>1, <3>2
  <2> QED
    BY <2>1 DEF w, DiffWords, Words
<1>16. Low(X.w, lz) + b[lz] * BTo[lz] = Low(w, lz) + Low(Y.w, lz)
  <2>1. AddsUp(w, Y.w, X.w, b, lz)
    <3> SUFFICES ASSUME NEW i \in 0 .. lz - 1
                 PROVE  /\ b[i] \in Nat /\ b[i+1] \in Nat
                        /\ X.w[i] + B * b[i+1] = w[i] + Y.w[i] + b[i]
      BY <1>14 DEF AddsUp
    <3>1. i \in Idx /\ i < lz /\ i \in 0 .. lz /\ i + 1 \in 0 .. lz
      BY <1>3, Sizes
    <3>2. b[i] \in Nat /\ b[i+1] \in Nat
      <4>1. b[i] \in 0 .. 1 /\ b[i+1] \in 0 .. 1
        BY <1>9, <3>1 DEF CarriesOn
      <4> QED
        BY <4>1
    <3>3. X.w[i] + B * b[i+1] = w[i] + Y.w[i] + b[i]
      BY <1>11, <3>1
    <3> QED
      BY <3>2, <3>3
  <2> QED
    BY <1>2, <1>3, <1>15, <2>1, LowSum
<1>17. /\ Low(X.w, lz) = Mag(X) /\ Low(Y.w, lz) = Mag(Y) /\ Mag(X) \in Nat /\ Mag(Y) \in Nat /\ s \in Nat
       /\ Mag(Y) <= Mag(X)
  <2>1. Low(X.w, lz) = Mag(X) /\ Low(Y.w, lz) = Mag(Y)
    BY <1>2, <1>3, LowWhole DEF Mag
  <2>2. Low(X.w, lz) \in Nat /\ Low(Y.w, lz) \in Nat
    BY <1>2, <1>3, LowNat
  <2>3. Mag(Y) <= Mag(X)
    BY DEF X, Y
  <2> QED
    BY <2>1, <2>2, <2>3
<1>18. b[lz] = 0 /\ Low(w, lz) = s
  <2>1. Low(w, lz) \in Nat /\ Low(w, lz) < BTo[lz] /\ BTo[lz] \in Nat
    BY <1>3, <1>15, LowBelow, BToIs
  <2>2. (b[lz] = 1 => b[lz] * BTo[lz] = BTo[lz]) /\ (b[lz] = 0 => b[lz] * BTo[lz] = 0)
    BY <2>1
  <2>3. b[lz] = 0
    <3> SUFFICES ASSUME b[lz] = 1 PROVE FALSE
      BY <1>14
    <3>1. Mag(X) + BTo[lz] = Low(w, lz) + Mag(Y)
      BY <1>16, <1>17, <2>2
    <3> QED
      BY <1>17, <2>1, <3>1
  <2>4. Mag(X) + 0 = Low(w, lz) + Mag(Y)
    BY <1>16, <1>17, <2>2, <2>3
  <2> QED
    BY <1>17, <2>1, <2>3, <2>4
\* The word above those of x is clear: otherwise the difference were too large.
<1>19. w[lx] = 0
  <2> SUFFICES ASSUME w[lx] # 0 PROVE FALSE
    OBVIOUS
  <2>1. BTo[lx] <= Low(w, lz)
    BY <1>3, <1>15, LowTop
  <2>2. Mag(X) < BTo[lx] /\ BTo[lx] \in Nat
    <3>1. Low(X.w, lx) < BTo[lx]
      BY <1>2, <1>3, LowBelow
    <3> QED
      BY <1>3, <3>1, BToIs DEF Mag
  <2> QED
    BY <1>17, <1>18, <2>1, <2>2
<1>20. done \in Big /\ done.w = w /\ done.len = lx /\ done.neg = FALSE
  BY <1>3, <1>15 DEF Big, Words
<1> HIDE DEF done, s
<1>21. CleanTail(done) /\ Mag(done) = s
  <2>1. \A i \in Idx : i >= lx => w[i] = 0
    <3> TAKE i \in Idx
    <3>1. i >= lx => i = lx \/ i >= lz
      BY <1>3, Sizes
    <3> QED
      BY <1>13, <1>19, <3>1
  <2>2. CleanTail(done)
    BY <1>20, <2>1 DEF CleanTail
  <2>3. lz \in done.len .. Ext
    BY <1>3, <1>20
  <2>4. Low(w, lz) = Low(w, lx)
    BY <1>20, <2>2, <2>3, LowWhole
  <2> QED
    BY <1>18, <1>20, <2>2, <2>4 DEF Mag
<1> DEFINE e == mr_lzero(done)
<1>22. Good(e) /\ e.neg = FALSE /\ e.len <= lx /\ e \in Big /\ Value(e) = Value(done)
  <2>1. Good(e) /\ Value(e) = Value(done) /\ e.len <= lx /\ (~done.neg => ~e.neg)
    BY <1>20, <1>21, LzeroIs
  <2> HIDE DEF e
  <2>2. e \in Big /\ e.neg \in BOOLEAN
    BY <2>1, BigIs DEF Good
  <2> QED
    BY <1>20, <2>1, <2>2
<1> HIDE DEF e
<1>23. Mag(e) = s
  <2>1. Value(e) = Low(e.w, e.len) /\ Value(done) = Low(done.w, done.len)
    BY <1>20, <1>22 DEF Value
  <2> QED
    BY <1>21, <1>22, <2>1 DEF Mag
<1>24. DiffInto(m, x, y, z, ly, lx) = Put(m, z, e)
  BY <1>0, <1>18 DEF e
<1>25. HoldsDiff(m, DiffInto(m, x, y, z, ly, lx), z, s, lx)
  <2> DEFINE n == Put(m, z, e)
  <2>1. Changed(m, n, z) /\ n.r[z] = e
    BY <1>22, PutIs
  <2> HIDE DEF n
  <2>2. HoldsDiff(m, n, z, s, lx)
    BY <1>22, <1>23, <2>1 DEF HoldsDiff
  <2> QED
    BY <1>24, <2>2 DEF n
<1> QED
  BY <1>25 DEF s, X, Y

\* mr_psub takes the smaller magnitude off the larger one, into any number.
LEMMA PsubIs ==
  ASSUME NEW m \in Memories, NEW x \in Names, NEW y \in Names, NEW z \in Names,
         Operand(m.r[x]), Operand(m.r[y]), CleanTail(m.r[z]), Mag(m.r[y]) <= Mag(m.r[x])
  PROVE  HoldsDiff(m, mr_psub(m, x, y, z), z, Mag(m.r[x]) - Mag(m.r[y]), m.r[x].len)
<1> DEFINE X == m.r[x]  Y == m.r[y]  lx == m.r[x].len
           s == Mag(X) - Mag(Y)
<1>0. mr_psub(m, x, y, z) = IF Y.len > lx THEN mr_berror(m, ERR_NEG_RESULT)
                            ELSE IF y # z THEN DiffInto(copy(m, x, z), x, y, z, Y.len, lx)
                            ELSE DiffInto(m, x, y, z, lx, lx)
  BY DEF mr_psub
<1>1. /\ X.w \in Words /\ Y.w \in Words /\ X.len \in 0 .. Ext /\ Y.len \in 0 .. Ext
      /\ CleanTail(X) /\ CleanTail(Y) /\ X.len \in Nat /\ Y.len \in Nat /\ X.len \in Idx /\ Good(X) /\ Good(Y)
  BY SMTT(30), BigIs, MemoryIs, Sizes DEF Operand, Good
<1>2. Y.len <= lx
  <2>1. Mag(X) < BTo[lx]
    BY <1>1, LengthTells DEF Mag
  <2>2. Mag(X) \in Nat /\ Mag(Y) \in Nat /\ BTo[lx] \in Nat
    BY <1>1, LowNat, BToIs DEF Mag
  <2>3. Mag(Y) < BTo[lx]
    BY <2>1, <2>2
  <2> QED
    BY <1>1, <2>3, LengthTells DEF Mag
<1>3. \A i \in Idx : X.w[i] \in Nat /\ Y.w[i] \in Nat
  BY <1>1, At
<1>4. CASE y # z
  <2> DEFINE c0 == copy(m, x, z)  ly == Y.len
  <2>1. Changed(m, c0, z) /\ c0.r[z] = X
    BY <1>1, CopyIs
  <2> HIDE DEF c0
  <2>2. c0.r[x] = X /\ c0.r[y] = Y
    <3>1. CASE x = z
      BY <1>4, <2>1, <3>1 DEF Changed, Others
    <3>2. CASE x # z
      BY <1>4, <2>1, <3>2 DEF Changed, Others
    <3> QED
      BY <3>1, <3>2
  <2>3. c0 \in Memories
    BY <2>1 DEF Changed, Others
  <2>4. ASSUME NEW i \in Idx, i >= ly
        PROVE  c0.r[x].w[i] = c0.r[z].w[i] + c0.r[y].w[i] /\ c0.r[y].w[i] = 0
    <3>1. Y.w[i] = 0
      BY <1>1, <2>4 DEF CleanTail
    <3> QED
      BY <1>3, <2>1, <2>2, <3>1
  <2>5. lx \in Nat /\ lx = c0.r[x].len /\ c0.r[y].len <= lx /\ ly \in 0 .. lx
    BY <1>1, <1>2, <2>2
  <2>6. Operand(c0.r[x]) /\ Operand(c0.r[y]) /\ Mag(c0.r[y]) <= Mag(c0.r[x])
    BY <2>2
  <2> HIDE DEF lx, ly
  <2>7. HoldsDiff(c0, DiffInto(c0, x, y, z, ly, lx), z, Mag(c0.r[x]) - Mag(c0.r[y]), lx)
    BY <2>3, <2>4, <2>5, <2>6, DiffIntoIs
  <2>8. mr_psub(m, x, y, z) = DiffInto(c0, x, y, z, ly, lx)
    <3>1. ~(Y.len > lx)
      BY <1>1, <1>2 DEF lx
    <3> QED
      BY <1>0, <1>4, <3>1 DEF c0, ly
  <2>9. HoldsDiff(c0, mr_psub(m, x, y, z), z, s, lx)
    BY <2>2, <2>7, <2>8 DEF s
  <2> HIDE DEF s
  <2>10. HoldsDiff(m, mr_psub(m, x, y, z), z, s, lx)
    BY <2>1, <2>9 DEF HoldsDiff, Changed, Others
  <2> QED
    BY <2>10 DEF s, lx
<1>5. CASE y = z
  <2>1. ASSUME NEW i \in Idx, i >= lx
        PROVE  m.r[x].w[i] = m.r[z].w[i] + m.r[y].w[i] /\ m.r[y].w[i] = 0
    <3>1. i >= X.len /\ i >= Y.len
      BY <1>1, <1>2, <2>1, Sizes
    <3>2. X.w[i] = 0 /\ Y.w[i] = 0
      BY <1>1, <3>1 DEF CleanTail
    <3> QED
      BY <1>5, <3>2
  <2>2. lx \in Nat /\ lx = m.r[x].len /\ m.r[y].len <= lx /\ lx \in 0 .. lx
    BY <1>1, <1>2
  <2> HIDE DEF lx
  <2>3. HoldsDiff(m, DiffInto(m, x, y, z, lx, lx), z, Mag(m.r[x]) - Mag(m.r[y]), lx)
    BY <2>1, <2>2, DiffIntoIs
  <2>4. mr_psub(m, x, y, z) = DiffInto(m, x, y, z, lx, lx)
    <3>1. ~(Y.len > lx)
      BY <1>1, <1>2 DEF lx
    <3> QED
      BY <1>0, <1>5, <3>1
  <2> QED
    BY <2>3, <2>4 DEF lx
<1> QED
  BY <1>4, <1>5

-----------------------------------------------------------------------------
(* Comparison.                                                                *)

\* The sign of a difference.
SignOf(d) == IF d < 0 THEN -1 ELSE IF d = 0 THEN 0 ELSE 1
LEMMA DifferingTop ==
  ASSUME NEW x \in Words, NEW y \in Words, NEW n \in Idx, NEW D, D = {i \in 0 .. n - 1 : x[i] # y[i]}, D # {}
  PROVE  \E t \in D : \A j \in D : j <= t
<1>1. n \in Nat /\ D \subseteq Nat
  BY Sizes
<1>2. \A j \in D : j < n /\ j \in Nat
  BY <1>1
<1> SUFFICES ASSUME \A t \in D : \E j \in D : ~(j <= t)
             PROVE  FALSE
  OBVIOUS
<1> DEFINE U == {k \in Nat : \E j \in D : j >= k}
<1>3. 0 \in U
  BY <1>1
<1>4. ASSUME NEW k \in Nat, k \in U PROVE k + 1 \in U
  <2>1. PICK j \in D : j >= k
    BY <1>4
  <2>2. PICK h \in D : ~(h <= j)
    OBVIOUS
  <2>3. h >= k + 1
    BY <1>1, <2>1, <2>2
  <2> QED
    BY <2>3
<1>5. Nat \subseteq U
  <2> HIDE DEF U
  <2> QED
    BY <1>3, <1>4, SetInduction
<1>6. n \in U
  BY <1>1, <1>5
<1> QED
  BY <1>2, <1>6

\* mr_compare answers the sign of the difference.
LEMMA CompareIs ==
  ASSUME NEW X, NEW Y, Good(X), Good(Y), X.len < Ext, Y.len < Ext
  PROVE  CompareBig(X, Y) = SignOf(Value(X) - Value(Y))
<1> DEFINE sig == exsign(X)
           differ == {i \in 0 .. X.len - 1 : X.w[i] # Y.w[i]}
           top == CHOOSE i \in differ : \A j \in differ : j <= i
<1>1. /\ X.w \in Words /\ Y.w \in Words /\ X.len \in 0 .. Ext /\ Y.len \in 0 .. Ext
      /\ X.len \in Nat /\ Y.len \in Nat /\ X.len \in Idx /\ Y.len \in Idx /\ X.neg \in BOOLEAN /\ Y.neg \in BOOLEAN
  BY BigIs, Sizes DEF Good
<1>2. CompareBig(X, Y) = IF X.neg # Y.neg THEN sig
                         ELSE IF X.len > Y.len THEN sig
                         ELSE IF X.len < Y.len THEN -sig
                         ELSE IF differ = {} THEN 0
                         ELSE IF X.w[top] > Y.w[top] THEN sig ELSE -sig
  BY DEF CompareBig
<1>3. Mag(X) \in Nat /\ Mag(Y) \in Nat
  BY <1>1, LowNat DEF Mag
<1>4. /\ Value(X) = IF X.neg THEN -Mag(X) ELSE Mag(X)
      /\ Value(Y) = IF Y.neg THEN -Mag(Y) ELSE Mag(Y)
      /\ sig = IF X.neg THEN -1 ELSE 1
  BY DEF Value, Mag, exsign, PLUS, MINUS
\* A number with a sign is not zero.
<1>5. ASSUME NEW b, Good(b), b.neg PROVE Mag(b) # 0
  <2> DEFINE t == b.len - 1
  <2>1. b.w \in Words /\ b.len \in 1 .. Ext /\ t \in 0 .. Ext - 1 /\ t + 1 = b.len /\ b.w[t] # 0
    BY SMTT(30), <1>5, BigIs, Sizes DEF Good, Canonical
  <2>2. t \in Idx
    BY <2>1, Sizes
  <2> HIDE DEF t
  <2>3. BTo[t] <= Low(b.w, t + 1) /\ BTo[t] \in Nat \ {0}
    BY <2>1, <2>2, LowTop, BToIs
  <2>4. BTo[t] <= Mag(b)
    BY <2>1, <2>3 DEF Mag
  <2> QED
    BY <2>3, <2>4
<1> HIDE DEF sig, differ, top
<1>6. CASE X.neg # Y.neg
  BY <1>1, <1>2, <1>3, <1>4, <1>5, <1>6 DEF SignOf
<1>7. ASSUME X.neg = Y.neg, Mag(X) > Mag(Y) PROVE SignOf(Value(X) - Value(Y)) = sig
  BY <1>1, <1>3, <1>4, <1>7 DEF SignOf
<1>8. ASSUME X.neg = Y.neg, Mag(X) < Mag(Y) PROVE SignOf(Value(X) - Value(Y)) = -sig
  BY <1>1, <1>3, <1>4, <1>8 DEF SignOf
<1>9. CASE X.neg = Y.neg /\ X.len > Y.len
  <2>1. Mag(Y) < BTo[Y.len] /\ ~(Mag(X) < BTo[Y.len]) /\ BTo[Y.len] \in Nat
    BY <1>1, <1>9, LengthTells, BToIs DEF Mag
  <2>2. Mag(X) > Mag(Y)
    BY <1>3, <2>1
  <2> QED
    BY <1>2, <1>7, <1>9, <2>2
<1>10. CASE X.neg = Y.neg /\ X.len < Y.len
  <2>1. Mag(X) < BTo[X.len] /\ ~(Mag(Y) < BTo[X.len]) /\ BTo[X.len] \in Nat
    BY <1>1, <1>10, LengthTells, BToIs DEF Mag
  <2>2. Mag(X) < Mag(Y)
    BY <1>3, <2>1
  <2>3. ~(X.len > Y.len)
    BY <1>1, <1>10
  <2> QED
    BY <1>2, <1>8, <1>10, <2>2, <2>3
<1>11. CASE X.neg = Y.neg /\ X.len = Y.len /\ differ = {}
  <2>1. Mag(X) = Mag(Y)
    <3>1. \A i \in 0 .. X.len - 1 : X.w[i] = Y.w[i]
      BY <1>11 DEF differ
    <3> QED
      BY <1>1, <1>11, <3>1, LowSame DEF Mag
  <2>2. Value(X) - Value(Y) = 0
    BY <1>1, <1>3, <1>4, <1>11, <2>1
  <2>3. CompareBig(X, Y) = 0
    BY <1>1, <1>2, <1>11
  <2> QED
    BY <2>2, <2>3 DEF SignOf
<1>12. CASE X.neg = Y.neg /\ X.len = Y.len /\ differ # {}
  <2> DEFINE n == X.len
  <2>1. top \in differ /\ \A j \in differ : j <= top
    <3>1. \E t \in differ : \A j \in differ : j <= t
      <4>1. differ = {i \in 0 .. n - 1 : X.w[i] # Y.w[i]} /\ differ # {}
        BY <1>12 DEF differ
      <4> QED
        BY ZenonT(30), <1>1, <4>1, DifferingTop
    <3> QED
      BY <3>1 DEF top
  <2>2. top \in 0 .. n - 1 /\ X.w[top] # Y.w[top] /\ top \in Idx
    BY <1>1, <2>1, Sizes DEF differ
  <2>3. \A j \in top + 1 .. n - 1 : X.w[j] = Y.w[j]
    <3> SUFFICES ASSUME NEW j \in top + 1 .. n - 1, X.w[j] # Y.w[j] PROVE FALSE
      OBVIOUS
    <3>1. j \in differ /\ ~(j <= top)
      BY <1>1, <2>2 DEF differ
    <3> QED
      BY <2>1, <3>1
  <2>4. X.w[top] \in Nat /\ Y.w[top] \in Nat
    BY <1>1, <2>2, At
  <2>5. CASE X.w[top] > Y.w[top]
    <3>1. Low(Y.w, n) < Low(X.w, n)
      BY <1>1, <2>2, <2>3, <2>4, <2>5, LowLess
    <3>2. Mag(X) > Mag(Y)
      BY <1>3, <1>12, <3>1 DEF Mag
    <3>3. CompareBig(X, Y) = sig
      BY <1>1, <1>2, <1>12, <2>5
    <3> QED
      BY <1>7, <1>12, <3>2, <3>3
  <2>6. CASE ~(X.w[top] > Y.w[top])
    <3>1. Low(X.w, n) < Low(Y.w, n)
      BY <1>1, <2>2, <2>3, <2>4, <2>6, LowLess
    <3>2. Mag(X) < Mag(Y)
      BY <1>3, <1>12, <3>1 DEF Mag
    <3>3. CompareBig(X, Y) = -sig
      BY <1>1, <1>2, <1>12, <2>6
    <3> QED
      BY <1>8, <1>12, <3>2, <3>3
  <2> QED
    BY <2>5, <2>6
<1> QED
  BY <1>1, <1>6, <1>9, <1>10, <1>11, <1>12

-----------------------------------------------------------------------------
(* Signed addition and subtraction.                                           *)

\* z holds v and no other number changed; or v does not fit.
Leaves(m, n, z, v) ==
  /\ Others(m, n, z)
  /\ \/ n.ERNUM = m.ERNUM /\ Good(n.r[z]) /\ Value(n.r[z]) = v /\ (m.check => n.r[z].len <= nib)
     \/ n.ERNUM = ERR_OVERFLOW /\ m.check /\ (v >= BTo[nib] \/ v <= -BTo[nib])

\* The number b with another sign.
SameWords(c, b) == c \in Big /\ c.w = b.w /\ c.len = b.len
LEMMA SameWordsIs ==
  ASSUME NEW b \in Big, NEW c, SameWords(c, b)
  PROVE  /\ Mag(c) = Mag(b) /\ (CleanTail(b) => CleanTail(c)) /\ (c.neg = b.neg => c = b)
         /\ (Good(b) /\ ~c.neg => Good(c)) /\ (Good(b) /\ Mag(b) # 0 => Good(c))
<1>1. c.w = b.w /\ c.len = b.len /\ c \in Big /\ b.w \in Words /\ b.len \in 0 .. Ext
  BY BigIs DEF SameWords
<1>2. Mag(c) = Mag(b) /\ (CleanTail(b) => CleanTail(c))
  BY <1>1 DEF Mag, CleanTail
<1>3. c.neg = b.neg => c = b
  <2>1. /\ b = [w |-> b.w, len |-> b.len, neg |-> b.neg]
        /\ c = [w |-> c.w, len |-> c.len, neg |-> c.neg]
    BY <1>1, BigIs
  <2> QED
    BY <1>1, <2>1
<1>4. Mag(b) # 0 => b.len > 0
  <2>1. b.len = 0 => Mag(b) = 0
    BY <1>1, LowIs DEF Mag
  <2> QED
    BY <1>1, <2>1, Sizes
<1> QED
  BY <1>1, <1>2, <1>3, <1>4 DEF Good, Canonical

\* Both operands lose their signs and keep their words.
LEMMA UnsignedIs ==
  ASSUME NEW m \in Memories, NEW x \in Names, NEW y \in Names
  PROVE  LET a == Unsigned(m, x, y)
         IN  /\ a \in Memories /\ a.check = m.check /\ a.ERNUM = m.ERNUM
             /\ SameWords(a.r[x], m.r[x]) /\ SameWords(a.r[y], m.r[y]) /\ ~a.r[x].neg /\ ~a.r[y].neg
             /\ \A v \in Names : v # x /\ v # y => a.r[v] = m.r[v]
<1> DEFINE p == SetSign(m, x, FALSE)
           a == SetSign(p, y, FALSE)
<1>1. Changed(m, p, x) /\ p.r[x].w = m.r[x].w /\ p.r[x].len = m.r[x].len /\ p.r[x].neg = FALSE
  BY SetSignIs
<1> HIDE DEF p
<1>2. p \in Memories /\ \A v \in Names : v # x => p.r[v] = m.r[v]
  BY <1>1 DEF Changed, Others
<1>3. Changed(p, a, y) /\ a.r[y].w = p.r[y].w /\ a.r[y].len = p.r[y].len /\ a.r[y].neg = FALSE
  BY ZenonT(30), <1>2, SetSignIs
<1> HIDE DEF a
<1>4. a \in Memories /\ \A v \in Names : v # y => a.r[v] = p.r[v]
  BY <1>3 DEF Changed, Others
<1>5. a.r[x] \in Big /\ a.r[y] \in Big
  BY <1>4, MemoryIs
<1>6. a.r[y].w = m.r[y].w /\ a.r[y].len = m.r[y].len
  BY <1>1, <1>2, <1>3
<1>7. a.r[x].w = m.r[x].w /\ a.r[x].len = m.r[x].len /\ a.r[x].neg = FALSE
  BY <1>1, <1>3, <1>4, <1>6
<1>8. \A v \in Names : v # x /\ v # y => a.r[v] = m.r[v]
  BY <1>2, <1>4
<1>9. a.check = m.check /\ a.ERNUM = m.ERNUM
  BY <1>1, <1>3 DEF Changed, Others
<1>10. Unsigned(m, x, y) = a
  BY DEF Unsigned, a, p
<1> QED
  BY <1>3, <1>4, <1>5, <1>6, <1>7, <1>8, <1>9, <1>10 DEF SameWords

\* A result without a sign gets the sign asked for.
LEMMA SignedIs ==
  ASSUME NEW m \in Memories, NEW z \in Names, NEW minus \in BOOLEAN
  PROVE  /\ Changed(m, Signed(m, z, minus), z)
         /\ SameWords(Signed(m, z, minus).r[z], m.r[z])
         /\ ~m.r[z].neg => Signed(m, z, minus).r[z].neg = minus
<1>1. m.r[z] \in Big /\ m.r[z].neg \in BOOLEAN
  BY MemoryIs, BigIs
<1>2. CASE minus
  <2> DEFINE n == SetSign(m, z, ~m.r[z].neg)
  <2>1. Changed(m, n, z) /\ n.r[z].w = m.r[z].w /\ n.r[z].len = m.r[z].len /\ n.r[z].neg = ~m.r[z].neg
    BY <1>1, SetSignIs
  <2> HIDE DEF n
  <2>2. n.r[z] \in Big
    BY <2>1, MemoryIs DEF Changed, Others
  <2>3. Signed(m, z, minus) = n
    BY <1>2 DEF Signed, n
  <2> QED
    BY <1>2, <2>1, <2>2, <2>3 DEF SameWords
<1>3. CASE ~minus
  <2>1. Signed(m, z, minus) = m
    BY <1>3 DEF Signed
  <2>2. Changed(m, m, z) /\ SameWords(m.r[z], m.r[z])
    BY <1>1 DEF Changed, Others, SameWords
  <2> QED
    BY <1>1, <1>3, <2>1, <2>2
<1> QED
  BY <1>2, <1>3

\* The operands that are not the result have their signs again.
LEMMA RestoredIs ==
  ASSUME NEW m \in Memories, NEW n \in Memories, NEW x \in Names, NEW y \in Names, NEW z \in Names,
         NEW sx, sx = exsign(m.r[x]), NEW sy, sy = exsign(m.r[y]),
         n.check = m.check, \A v \in Names : v \notin {x, y, z} => n.r[v] = m.r[v],
         \A v \in {x, y} : v # z => SameWords(n.r[v], m.r[v]) /\ ~n.r[v].neg
  PROVE  /\ Others(m, Restored(n, x, sx, y, sy, z), z)
         /\ Restored(n, x, sx, y, sy, z).ERNUM = n.ERNUM
         /\ Restored(n, x, sx, y, sy, z).r[z] = n.r[z]
<1> DEFINE s == IF x # z /\ sx < 0 THEN SetSign(n, x, TRUE) ELSE n
           t == IF y # z /\ y # x /\ sy < 0 THEN SetSign(s, y, TRUE) ELSE s
<1>0. Restored(n, x, sx, y, sy, z) = t
  BY DEF Restored
<1>1. \A v \in Names : m.r[v] \in Big /\ n.r[v] \in Big /\ m.r[v].neg \in BOOLEAN /\ n.r[v].neg \in BOOLEAN
  BY MemoryIs, BigIs
<1>2. (sx < 0 <=> m.r[x].neg) /\ (sy < 0 <=> m.r[y].neg)
  BY <1>1 DEF exsign, PLUS, MINUS
<1>3. /\ s \in Memories /\ s.ERNUM = n.ERNUM /\ s.check = n.check /\ \A v \in Names : v # x => s.r[v] = n.r[v]
      /\ x # z => s.r[x] = m.r[x]
      /\ x = z => s.r[x] = n.r[x]
  <2>1. CASE x # z /\ sx < 0
    <3> DEFINE u == SetSign(n, x, TRUE)
    <3>1. Changed(n, u, x) /\ u.r[x].w = n.r[x].w /\ u.r[x].len = n.r[x].len /\ u.r[x].neg = TRUE
      BY SetSignIs
    <3> HIDE DEF u
    <3>2. u \in Memories /\ u.r[x] \in Big
      BY <3>1, MemoryIs DEF Changed, Others
    <3>3. SameWords(u.r[x], m.r[x]) /\ u.r[x].neg = m.r[x].neg
      BY <1>1, <1>2, <2>1, <3>1, <3>2 DEF SameWords
    <3>4. u.r[x] = m.r[x]
      BY <1>1, <3>3, SameWordsIs
    <3>5. s = u
      BY <2>1 DEF u
    <3> HIDE DEF s
    <3> QED
      BY <2>1, <3>1, <3>2, <3>4, <3>5 DEF Changed, Others
  <2>2. CASE ~(x # z /\ sx < 0)
    <3>1. s = n
      BY <2>2
    <3>2. x # z => n.r[x] = m.r[x]
      <4> SUFFICES ASSUME x # z PROVE n.r[x] = m.r[x]
        OBVIOUS
      <4>1. SameWords(n.r[x], m.r[x]) /\ n.r[x].neg = m.r[x].neg
        BY <1>1, <1>2, <2>2
      <4> QED
        BY <1>1, <4>1, SameWordsIs
    <3> HIDE DEF s
    <3> QED
      BY <3>1, <3>2
  <2> QED
    BY <2>1, <2>2
<1> HIDE DEF s
<1>4. /\ t \in Memories /\ t.ERNUM = s.ERNUM /\ t.check = s.check
      /\ \A v \in Names : v = z \/ v = x \/ v # y => t.r[v] = s.r[v]
      /\ y # z /\ y # x => t.r[y] = m.r[y]
  <2>1. CASE y # z /\ y # x /\ sy < 0
    <3> DEFINE u == SetSign(s, y, TRUE)
    <3>1. Changed(s, u, y) /\ u.r[y].w = s.r[y].w /\ u.r[y].len = s.r[y].len /\ u.r[y].neg = TRUE
      <4>1. s \in Memories /\ TRUE \in BOOLEAN
        BY <1>3
      <4> QED
        BY ZenonT(30), <4>1, SetSignIs
    <3> HIDE DEF u
    <3>2. u \in Memories /\ u.r[y] \in Big /\ s.r[y] = n.r[y]
      BY <1>3, <2>1, <3>1, MemoryIs DEF Changed, Others
    <3>3. SameWords(u.r[y], m.r[y]) /\ u.r[y].neg = m.r[y].neg
      BY ZenonT(30), <1>1, <1>2, <2>1, <3>1, <3>2 DEF SameWords
    <3>4. u.r[y] = m.r[y]
      BY <1>1, <3>3, SameWordsIs
    <3>5. t = u
      BY <2>1 DEF u
    <3> HIDE DEF t
    <3> QED
      BY <2>1, <3>1, <3>2, <3>4, <3>5 DEF Changed, Others
  <2>2. CASE ~(y # z /\ y # x /\ sy < 0)
    <3>1. t = s
      BY <2>2
    <3>2. y # z /\ y # x => n.r[y] = m.r[y]
      <4> SUFFICES ASSUME y # z, y # x PROVE n.r[y] = m.r[y]
        OBVIOUS
      <4>1. SameWords(n.r[y], m.r[y]) /\ n.r[y].neg = m.r[y].neg
        BY <1>1, <1>2, <2>2
      <4> QED
        BY <1>1, <4>1, SameWordsIs
    <3> HIDE DEF t
    <3> QED
      BY <1>3, <3>1, <3>2
  <2> QED
    BY <2>1, <2>2
<1> HIDE DEF t
<1>5. t.r[z] = n.r[z]
  BY <1>3, <1>4
<1>6. \A v \in Names : v # z => t.r[v] = m.r[v]
  <2> TAKE v \in Names
  <2> HAVE v # z
  <2>1. CASE v = x
    BY <1>3, <1>4, <2>1
  <2>2. CASE v # x /\ v = y
    BY <1>4, <2>2
  <2>3. CASE v # x /\ v # y
    BY <1>3, <1>4, <2>3
  <2> QED
    BY <2>1, <2>2, <2>3
<1>7. Others(m, t, z)
  BY <1>3, <1>4, <1>6 DEF Others
<1> QED
  BY <1>0, <1>3, <1>4, <1>5, <1>7

\* A number with a sign is not zero; the value is the magnitude with its sign.
LEMMA SignedValue ==
  ASSUME NEW b, Good(b)
  PROVE  /\ Mag(b) \in Nat /\ (b.neg => Mag(b) # 0)
         /\ Value(b) = (IF b.neg THEN -Mag(b) ELSE Mag(b)) /\ Value(b) \in Int
<1>1. b.w \in Words /\ b.len \in 0 .. Ext /\ b.neg \in BOOLEAN /\ (b.neg => b.len > 0)
  BY BigIs DEF Good, Canonical
<1>2. Mag(b) \in Nat
  BY <1>1, LowNat DEF Mag
<1>3. b.len <= 0 <=> Mag(b) < BTo[0]
  <2>1. 0 \in Idx
    BY Sizes
  <2> QED
    BY <2>1, LengthTells DEF Mag
<1>4. b.neg => Mag(b) # 0
  BY <1>1, <1>2, <1>3, BToIs
<1> QED
  BY <1>2, <1>4 DEF Value, Mag

\* The magnitudes added or the smaller taken from the larger.
Chosen(m, n, z, alike, t) ==
  /\ Others(m, n, z)
  /\ \/ /\ n.ERNUM = m.ERNUM
        /\ Good(n.r[z]) /\ ~n.r[z].neg /\ Mag(n.r[z]) = t /\ (m.check => n.r[z].len <= nib)
     \/ n.ERNUM = ERR_OVERFLOW /\ m.check /\ alike /\ t >= BTo[nib]

\* The result gets its sign and the operands theirs.
LEMMA FinishIs ==
  ASSUME NEW m \in Memories, NEW x \in Names, NEW y \in Names, NEW z \in Names,
         NEW r, NEW alike \in BOOLEAN, NEW minus \in BOOLEAN, NEW t \in Nat,
         NEW v \in Int, v = IF minus THEN -t ELSE t, minus => t # 0,
         Chosen(Unsigned(m, x, y), r, z, alike, t)
  PROVE  Leaves(m, Restored(Signed(r, z, minus), x, exsign(m.r[x]), y, exsign(m.r[y]), z), z, v)
<1> DEFINE a == Unsigned(m, x, y)
           u == Signed(r, z, minus)
           f == Restored(u, x, exsign(m.r[x]), y, exsign(m.r[y]), z)
<1>1. /\ a \in Memories /\ a.check = m.check /\ a.ERNUM = m.ERNUM
      /\ SameWords(a.r[x], m.r[x]) /\ SameWords(a.r[y], m.r[y]) /\ ~a.r[x].neg /\ ~a.r[y].neg
      /\ \A k \in Names : k # x /\ k # y => a.r[k] = m.r[k]
  BY UnsignedIs
<1>2. Chosen(a, r, z, alike, t)
  OBVIOUS
<1> HIDE DEF a
<1>3. r \in Memories /\ r.check = m.check /\ \A k \in Names : k # z => r.r[k] = a.r[k]
  BY <1>1, <1>2 DEF Chosen, Others
<1>4. Changed(r, u, z) /\ SameWords(u.r[z], r.r[z]) /\ (~r.r[z].neg => u.r[z].neg = minus)
  BY <1>3, SignedIs
<1> HIDE DEF u
<1>5. u \in Memories /\ u.check = m.check /\ u.ERNUM = r.ERNUM /\ \A k \in Names : k # z => u.r[k] = a.r[k]
  BY <1>3, <1>4 DEF Changed, Others
<1>6. \A k \in Names : k \notin {x, y, z} => u.r[k] = m.r[k]
  BY <1>1, <1>5
<1>7. \A k \in {x, y} : k # z => SameWords(u.r[k], m.r[k]) /\ ~u.r[k].neg
  BY <1>1, <1>5
<1>8. Others(m, f, z) /\ f.ERNUM = u.ERNUM /\ f.r[z] = u.r[z]
  BY <1>5, <1>6, <1>7, RestoredIs
<1> HIDE DEF f
<1> SUFFICES Leaves(m, f, z, v)
  BY DEF f, u, a
<1>9. CASE /\ r.ERNUM = a.ERNUM
           /\ Good(r.r[z]) /\ ~r.r[z].neg /\ Mag(r.r[z]) = t /\ (a.check => r.r[z].len <= nib)
  <2>1. u.r[z].neg = minus
    BY <1>4, <1>9
  <2>2. r.r[z] \in Big
    BY <1>9 DEF Good
  <2>3. Mag(u.r[z]) = t /\ Good(u.r[z])
    <3>1. minus => Mag(r.r[z]) # 0
      BY <1>9
    <3> QED
      BY <1>4, <1>9, <2>1, <2>2, <3>1, SameWordsIs
  <2>4. Value(u.r[z]) = v
    BY <2>1, <2>3, SignedValue
  <2>5. m.check => u.r[z].len <= nib
    BY <1>1, <1>4, <1>9 DEF SameWords
  <2> QED
    BY <1>1, <1>5, <1>8, <1>9, <2>3, <2>4, <2>5 DEF Leaves
<1>10. CASE r.ERNUM = ERR_OVERFLOW /\ a.check /\ alike /\ t >= BTo[nib]
  <2>1. v >= BTo[nib] \/ v <= -BTo[nib]
    <3>1. BTo[nib] \in Nat
      BY Sizes, BToIs
    <3> QED
      BY <1>10, <3>1
  <2> QED
    BY <1>1, <1>5, <1>8, <1>10, <2>1 DEF Leaves
<1> QED
  BY <1>2, <1>9, <1>10 DEF Chosen

\* The sign of a sum or a difference, in every case of the signs.
SignRight(mx, my, nx, ny, d) ==
  LET sx == IF nx THEN -1 ELSE 1
      sy == IF ny THEN -1 ELSE 1
      c  == SignOf(mx - my)
      alike == sx = d * sy
      yx == IF sx < 0 THEN c <= 0 ELSE c < 0
      minus == IF alike THEN sx < 0 ELSE (sx < 0) # yx
      t == IF alike THEN mx + my ELSE IF yx THEN my - mx ELSE mx - my
      v == (IF nx THEN -mx ELSE mx) + d * (IF ny THEN -my ELSE my)
  IN  /\ alike \in BOOLEAN /\ minus \in BOOLEAN /\ t \in Nat /\ v \in Int
      /\ v = (IF minus THEN -t ELSE t) /\ (minus => t # 0)
      /\ ~alike /\ yx => mx <= my
      /\ ~alike /\ ~yx => my <= mx
LEMMA SignIs ==
  ASSUME NEW mx \in Nat, NEW my \in Nat, NEW nx \in BOOLEAN, NEW ny \in BOOLEAN, NEW d \in {PLUS, MINUS},
         nx => mx # 0, ny => my # 0
  PROVE  SignRight(mx, my, nx, ny, d)
<1>1. CASE d = 1 /\ nx /\ ny
  BY <1>1 DEF SignRight, SignOf
<1>2. CASE d = 1 /\ nx /\ ~ny
  BY <1>2 DEF SignRight, SignOf
<1>3. CASE d = 1 /\ ~nx /\ ny
  BY <1>3 DEF SignRight, SignOf
<1>4. CASE d = 1 /\ ~nx /\ ~ny
  BY <1>4 DEF SignRight, SignOf
<1>5. CASE d = -1 /\ nx /\ ny
  BY <1>5 DEF SignRight, SignOf
<1>6. CASE d = -1 /\ nx /\ ~ny
  BY <1>6 DEF SignRight, SignOf
<1>7. CASE d = -1 /\ ~nx /\ ny
  BY <1>7 DEF SignRight, SignOf
<1>8. CASE d = -1 /\ ~nx /\ ~ny
  BY <1>8 DEF SignRight, SignOf
<1> QED
  BY <1>1, <1>2, <1>3, <1>4, <1>5, <1>6, <1>7, <1>8 DEF PLUS, MINUS

\* A sum or a difference of signed numbers, in every overlap, is the integers'.
LEMMA SelectIs ==
  ASSUME NEW m \in Memories, NEW x \in Names, NEW y \in Names, NEW z \in Names, NEW d \in {PLUS, MINUS},
         Operand(m.r[x]), Operand(m.r[y]), CleanTail(m.r[z]),
         m.check => m.r[x].len <= nib /\ m.r[y].len <= nib
  PROVE  Leaves(m, mr_select(m, x, d, y, z), z, Value(m.r[x]) + d * Value(m.r[y]))
<1> DEFINE a == Unsigned(m, x, y)
           mx == Mag(m.r[x])
           my == Mag(m.r[y])
           nx == m.r[x].neg
           ny == m.r[y].neg
           sx == exsign(m.r[x])
           sy == exsign(m.r[y])
           c  == mr_compare(a, x, y)
           alike == sx = d * sy
           yx == IF sx < 0 THEN c <= 0 ELSE c < 0
           minus == IF alike THEN sx < 0 ELSE (sx < 0) # yx
           sum == IF c >= 0 THEN mr_padd(a, x, y, z) ELSE mr_padd(a, y, x, z)
           diff == IF yx THEN mr_psub(a, y, x, z) ELSE mr_psub(a, x, y, z)
           t == IF alike THEN mx + my ELSE IF yx THEN my - mx ELSE mx - my
           v == Value(m.r[x]) + d * Value(m.r[y])
<1>1. /\ a \in Memories /\ a.check = m.check /\ a.ERNUM = m.ERNUM
      /\ SameWords(a.r[x], m.r[x]) /\ SameWords(a.r[y], m.r[y]) /\ ~a.r[x].neg /\ ~a.r[y].neg
      /\ \A k \in Names : k # x /\ k # y => a.r[k] = m.r[k]
  BY UnsignedIs
<1>2. /\ mx \in Nat /\ my \in Nat /\ (nx => mx # 0) /\ (ny => my # 0)
      /\ Value(m.r[x]) = (IF nx THEN -mx ELSE mx) /\ Value(m.r[y]) = (IF ny THEN -my ELSE my)
      /\ nx \in BOOLEAN /\ ny \in BOOLEAN
  BY SignedValue, BigIs DEF Operand, Good
<1>3. sx = (IF nx THEN -1 ELSE 1) /\ sy = (IF ny THEN -1 ELSE 1)
  BY DEF exsign, PLUS, MINUS
<1> HIDE DEF a
<1>4. /\ Operand(a.r[x]) /\ Mag(a.r[x]) = mx /\ Value(a.r[x]) = mx /\ a.r[x].len = m.r[x].len
      /\ Operand(a.r[y]) /\ Mag(a.r[y]) = my /\ Value(a.r[y]) = my /\ a.r[y].len = m.r[y].len
  <2>1. m.r[x] \in Big /\ m.r[y] \in Big
    BY DEF Operand, Good
  <2>2. Good(a.r[x]) /\ Mag(a.r[x]) = mx /\ a.r[x].len = m.r[x].len
    BY <1>1, <2>1, SameWordsIs DEF Operand, SameWords
  <2>3. Good(a.r[y]) /\ Mag(a.r[y]) = my /\ a.r[y].len = m.r[y].len
    BY <1>1, <2>1, SameWordsIs DEF Operand, SameWords
  <2>4. Value(a.r[x]) = mx /\ Value(a.r[y]) = my
    BY <1>1, <2>2, <2>3, SignedValue
  <2> QED
    BY <2>2, <2>3, <2>4 DEF Operand
<1>5. CleanTail(a.r[z])
  BY <1>1, <1>4 DEF Operand, Good
<1>6. a.check => a.r[x].len <= nib /\ a.r[y].len <= nib
  BY <1>1, <1>4
<1>7. c = SignOf(mx - my)
  <2>1. CASE x = y
    BY <1>2, <2>1 DEF mr_compare, SignOf
  <2>2. CASE x # y
    <3>1. a.r[x].len < Ext /\ a.r[y].len < Ext
      BY <1>4, BigIs, Sizes DEF Operand, Good
    <3>2. CompareBig(a.r[x], a.r[y]) = SignOf(mx - my)
      BY <1>4, <3>1, CompareIs DEF Operand
    <3> QED
      BY <2>2, <3>2 DEF mr_compare
  <2> QED
    BY <2>1, <2>2
<1> HIDE DEF c
<1>8. SignRight(mx, my, nx, ny, d)
  BY <1>2, SignIs
<1>9. /\ alike \in BOOLEAN /\ minus \in BOOLEAN /\ t \in Nat /\ v \in Int
      /\ v = (IF minus THEN -t ELSE t) /\ (minus => t # 0)
      /\ ~alike /\ yx => mx <= my
      /\ ~alike /\ ~yx => my <= mx
  <2> HIDE DEF mx, my, nx, ny, sx, sy
  <2> QED
    BY <1>2, <1>3, <1>7, <1>8 DEF SignRight
<1>10. Chosen(a, IF alike THEN sum ELSE diff, z, alike, t)
  <2> DEFINE r == IF alike THEN sum ELSE diff
  <2>1. CASE alike /\ c >= 0
    <3>1. Holds(a, mr_padd(a, x, y, z), z, mx + my)
      BY <1>1, <1>4, <1>5, <1>6, PaddIs
    <3>2. r = mr_padd(a, x, y, z) /\ t = mx + my
      BY <2>1
    <3> HIDE DEF alike, r, t, mx, my
    <3> QED
      BY <2>1, <3>1, <3>2 DEF Chosen, Holds
  <2>2. CASE alike /\ ~(c >= 0)
    <3>1. Holds(a, mr_padd(a, y, x, z), z, my + mx)
      BY <1>1, <1>4, <1>5, <1>6, PaddIs
    <3>2. r = mr_padd(a, y, x, z) /\ t = my + mx
      BY <1>2, <2>2
    <3> HIDE DEF alike, r, t, mx, my
    <3> QED
      BY <2>2, <3>1, <3>2 DEF Chosen, Holds
  <2>3. CASE ~alike /\ yx
    <3>1. HoldsDiff(a, mr_psub(a, y, x, z), z, my - mx, a.r[y].len)
      BY <1>1, <1>4, <1>5, <1>9, <2>3, PsubIs
    <3>2. r = mr_psub(a, y, x, z) /\ t = my - mx
      BY <2>3
    <3>3. a.check => r.r[z].len <= nib
      <4>1. r.r[z].len \in Int /\ a.r[y].len \in Int /\ r.r[z].len <= a.r[y].len
        <5>1. r.r[z] \in Big /\ a.r[y] \in Big
          BY <1>4, <3>1, <3>2 DEF HoldsDiff, Good, Operand
        <5> HIDE DEF r
        <5> QED
          BY <3>1, <3>2, <5>1, BigIs, Sizes DEF HoldsDiff
      <4> HIDE DEF r
      <4> QED
        BY <1>6, <4>1, Sizes
    <3> HIDE DEF alike, r, t, mx, my
    <3> QED
      BY <2>3, <3>1, <3>2, <3>3 DEF Chosen, HoldsDiff, Changed
  <2>4. CASE ~alike /\ ~yx
    <3>1. HoldsDiff(a, mr_psub(a, x, y, z), z, mx - my, a.r[x].len)
      BY <1>1, <1>4, <1>5, <1>9, <2>4, PsubIs
    <3>2. r = mr_psub(a, x, y, z) /\ t = mx - my
      BY <2>4
    <3>3. a.check => r.r[z].len <= nib
      <4>1. r.r[z].len \in Int /\ a.r[x].len \in Int /\ r.r[z].len <= a.r[x].len
        <5>1. r.r[z] \in Big /\ a.r[x] \in Big
          BY <1>4, <3>1, <3>2 DEF HoldsDiff, Good, Operand
        <5> HIDE DEF r
        <5> QED
          BY <3>1, <3>2, <5>1, BigIs, Sizes DEF HoldsDiff
      <4> HIDE DEF r
      <4> QED
        BY <1>6, <4>1, Sizes
    <3> HIDE DEF alike, r, t, mx, my
    <3> QED
      BY <2>4, <3>1, <3>2, <3>3 DEF Chosen, HoldsDiff, Changed
  <2> QED
    BY <2>1, <2>2, <2>3, <2>4
<1>11. mr_select(m, x, d, y, z) = Restored(Signed(IF alike THEN sum ELSE diff, z, minus), x, sx, y, sy, z)
  BY DEF mr_select, a, c
<1> HIDE DEF alike, minus, sum, diff, t, v
<1> QED
  BY <1>9, <1>10, <1>11, FinishIs DEF a, v

-----------------------------------------------------------------------------
(* The calls.                                                                 *)

\* z holds v in the kept form, in no more than len words.
Gets(m, n, z, v, len) == Changed(m, n, z) /\ Good(n.r[z]) /\ Value(n.r[z]) = v /\ n.r[z].len <= len

\* A number that fits was left where it was asked for.
LEMMA GetsLeaves ==
  ASSUME NEW m \in Memories, NEW n, NEW z \in Names, NEW v, NEW len, Gets(m, n, z, v, len), m.check => len <= nib,
         len \in Nat
  PROVE  Leaves(m, n, z, v)
<1>1. n.r[z].len \in Nat
  BY BigIs, Sizes DEF Gets, Good
<1>2. m.check => n.r[z].len <= nib
  BY <1>1, Sizes DEF Gets
<1> QED
  BY <1>2 DEF Gets, Changed, Leaves

\* A copy is as good as what it copies.
LEMMA CopyGets ==
  ASSUME NEW m \in Memories, NEW x \in Names, NEW z \in Names, Good(m.r[x]), CleanTail(m.r[z])
  PROVE  Gets(m, copy(m, x, z), z, Value(m.r[x]), m.r[x].len)
<1>1. m.r[x].len \in Nat
  BY BigIs, Sizes DEF Good
<1> QED
  BY <1>1, CopyIs DEF Gets, Good

\* The sign of a number that is not zero may be set at will.
LEMMA SignGets ==
  ASSUME NEW m \in Memories, NEW n, NEW z \in Names, NEW v, NEW len, Gets(m, n, z, v, len), NEW s \in BOOLEAN,
         s => n.r[z].len # 0, len \in Nat
  PROVE  Gets(m, SetSign(n, z, s), z, IF s THEN -Mag(n.r[z]) ELSE Mag(n.r[z]), len)
<1> DEFINE b == n.r[z]
           t == SetSign(n, z, s)
           c == t.r[z]
<1>1. n \in Memories /\ b \in Big /\ Good(b) /\ b.len <= len
  BY MemoryIs DEF Gets, Changed, Others
<1>2. Changed(n, t, z) /\ c.w = b.w /\ c.len = b.len /\ c.neg = s
  BY <1>1, SetSignIs
<1>3. c \in Big
  BY <1>2, MemoryIs DEF Changed, Others
<1>4. Changed(m, t, z)
  BY <1>2 DEF Gets, Changed, Others
<1> HIDE DEF t, b
<1>5. SameWords(c, b)
  BY <1>2, <1>3 DEF SameWords
<1>6. b.len # 0 => Mag(b) # 0
  <2>1. b.len <= 0 <=> Mag(b) < BTo[0]
    <3>1. 0 \in Idx
      BY Sizes
    <3> QED
      BY <1>1, <3>1, LengthTells DEF Mag
  <2>2. b.len \in Nat
    BY <1>1, BigIs, Sizes
  <2> QED
    BY <2>1, <2>2, BToIs
<1>7. Good(c) /\ Mag(c) = Mag(b)
  <2>1. s => b.len # 0
    BY DEF b
  <2> QED
    BY <1>1, <1>2, <1>5, <1>6, <2>1, SameWordsIs
<1>8. Value(c) = (IF s THEN -Mag(b) ELSE Mag(b))
  BY <1>2, <1>7, SignedValue
<1> QED
  BY <1>1, <1>2, <1>4, <1>7, <1>8 DEF Gets, b, t

\* The opposite number.
LEMMA NegifyIs ==
  ASSUME NEW m \in Memories, NEW x \in Names, NEW z \in Names, Good(m.r[x]), CleanTail(m.r[z])
  PROVE  Gets(m, negify(m, x, z), z, -Value(m.r[x]), m.r[x].len)
<1> DEFINE c == copy(m, x, z)
           b == m.r[x]
           s == IF b.len # 0 THEN ~b.neg ELSE b.neg
<1>1. Gets(m, c, z, Value(b), b.len) /\ c.r[z] = b
  BY CopyGets, CopyIs DEF Good
<1>2. b.len \in Nat /\ b.neg \in BOOLEAN /\ (b.neg => b.len > 0) /\ b.w \in Words
  BY BigIs, Sizes DEF Good, Canonical
<1>3. negify(m, x, z) = SetSign(c, z, s)
  BY <1>1 DEF negify
<1>4. s \in BOOLEAN /\ (s => b.len # 0)
  <2>1. CASE b.len # 0
    BY <2>1
  <2>2. CASE b.len = 0
    <3>1. b.neg = FALSE
      BY <1>2, <2>2
    <3>2. s = FALSE
      BY <2>2, <3>1
    <3> QED
      BY <3>2
  <2> QED
    BY <2>1, <2>2
<1>5. (IF s THEN -Mag(b) ELSE Mag(b)) = -Value(b)
  <2>1. Mag(b) \in Nat /\ Value(b) = IF b.neg THEN -Mag(b) ELSE Mag(b)
    BY SignedValue
  <2>2. b.len = 0 => Mag(b) = 0
    BY <1>2, LowIs DEF Mag
  <2> HIDE DEF b
  <2> QED
    BY <1>2, <2>1, <2>2
<1> HIDE DEF s, c, b
<1>6. Gets(m, SetSign(c, z, s), z, IF s THEN -Mag(c.r[z]) ELSE Mag(c.r[z]), b.len)
  BY <1>1, <1>2, <1>4, SignGets
<1> QED
  BY <1>1, <1>3, <1>5, <1>6 DEF b

\* The magnitude of a number.
LEMMA AbsolIs ==
  ASSUME NEW m \in Memories, NEW x \in Names, NEW z \in Names, Good(m.r[x]), CleanTail(m.r[z])
  PROVE  Gets(m, absol(m, x, z), z, Abs(Value(m.r[x])), m.r[x].len)
<1> DEFINE c == copy(m, x, z)
           b == m.r[x]
<1>1. Gets(m, c, z, Value(b), b.len) /\ c.r[z] = b
  BY CopyGets, CopyIs DEF Good
<1>2. b.len \in Nat
  BY BigIs, Sizes DEF Good
<1>3. Mag(b) = Abs(Value(b))
  BY SignedValue DEF Abs
<1> HIDE DEF c, b
<1>4. Gets(m, SetSign(c, z, FALSE), z, IF FALSE THEN -Mag(c.r[z]) ELSE Mag(c.r[z]), b.len)
  <2>1. FALSE \in BOOLEAN
    OBVIOUS
  <2> QED
    BY <1>1, <1>2, <2>1, SignGets
<1> QED
  BY <1>1, <1>3, <1>4 DEF absol, b, c

\* A number of one word.
LEMMA OneWord ==
  ASSUME NEW m \in Memories, NEW z \in Names, CleanTail(m.r[z]), NEW n \in Nat \ {0}, n < B
  PROVE  Gets(m, uconvert(m, n, z), z, n, 1) /\ ~uconvert(m, n, z).r[z].neg /\ uconvert(m, n, z).r[z].len # 0
<1> DEFINE y == zero(m, z)
           b == [w |-> [Zero.w EXCEPT ![0] = n], len |-> 1, neg |-> FALSE]
           u == [y EXCEPT !.r[z].w[0] = n, !.r[z].len = 1]
<1>1. Changed(m, y, z) /\ y.r[z] = Zero
  BY ZeroIs
<1>2. Zero \in Big /\ Zero.w \in Words /\ Zero.w = [i \in Idx |-> 0] /\ Zero.neg = FALSE
  BY Sizes DEF Zero, Big, Words
<1>3. 0 \in Idx /\ n \in Word /\ 1 \in 0 .. Ext /\ 0 \in Nat
  BY Sizes
<1>4. b \in Big /\ b.w \in Words /\ b.w[0] = n /\ b.len = 1 /\ ~b.neg
  BY <1>2, <1>3 DEF Words, Big
<1>5. \A i \in Idx : i # 0 => b.w[i] = 0
  BY <1>2
<1>6. y \in Memories /\ y.r \in [Names -> Big] /\ y.r[z] = Zero
  BY <1>1, MemoryIs DEF Changed, Others
<1>7. u = [y EXCEPT !.r[z] = b]
  <2>1. y = [r |-> y.r, ERNUM |-> y.ERNUM, check |-> y.check]
    BY <1>6, MemoryIs
  <2>2. y.r[z] = [w |-> Zero.w, len |-> 0, neg |-> FALSE]
    BY <1>6 DEF Zero
  <2>3. [y.r EXCEPT ![z].w[0] = n, ![z].len = 1] = [y.r EXCEPT ![z] = b]
    <3> DEFINE f == y.r
    <3>1. f \in [Names -> Big] /\ f[z] = [w |-> Zero.w, len |-> 0, neg |-> FALSE]
      BY <1>6, <2>2
    <3> HIDE DEF f
    <3>2. [f EXCEPT ![z].w[0] = n, ![z].len = 1][z] = b
      <4> DEFINE q == [Zero EXCEPT !.w = [Zero.w EXCEPT ![0] = n]]
                 p == [q EXCEPT !.len = 1]
                 h == [f EXCEPT ![z].w[0] = n]
      <4>1. [Zero.w EXCEPT ![0] = n] \in [Idx -> Word]
        BY <1>2, <1>3 DEF Words
      <4>2. q \in Big /\ q.w = [Zero.w EXCEPT ![0] = n] /\ q.neg = FALSE
        BY <1>2, <4>1 DEF Big
      <4> HIDE DEF q
      <4>3. p \in Big /\ p.w = q.w /\ p.neg = FALSE /\ p.len = 1
        BY <1>3, <4>2 DEF Big
      <4> HIDE DEF p
      <4>4. p = b
        BY <4>2, <4>3, BigIs
      <4>5. [Zero EXCEPT !.w[0] = n] = q
        BY <1>2 DEF q
      <4>6. f[z] = Zero /\ z \in DOMAIN f
        BY <1>6, <3>1 DEF f
      <4>7. h = [f EXCEPT ![z] = [f[z] EXCEPT !.w[0] = n]]
        BY <4>6
      <4>8. h[z] = q /\ DOMAIN h = Names
        BY <3>1, <4>5, <4>6, <4>7
      <4>9. [f EXCEPT ![z].w[0] = n, ![z].len = 1] = [h EXCEPT ![z].len = 1]
        OBVIOUS
      <4> HIDE DEF h
      <4>10. [h EXCEPT ![z].len = 1][z] = [h[z] EXCEPT !.len = 1]
        BY <4>8
      <4> QED
        BY <4>4, <4>8, <4>9, <4>10 DEF p
    <3>3. \A k \in Names : k # z => [f EXCEPT ![z].w[0] = n, ![z].len = 1][k] = f[k]
      BY <3>1
    <3> HIDE DEF b
    <3> QED
      BY <3>1, <3>2, <3>3 DEF f
  <2> QED
    BY <2>1, <2>3
<1>8. uconvert(m, n, z) = u
  BY DEF uconvert
<1> HIDE DEF u, b
<1>9. Changed(y, u, z) /\ u.r[z] = b
  BY <1>4, <1>6, <1>7 DEF Changed, Others, Memories
<1>10. Changed(m, u, z)
  BY <1>1, <1>9 DEF Changed, Others
<1>11. Good(b)
  <2>1. \A i \in Idx : i >= 1 => i # 0
    BY Sizes
  <2>2. CleanTail(b)
    BY <1>4, <1>5, <2>1 DEF CleanTail
  <2>3. Canonical(b)
    BY <1>4 DEF Canonical
  <2> QED
    BY <1>4, <2>2, <2>3 DEF Good
<1>12. Value(b) = n
  <2>1. Low(b.w, 0) = 0 /\ Low(b.w, 0 + 1) = Low(b.w, 0) + b.w[0] * BTo[0]
    BY <1>3, <1>4, LowIs, Sizes
  <2>2. Low(b.w, 1) = n
    BY <1>4, <2>1, BToIs
  <2> QED
    BY <1>4, <2>2 DEF Value
<1> QED
  BY <1>4, <1>8, <1>9, <1>10, <1>11, <1>12 DEF Gets

\* A small integer as a number, whatever was there before.
LEMMA ConvertIs ==
  ASSUME NEW m \in Memories, NEW z \in Names, CleanTail(m.r[z]), NEW n \in Int, Abs(n) < B
  PROVE  Gets(m, convert(m, n, z), z, n, 1)
<1>1. CASE n = 0
  BY <1>1, ZeroIs, ZeroGood DEF convert, Gets
<1>2. CASE n # 0
  <2> DEFINE u == uconvert(m, Abs(n), z)
             s == n < 0
  <2>1. Abs(n) \in Nat \ {0} /\ s \in BOOLEAN /\ (IF s THEN -Abs(n) ELSE Abs(n)) = n
    BY <1>2 DEF Abs
  <2>2. Gets(m, u, z, Abs(n), 1) /\ ~u.r[z].neg /\ u.r[z].len # 0
    BY <2>1, OneWord
  <2>3. Mag(u.r[z]) = Abs(n)
    BY <2>2, SignedValue DEF Gets
  <2>4. convert(m, n, z) = SetSign(u, z, s)
    BY <1>2 DEF convert
  <2> HIDE DEF u, s
  <2>5. Gets(m, SetSign(u, z, s), z, IF s THEN -Mag(u.r[z]) ELSE Mag(u.r[z]), 1)
    BY <2>1, <2>2, SignGets
  <2> QED
    BY <2>1, <2>3, <2>4, <2>5
<1> QED
  BY <1>1, <1>2

-----------------------------------------------------------------------------
(* The program.                                                               *)
Inv == program \in Programs /\ val \in [Reg -> Numbers]

\* The program's numbers fit into nib words.
LEMMA NumbersFit ==
  ASSUME NEW n \in Numbers
  PROVE  n \in Int /\ Abs(n) < BTo[nib]
<1>1. BTo[nib] \in Nat
  BY Sizes, BToIs
<1> QED
  BY <1>1 DEF Numbers, Abs

\* What the program's calls find: its numbers in the kept form, no error, the
\* check on, and scratch numbers that are safe to write to.
Ready(m) == /\ m \in Memories /\ m.ERNUM = 0 /\ m.check
            /\ \A r \in Reg : r \in Names /\ Good(m.r[r]) /\ Value(m.r[r]) = val[r] /\ m.r[r].len <= nib
            /\ "w0" \in Names /\ "w0" \notin Reg /\ CleanTail(m.r["w0"])

\* The library's memory, made from the program's values, is one a call may find.
LEMMA MemoryReady ==
  ASSUME Inv, NEW junk \in {Zero, Full}
  PROVE  Ready(Memory(junk))
<1> DEFINE f == [n \in Reg \union Scratch |-> IF n \in Reg THEN OfInt(val[n]) ELSE junk]
<1>1. Memory(junk) = [r |-> f, ERNUM |-> 0, check |-> TRUE]
  BY DEF Memory
<1>2. \A r \in Reg : Good(OfInt(val[r])) /\ Value(OfInt(val[r])) = val[r] /\ OfInt(val[r]).len <= nib
  <2> TAKE r \in Reg
  <2>1. val[r] \in Numbers
    BY DEF Inv
  <2> QED
    BY <2>1, NumbersFit, OfIntIs
<1>3. junk \in Big /\ CleanTail(junk)
  <2>1. Zero \in Big /\ CleanTail(Zero)
    BY ZeroGood DEF Good
  <2>2. Full \in Big
    BY Sizes DEF Full, Big
  <2>3. CleanTail(Full)
    BY Sizes DEF Full, CleanTail
  <2> QED
    BY <2>1, <2>2, <2>3
<1>4. Names = Reg \union Scratch /\ Reg \intersect Scratch = {} /\ "w0" \in Scratch
  BY ProgramsAssumption DEF Names, Scratch
<1>5. f \in [Names -> Big]
  BY <1>2, <1>3, <1>4 DEF Good
<1>6. (\A r \in Reg : f[r] = OfInt(val[r])) /\ f["w0"] = junk
  BY <1>4
<1> HIDE DEF f
<1>7. [r |-> f, ERNUM |-> 0, check |-> TRUE] \in Memories
  BY <1>5 DEF Memories
<1> QED
  BY <1>1, <1>2, <1>3, <1>4, <1>6, <1>7 DEF Ready

\* The calls the theorem is about.
BasicCall(c) ==
  \/ \E op \in {"copy", "negify", "absol", "compare", "divisible"}, x, z \in Reg : c = [op |-> op, a |-> <<x, z>>]
  \/ \E op \in {"add", "subtract", "multiply", "divide"}, x, y, z \in Reg : c = [op |-> op, a |-> <<x, y, z>>]
  \/ \E n \in -(B - 1) .. B - 1, z \in Reg : c = [op |-> "convert", a |-> <<n, z>>]
  \/ \E op \in {"incr", "decr", "premult", "subdiv"}, x, z \in Reg, n \in -(B - 1) .. B - 1 :
       c = [op |-> op, a |-> <<x, n, z>>]
  \/ \E x \in Reg, n \in -(B - 1) .. B - 1 : c = [op |-> "remain", a |-> <<x, n>>]
LEMMA CallsAre ==
  ASSUME Inv, Next, call'.op \in BasicOps
  PROVE  BasicCall(call')
<1>1. program.small \subseteq -(B - 1) .. B - 1
  BY ProgramsAssumption DEF Inv
<1>2. ASSUME NEW x \in Reg, NEW z \in Reg, CallBinary(x, z) PROVE BasicCall(call')
  <2>1. PICK op \in {"copy", "negify", "absol", "compare", "divisible", "jack"} : Called(op, <<x, z>>)
    BY <1>2 DEF CallBinary
  <2>2. call' = [op |-> op, a |-> <<x, z>>]
    BY <2>1 DEF Called
  <2>3. op \in {"copy", "negify", "absol", "compare", "divisible"}
    BY <2>2 DEF BasicOps
  <2> QED
    BY <2>2, <2>3 DEF BasicCall
<1>3. ASSUME NEW x \in Reg, NEW y \in Reg, NEW z \in Reg, CallTernary(x, y, z) PROVE BasicCall(call')
  <2>1. PICK op \in {"add", "subtract", "multiply", "divide", "mr_and", "mr_xor", "invmodp"} : Called(op, <<x, y, z>>)
    BY <1>3 DEF CallTernary
  <2>2. call' = [op |-> op, a |-> <<x, y, z>>]
    BY <2>1 DEF Called
  <2>3. op \in {"add", "subtract", "multiply", "divide"}
    BY <2>2 DEF BasicOps
  <2> QED
    BY <2>2, <2>3 DEF BasicCall
<1>4. ASSUME NEW z \in Reg, NEW n \in program.small, CallConvert(n, z) PROVE BasicCall(call')
  BY <1>1, <1>4 DEF CallConvert, Called, BasicOps, BasicCall
<1>5. ASSUME NEW x \in Reg, NEW z \in Reg, NEW n \in program.small, CallBySmall(x, n, z) PROVE BasicCall(call')
  <2>1. PICK op \in {"incr", "decr", "premult", "subdiv"} : Called(op, <<x, n, z>>)
    BY <1>5 DEF CallBySmall
  <2>2. call' = [op |-> op, a |-> <<x, n, z>>]
    BY <2>1 DEF Called
  <2> QED
    BY <2>1, <2>2, <1>1 DEF BasicCall
<1>6. ASSUME NEW x \in Reg, CallUnary(x) PROVE FALSE
  BY <1>6 DEF CallUnary, Called, BasicOps
<1>7. ASSUME NEW x \in Reg, NEW n \in program.small, CallRemain(x, n) PROVE BasicCall(call')
  BY <1>1, <1>7 DEF CallRemain, Called, BasicCall
<1>8. ASSUME NEW x \in Reg, NEW z \in Reg, NEW k \in program.shifts, CallShift(x, k, z) PROVE FALSE
  BY <1>8 DEF CallShift, Called, BasicOps
<1>9. ASSUME NEW z \in Reg, NEW k \in program.shifts, CallExpB2(k, z) PROVE FALSE
  BY <1>9 DEF CallExpB2, Called, BasicOps
<1>10. ASSUME NEW x \in Reg, NEW k \in program.shifts, CallTestBit(x, k) PROVE FALSE
  BY <1>10 DEF CallTestBit, Called, BasicOps
<1>11. ASSUME NEW z \in Reg, NEW k \in program.small, NEW n \in program.exponents, CallExpInt(k, n, z) PROVE FALSE
  BY <1>11 DEF CallExpInt, Called, BasicOps
<1>12. ASSUME NEW x \in Reg, NEW z \in Reg, NEW w \in Reg, NEW n \in program.exponents, CallPower(x, n, z, w)
       PROVE FALSE
  BY <1>12 DEF CallPower, Called, BasicOps
<1>13. ASSUME NEW x \in Reg, NEW w \in Reg, NEW n \in program.exponents, CallNRoot(x, n, w) PROVE FALSE
  BY <1>13 DEF CallNRoot, Called, BasicOps
<1>14. ASSUME NEW x \in Reg, NEW s \in program.octets, CallBytesToBig(s, x) PROVE FALSE
  BY <1>14 DEF CallBytesToBig, Called, BasicOps
<1>15. ASSUME NEW x \in Reg, NEW n \in program.exponents, NEW j \in BOOLEAN, CallBigToBytes(n, x, j) PROVE FALSE
  BY <1>15 DEF CallBigToBytes, Called, BasicOps
<1>16. ASSUME NEW x \in Reg, NEW y \in Reg, NEW z \in Reg, NEW w \in Reg, NEW q \in Reg, NEW r \in Reg,
              CallMad(x, y, z, w, q, r) PROVE FALSE
  BY <1>16 DEF CallMad, Called, BasicOps
<1>17. ASSUME NEW x \in Reg, NEW y \in Reg, NEW xd \in Reg, NEW yd \in Reg, NEW z \in Reg,
              CallXGcd(x, y, xd, yd, z) PROVE FALSE
  BY <1>17 DEF CallXGcd, Called, BasicOps
<1>18. ASSUME NEW x \in program.radicands, NEW y \in program.radicands, CallIGcd(x, y) PROVE FALSE
  BY <1>18 DEF CallIGcd, Called, BasicOps
<1>19. ASSUME NEW n \in program.radicands, NEW g \in Word \ {0}, CallISqrt(n, g) PROVE FALSE
  BY <1>19 DEF CallISqrt, Called, BasicOps
<1> QED
  BY <1>2, <1>3, <1>4, <1>5, <1>6, <1>7, <1>8, <1>9, <1>10, <1>11, <1>12, <1>13, <1>14, <1>15, <1>16, <1>17,
     <1>18, <1>19 DEF Next

\* A memory in which one number was given its value is a right answer; so is an
\* error where the value does not fit.
Result(m, n, z, v) ==
  /\ n \in Memories /\ n.check = m.check /\ \A k \in Reg : k # z => n.r[k] = m.r[k]
  /\ \/ n.ERNUM = m.ERNUM /\ Good(n.r[z]) /\ Value(n.r[z]) = v /\ (m.check => n.r[z].len <= nib)
     \/ n.ERNUM = ERR_OVERFLOW /\ m.check /\ (v >= BTo[nib] \/ v <= -BTo[nib])
LEMMA LeavesResult ==
  ASSUME NEW m, Ready(m), NEW n, NEW z, NEW v, Leaves(m, n, z, v)
  PROVE  Result(m, n, z, v)
BY DEF Ready, Leaves, Others, Result

\* Such a memory agrees with the values of the program after the call.
Right(n, z, v) ==
  /\ n.ERNUM # 0 => ~Integer!Fits(v)
  /\ n.ERNUM = 0 => /\ Integer!Fits(v)
                    /\ [r \in Reg |-> Value(n.r[r])] = [r \in Reg |-> IF r = z THEN v ELSE val[r]]
  /\ \A r \in Reg : /\ n.r[r] \in Big
                    /\ n.ERNUM = 0 => /\ n.check /\ n.r[r].len <= nib
                                      /\ CleanTail(n.r[r]) /\ Canonical(n.r[r])
LEMMA LeavesRight ==
  ASSUME NEW m, Ready(m), NEW n, NEW z \in Reg, NEW v \in Int, Result(m, n, z, v)
  PROVE  Right(n, z, v)
<1>1. /\ m \in Memories /\ m.ERNUM = 0 /\ m.check /\ n \in Memories /\ n.check
      /\ \A k \in Reg : k # z => n.r[k] = m.r[k]
      /\ \A r \in Reg : r \in Names /\ Good(m.r[r]) /\ Value(m.r[r]) = val[r] /\ m.r[r].len <= nib
  BY DEF Ready, Result
<1>2. BTo[nib] \in Nat
  BY Sizes, BToIs
<1>3. CASE n.ERNUM = m.ERNUM /\ Good(n.r[z]) /\ Value(n.r[z]) = v /\ (m.check => n.r[z].len <= nib)
  <2>1. Mag(n.r[z]) < BTo[nib] /\ Mag(n.r[z]) \in Nat /\ v = IF n.r[z].neg THEN -Mag(n.r[z]) ELSE Mag(n.r[z])
    <3>1. n.r[z].len <= nib <=> Mag(n.r[z]) < BTo[nib]
      <4>1. nib \in Idx
        BY Sizes
      <4> QED
        BY <1>3, <4>1, LengthTells DEF Mag
    <3> QED
      BY <1>1, <1>3, <3>1, SignedValue
  <2>2. Integer!Fits(v)
    <3>1. -BTo[nib] < v /\ v < BTo[nib]
      BY <1>2, <2>1
    <3> QED
      BY <3>1 DEF Integer!Fits
  <2>3. \A r \in Reg : Good(n.r[r]) /\ n.r[r].len <= nib /\ Value(n.r[r]) = IF r = z THEN v ELSE val[r]
    BY <1>1, <1>3
  <2>4. [r \in Reg |-> Value(n.r[r])] = [r \in Reg |-> IF r = z THEN v ELSE val[r]]
    BY <2>3
  <2> QED
    BY <1>1, <1>3, <2>2, <2>3, <2>4 DEF Good, Right
<1>4. CASE n.ERNUM = ERR_OVERFLOW /\ m.check /\ (v >= BTo[nib] \/ v <= -BTo[nib])
  <2>1. n.ERNUM # 0
    BY <1>4 DEF ERR_OVERFLOW
  <2>2. ~Integer!Fits(v)
    <3>1. ~(-BTo[nib] < v /\ v < BTo[nib])
      BY <1>2, <1>4
    <3> QED
      BY <3>1 DEF Integer!Fits
  <2>3. \A r \in Reg : n.r[r] \in Big
    BY <1>1, MemoryIs
  <2> QED
    BY <2>1, <2>2, <2>3 DEF Right
<1> QED
  BY <1>3, <1>4 DEF Result

\* Assigning one number.
LEMMA ApplyOne ==
  ASSUME NEW z \in Reg, NEW v
  PROVE  Integer!Apply(<< <<z, v>> >>, val) = [r \in Reg |-> IF r = z THEN v ELSE val[r]]
<1> DEFINE p == << <<z, v>> >>
           at(r) == {i \in DOMAIN p : p[i][1] = r}
<1>1. DOMAIN p = {1} /\ p[1] = <<z, v>>
  OBVIOUS
<1>2. p[1][1] = z /\ p[1][2] = v
  BY <1>1
<1> HIDE DEF p
<1>3. ASSUME NEW r
      PROVE  (IF at(r) = {} THEN val[r] ELSE p[CHOOSE i \in at(r) : \A j \in at(r) : j <= i][2])
             = (IF r = z THEN v ELSE val[r])
  <2>1. CASE r = z
    <3>1. at(r) = {1}
      BY <1>1, <1>2, <2>1
    <3>2. (CHOOSE i \in at(r) : \A j \in at(r) : j <= i) = 1
      <4>1. \E i \in at(r) : \A j \in at(r) : j <= i
        BY <3>1
      <4> HIDE DEF at
      <4>2. (CHOOSE i \in at(r) : \A j \in at(r) : j <= i) \in at(r)
        BY <4>1
      <4> QED
        BY <3>1, <4>2
    <3> HIDE DEF at
    <3> QED
      BY <1>2, <2>1, <3>1, <3>2
  <2>2. CASE r # z
    <3>1. at(r) = {}
      BY <1>1, <1>2, <2>2
    <3> HIDE DEF at
    <3> QED
      BY <2>2, <3>1
  <2> QED
    BY <2>1, <2>2
<1>4. Integer!Apply(p, val) = [r \in Reg |-> IF at(r) = {} THEN val[r]
                                           ELSE p[CHOOSE i \in at(r) : \A j \in at(r) : j <= i][2]]
  BY DEF Integer!Apply
<1> HIDE DEF at
<1>5. Integer!Apply(p, val) = [r \in Reg |-> IF r = z THEN v ELSE val[r]]
  BY <1>3, <1>4
<1> QED
  BY <1>5 DEF p

\* A call is right when the integers give one number a value and an answer and the
\* library, from every memory the program's call may find, leaves it there with that
\* answer, or fails for it, or fails where the operation may.
Failed(n) == n \in Memories /\ n.ERNUM # 0
LEMMA AssignsAnswer ==
  ASSUME Inv, NEW c, NEW z \in Reg, NEW v \in Int, NEW ret,
         c.op \notin {"xgcd", "invmodp"}, Integer!Assigned(c, val) = << <<z, v>> >>,
         ~Integer!Undefined(c, val), Integer!Answer(c, val) = ret,
         \A m : Ready(m) => \/ Run(c, m).ret = ret /\ Result(m, Run(c, m).m, z, v)
                            \/ Integer!Coarse(c, val) /\ Failed(Run(c, m).m)
  PROVE  Exactly(c) /\ KeptForm(c)
<1>1. ASSUME NEW junk \in {Zero, Full}
      PROVE  \/ Right(Run(c, Memory(junk)).m, z, v) /\ Run(c, Memory(junk)).ret = ret
             \/ Integer!Coarse(c, val) /\ Failed(Run(c, Memory(junk)).m)
  <2>1. Ready(Memory(junk))
    BY MemoryReady
  <2> QED
    BY <2>1, LeavesRight
<1>2. KeptForm(c)
  <2>1. ASSUME NEW junk \in {Zero, Full}, NEW n, n = Run(c, Memory(junk)).m, NEW r \in Reg
        PROVE  /\ n.r[r] \in Big
               /\ n.ERNUM = 0 => n.check /\ n.r[r].len <= nib /\ CleanTail(n.r[r]) /\ Canonical(n.r[r])
    <3>1. CASE Right(n, z, v)
      BY <3>1 DEF Right
    <3>2. CASE Failed(n)
      <4>1. r \in Names
        BY MemoryReady DEF Ready
      <4> QED
        BY <3>2, <4>1, MemoryIs DEF Failed
    <3> QED
      BY <1>1, <2>1, <3>1, <3>2
  <2> QED
    BY <2>1 DEF KeptForm
<1> DEFINE p == << <<z, v>> >>
<1>3. DOMAIN p = {1} /\ p[1][2] = v /\ Integer!Assigned(c, val) = p
  OBVIOUS
<1>4. Integer!Apply(p, val) = [r \in Reg |-> IF r = z THEN v ELSE val[r]]
  BY ApplyOne
<1> HIDE DEF p
<1>5. ~Integer!Fits(v) \/ Integer!Coarse(c, val) => Integer!MayFail(c, val)
  BY <1>3 DEF Integer!MayFail
<1>6. Integer!Outcomes(c, val) = {p}
  BY <1>3 DEF Integer!Outcomes
<1>7. ASSUME Integer!Fits(v), NEW w, w = [r \in Reg |-> IF r = z THEN v ELSE val[r]]
      PROVE  Integer!MayReturn(c, val, w, ret)
  BY <1>3, <1>4, <1>6, <1>7 DEF Integer!MayReturn
<1>8. ASSUME NEW junk \in {Zero, Full}, NEW m \in {Memory(junk)}, NEW ran \in {Run(c, m)}
      PROVE  IF ran.m.ERNUM # 0 THEN Integer!MayFail(c, val)
             ELSE \A w \in {[r \in Reg |-> Value(ran.m.r[r])]} : Integer!MayReturn(c, val, w, ran.ret)
  <2>1. m = Memory(junk) /\ ran = Run(c, m)
    OBVIOUS
  <2>2. CASE ran.m.ERNUM # 0
    BY <1>1, <1>5, <2>1, <2>2 DEF Right
  <2>3. CASE ran.m.ERNUM = 0
    <3>1. Integer!Fits(v) /\ ran.ret = ret
          /\ [r \in Reg |-> Value(ran.m.r[r])] = [r \in Reg |-> IF r = z THEN v ELSE val[r]]
      BY <1>1, <2>1, <2>3 DEF Right, Failed
    <3> QED
      BY <1>7, <2>3, <3>1
  <2> QED
    BY <2>2, <2>3
<1>9. Exactly(c)
  BY <1>8 DEF Exactly
<1> QED
  BY <1>2, <1>9

LEMMA AssignsOne ==
  ASSUME Inv, NEW c, NEW z \in Reg, NEW v \in Int,
         c.op \notin {"xgcd", "invmodp"}, Integer!Assigned(c, val) = << <<z, v>> >>,
         ~Integer!Undefined(c, val), Integer!Answer(c, val) = 0,
         \A m : Ready(m) => Run(c, m).ret = 0 /\ Result(m, Run(c, m).m, z, v)
  PROVE  Exactly(c) /\ KeptForm(c)
<1>1. \A m : Ready(m) => \/ Run(c, m).ret = 0 /\ Result(m, Run(c, m).m, z, v)
                         \/ Integer!Coarse(c, val) /\ Failed(Run(c, m).m)
  OBVIOUS
<1> QED
  BY <1>1, AssignsAnswer

\* The calls one by one.
LEMMA CopyCall ==
  ASSUME Inv, NEW x \in Reg, NEW z \in Reg
  PROVE  LET c == [op |-> "copy", a |-> <<x, z>>] IN Exactly(c) /\ KeptForm(c)
<1> DEFINE c == [op |-> "copy", a |-> <<x, z>>]
<1>1. /\ Integer!Assigned(c, val) = << <<z, val[x]>> >>
      /\ ~Integer!Undefined(c, val) /\ Integer!Answer(c, val) = 0
  BY DEF Integer!Assigned, Integer!Undefined, Integer!Answer
<1>2. val[x] \in Int
  BY NumbersFit DEF Inv
<1>3. ASSUME NEW m, Ready(m) PROVE Run(c, m).ret = 0 /\ Result(m, Run(c, m).m, z, val[x])
  <2>1. Run(c, m).m = copy(m, x, z) /\ Run(c, m).ret = 0
    BY DEF Run, Copy, Done, Ran
  <2>2. /\ m \in Memories /\ x \in Names /\ z \in Names /\ Good(m.r[x]) /\ CleanTail(m.r[z])
        /\ Value(m.r[x]) = val[x] /\ m.r[x].len <= nib /\ m.r[x].len \in Nat
    BY SMTT(30), <1>3, BigIs, Sizes DEF Ready, Good
  <2> QED
    BY <1>3, <2>1, <2>2, CopyGets, GetsLeaves, LeavesResult
<1> QED
  BY <1>1, <1>2, <1>3, AssignsOne

\* Every number of the program may be an operand.
LEMMA ReadyOperand ==
  ASSUME NEW m, Ready(m), NEW x \in Reg
  PROVE  Operand(m.r[x])
<1>1. Good(m.r[x]) /\ m.r[x].len <= nib /\ m.r[x].len \in Nat
  BY BigIs, Sizes DEF Ready, Good
<1> QED
  BY <1>1, Sizes DEF Operand

LEMMA NegifyCall ==
  ASSUME Inv, NEW x \in Reg, NEW z \in Reg
  PROVE  LET c == [op |-> "negify", a |-> <<x, z>>] IN Exactly(c) /\ KeptForm(c)
<1> DEFINE c == [op |-> "negify", a |-> <<x, z>>]
<1>1. /\ Integer!Assigned(c, val) = << <<z, -val[x]>> >>
      /\ ~Integer!Undefined(c, val) /\ Integer!Answer(c, val) = 0
  BY DEF Integer!Assigned, Integer!Undefined, Integer!Answer
<1>2. -val[x] \in Int
  <2>1. val[x] \in Int
    BY NumbersFit DEF Inv
  <2> QED
    BY <2>1
<1>3. ASSUME NEW m, Ready(m) PROVE Run(c, m).ret = 0 /\ Result(m, Run(c, m).m, z, -val[x])
  <2>1. Run(c, m).m = negify(m, x, z) /\ Run(c, m).ret = 0
    BY DEF Run, Negify, Done, Ran
  <2>2. /\ m \in Memories /\ x \in Names /\ z \in Names /\ Good(m.r[x]) /\ CleanTail(m.r[z])
        /\ Value(m.r[x]) = val[x] /\ m.r[x].len <= nib /\ m.r[x].len \in Nat
    BY <1>3, BigIs, Sizes DEF Ready, Good
  <2> QED
    BY <1>3, <2>1, <2>2, NegifyIs, GetsLeaves, LeavesResult
<1> QED
  BY <1>1, <1>2, <1>3, AssignsOne

LEMMA AbsolCall ==
  ASSUME Inv, NEW x \in Reg, NEW z \in Reg
  PROVE  LET c == [op |-> "absol", a |-> <<x, z>>] IN Exactly(c) /\ KeptForm(c)
<1> DEFINE c == [op |-> "absol", a |-> <<x, z>>]
<1>1. /\ Integer!Assigned(c, val) = << <<z, Integer!Mag(val[x])>> >>
      /\ ~Integer!Undefined(c, val) /\ Integer!Answer(c, val) = 0
  BY DEF Integer!Assigned, Integer!Undefined, Integer!Answer
<1>2. Integer!Mag(val[x]) \in Int
  <2>1. val[x] \in Int
    BY NumbersFit DEF Inv
  <2> QED
    BY <2>1 DEF Integer!Mag
<1>3. ASSUME NEW m, Ready(m) PROVE Run(c, m).ret = 0 /\ Result(m, Run(c, m).m, z, Integer!Mag(val[x]))
  <2>1. Run(c, m).m = absol(m, x, z) /\ Run(c, m).ret = 0
    BY DEF Run, Absol, Done, Ran
  <2>2. /\ m \in Memories /\ x \in Names /\ z \in Names /\ Good(m.r[x]) /\ CleanTail(m.r[z])
        /\ Value(m.r[x]) = val[x] /\ m.r[x].len <= nib /\ m.r[x].len \in Nat
    BY <1>3, BigIs, Sizes DEF Ready, Good
  <2>3. Abs(val[x]) = Integer!Mag(val[x])
    BY DEF Abs, Integer!Mag
  <2> QED
    BY <1>3, <2>1, <2>2, <2>3, AbsolIs, GetsLeaves, LeavesResult
<1> QED
  BY <1>1, <1>2, <1>3, AssignsOne

LEMMA ConvertCall ==
  ASSUME Inv, NEW n \in -(B - 1) .. B - 1, NEW z \in Reg
  PROVE  LET c == [op |-> "convert", a |-> <<n, z>>] IN Exactly(c) /\ KeptForm(c)
<1> DEFINE c == [op |-> "convert", a |-> <<n, z>>]
<1>1. /\ Integer!Assigned(c, val) = << <<z, n>> >>
      /\ ~Integer!Undefined(c, val) /\ Integer!Answer(c, val) = 0
  BY DEF Integer!Assigned, Integer!Undefined, Integer!Answer
<1>2. n \in Int /\ Abs(n) < B
  BY Sizes DEF Abs
<1>3. ASSUME NEW m, Ready(m) PROVE Run(c, m).ret = 0 /\ Result(m, Run(c, m).m, z, n)
  <2>1. Run(c, m).m = convert(m, n, z) /\ Run(c, m).ret = 0
    BY DEF Run, Convert, Done, Ran
  <2>2. m \in Memories /\ z \in Names /\ CleanTail(m.r[z])
    BY <1>3 DEF Ready, Good
  <2>3. 1 <= nib /\ 1 \in Nat
    BY Sizes
  <2> QED
    BY <1>2, <1>3, <2>1, <2>2, <2>3, ConvertIs, GetsLeaves, LeavesResult
<1> QED
  BY <1>1, <1>2, <1>3, AssignsOne

LEMMA AddCall ==
  ASSUME Inv, NEW x \in Reg, NEW y \in Reg, NEW z \in Reg
  PROVE  LET c == [op |-> "add", a |-> <<x, y, z>>] IN Exactly(c) /\ KeptForm(c)
<1> DEFINE c == [op |-> "add", a |-> <<x, y, z>>]
<1>1. /\ Integer!Assigned(c, val) = << <<z, val[x] + val[y]>> >>
      /\ ~Integer!Undefined(c, val) /\ Integer!Answer(c, val) = 0
  BY DEF Integer!Assigned, Integer!Undefined, Integer!Answer
<1>2. val[x] \in Int /\ val[y] \in Int /\ val[x] + val[y] \in Int
  BY NumbersFit DEF Inv
<1>3. ASSUME NEW m, Ready(m) PROVE Run(c, m).ret = 0 /\ Result(m, Run(c, m).m, z, val[x] + val[y])
  <2>1. Run(c, m).m = add(m, x, y, z) /\ Run(c, m).ret = 0
    BY DEF Run, Add, Done, Ran
  <2>2. /\ m \in Memories /\ m.ERNUM = 0 /\ x \in Names /\ y \in Names /\ z \in Names /\ CleanTail(m.r[z])
        /\ Operand(m.r[x]) /\ Value(m.r[x]) = val[x] /\ m.r[x].len <= nib
        /\ Operand(m.r[y]) /\ Value(m.r[y]) = val[y] /\ m.r[y].len <= nib
    BY <1>3, ReadyOperand DEF Ready, Good
  <2>3. add(m, x, y, z) = mr_select(m, x, PLUS, y, z)
    BY <2>2 DEF add
  <2>4. val[x] + PLUS * val[y] = val[x] + val[y] /\ PLUS \in {PLUS, MINUS}
    BY <1>2 DEF PLUS, MINUS
  <2>5. Leaves(m, mr_select(m, x, PLUS, y, z), z, Value(m.r[x]) + PLUS * Value(m.r[y]))
    BY <2>2, <2>4, SelectIs
  <2> QED
    BY <1>3, <2>1, <2>2, <2>3, <2>4, <2>5, LeavesResult
<1> QED
  BY <1>1, <1>2, <1>3, AssignsOne

LEMMA SubtractCall ==
  ASSUME Inv, NEW x \in Reg, NEW y \in Reg, NEW z \in Reg
  PROVE  LET c == [op |-> "subtract", a |-> <<x, y, z>>] IN Exactly(c) /\ KeptForm(c)
<1> DEFINE c == [op |-> "subtract", a |-> <<x, y, z>>]
<1>1. /\ Integer!Assigned(c, val) = << <<z, val[x] - val[y]>> >>
      /\ ~Integer!Undefined(c, val) /\ Integer!Answer(c, val) = 0
  BY DEF Integer!Assigned, Integer!Undefined, Integer!Answer
<1>2. val[x] \in Int /\ val[y] \in Int /\ val[x] - val[y] \in Int
  BY NumbersFit DEF Inv
<1>3. ASSUME NEW m, Ready(m) PROVE Run(c, m).ret = 0 /\ Result(m, Run(c, m).m, z, val[x] - val[y])
  <2>1. Run(c, m).m = subtract(m, x, y, z) /\ Run(c, m).ret = 0
    BY DEF Run, Subtract, Done, Ran
  <2>2. /\ m \in Memories /\ m.ERNUM = 0 /\ x \in Names /\ y \in Names /\ z \in Names /\ CleanTail(m.r[z])
        /\ Operand(m.r[x]) /\ Value(m.r[x]) = val[x] /\ m.r[x].len <= nib
        /\ Operand(m.r[y]) /\ Value(m.r[y]) = val[y] /\ m.r[y].len <= nib
    BY <1>3, ReadyOperand DEF Ready, Good
  <2>3. subtract(m, x, y, z) = mr_select(m, x, MINUS, y, z)
    BY <2>2 DEF subtract
  <2>4. val[x] + MINUS * val[y] = val[x] - val[y] /\ MINUS \in {PLUS, MINUS}
    BY <1>2 DEF PLUS, MINUS
  <2>5. Leaves(m, mr_select(m, x, MINUS, y, z), z, Value(m.r[x]) + MINUS * Value(m.r[y]))
    BY <2>2, <2>4, SelectIs
  <2> QED
    BY <1>3, <2>1, <2>2, <2>3, <2>4, <2>5, LeavesResult
<1> QED
  BY <1>1, <1>2, <1>3, AssignsOne

LEMMA IncrCall ==
  ASSUME Inv, NEW x \in Reg, NEW n \in -(B - 1) .. B - 1, NEW z \in Reg
  PROVE  LET c == [op |-> "incr", a |-> <<x, n, z>>] IN Exactly(c) /\ KeptForm(c)
<1> DEFINE c == [op |-> "incr", a |-> <<x, n, z>>]
<1>1. /\ Integer!Assigned(c, val) = << <<z, val[x] + n>> >>
      /\ ~Integer!Undefined(c, val) /\ Integer!Answer(c, val) = 0
  BY DEF Integer!Assigned, Integer!Undefined, Integer!Answer
<1>2. val[x] \in Int /\ n \in Int /\ Abs(n) < B /\ val[x] + n \in Int
  <2>1. val[x] \in Int /\ n \in Int
    BY NumbersFit, Sizes DEF Inv
  <2> QED
    BY <2>1, Sizes DEF Abs
<1>3. ASSUME NEW m, Ready(m) PROVE Run(c, m).ret = 0 /\ Result(m, Run(c, m).m, z, val[x] + n)
  <2> DEFINE k == convert(m, n, "w0")
  <2>1. Run(c, m).m = incr(m, x, n, z) /\ Run(c, m).ret = 0
    BY DEF Run, Incr, Done, Ran
  <2>2. /\ m \in Memories /\ m.ERNUM = 0 /\ x \in Names /\ "w0" \in Names /\ z \in Names /\ CleanTail(m.r[z])
        /\ Operand(m.r[x]) /\ Value(m.r[x]) = val[x] /\ m.r[x].len <= nib
        /\ CleanTail(m.r["w0"]) /\ x # "w0" /\ z # "w0"
    BY <1>3, ReadyOperand DEF Ready, Good
  <2>3. incr(m, x, n, z) = mr_select(k, x, PLUS, "w0", z)
    BY <2>2 DEF incr
  <2>4. val[x] + PLUS * n = val[x] + n /\ PLUS \in {PLUS, MINUS}
    BY <1>2 DEF PLUS, MINUS
  <2>5. Gets(m, k, "w0", n, 1)
    BY <1>2, <2>2, ConvertIs
  <2>6. k.r["w0"].len \in Nat /\ 1 <= nib /\ nib <= 2 * nib /\ nib \in Nat
    BY <2>5, BigIs, Sizes DEF Gets, Good
  <2>7. Operand(k.r["w0"]) /\ k.r["w0"].len <= nib /\ Value(k.r["w0"]) = n
    BY <2>5, <2>6 DEF Gets, Operand
  <2>8. /\ k \in Memories /\ k.ERNUM = 0 /\ k.check = m.check
        /\ \A v \in Names : v # "w0" => k.r[v] = m.r[v]
    BY <2>2, <2>5 DEF Gets, Changed, Others
  <2> HIDE DEF k
  <2> DEFINE f == mr_select(k, x, PLUS, "w0", z)
  <2>9. k.r[x] = m.r[x] /\ Operand(k.r[x]) /\ CleanTail(k.r[z]) /\ (k.check => k.r[x].len <= nib)
    BY <1>3, <2>2, <2>8 DEF Ready
  <2>10. Leaves(k, f, z, Value(k.r[x]) + PLUS * Value(k.r["w0"]))
    BY <2>2, <2>4, <2>7, <2>8, <2>9, SelectIs
  <2> HIDE DEF f
  <2>11. \A v \in Reg : v # "w0" /\ v \in Names
    BY <1>3 DEF Ready
  <2> QED
    BY <2>1, <2>2, <2>3, <2>4, <2>7, <2>8, <2>9, <2>10, <2>11 DEF Leaves, Others, Result, f
<1> QED
  BY <1>1, <1>2, <1>3, AssignsOne

LEMMA DecrCall ==
  ASSUME Inv, NEW x \in Reg, NEW n \in -(B - 1) .. B - 1, NEW z \in Reg
  PROVE  LET c == [op |-> "decr", a |-> <<x, n, z>>] IN Exactly(c) /\ KeptForm(c)
<1> DEFINE c == [op |-> "decr", a |-> <<x, n, z>>]
<1>1. /\ Integer!Assigned(c, val) = << <<z, val[x] - n>> >>
      /\ ~Integer!Undefined(c, val) /\ Integer!Answer(c, val) = 0
  BY DEF Integer!Assigned, Integer!Undefined, Integer!Answer
<1>2. val[x] \in Int /\ n \in Int /\ Abs(n) < B /\ val[x] - n \in Int
  <2>1. val[x] \in Int /\ n \in Int
    BY NumbersFit, Sizes DEF Inv
  <2> QED
    BY <2>1, Sizes DEF Abs
<1>3. ASSUME NEW m, Ready(m) PROVE Run(c, m).ret = 0 /\ Result(m, Run(c, m).m, z, val[x] - n)
  <2> DEFINE k == convert(m, n, "w0")
  <2>1. Run(c, m).m = decr(m, x, n, z) /\ Run(c, m).ret = 0
    BY DEF Run, Decr, Done, Ran
  <2>2. /\ m \in Memories /\ m.ERNUM = 0 /\ x \in Names /\ "w0" \in Names /\ z \in Names /\ CleanTail(m.r[z])
        /\ Operand(m.r[x]) /\ Value(m.r[x]) = val[x] /\ m.r[x].len <= nib
        /\ CleanTail(m.r["w0"]) /\ x # "w0" /\ z # "w0"
    BY <1>3, ReadyOperand DEF Ready, Good
  <2>3. decr(m, x, n, z) = mr_select(k, x, MINUS, "w0", z)
    BY <2>2 DEF decr
  <2>4. val[x] + MINUS * n = val[x] - n /\ MINUS \in {PLUS, MINUS}
    BY <1>2 DEF PLUS, MINUS
  <2>5. Gets(m, k, "w0", n, 1)
    BY <1>2, <2>2, ConvertIs
  <2>6. k.r["w0"].len \in Nat /\ 1 <= nib /\ nib <= 2 * nib /\ nib \in Nat
    BY <2>5, BigIs, Sizes DEF Gets, Good
  <2>7. Operand(k.r["w0"]) /\ k.r["w0"].len <= nib /\ Value(k.r["w0"]) = n
    BY <2>5, <2>6 DEF Gets, Operand
  <2>8. /\ k \in Memories /\ k.ERNUM = 0 /\ k.check = m.check
        /\ \A v \in Names : v # "w0" => k.r[v] = m.r[v]
    BY <2>2, <2>5 DEF Gets, Changed, Others
  <2> HIDE DEF k
  <2> DEFINE f == mr_select(k, x, MINUS, "w0", z)
  <2>9. k.r[x] = m.r[x] /\ Operand(k.r[x]) /\ CleanTail(k.r[z]) /\ (k.check => k.r[x].len <= nib)
    BY <1>3, <2>2, <2>8 DEF Ready
  <2>10. Leaves(k, f, z, Value(k.r[x]) + MINUS * Value(k.r["w0"]))
    BY <2>2, <2>4, <2>7, <2>8, <2>9, SelectIs
  <2> HIDE DEF f
  <2>11. \A v \in Reg : v # "w0" /\ v \in Names
    BY <1>3 DEF Ready
  <2> QED
    BY <2>1, <2>2, <2>3, <2>4, <2>7, <2>8, <2>9, <2>10, <2>11 DEF Leaves, Others, Result, f
<1> QED
  BY <1>1, <1>2, <1>3, AssignsOne

\* The order of two numbers is the answer and no number changes.
LEMMA CompareCall ==
  ASSUME Inv, NEW x \in Reg, NEW y \in Reg
  PROVE  LET c == [op |-> "compare", a |-> <<x, y>>] IN Exactly(c) /\ KeptForm(c)
<1> DEFINE c == [op |-> "compare", a |-> <<x, y>>]
           v == SignOf(val[x] - val[y])
<1>1. /\ Integer!Outcomes(c, val) = {<<>>} /\ Integer!Answer(c, val) = v /\ ~Integer!Undefined(c, val)
  BY DEF Integer!Outcomes, Integer!Assigned, Integer!Answer, Integer!Undefined, Integer!Sign, SignOf
<1>2. Integer!Apply(<<>>, val) = val
  <2>1. Integer!Apply(<<>>, val) = [r \in Reg |-> val[r]]
    BY DEF Integer!Apply
  <2> QED
    BY <2>1 DEF Inv
<1>3. Integer!MayReturn(c, val, val, v)
  <2>1. \A i \in DOMAIN <<>> : Integer!Fits(<<>>[i][2])
    OBVIOUS
  <2> QED
    BY <1>1, <1>2, <2>1 DEF Integer!MayReturn
<1>4. ASSUME NEW junk \in {Zero, Full}
      PROVE  LET m == Memory(junk)
             IN  /\ Run(c, m).m = m /\ Run(c, m).ret = v /\ m.ERNUM = 0
                 /\ [r \in Reg |-> Value(m.r[r])] = val
                 /\ \A r \in Reg : /\ m.r[r] \in Big /\ m.check /\ m.r[r].len <= nib
                                   /\ CleanTail(m.r[r]) /\ Canonical(m.r[r])
  <2> DEFINE m == Memory(junk)
  <2>1. Ready(m)
    BY MemoryReady
  <2> HIDE DEF m
  <2>2. Run(c, m).m = m /\ Run(c, m).ret = mr_compare(m, x, y)
    BY DEF Run, Compare, Ran
  <2>3. mr_compare(m, x, y) = v
    <3>1. CASE x = y
      <4>1. val[x] \in Int
        BY NumbersFit DEF Inv
      <4> QED
        BY <3>1, <4>1 DEF mr_compare, SignOf
    <3>2. CASE x # y
      <4>1. m.r[x].len < Ext /\ m.r[y].len < Ext
        BY <2>1, ReadyOperand, BigIs, Sizes DEF Operand, Good
      <4>2. CompareBig(m.r[x], m.r[y]) = SignOf(Value(m.r[x]) - Value(m.r[y]))
        BY <2>1, <4>1, ReadyOperand, CompareIs DEF Operand
      <4> QED
        BY <2>1, <3>2, <4>2 DEF mr_compare, Ready
    <3> QED
      BY <3>1, <3>2
  <2>4. [r \in Reg |-> Value(m.r[r])] = val
    <3>1. \A r \in Reg : Value(m.r[r]) = val[r]
      BY <2>1 DEF Ready
    <3>2. val = [r \in Reg |-> val[r]]
      BY DEF Inv
    <3> QED
      BY <3>1, <3>2
  <2>5. \A r \in Reg : /\ m.r[r] \in Big /\ m.check /\ m.r[r].len <= nib
                       /\ CleanTail(m.r[r]) /\ Canonical(m.r[r])
    BY <2>1 DEF Ready, Good
  <2>6. m.ERNUM = 0
    BY <2>1 DEF Ready
  <2> QED
    BY <2>2, <2>3, <2>4, <2>5, <2>6 DEF m
<1> HIDE DEF c, v
<1>5. KeptForm(c)
  BY <1>4 DEF KeptForm
<1>6. Exactly(c)
  BY <1>3, <1>4 DEF Exactly
<1> QED
  BY <1>5, <1>6 DEF c

\* The words v make up for what the words w, the carries c and the steps of t add.
Carrying(w, v, c, t, k, n) ==
  /\ \A i \in k .. n : c[i] \in Nat /\ t[i] \in Int
  /\ \A i \in k .. n - 1 : v[i] * BTo[i] + c[i+1] * BTo[i+1] + t[i] = w[i] * BTo[i] + c[i] * BTo[i] + t[i+1]
LEMMA LowCarried ==
  ASSUME NEW w \in Words, NEW v \in Words, NEW k \in Idx, NEW n \in k .. Ext - 1, NEW c, NEW t,
         Carrying(w, v, c, t, k, n)
  PROVE  (Low(v, n) - Low(v, k)) + c[n] * BTo[n] + t[k] = (Low(w, n) - Low(w, k)) + c[k] * BTo[k] + t[n]
<1> DEFINE Eq(h) == (Low(v, h) - Low(v, k)) + c[h] * BTo[h] + t[k] = (Low(w, h) - Low(w, k)) + c[k] * BTo[k] + t[h]
           T == {i \in Nat : k + i <= n => Eq(k + i)}
<1>0. k \in Nat /\ n \in Nat /\ n <= Ext - 1 /\ k \in 0 .. Ext /\ k <= n
  BY Sizes
<1>9. Low(w, k) \in Nat /\ Low(v, k) \in Nat /\ c[k] \in Nat /\ t[k] \in Int /\ BTo[k] \in Nat /\ c[k] * BTo[k] \in Nat
  <2>1. Low(w, k) \in Nat /\ Low(v, k) \in Nat
    BY <1>0, LowIs
  <2>2. k \in k .. n
    BY <1>0
  <2>3. c[k] \in Nat /\ t[k] \in Int /\ BTo[k] \in Nat
    BY <2>2, BToIs DEF Carrying
  <2> QED
    BY <2>1, <2>3
<1>1. 0 \in T
  <2>1. k + 0 = k
    BY <1>0
  <2>2. Eq(k)
    BY <1>9
  <2> HIDE DEF Eq
  <2> QED
    BY <2>1, <2>2
<1>2. ASSUME NEW i \in Nat, i \in T PROVE i + 1 \in T
  <2> SUFFICES ASSUME k + (i + 1) <= n PROVE Eq(k + (i + 1))
    OBVIOUS
  <2> DEFINE h == k + i
  <2>1. /\ h \in 0 .. Ext - 1 /\ h \in 0 .. Ext /\ h \in k .. n - 1 /\ h \in k .. n /\ h + 1 \in k .. n
        /\ h \in Idx /\ h + 1 \in Idx /\ k + (i + 1) = h + 1
    BY <1>0, Sizes
  <2>2. Eq(h)
    <3>1. k + i <= n
      BY <1>0
    <3> HIDE DEF Eq
    <3> QED
      BY <1>2, <3>1
  <2> HIDE DEF h
  <2>3. Low(w, h + 1) = Low(w, h) + w[h] * BTo[h] /\ Low(v, h + 1) = Low(v, h) + v[h] * BTo[h]
    BY <2>1, LowIs
  <2>4. /\ c[h] \in Nat /\ c[h+1] \in Nat /\ t[h] \in Int /\ t[h+1] \in Int
        /\ v[h] * BTo[h] + c[h+1] * BTo[h+1] + t[h] = w[h] * BTo[h] + c[h] * BTo[h] + t[h+1]
    BY <2>1 DEF Carrying
  <2>5. /\ w[h] \in Nat /\ v[h] \in Nat /\ BTo[h] \in Nat /\ BTo[h+1] \in Nat
        /\ Low(w, h) \in Nat /\ Low(v, h) \in Nat
    BY <2>1, At, BToIs
  <2> DEFINE p == v[h] * BTo[h]
             q == c[h+1] * BTo[h+1]
             r == w[h] * BTo[h]
             s == c[h] * BTo[h]
             e == c[k] * BTo[k]
             lv == Low(v, h)
             lv1 == Low(v, h + 1)
             vk == Low(v, k)
             lw == Low(w, h)
             lw1 == Low(w, h + 1)
             wk == Low(w, k)
             tk == t[k]
             th == t[h]
             t1 == t[h+1]
  <2>6. /\ p \in Nat /\ q \in Nat /\ r \in Nat /\ s \in Nat /\ e \in Nat
        /\ lv \in Nat /\ lw \in Nat /\ vk \in Nat /\ wk \in Nat /\ tk \in Int /\ th \in Int /\ t1 \in Int
    BY <1>9, <2>4, <2>5
  <2>7. lw1 = lw + r /\ lv1 = lv + p /\ p + q + th = r + s + t1 /\ (lv - vk) + s + tk = (lw - wk) + e + th
    BY <2>2, <2>3, <2>4
  <2> HIDE DEF p, q, r, s, e, lv, lv1, vk, lw, lw1, wk, tk, th, t1
  <2>8. (lv1 - vk) + q + tk = (lw1 - wk) + e + t1
    BY <2>6, <2>7
  <2>9. Eq(h + 1)
    BY <2>8 DEF q, e, lv1, vk, lw1, wk, tk, t1
  <2> HIDE DEF Eq
  <2> QED
    BY <2>1, <2>9
<1>3. Nat \subseteq T
  <2> HIDE DEF T
  <2> QED
    BY <1>1, <1>2, SetInduction
<1>4. n - k \in T /\ k + (n - k) = n
  <2> HIDE DEF T
  <2> QED
    BY <1>0, <1>3
<1>5. Eq(n)
  <2> HIDE DEF Eq
  <2> QED
    BY <1>0, <1>4
<1> QED
  BY <1>5

\* A product of two words with two more words added fits two words.
Split(v) == v % B \in Word /\ v \div B \in Word /\ (v % B) + B * (v \div B) = v
LEMMA SplitIs ==
  ASSUME NEW x \in Word, NEW y \in Word, NEW c \in Word, NEW w \in Word
  PROVE  x * y + c + w \in Nat /\ Split(x * y + c + w)
<1> DEFINE p == x * y
           v == p + c + w
<1>1. x \in Nat /\ x < B /\ y \in Nat /\ y < B /\ c \in Nat /\ c < B /\ w \in Nat /\ w < B /\ B \in Nat \ {0}
      /\ Word = 0 .. B - 1
  BY Sizes
<1>2. p \in Nat /\ p + (B - 1) + (B - 1) < B * B
  <2>1. PICK d \in Nat : B - 1 = x + d
    <3>1. B - 1 - x \in Nat /\ B - 1 = x + (B - 1 - x)
      BY <1>1
    <3> QED
      BY <3>1
  <2>2. PICK e \in Nat : B - 1 = y + e
    <3>1. B - 1 - y \in Nat /\ B - 1 = y + (B - 1 - y)
      BY <1>1
    <3> QED
      BY <3>1
  <2>3. (x + d) * (y + e) = x * y + x * e + d * (y + e) /\ x * e \in Nat /\ d * (y + e) \in Nat /\ x * y \in Nat
    BY <1>1
  <2>4. (B - 1) * (B - 1) = p + x * e + d * (y + e)
    BY <2>1, <2>2, <2>3
  <2>5. (B - 1) * (B - 1) = B * B - 2 * B + 1 /\ B * B \in Nat
    BY <1>1
  <2> DEFINE f == x * e
             g == d * (y + e)
             h == B * B
             k == (B - 1) * (B - 1)
  <2> HIDE DEF p, f, g, h, k
  <2>6. p \in Nat /\ f \in Nat /\ g \in Nat /\ h \in Nat /\ k = p + f + g /\ k = h - 2 * B + 1
    BY <2>3, <2>4, <2>5 DEF p, f, g, h, k
  <2>7. p + (B - 1) + (B - 1) < h
    BY <1>1, <2>6
  <2> QED
    BY <2>6, <2>7 DEF h
<1> HIDE DEF p
<1>3. v \in Nat /\ v < B * B
  <2> DEFINE h == B * B
  <2>1. h \in Nat
    BY <1>1
  <2> HIDE DEF h
  <2>2. v \in Nat /\ v < h
    BY <1>1, <1>2, <2>1 DEF h
  <2> QED
    BY <2>2 DEF h
<1> HIDE DEF v
<1>4. v % B \in 0 .. B - 1 /\ v \div B \in Nat /\ v = B * (v \div B) + (v % B)
  BY <1>1, <1>3
<1>5. v \div B < B
  <2> SUFFICES ASSUME v \div B >= B PROVE FALSE
    BY <1>1, <1>4
  <2> DEFINE q == v \div B
             r == v % B
  <2>1. PICK e \in Nat : q = B + e
    <3>1. q \in Nat /\ q >= B
      BY <1>4
    <3> HIDE DEF q
    <3>2. q - B \in Nat /\ q = B + (q - B)
      BY <1>1, <3>1
    <3> QED
      BY <3>2
  <2>2. B * (B + e) = B * B + B * e /\ B * e \in Nat
    BY <1>1
  <2>3. v = B * (B + e) + r /\ r \in Nat
    BY <1>1, <1>4, <2>1
  <2> DEFINE h == B * B
             g == B * e
             k == B * (B + e)
  <2> HIDE DEF h, g, k, r, q
  <2>4. v = k + r /\ k = h + g /\ v < h /\ g \in Nat /\ r \in Nat /\ h \in Nat
    BY <1>1, <1>3, <2>2, <2>3 DEF h, g, k
  <2> QED
    BY <2>4
<1>6. Split(v)
  <2> DEFINE k == B * (v \div B)
             r == v % B
  <2>1. v = k + r /\ k \in Nat /\ r \in Nat
    <3>1. k \in Nat
      <4>1. \A f, g \in Nat : f * g \in Nat
        OBVIOUS
      <4>2. B \in Nat /\ v \div B \in Nat
        BY <1>1, <1>4
      <4> QED
        BY <4>1, <4>2
    <3>2. v = k + r /\ r \in Nat
      BY <1>1, <1>4
    <3> QED
      BY <3>1, <3>2
  <2> HIDE DEF k, r
  <2>2. r + k = v
    BY <2>1
  <2> QED
    BY <1>1, <1>4, <1>5, <2>2 DEF Split, k, r
<1> QED
  BY <1>3, <1>6 DEF v, p

-----------------------------------------------------------------------------
(* One word against a number.                                                 *)

\* A loop that goes on from word to word stays inside the words of a number.
LEMMA ZeroBigIs ==
  ASSUME NEW X \in Big, CleanTail(X)
  PROVE  ZeroBig(X) = Zero
<1>1. X.w \in Words /\ X.len \in 0 .. Ext
  BY BigIs
<1>2. \A i \in Idx : (IF i < X.len THEN 0 ELSE X.w[i]) = 0
  <2> TAKE i \in Idx
  <2>1. ~(i < X.len) => i >= X.len
    BY <1>1, Sizes
  <2> QED
    BY <2>1 DEF CleanTail
<1> QED
  BY <1>2 DEF ZeroBig, Zero

\* The carries of x * sn are words.
ProductRow(X, sn, c) ==
  /\ c[0] = 0 /\ \A i \in 0 .. X.len : c[i] \in Word
  /\ \A i \in 0 .. X.len - 1 : /\ (X.w[i] * sn + c[i]) % B \in Word
                               /\ ((X.w[i] * sn + c[i]) % B) + B * c[i+1] = X.w[i] * sn + c[i]
LEMMA ProductCarriesIs ==
  ASSUME NEW X \in Big, X.len \in Idx, NEW sn \in Word
  PROVE  ProductRow(X, sn, ProductCarries(X, sn))
<1> DEFINE st == [i \in Idx |-> [carry \in Word |-> (X.w[i] * sn + carry) \div B]]
           n == X.len
           c == Carried(n, 0, st)
<1>1. n \in Nat /\ 0 \in Word /\ \A i \in 0 .. n - 1 : i \in Idx /\ i \in 0 .. n /\ i + 1 \in 0 .. n
  BY Sizes
<1>2. ASSUME NEW i \in 0 .. n - 1, NEW v \in Word
      PROVE  Split(X.w[i] * sn + v) /\ st[i][v] = (X.w[i] * sn + v) \div B
  <2>1. i \in Idx /\ X.w[i] \in Word
    BY <1>1, BigIs DEF Words
  <2>2. X.w[i] * sn + v + 0 \in Nat /\ Split(X.w[i] * sn + v + 0)
    BY <1>1, <2>1, SplitIs
  <2>3. X.w[i] * sn + v + 0 = X.w[i] * sn + v
    BY <2>1, Sizes
  <2>4. st[i][v] = (X.w[i] * sn + v) \div B
    BY <2>1
  <2> QED
    BY <2>2, <2>3, <2>4
<1> HIDE DEF st
<1>3. Inside(n, Word, st)
  BY <1>2 DEF Inside, Split
<1>4. c \in [0 .. n -> Word] /\ CarriesOn(c, n, 0, st)
  <2> HIDE DEF n
  <2> QED
    BY <1>1, <1>3, CarriedIs
<1>5. ProductCarries(X, sn) = c
  BY DEF ProductCarries, st
<1> HIDE DEF c
<1>6. ASSUME NEW i \in 0 .. n - 1
      PROVE  /\ (X.w[i] * sn + c[i]) % B \in Word
             /\ ((X.w[i] * sn + c[i]) % B) + B * c[i+1] = X.w[i] * sn + c[i]
  <2>1. c[i] \in Word /\ c[i+1] = st[i][c[i]]
    BY <1>1, <1>4 DEF CarriesOn
  <2>2. Split(X.w[i] * sn + c[i]) /\ c[i+1] = (X.w[i] * sn + c[i]) \div B
    BY <1>2, <2>1
  <2> QED
    BY <2>2 DEF Split
<1>7. c[0] = 0 /\ \A i \in 0 .. n : c[i] \in Word
  BY <1>4 DEF CarriesOn
<1> QED
  BY <1>5, <1>6, <1>7 DEF ProductRow

\* The words of x * sn with their last carry stand for the product.
TimesStep(P, b, w, c1, x, s, c, l) == w * P + c1 * (b * P) + l * s = 0 * P + c * P + (l + x * P) * s
LEMMA TimesStepIs ==
  ASSUME NEW P \in Nat, NEW b \in Nat, NEW w \in Nat, NEW c1 \in Nat, NEW x \in Nat, NEW s \in Nat,
         NEW c \in Nat, NEW l \in Nat, w + b * c1 = x * s + c
  PROVE  TimesStep(P, b, w, c1, x, s, c, l)
<1>1. (w + b * c1) * P = w * P + c1 * (b * P) /\ (x * s + c) * P = (x * P) * s + c * P
  OBVIOUS
<1>2. w * P + c1 * (b * P) = (x * P) * s + c * P
  BY <1>1
<1>3. (l + x * P) * s = l * s + (x * P) * s /\ 0 * P = 0
  OBVIOUS
<1> DEFINE p == w * P
           q == c1 * (b * P)
           r == (x * P) * s
           t == c * P
           u == l * s
<1>4. p \in Nat /\ q \in Nat /\ r \in Nat /\ t \in Nat /\ u \in Nat /\ p + q = r + t
  BY <1>2
<1>5. (l + x * P) * s = u + r
  BY <1>3
<1> HIDE DEF p, q, r, t, u
<1>6. p + q + u = 0 + t + (u + r)
  BY <1>4
<1> QED
  BY <1>3, <1>5, <1>6 DEF TimesStep, p, q, u, t
\* Words w and carries c that come from s times the words p, one after the other.
WordsTimes(p, s, w, c, n) == /\ \A i \in 0 .. n : c[i] \in Nat
                             /\ \A i \in 0 .. n - 1 : w[i] + B * c[i+1] = p[i] * s + c[i]
LEMMA TimesIs ==
  ASSUME NEW p \in Words, NEW w \in Words, NEW n \in Idx, NEW s \in Nat, NEW c, WordsTimes(p, s, w, c, n)
  PROVE  Low(w, n) + c[n] * BTo[n] = Low(p, n) * s + c[0]
<1> DEFINE t == [i \in 0 .. Ext |-> Low(p, i) * s]
           o == Zero.w
<1>1. n \in Nat /\ n \in 0 .. Ext - 1 /\ 0 \in Idx /\ 0 \in 0 .. Ext /\ n \in 0 .. Ext /\ n \in 0 .. n /\ 0 \in 0 .. n
      /\ \A i \in 0 .. n - 1 : i \in 0 .. n /\ i + 1 \in 0 .. n /\ i \in Idx /\ i \in 0 .. Ext - 1 /\ i \in 0 .. Ext - 2
  BY Sizes
<1>2. o \in Words /\ \A i \in Idx : o[i] = 0
  BY Sizes DEF Zero, Words
<1>3. \A i \in 0 .. n : c[i] \in Nat /\ t[i] = Low(p, i) * s /\ t[i] \in Int
  <2> TAKE i \in 0 .. n
  <2>1. i \in 0 .. Ext /\ c[i] \in Nat
    BY <1>1, Sizes DEF WordsTimes
  <2>2. Low(p, i) \in Nat
    BY <2>1, LowIs
  <2>3. Low(p, i) * s \in Int
    BY <2>2
  <2> QED
    BY <2>1, <2>3
<1>4. ASSUME NEW i \in 0 .. n - 1
      PROVE  w[i] * BTo[i] + c[i+1] * BTo[i+1] + t[i] = o[i] * BTo[i] + c[i] * BTo[i] + t[i+1]
  <2>1. w[i] + B * c[i+1] = p[i] * s + c[i]
    BY DEF WordsTimes
  <2>2. /\ w[i] \in Nat /\ p[i] \in Nat /\ c[i] \in Nat /\ c[i+1] \in Nat /\ BTo[i] \in Nat /\ B \in Nat
        /\ Low(p, i) \in Nat
    BY <1>1, <1>3, At, Sizes
  <2>3. BTo[i+1] = B * BTo[i] /\ o[i] = 0 /\ Low(p, i + 1) = Low(p, i) + p[i] * BTo[i]
    BY <1>1, <1>2, BToIs, LowIs
  <2>4. TimesStep(BTo[i], B, w[i], c[i+1], p[i], s, c[i], Low(p, i))
    BY <2>1, <2>2, TimesStepIs
  <2>5. t[i] = Low(p, i) * s /\ t[i+1] = Low(p, i + 1) * s
    BY <1>1, <1>3
  <2> HIDE DEF t, o
  <2> QED
    BY <2>3, <2>4, <2>5 DEF TimesStep
<1> HIDE DEF t, o
<1>5. Carrying(o, w, c, t, 0, n)
  <2>1. \A i \in 0 .. n - 1 : w[i] * BTo[i] + c[i+1] * BTo[i+1] + t[i] = o[i] * BTo[i] + c[i] * BTo[i] + t[i+1]
    BY <1>4
  <2> QED
    BY <1>3, <2>1 DEF Carrying
<1>6. (Low(w, n) - Low(w, 0)) + c[n] * BTo[n] + t[0] = (Low(o, n) - Low(o, 0)) + c[0] * BTo[0] + t[n]
  BY <1>1, <1>2, <1>5, LowCarried
<1>7. Low(o, n) = 0 /\ Low(o, 0) = 0 /\ Low(w, 0) = 0 /\ Low(p, 0) = 0
  <2>1. Low(o, 0) = 0 /\ Low(w, 0) = 0 /\ Low(p, 0) = 0
    BY <1>2, LowIs
  <2>2. \A i \in 0 .. n - 1 : o[i] = 0
    BY <1>1, <1>2
  <2>3. Low(o, n) = Low(o, 0)
    BY <1>1, <1>2, <2>2, LowMore
  <2> QED
    BY <2>1, <2>3
<1>8. BTo[0] = 1 /\ t[0] = 0 /\ t[n] = Low(p, n) * s
  <2>1. t[n] = Low(p, n) * s /\ t[0] = Low(p, 0) * s /\ 0 * s = 0
    BY <1>1, <1>3
  <2> QED
    BY <1>7, <2>1, BToIs
<1>9. Low(w, n) \in Nat /\ c[n] * BTo[n] \in Nat /\ t[n] \in Int /\ c[0] \in Nat
  <2>1. c[n] \in Nat /\ BTo[n] \in Nat /\ Low(w, n) \in Nat /\ c[0] \in Nat /\ t[n] \in Int
    BY <1>1, <1>3, BToIs, LowIs
  <2> QED
    BY <2>1
<1> DEFINE l == Low(w, n)
           k == c[n] * BTo[n]
           u == t[n]
           d == c[0]
<1>10. l + k = u + d
  <2>1. (l - 0) + k + 0 = (0 - 0) + d * 1 + u
    BY <1>6, <1>7, <1>8
  <2>2. l \in Nat /\ k \in Nat /\ u \in Int /\ d \in Nat
    BY <1>9
  <2> HIDE DEF l, k, u, d
  <2> QED
    BY <2>1, <2>2
<1> QED
  BY <1>8, <1>10

LEMMA ProductIs ==
  ASSUME NEW X \in Big, X.len \in Idx, NEW sn \in Word, NEW c, ProductRow(X, sn, c), NEW w \in Words,
         \A i \in 0 .. X.len - 1 : w[i] = (X.w[i] * sn + c[i]) % B
  PROVE  Low(w, X.len) + c[X.len] * BTo[X.len] = Mag(X) * sn
<1>1. X.w \in Words /\ sn \in Nat
  BY BigIs, Sizes
<1>2. WordsTimes(X.w, sn, w, c, X.len)
  BY Sizes DEF WordsTimes, ProductRow
<1>3. Low(w, X.len) + c[X.len] * BTo[X.len] = Low(X.w, X.len) * sn + c[0]
  BY <1>1, <1>2, TimesIs
<1>4. c[0] = 0 /\ Low(X.w, X.len) * sn \in Nat
  <2>1. Low(X.w, X.len) \in Nat
    BY <1>1, At
  <2> QED
    BY <1>1, <2>1 DEF ProductRow
<1> DEFINE s == Low(X.w, X.len) * sn
           l == Low(w, X.len) + c[X.len] * BTo[X.len]
<1>5. l = s + c[0] /\ s \in Nat /\ c[0] = 0
  BY <1>3, <1>4
<1> HIDE DEF s, l
<1>6. l = s
  BY <1>5
<1> QED
  BY <1>6 DEF s, l, Mag

\* What x * sn leaves in z: the product with the sign of x, or an overflow of what
\* does not fit.
Timed(m, n, z, s, neg) ==
  /\ Others(m, n, z)
  /\ \/ /\ n.ERNUM = m.ERNUM
        /\ Good(n.r[z]) /\ n.r[z].neg = neg /\ Mag(n.r[z]) = s /\ (m.check => n.r[z].len <= nib)
     \/ n.ERNUM = ERR_OVERFLOW /\ m.check /\ s >= BTo[nib]
\* The words of the product, the last carry above them.
Multiplied(X, sn, c, w) ==
  /\ w \in Words /\ \A i \in Idx : /\ i < X.len => w[i] = (X.w[i] * sn + c[i]) % B
                                   /\ i > X.len => w[i] = 0
ProductNumber(X, c, w) == LET len == X.len + (IF c[X.len] > 0 THEN 1 ELSE 0)
                          IN  [w |-> w, len |-> len, neg |-> X.neg /\ len > 0]
LEMMA ProductGood ==
  ASSUME NEW X, Operand(X), NEW sn \in Word, sn # 0, NEW c, ProductRow(X, sn, c), NEW w, Multiplied(X, sn, c, w),
         w[X.len] = c[X.len], NEW b, b = ProductNumber(X, c, w)
  PROVE  Good(b) /\ b.neg = X.neg /\ Mag(b) = Mag(X) * sn
<1> DEFINE n == X.len
           last == c[n]
           p == Mag(X) * sn
<1>1. /\ X \in Big /\ n \in Nat /\ n \in Idx /\ n \in 0 .. Ext /\ n \in 0 .. Ext - 1 /\ n + 1 \in Nat /\ n + 1 \in 0 .. Ext
      /\ n \in 0 .. n /\ n + 1 \in n .. Ext /\ X.neg \in BOOLEAN
  BY BigIs, Sizes DEF Operand, Good
<1>2. w \in Words /\ \A i \in 0 .. n - 1 : w[i] = (X.w[i] * sn + c[i]) % B
  BY <1>1, Sizes DEF Multiplied
<1>3. Low(w, n) + last * BTo[n] = p
  BY <1>1, <1>2, ProductIs
<1>4. last \in Nat /\ BTo[n] \in Nat /\ Low(w, n) \in Nat /\ Low(w, n + 1) = Low(w, n) + w[n] * BTo[n]
  <2>1. last \in Word
    BY <1>1 DEF ProductRow
  <2>2. last \in Nat
    BY <2>1, Sizes
  <2>3. BTo[n] \in Nat /\ Low(w, n) \in Nat /\ Low(w, n + 1) = Low(w, n) + w[n] * BTo[n]
    <3> HIDE DEF n
    <3> QED
      BY <1>1, <1>2, LowIs, BToIs
  <2> QED
    BY <2>2, <2>3
<1>5. Low(w, n + 1) = p
  BY <1>3, <1>4
<1>6. CASE last > 0
  <2>1. b.w = w /\ b.len = n + 1 /\ b.neg = X.neg
    BY <1>1, <1>6 DEF ProductNumber
  <2>2. b \in Big
    <3>1. b = [w |-> b.w, len |-> b.len, neg |-> b.neg]
      BY <2>1 DEF ProductNumber
    <3> QED
      BY <1>1, <1>2, <2>1, <3>1, BigIs
  <2>3. CleanTail(b)
    <3>1. \A i \in Idx : i >= n + 1 => i > n
      BY <1>1, Sizes
    <3> QED
      BY <2>1, <3>1 DEF CleanTail, Multiplied
  <2>4. Canonical(b)
    <3>1. (n + 1) - 1 = n /\ n + 1 > 0 /\ w[n] # 0
      BY <1>1, <1>4, <1>6
    <3> HIDE DEF n
    <3> QED
      BY <2>1, <3>1 DEF Canonical
  <2> QED
    BY <1>5, <2>1, <2>2, <2>3, <2>4 DEF Good, Mag
<1>7. CASE ~(last > 0)
  <2>0. last = 0
    BY <1>4, <1>7
  <2>9. n = 0 => ~X.neg
    BY DEF Operand, Good, Canonical
  <2>1. b.w = w /\ b.len = n /\ b.neg = X.neg
    BY <1>1, <1>7, <2>9 DEF ProductNumber
  <2>2. b \in Big
    <3>1. b = [w |-> b.w, len |-> b.len, neg |-> b.neg]
      BY <2>1 DEF ProductNumber
    <3> QED
      BY <1>1, <1>2, <2>1, <3>1, BigIs
  <2>3. CleanTail(b)
    <3>1. \A i \in Idx : i >= n => i = n \/ i > n
      BY <1>1, Sizes
    <3> QED
      BY <2>0, <2>1, <3>1 DEF CleanTail, Multiplied
  <2>5. Low(w, n) = p
    BY <1>3, <1>4, <2>0
  <2>4. Canonical(b)
    <3>1. ASSUME n > 0 PROVE w[n-1] # 0
      <4> SUFFICES ASSUME w[n-1] = 0 PROVE FALSE
        OBVIOUS
      <4>1. n - 1 \in 0 .. Ext - 1 /\ n - 1 \in Idx /\ n - 1 + 1 = n /\ X.w \in Words /\ X.w[n-1] # 0
        BY SMTT(30), <1>1, <3>1, BigIs, Sizes DEF Operand, Good, Canonical
      <4>2. BTo[n-1] <= Mag(X)
        BY <4>1, LowTop DEF Mag
      <4>3. Low(w, n) = Low(w, n - 1) + w[n-1] * BTo[n-1] /\ Low(w, n - 1) < BTo[n-1] /\ Low(w, n - 1) \in Nat
        BY <1>2, <4>1, LowIs, LowBelow
      <4>4. BTo[n-1] \in Nat
        BY <4>1, BToIs
      <4>5. Low(w, n) < BTo[n-1]
        BY <4>3, <4>4
      <4>6. Mag(X) \in Nat /\ sn \in Nat \ {0}
        <5>1. Mag(X) \in Nat
          BY <1>1, <4>1, LowIs DEF Mag
        <5>2. sn \in Nat \ {0}
          BY Sizes
        <5> QED
          BY <5>1, <5>2
      <4>7. \A f \in Nat, g \in Nat \ {0} : f <= f * g
        OBVIOUS
      <4>8. Mag(X) <= p /\ p \in Nat
        BY <4>6, <4>7
      <4> QED
        BY <2>5, <4>2, <4>4, <4>5, <4>6, <4>8
    <3> HIDE DEF n
    <3> QED
      BY <1>1, <2>1, <2>9, <3>1 DEF Canonical
  <2> QED
    BY <2>1, <2>2, <2>3, <2>4, <2>5 DEF Good, Mag
<1> QED
  BY <1>6, <1>7

LEMMA PmulIs ==
  ASSUME NEW m \in Memories, NEW x \in Names, NEW z \in Names, NEW sn \in Word,
         Operand(m.r[x]), CleanTail(m.r[z]), m.check => m.r[x].len <= nib
  PROVE  Timed(m, mr_pmul(m, x, sn, z), z, Mag(m.r[x]) * sn, sn # 0 /\ m.r[x].neg)
<1> DEFINE X == m.r[x]
           Z0 == IF x # z THEN ZeroBig(m.r[z]) ELSE X
           c == ProductCarries(X, sn)
           fits == X.len < nib \/ ~m.check
           last == c[X.len]
           w == ProductWords(X, sn, Z0.w, c, fits)
           len == X.len + (IF last > 0 THEN 1 ELSE 0)
           b == [w |-> w, len |-> len, neg |-> X.neg /\ len > 0]
           f == [Z0 EXCEPT !.w = w]
           M == mr_pmul(m, x, sn, z)
<1>17. M = IF sn = 0 THEN zero(m, z) ELSE ProductInto(m, x, sn, z)
  BY DEF mr_pmul
<1> HIDE DEF M
<1>8. ASSUME sn # 0
      PROVE  M = IF last > 0 /\ ~fits THEN mr_berror(Put(m, z, f), ERR_OVERFLOW) ELSE Put(m, z, b)
  BY <1>8, <1>17 DEF ProductInto
<1>1. X \in Big /\ m.r[z] \in Big /\ m.ERNUM \in Int /\ m.check \in BOOLEAN
  BY MemoryIs
<1>2. X.len \in Nat /\ X.len \in Idx /\ X.len <= 2 * nib /\ X.neg \in BOOLEAN /\ Mag(X) \in Nat /\ X.w \in Words /\ X.len \in 0 .. X.len
  <2>1. X.len \in 0 .. Ext /\ X.len <= 2 * nib /\ X.neg \in BOOLEAN /\ X.w \in Words
    BY <1>1, BigIs DEF Operand
  <2>2. Mag(X) \in Nat
    BY <2>1, LowIs DEF Mag
  <2> QED
    BY <2>1, <2>2, Sizes
<1>3. Z0 \in Big /\ \A i \in Idx : i >= X.len => Z0.w[i] = 0
  <2>1. CASE x # z
    <3>1. Z0 = Zero
      BY <1>1, <2>1, ZeroBigIs
    <3> QED
      BY <3>1, ZeroGood DEF Good, Zero
  <2>2. CASE x = z
    BY <1>1, <2>2 DEF Operand, Good, CleanTail
  <2> QED
    BY <2>1, <2>2
<1>4. ProductRow(X, sn, c)
  BY <1>1, <1>2, ProductCarriesIs
<1> HIDE DEF c, Z0, X
<1>5. last \in Word /\ \A i \in 0 .. X.len : c[i] \in Word
  BY <1>2, <1>4 DEF ProductRow
<1>20. w = [i \in Idx |-> IF i < X.len THEN (X.w[i] * sn + c[i]) % B
                          ELSE IF i = X.len /\ last > 0 /\ fits THEN last ELSE Z0.w[i]]
  BY DEF ProductWords
<1> HIDE DEF w
<1>6. \A i \in Idx : i < X.len => w[i] = (X.w[i] * sn + c[i]) % B /\ w[i] \in Word
  <2> TAKE i \in Idx
  <2> HAVE i < X.len
  <2>1. i \in 0 .. X.len - 1
    BY <1>2, Sizes
  <2> QED
    BY <1>4, <1>20, <2>1 DEF ProductRow
<1>7. w \in Words /\ \A i \in Idx : i > X.len => w[i] = 0
  <2>1. ASSUME NEW i \in Idx PROVE w[i] \in Word
    <3>1. CASE i < X.len
      BY <1>6, <3>1
    <3>2. CASE ~(i < X.len)
      <4>1. i >= X.len /\ Z0.w[i] = 0 /\ 0 \in Word
        BY <1>2, <1>3, <3>2, Sizes
      <4>2. w[i] = last \/ w[i] = 0
        BY <1>20, <3>2, <4>1
      <4> QED
        BY <1>5, <4>1, <4>2
    <3> QED
      BY <3>1, <3>2
  <2>2. ASSUME NEW i \in Idx, i > X.len PROVE w[i] = 0
    <3>1. ~(i < X.len) /\ i # X.len /\ i >= X.len
      BY <1>2, <2>2, Sizes
    <3> QED
      BY <1>3, <1>20, <3>1
  <2>3. w = [i \in Idx |-> w[i]]
    BY <1>20
  <2> QED
    BY <2>1, <2>2, <2>3 DEF Words
<1>9. Multiplied(X, sn, c, w)
  BY <1>6, <1>7 DEF Multiplied
<1>10. b = ProductNumber(X, c, w)
  BY DEF ProductNumber
<1>11. X.len \in Idx /\ w[X.len] = IF last > 0 /\ fits THEN last ELSE 0
  <2>1. ~(X.len < X.len) /\ Z0.w[X.len] = 0
    BY <1>2, <1>3
  <2> QED
    BY <1>2, <1>20, <2>1
<1>12. m.check => X.len <= nib
  BY DEF X
<1>13. sn \in Nat /\ sn * 0 = 0 /\ 0 * 0 = 0 /\ Mag(X) * 0 = 0
  BY <1>2, Sizes
<1> HIDE DEF b, f
<1>14. CASE sn = 0
  <2>1. Changed(m, M, z) /\ M.r[z] = Zero
    BY <1>14, <1>17, ZeroIs
  <2>2. Mag(X) * sn = 0 /\ ~(sn # 0 /\ X.neg)
    BY <1>13, <1>14
  <2>3. Good(M.r[z]) /\ M.r[z].neg = FALSE /\ Mag(M.r[z]) = 0 /\ M.r[z].len <= nib
    BY <2>1, ZeroGood, Sizes DEF Mag
  <2>4. Timed(m, M, z, Mag(X) * sn, FALSE)
    BY <2>1, <2>2, <2>3 DEF Timed, Changed
  <2>5. (sn # 0 /\ X.neg) = FALSE
    BY <2>2
  <2> QED
    BY <2>4, <2>5 DEF M, X
<1>15. CASE sn # 0 /\ last > 0 /\ ~fits
  <2>1. M = mr_berror(Put(m, z, f), ERR_OVERFLOW)
    BY <1>8, <1>15
  <2>2. f \in Big
    <3>1. f = [w |-> w, len |-> Z0.len, neg |-> Z0.neg]
      BY <1>3, BigIs DEF f
    <3> QED
      BY <1>3, <1>7, <3>1, BigIs
  <2>3. Changed(m, Put(m, z, f), z)
    BY <2>2, PutIs
  <2>4. Others(m, M, z) /\ M.ERNUM = ERR_OVERFLOW
    <3> DEFINE P == Put(m, z, f)
    <3>1. P \in Memories /\ P.check = m.check /\ \A y \in Names : y # z => P.r[y] = m.r[y]
      BY <2>3 DEF Changed, Others
    <3> HIDE DEF P
    <3>2. M = [P EXCEPT !.ERNUM = ERR_OVERFLOW]
      BY <2>1 DEF mr_berror, P
    <3>3. P = [r |-> P.r, ERNUM |-> P.ERNUM, check |-> P.check] /\ P.r \in [Names -> Big] /\ P.check \in BOOLEAN
      BY <3>1, MemoryIs
    <3>4. M = [r |-> P.r, ERNUM |-> ERR_OVERFLOW, check |-> P.check] /\ ERR_OVERFLOW \in Int
      BY <3>2, <3>3 DEF ERR_OVERFLOW
    <3>5. M \in Memories
      BY <3>3, <3>4, MemoryIs
    <3> QED
      BY <3>1, <3>4, <3>5 DEF Others
  <2>5. X.len = nib /\ m.check
    BY <1>2, <1>12, <1>15, Sizes
  <2>6. BTo[nib] <= Mag(X) * sn
    <3>1. Low(w, X.len) + last * BTo[X.len] = Mag(X) * sn
      <4>1. \A i \in 0 .. X.len - 1 : w[i] = (X.w[i] * sn + c[i]) % B
        BY <1>2, <1>6, Sizes
      <4> QED
        BY <1>1, <1>2, <1>4, <1>7, <4>1, ProductIs DEF X
    <3>2. last \in Nat \ {0} /\ BTo[nib] \in Nat /\ Low(w, X.len) \in Nat
      <4>1. last \in Nat \ {0}
        BY <1>5, <1>15, Sizes
      <4>2. nib \in Idx /\ X.len \in 0 .. Ext
        BY <1>2, Sizes
      <4> QED
        BY <1>7, <4>1, <4>2, BToIs, LowIs
    <3>3. \A f1 \in Nat, g \in Nat \ {0} : f1 <= g * f1 /\ g * f1 \in Nat
      OBVIOUS
    <3>4. BTo[nib] <= last * BTo[nib] /\ last * BTo[nib] \in Nat
      BY <3>2, <3>3
    <3> DEFINE p == last * BTo[nib]
               s == Mag(X) * sn
    <3>5. Low(w, X.len) + p = s /\ p \in Nat /\ BTo[nib] <= p
      BY <2>5, <3>1, <3>4
    <3> HIDE DEF p, s
    <3>6. BTo[nib] <= s
      BY <3>2, <3>5
    <3> QED
      BY <3>6 DEF s
  <2> QED
    BY <2>4, <2>5, <2>6 DEF Timed, M, X
<1>16. CASE sn # 0 /\ ~(last > 0 /\ ~fits)
  <2>1. M = Put(m, z, b)
    BY <1>8, <1>16
  <2>2. w[X.len] = c[X.len]
    <3>1. last \in Nat
      BY <1>5, Sizes
    <3> QED
      BY <1>11, <1>16, <3>1
  <2>3. Good(b) /\ b.neg = X.neg /\ Mag(b) = Mag(X) * sn
    <3>1. Operand(X)
      BY DEF X
    <3> QED
      BY <1>4, <1>9, <1>10, <1>16, <2>2, <3>1, ProductGood
  <2>4. b \in Big /\ Changed(m, M, z) /\ M.r[z] = b
    BY <2>1, <2>3, PutIs DEF Good
  <2>5. m.check => b.len <= nib
    <3>2. b.len = X.len + (IF last > 0 THEN 1 ELSE 0)
      BY DEF b
    <3>1. b.len = X.len \/ (b.len = X.len + 1 /\ fits)
      <4>1. CASE last > 0
        BY <1>16, <3>2, <4>1
      <4>2. CASE ~(last > 0)
        BY <1>2, <3>2, <4>2
      <4> QED
        BY <4>1, <4>2
    <3>3. X.len \in Nat /\ nib \in Nat /\ (m.check => X.len <= nib)
      BY <1>2, <1>12, Sizes
    <3>4. m.check /\ fits => X.len < nib
      OBVIOUS
    <3> DEFINE k == X.len
               h == b.len
    <3>5. k \in Nat /\ nib \in Nat /\ (m.check => k <= nib) /\ (h = k \/ (h = k + 1 /\ fits)) /\ (m.check /\ fits => k < nib)
      BY <3>1, <3>3, <3>4
    <3> HIDE DEF k, h, fits
    <3> QED
      BY <3>5 DEF h
  <2> QED
    BY <1>2, <1>16, <2>3, <2>4, <2>5 DEF Timed, Changed, M, X
<1> QED
  BY <1>14, <1>15, <1>16

\* A result whose sign is turned round, unless it is zero.
Turned(p, z, turn) == IF turn /\ p.r[z].len # 0 THEN SetSign(p, z, ~p.r[z].neg) ELSE p
LEMMA TurnedIs ==
  ASSUME NEW m \in Memories, NEW p, NEW z \in Names, NEW turn \in BOOLEAN, Others(m, p, z)
  PROVE  LET q == Turned(p, z, turn)
         IN  /\ Others(m, q, z) /\ q.ERNUM = p.ERNUM
             /\ Good(p.r[z]) => /\ Good(q.r[z]) /\ q.r[z].len = p.r[z].len
                                /\ Value(q.r[z]) = IF turn THEN -Value(p.r[z]) ELSE Value(p.r[z])
<1> DEFINE q == Turned(p, z, turn)
           b == p.r[z]
<1>1. p \in Memories /\ b \in Big /\ b.neg \in BOOLEAN /\ b.len \in Nat /\ b.w \in Words
  <2>1. p \in Memories /\ b \in Big
    BY MemoryIs DEF Others
  <2> QED
    BY <2>1, BigIs, Sizes
<1>2. CASE turn /\ b.len # 0
  <2> DEFINE s == ~b.neg
             c == q.r[z]
  <2>1. q = SetSign(p, z, s) /\ s \in BOOLEAN /\ (s <=> ~b.neg)
    BY <1>2 DEF Turned
  <2> HIDE DEF s, q
  <2>2. Changed(p, q, z) /\ c.w = b.w /\ c.len = b.len /\ c.neg = s
    BY <1>1, <2>1, SetSignIs
  <2>3. Others(m, q, z) /\ q.ERNUM = p.ERNUM
    BY <2>2 DEF Changed, Others
  <2>4. ASSUME Good(b) PROVE Good(c) /\ Value(c) = -Value(b)
    <3>1. c \in Big
      BY <2>2, MemoryIs DEF Changed, Others
    <3>2. SameWords(c, b) /\ c.neg \in BOOLEAN
      BY <1>1, <2>1, <2>2, <3>1 DEF SameWords
    <3>3. Mag(c) = Mag(b) /\ CleanTail(c)
      BY <2>4, <3>2, SameWordsIs DEF Good
    <3>4. Canonical(c)
      BY <1>1, <1>2, <2>2, <2>4 DEF Good, Canonical
    <3>5. Good(c)
      BY <3>1, <3>3, <3>4 DEF Good
    <3>6. /\ Mag(b) \in Nat /\ Value(b) = (IF b.neg THEN -Mag(b) ELSE Mag(b))
          /\ Value(c) = (IF c.neg THEN -Mag(c) ELSE Mag(c))
      BY <2>4, <3>5, SignedValue
    <3>7. Value(c) = -Value(b)
      <4>1. CASE b.neg
        <5>1. ~c.neg
          BY <2>1, <2>2, <4>1
        <5> QED
          BY <3>3, <3>6, <4>1, <5>1
      <4>2. CASE ~b.neg
        <5>1. c.neg
          BY <2>1, <2>2, <4>2
        <5> QED
          BY <3>3, <3>6, <4>2, <5>1
      <4> QED
        BY <4>1, <4>2
    <3> QED
      BY <3>5, <3>7
  <2> QED
    BY <1>2, <2>2, <2>3, <2>4 DEF q
<1>3. CASE ~(turn /\ b.len # 0)
  <2>1. q = p
    BY <1>3 DEF Turned
  <2>2. ASSUME Good(b) PROVE Value(b) = IF turn THEN -Value(b) ELSE Value(b)
    <3>1. CASE ~turn
      BY <3>1
    <3>2. CASE b.len = 0
      <4>1. Mag(b) = 0
        BY <1>1, <3>2, LowIs DEF Mag
      <4>2. Value(b) = 0
        BY <2>2, <4>1, SignedValue
      <4> DEFINE v == Value(b)
      <4>4. v \in Int /\ v <= 0 /\ v >= 0
        BY <2>2, <4>2, SignedValue
      <4> HIDE DEF v
      <4>3. -v = v
        BY <4>4
      <4> QED
        BY <4>3 DEF v
    <3>3. ~turn \/ b.len = 0
      BY <1>3
    <3> HIDE DEF b
    <3> QED
      BY <3>1, <3>2, <3>3
  <2> QED
    BY <2>1, <2>2
<1> QED
  BY <1>2, <1>3

LEMMA PremultIs ==
  ASSUME NEW m \in Memories, m.ERNUM = 0, NEW x \in Names, NEW z \in Names, NEW n \in -(B - 1) .. B - 1,
         Operand(m.r[x]), CleanTail(m.r[z]), m.check => m.r[x].len <= nib
  PROVE  Leaves(m, premult(m, x, n, z), z, Value(m.r[x]) * n)
<1> DEFINE X == m.r[x]
           a == Abs(n)
           p == mr_pmul(m, x, a, z)
           q == premult(m, x, n, z)
           t == Mag(X) * a
           turn == n < 0
<1>1. q = IF n = 0 THEN zero(m, z) ELSE IF n = 1 THEN copy(m, x, z) ELSE Turned(p, z, turn)
  BY DEF premult, Turned
<1>9. turn \in BOOLEAN /\ (turn <=> n < 0)
  OBVIOUS
<1> HIDE DEF turn
<1>2. n \in Int /\ a \in Word /\ a \in Nat /\ (n # 0 => a # 0) /\ n = IF n < 0 THEN -a ELSE a
  BY Sizes DEF Abs
<1>3. Good(X) /\ Mag(X) \in Nat /\ X.neg \in BOOLEAN /\ Value(X) = (IF X.neg THEN -Mag(X) ELSE Mag(X)) /\ X.len \in Nat
  <2>1. Good(X)
    BY DEF Operand
  <2>2. X.neg \in BOOLEAN /\ X.len \in Nat
    BY <2>1, BigIs, Sizes DEF Good
  <2> QED
    BY <2>1, <2>2, SignedValue
<1>4. Timed(m, p, z, t, a # 0 /\ X.neg)
  BY <1>2, PmulIs
<1>5. m.check => X.len <= nib
  OBVIOUS
<1>12. Good(X) /\ CleanTail(m.r[z])
  BY <1>3
<1> HIDE DEF p, q
<1>6. CASE n = 0
  <2>1. q = zero(m, z)
    BY <1>1, <1>6
  <2>2. Changed(m, q, z) /\ q.r[z] = Zero
    BY <2>1, ZeroIs
  <2>3. Value(X) * 0 = 0
    <3> HIDE DEF X
    <3> QED
      BY <1>3
  <2> QED
    BY <1>6, <2>2, <2>3, ZeroGood, Sizes DEF Leaves, Changed, q, X
<1>7. CASE n = 1
  <2>1. q = copy(m, x, z)
    BY <1>1, <1>7
  <2>2. Gets(m, q, z, Value(X), X.len)
    BY <1>3, <2>1, CopyGets
  <2>3. Value(X) * n = Value(X)
    <3> HIDE DEF X
    <3> QED
      BY <1>3, <1>7
  <2>4. Leaves(m, q, z, Value(X))
    BY <1>3, <1>5, <2>2, GetsLeaves
  <2> QED
    BY <2>3, <2>4 DEF q
<1>8. CASE n # 0 /\ n # 1
  <2>1. q = Turned(p, z, turn)
    BY <1>1, <1>8
  <2>2. Others(m, p, z)
    BY <1>4 DEF Timed
  <2>3. /\ Others(m, q, z) /\ q.ERNUM = p.ERNUM
        /\ Good(p.r[z]) => /\ Good(q.r[z]) /\ q.r[z].len = p.r[z].len
                           /\ Value(q.r[z]) = IF turn THEN -Value(p.r[z]) ELSE Value(p.r[z])
    BY <1>9, <2>1, <2>2, TurnedIs
  <2> DEFINE v == Value(X) * n
  <2>4. t \in Nat /\ v = IF turn THEN (IF X.neg THEN t ELSE -t) ELSE (IF X.neg THEN -t ELSE t)
    <3> DEFINE g == Mag(X)
    <3>1. \A h, k \in Nat : h * k \in Nat /\ (-h) * k = -(h * k) /\ h * (-k) = -(h * k) /\ (-h) * (-k) = h * k
      OBVIOUS
    <3>2. g \in Nat /\ v = (IF X.neg THEN -g ELSE g) * (IF n < 0 THEN -a ELSE a)
      BY <1>2, <1>3
    <3>3. g * a \in Nat /\ (-g) * a = -(g * a) /\ g * (-a) = -(g * a) /\ (-g) * (-a) = g * a
      BY <1>2, <3>1, <3>2
    <3>4. t = g * a
      OBVIOUS
    <3> HIDE DEF g, a, X, t, v
    <3> QED
      BY <1>2, <1>3, <1>9, <3>2, <3>3, <3>4
  <2> HIDE DEF v, t
  <2>5. CASE p.ERNUM = m.ERNUM /\ Good(p.r[z]) /\ p.r[z].neg = (a # 0 /\ X.neg) /\ Mag(p.r[z]) = t /\ (m.check => p.r[z].len <= nib)
    <3>1. Value(p.r[z]) = IF X.neg THEN -t ELSE t
      <4>1. p.r[z].neg = X.neg
        BY <1>2, <1>3, <1>8, <2>5
      <4> QED
        BY <2>5, <4>1, SignedValue
    <3>2. Value(q.r[z]) = v
      BY <2>3, <2>4, <2>5, <3>1
    <3> QED
      BY <2>3, <2>5, <3>2 DEF Leaves, q, v
  <2>6. CASE p.ERNUM = ERR_OVERFLOW /\ m.check /\ t >= BTo[nib]
    <3>1. BTo[nib] \in Nat
      BY BToIs, Sizes
    <3>2. v >= BTo[nib] \/ v <= -BTo[nib]
      BY <2>4, <2>6, <3>1
    <3> QED
      BY <2>3, <2>6, <3>2 DEF Leaves, q, v
  <2> QED
    BY <1>4, <2>5, <2>6 DEF Timed
<1> QED
  BY <1>6, <1>7, <1>8

LEMMA PremultCall ==
  ASSUME Inv, NEW x \in Reg, NEW n \in -(B - 1) .. B - 1, NEW z \in Reg
  PROVE  LET c == [op |-> "premult", a |-> <<x, n, z>>] IN Exactly(c) /\ KeptForm(c)
<1> DEFINE c == [op |-> "premult", a |-> <<x, n, z>>]
           v == val[x] * n
<1>1. /\ Integer!Assigned(c, val) = << <<z, v>> >>
      /\ ~Integer!Undefined(c, val) /\ Integer!Answer(c, val) = 0
  BY DEF Integer!Assigned, Integer!Undefined, Integer!Answer
<1>2. v \in Int
  <2>1. val[x] \in Int /\ n \in Int
    BY NumbersFit, Sizes DEF Inv
  <2> QED
    BY <2>1
<1>3. ASSUME NEW m, Ready(m) PROVE Run(c, m).ret = 0 /\ Result(m, Run(c, m).m, z, v)
  <2>1. Run(c, m).m = premult(m, x, n, z) /\ Run(c, m).ret = 0
    BY DEF Run, Premult, Done, Ran
  <2>2. /\ m \in Memories /\ m.ERNUM = 0 /\ x \in Names /\ z \in Names /\ CleanTail(m.r[z])
        /\ Operand(m.r[x]) /\ Value(m.r[x]) = val[x] /\ m.r[x].len <= nib
    BY <1>3, ReadyOperand DEF Ready, Good
  <2>3. Leaves(m, premult(m, x, n, z), z, Value(m.r[x]) * n)
    BY <2>2, PremultIs
  <2> QED
    BY <1>3, <2>1, <2>2, <2>3, LeavesResult
<1> HIDE DEF v
<1> QED
  BY <1>1, <1>2, <1>3, AssignsOne

-----------------------------------------------------------------------------
(* A number by one word.                                                      *)

\* Words q and what is left below them when X is divided by sn, from the top down:
\* e[i] is what the words from i on leave.
Divided(X, sn, q, e) ==
  /\ q \in Words /\ \A i \in Idx : i >= X.len => q[i] = 0
  /\ e[X.len] = 0 /\ \A i \in 0 .. X.len : e[i] \in 0 .. sn - 1
  /\ \A i \in 0 .. X.len - 1 : X.w[i] + B * e[i+1] = q[i] * sn + e[i]
DivideOf(x, s, q, e) == q \in Nat /\ e \in 0 .. s - 1 /\ q = x \div s /\ e = x % s /\ x = s * q + e
LEMMA DividedIs ==
  ASSUME NEW X \in Big, X.len \in Idx, NEW sn \in Nat \ {0}, NEW q, NEW e, Divided(X, sn, q, e)
  PROVE  DivideOf(Mag(X), sn, Low(q, X.len), e[0])
<1> DEFINE n == X.len
           l == Low(q, n)
           d == e[0]
           M == Mag(X)
<1>1. n \in Nat /\ n \in Idx /\ X.w \in Words /\ q \in Words /\ 0 \in 0 .. n /\ n \in 0 .. n /\ sn \in Nat
  BY BigIs, Sizes DEF Divided
<1>2. \A i \in 0 .. n : e[i] \in Nat
  BY DEF Divided
<1>3. WordsTimes(q, sn, X.w, e, n)
  BY <1>2 DEF WordsTimes, Divided
<1>4. Low(X.w, n) + e[n] * BTo[n] = Low(q, n) * sn + e[0]
  <2> HIDE DEF n
  <2> QED
    BY <1>1, <1>3, TimesIs
<1>5. l \in Nat /\ M \in Nat /\ BTo[n] \in Nat /\ d \in 0 .. sn - 1 /\ e[n] = 0
  <2>1. l \in Nat /\ M \in Nat /\ BTo[n] \in Nat
    BY <1>1, At DEF Mag
  <2> QED
    BY <1>1, <2>1 DEF Divided
<1>6. M = sn * l + d
  <2>1. M + 0 * BTo[n] = l * sn + d
    BY <1>4, <1>5 DEF Mag
  <2> HIDE DEF M, l, d
  <2>2. 0 * BTo[n] = 0 /\ l * sn = sn * l /\ sn * l \in Nat
    BY <1>1, <1>5
  <2> QED
    BY <1>5, <2>1, <2>2
<1> HIDE DEF M, l, d
<1>7. M \div sn = l /\ M % sn = d
  <2>1. (sn * l + d) \div sn = l /\ (sn * l + d) % sn = d
    BY <1>5, Division
  <2> QED
    BY <1>6, <2>1
<1> QED
  BY <1>5, <1>6, <1>7 DEF DivideOf, M, l, d

\* A quotient with the sign of x, its leading zeros stripped.
QuotientBig(X, q) == [w |-> q, len |-> X.len, neg |-> X.neg]
LEMMA QuotientGood ==
  ASSUME NEW X, Operand(X), NEW sn \in Nat \ {0}, NEW q, NEW e, Divided(X, sn, q, e), NEW b, b = mr_lzero(QuotientBig(X, q))
  PROVE  /\ Good(b) /\ b.len <= X.len
         /\ Value(b) = IF X.neg THEN -(Mag(X) \div sn) ELSE Mag(X) \div sn
<1> DEFINE c == QuotientBig(X, q)
<1>1. X \in Big /\ X.len \in Idx /\ X.len \in 0 .. Ext /\ X.neg \in BOOLEAN /\ q \in Words
  <2>1. X \in Big /\ X.len <= 2 * nib
    BY DEF Operand, Good
  <2> QED
    BY <2>1, BigIs, Sizes DEF Divided
<1>2. c.w = q /\ c.len = X.len /\ c.neg = X.neg /\ c = [w |-> c.w, len |-> c.len, neg |-> c.neg]
  BY DEF QuotientBig
<1> HIDE DEF c
<1>3. c \in Big
  BY <1>1, <1>2, BigIs
<1>4. CleanTail(c)
  BY <1>2 DEF CleanTail, Divided
<1>5. Good(b) /\ Value(b) = Value(c) /\ b.len <= c.len
  BY <1>3, <1>4, LzeroIs DEF c
<1>6. DivideOf(Mag(X), sn, Low(q, X.len), e[0])
  BY <1>1, DividedIs
<1>7. Low(q, X.len) = Mag(X) \div sn
  BY <1>6 DEF DivideOf
<1> QED
  BY <1>2, <1>5, <1>7 DEF Value

\* One step of the division leaves a word and a remainder.
LEMMA DigitIs ==
  ASSUME NEW sn \in Word, sn # 0, NEW e \in 0 .. sn - 1, NEW x \in Word
  PROVE  LET v == e * B + x
         IN  v \div sn \in Word /\ v % sn \in 0 .. sn - 1 /\ x + B * e = (v \div sn) * sn + (v % sn)
<1> DEFINE p == B * e
           v == e * B + x
           q == v \div sn
           r == v % sn
<1>1. B \in Nat \ {0} /\ Word = 0 .. B - 1 /\ sn \in Nat \ {0} /\ e \in Nat /\ e + 1 <= sn /\ x \in Nat /\ x < B
  BY Sizes
<1>2. p \in Nat /\ v = p + x /\ p + B = B * (e + 1)
  BY <1>1
<1>3. v \in Nat
  <2> HIDE DEF p, v
  <2> QED
    BY <1>1, <1>2
<1>4. q \in Nat /\ r \in 0 .. sn - 1 /\ v = sn * q + r
  <2> HIDE DEF v
  <2> QED
    BY <1>1, <1>3
<1>5. B * (e + 1) <= sn * B /\ sn * B \in Nat
  <2>1. PICK d \in Nat : sn = (e + 1) + d
    <3>1. sn - (e + 1) \in Nat /\ sn = (e + 1) + (sn - (e + 1))
      BY <1>1
    <3> QED
      BY <3>1
  <2>2. \A f, g, h \in Nat : (f + g) * h = h * f + g * h /\ g * h \in Nat /\ h * f \in Nat
    OBVIOUS
  <2>3. ((e + 1) + d) * B = B * (e + 1) + d * B /\ d * B \in Nat /\ B * (e + 1) \in Nat
    <3>1. e + 1 \in Nat /\ B \in Nat
      BY <1>1
    <3> QED
      BY <2>2, <3>1
  <2> QED
    BY <2>1, <2>3
<1> HIDE DEF q, r
<1>6. q < B
  <2> SUFFICES ASSUME q >= B PROVE FALSE
    BY <1>1, <1>4
  <2>1. PICK d \in Nat : q = B + d
    <3>1. q - B \in Nat /\ q = B + (q - B)
      BY <1>1, <1>4
    <3> QED
      BY <3>1
  <2>2. \A f, g, h \in Nat : f * (g + h) = f * g + f * h /\ f * h \in Nat
    OBVIOUS
  <2>3. sn * q = sn * B + sn * d /\ sn * d \in Nat
    BY <1>1, <2>1, <2>2
  <2> DEFINE a == sn * q
             b == sn * B
             c == sn * d
             k == B * (e + 1)
  <2>4. a = b + c /\ c \in Nat /\ b \in Nat /\ k <= b /\ v = a + r /\ r \in Nat /\ v = p + x /\ p + B = k
    BY <1>1, <1>2, <1>4, <1>5, <2>3
  <2> HIDE DEF a, b, c, k, p, v
  <2> QED
    BY <1>1, <1>2, <2>4
<1>7. x + B * e = q * sn + r
  <2> DEFINE a == sn * q
  <2>1. a = q * sn /\ a \in Nat
    <3>1. \A f, g \in Nat : f * g = g * f /\ f * g \in Nat
      OBVIOUS
    <3> QED
      BY <1>1, <1>4, <3>1
  <2>2. v = a + r /\ r \in Nat
    BY <1>4
  <2> HIDE DEF a, p, v
  <2>3. x + p = a + r
    BY <1>1, <1>2, <2>1, <2>2
  <2> QED
    BY <2>1, <2>3 DEF p
<1> QED
  BY <1>1, <1>4, <1>6, <1>7 DEF q, r

\* The remainders and the quotient words of the loop.
LEMMA RemaindersAre ==
  ASSUME NEW X \in Big, X.len \in Idx, NEW sn \in Word, sn # 0
  PROVE  LET r == Remainders(X, sn)
         IN  /\ r[0] = 0 /\ \A i \in 0 .. X.len : r[i] \in 0 .. sn - 1
             /\ \A i \in 0 .. X.len - 1 : r[i+1] = (r[i] * B + X.w[X.len - 1 - i]) % sn
<1> DEFINE n == X.len
           S == 0 .. sn - 1
           st == [i \in Idx |-> [v \in Word |-> (v * B + X.w[n - 1 - i]) % sn]]
           r == Carried(n, 0, st)
<1>1. n \in Nat /\ n \in Idx /\ 0 \in S /\ X.w \in Words
      /\ \A i \in 0 .. n - 1 : i \in Idx /\ n - 1 - i \in Idx /\ i \in 0 .. n
  BY BigIs, Sizes
<1>6. S \subseteq Word
  BY Sizes
<1>2. ASSUME NEW i \in 0 .. n - 1, NEW v \in S
      PROVE  st[i][v] \in S /\ st[i][v] = (v * B + X.w[n - 1 - i]) % sn
  <2>1. X.w[n - 1 - i] \in Word
    BY <1>1 DEF Words
  <2>2. (v * B + X.w[n - 1 - i]) % sn \in S
    BY <2>1, DigitIs
  <2>3. st[i][v] = (v * B + X.w[n - 1 - i]) % sn
    BY <1>1, <1>6
  <2> QED
    BY SMTT(30), <2>2, <2>3
<1>5. Remainders(X, sn) = r
  BY DEF Remainders, st
<1> HIDE DEF st
<1>3. Inside(n, S, st)
  BY <1>2 DEF Inside
<1>4. r \in [0 .. n -> S] /\ CarriesOn(r, n, 0, st)
  <2> HIDE DEF n, S
  <2> QED
    BY <1>1, <1>3, CarriedIs
<1> HIDE DEF r
<1>7. ASSUME NEW i \in 0 .. n - 1 PROVE r[i+1] = (r[i] * B + X.w[n - 1 - i]) % sn
  <2>1. r[i+1] = st[i][r[i]] /\ r[i] \in S
    BY <1>1, <1>4 DEF CarriesOn
  <2> QED
    BY <1>2, <2>1
<1>8. r[0] = 0 /\ \A i \in 0 .. n : r[i] \in S
  BY <1>4 DEF CarriesOn
<1> QED
  BY <1>5, <1>7, <1>8

LEMMA SdivIs ==
  ASSUME NEW m \in Memories, NEW x \in Names, NEW z \in Names, NEW sn \in Word, sn # 0,
         Operand(m.r[x]), CleanTail(m.r[z])
  PROVE  LET X == m.r[x]
             d == mr_sdiv(m, x, sn, z)
         IN  /\ Gets(m, d, z, IF X.neg THEN -(Mag(X) \div sn) ELSE Mag(X) \div sn, X.len)
             /\ sdiv_rem(X, sn) = Mag(X) % sn
<1> DEFINE X == m.r[x]
           Z0 == IF x # z THEN ZeroBig(m.r[z]) ELSE X
           q == QuotientOver(X, sn, Z0.w)
           n == X.len
           r == Remainders(X, sn)
           e == [i \in 0 .. n |-> r[n - i]]
           b == mr_lzero(QuotientBig(X, q))
           d == mr_sdiv(m, x, sn, z)
<1>1. d = Put(m, z, b)
  BY DEF mr_sdiv, QuotientBig
<1>2. X \in Big /\ m.r[z] \in Big
  BY MemoryIs
<1>3. /\ n \in Nat /\ n \in Idx /\ X.w \in Words /\ sn \in Nat \ {0} /\ 0 \in Word
      /\ \A i \in 0 .. n : n - i \in 0 .. n
      /\ \A i \in 0 .. n - 1 : i \in Idx /\ i \in 0 .. n /\ i + 1 \in 0 .. n /\ n - 1 - i \in 0 .. n - 1
                               /\ (n - 1 - i) + 1 = n - i /\ n - (i + 1) = n - 1 - i /\ n - 1 - (n - 1 - i) = i
  <2>1. n \in 0 .. Ext /\ n <= 2 * nib /\ X.w \in Words
    BY <1>2, BigIs DEF Operand
  <2>2. n \in Nat /\ n \in Idx /\ sn \in Nat \ {0} /\ 0 \in Word
    BY <2>1, Sizes
  <2>3. \A i \in 0 .. n - 1 : i \in Idx
    BY <2>2, Sizes
  <2> HIDE DEF n
  <2> QED
    BY <2>1, <2>2, <2>3
<1>4. Z0 \in Big /\ \A i \in Idx : i >= n => Z0.w[i] = 0
  <2>1. CASE x # z
    <3>1. Z0 = Zero
      BY <1>2, <2>1, ZeroBigIs
    <3> QED
      BY <3>1, ZeroGood DEF Good, Zero
  <2>2. CASE x = z
    BY <1>2, <2>2 DEF Operand, Good, CleanTail
  <2> QED
    BY <2>1, <2>2
<1>5. /\ r[0] = 0 /\ \A i \in 0 .. n : r[i] \in 0 .. sn - 1
      /\ \A i \in 0 .. n - 1 : r[i+1] = (r[i] * B + X.w[n - 1 - i]) % sn
  BY <1>2, <1>3, RemaindersAre
<1>6. q = [i \in Idx |-> IF i < n THEN (r[n - 1 - i] * B + X.w[i]) \div sn ELSE Z0.w[i]]
  BY DEF QuotientOver
<1>7. sdiv_rem(X, sn) = r[n]
  BY DEF sdiv_rem
<1>13. Operand(X)
  OBVIOUS
<1> HIDE DEF X, Z0, q, r, b, d
<1>8. ASSUME NEW i \in 0 .. n - 1
      PROVE  /\ e[i+1] = r[n - 1 - i] /\ e[i] = (r[n - 1 - i] * B + X.w[i]) % sn
             /\ q[i] = (r[n - 1 - i] * B + X.w[i]) \div sn /\ q[i] \in Word
             /\ X.w[i] + B * e[i+1] = q[i] * sn + e[i]
  <2> DEFINE f == r[n - 1 - i]
             y == X.w[i]
  <2>1. e[i+1] = f /\ e[i] = r[n - i]
    <3>1. i \in 0 .. n /\ i + 1 \in 0 .. n /\ n - (i + 1) = n - 1 - i
      BY <1>3
    <3>2. e[i+1] = r[n - (i + 1)] /\ e[i] = r[n - i]
      BY <3>1
    <3> QED
      BY <3>1, <3>2
  <2>2. r[n - i] = (f * B + y) % sn
    BY <1>3, <1>5
  <2>3. i \in Idx /\ i < n
    BY <1>3
  <2>4. q[i] = (f * B + y) \div sn
    BY <1>6, <2>3
  <2>5. f \in 0 .. sn - 1 /\ y \in Word
    BY <1>3, <1>5, <2>3 DEF Words
  <2> HIDE DEF f, y, e
  <2>6. (f * B + y) \div sn \in Word /\ y + B * f = ((f * B + y) \div sn) * sn + ((f * B + y) % sn)
    BY <2>5, DigitIs
  <2> QED
    BY <2>1, <2>2, <2>4, <2>6 DEF f, y
<1>9. Divided(X, sn, q, e)
  <2>1. \A i \in Idx : i >= n => q[i] = 0
    <3> TAKE i \in Idx
    <3> HAVE i >= n
    <3>1. ~(i < n)
      BY <1>3, Sizes
    <3> QED
      BY <1>4, <1>6, <3>1
  <2>2. q \in Words
    <3>1. \A i \in Idx : q[i] \in Word
      <4> TAKE i \in Idx
      <4>1. CASE i < n
        <5>1. i \in 0 .. n - 1
          BY <4>1, <1>3, Sizes
        <5> QED
          BY <1>8, <5>1
      <4>2. CASE ~(i < n)
        <5>1. i >= n
          BY <1>3, <4>2, Sizes
        <5> QED
          BY <1>3, <2>1, <5>1
      <4> QED
        BY <4>1, <4>2
    <3>2. q = [i \in Idx |-> q[i]]
      BY <1>6
    <3> QED
      BY <3>1, <3>2 DEF Words
  <2>3. e[n] = 0 /\ \A i \in 0 .. n : e[i] \in 0 .. sn - 1
    <3>1. n \in 0 .. n /\ n - n = 0
      BY <1>3
    <3> QED
      BY <1>3, <1>5, <3>1
  <2>4. \A i \in 0 .. n - 1 : X.w[i] + B * e[i+1] = q[i] * sn + e[i]
    BY <1>8
  <2> HIDE DEF e
  <2> QED
    BY <2>1, <2>2, <2>3, <2>4 DEF Divided
<1>10. /\ Good(b) /\ b.len <= X.len
       /\ Value(b) = IF X.neg THEN -(Mag(X) \div sn) ELSE Mag(X) \div sn
  BY <1>3, <1>9, <1>13, QuotientGood DEF b
<1>11. sdiv_rem(X, sn) = Mag(X) % sn
  <2>1. DivideOf(Mag(X), sn, Low(q, X.len), e[0])
    <3> HIDE DEF e
    <3> QED
      BY <1>2, <1>3, <1>9, DividedIs
  <2>2. e[0] = r[n]
    <3>1. 0 \in 0 .. n /\ n - 0 = n
      BY <1>3
    <3> QED
      BY <3>1
  <2> HIDE DEF e
  <2> QED
    BY <1>7, <2>1, <2>2 DEF DivideOf
<1>12. Changed(m, d, z) /\ d.r[z] = b
  BY <1>1, <1>10, PutIs DEF Good
<1> QED
  BY <1>10, <1>11, <1>12 DEF Gets, X, d

\* Halving moves in the low bit of the next word.
LEMMA HalveIs ==
  ASSUME NEW X, Operand(X), X.len # 0, 2 \in Word
  PROVE  /\ Good(Halve(X)) /\ Halve(X).len <= X.len
         /\ Value(Halve(X)) = IF X.neg THEN -(Mag(X) \div 2) ELSE Mag(X) \div 2
         /\ X.w[0] % 2 = Mag(X) % 2
<1> DEFINE n == X.len
           top == TwoTo[W-1]
           q == [i \in Idx |-> IF i >= n THEN X.w[i]
                               ELSE (X.w[i] \div 2) + (IF i = n - 1 THEN 0 ELSE (X.w[i+1] % 2) * top)]
           e == [i \in 0 .. n |-> IF i = n THEN 0 ELSE X.w[i] % 2]
           h == [X EXCEPT !.w = q]
<1>1. Halve(X) = IF h.w[n - 1] = 0 THEN mr_lzero(h) ELSE h
  BY DEF Halve
<1>2. X \in Big /\ n \in Nat /\ n \in Idx /\ n > 0 /\ X.w \in Words /\ X.neg \in BOOLEAN /\ CleanTail(X)
      /\ \A i \in 0 .. n - 1 : i \in Idx /\ i \in 0 .. n /\ i + 1 \in 0 .. n /\ i + 1 \in Idx /\ ~(i >= n)
  <2>1. X \in Big /\ n \in 0 .. Ext /\ n <= 2 * nib /\ X.w \in Words /\ X.neg \in BOOLEAN /\ CleanTail(X)
    BY BigIs DEF Operand, Good
  <2>2. n \in Nat /\ n \in Idx /\ n > 0
    BY <2>1, Sizes
  <2>3. Idx = 0 .. Ext - 1 /\ Ext \in Nat
    BY Sizes
  <2> HIDE DEF n
  <2> QED
    BY <2>1, <2>2, <2>3
<1>3. top \in Nat \ {0} /\ B = 2 * top
  <2>1. W \in 0 .. W /\ W - 1 \in 0 .. W /\ W # 0
    BY Sizes
  <2> QED
    BY <2>1, TwoToIs DEF TwoToRow, B
<1> HIDE DEF top
<1>4. ASSUME NEW i \in 0 .. n - 1 PROVE q[i] \in Word /\ X.w[i] + B * e[i+1] = q[i] * 2 + e[i]
  <2> DEFINE x == X.w[i]
             f == e[i+1]
  <2>1. i \in Idx /\ ~(i >= n) /\ i \in 0 .. n /\ i # n /\ i + 1 \in 0 .. n
    BY <1>2
  <2>2. x \in Nat /\ x < 2 * top
    BY <1>2, <1>3, <2>1, At
  <2>3. f \in 0 .. 1 /\ q[i] = (x \div 2) + f * top
    <3>1. CASE i = n - 1
      <4>1. i + 1 = n
        BY <1>2, <3>1
      <4>2. f = 0 /\ q[i] = (x \div 2) + 0 /\ 0 * top = 0
        BY <1>3, <2>1, <3>1, <4>1
      <4> QED
        BY <4>2
    <3>2. CASE i # n - 1
      <4>1. i + 1 # n /\ i + 1 \in Idx
        BY <1>2, <3>2
      <4>2. f = X.w[i+1] % 2 /\ q[i] = (x \div 2) + (X.w[i+1] % 2) * top
        BY <2>1, <3>2, <4>1
      <4>3. X.w[i+1] \in Nat
        BY <1>2, <4>1, At
      <4> QED
        BY <4>2, <4>3
    <3> QED
      BY <3>1, <3>2
  <2>4. e[i] = x % 2
    BY <2>1
  <2> DEFINE qi == q[i]
             ei == e[i]
  <2> HIDE DEF q, e, x, f
  <2>5. CASE f = 0
    <3>1. qi = x \div 2 /\ ei = x % 2
      <4>1. 0 * top = 0 /\ (x \div 2) + 0 = x \div 2
        BY <1>3, <2>2
      <4> QED
        BY <2>3, <2>4, <2>5, <4>1
    <3>2. B * f = 0
      BY <1>3, <2>5
    <3> HIDE DEF qi, ei
    <3>3. qi \in 0 .. 2 * top - 1 /\ x + 0 = qi * 2 + ei
      BY <1>3, <2>2, <3>1
    <3> QED
      BY <1>3, <3>2, <3>3, Sizes DEF qi, ei, x, f
  <2>6. CASE f = 1
    <3>1. qi = (x \div 2) + top /\ ei = x % 2
      <4>1. 1 * top = top
        BY <1>3
      <4> QED
        BY <2>3, <2>4, <2>6, <4>1
    <3>2. B * f = 2 * top
      BY <1>3, <2>6
    <3> HIDE DEF qi, ei
    <3>3. qi \in 0 .. 2 * top - 1 /\ x + 2 * top = qi * 2 + ei
      BY <1>3, <2>2, <3>1
    <3> QED
      BY <1>3, <3>2, <3>3, Sizes DEF qi, ei, x, f
  <2> QED
    BY <2>3, <2>5, <2>6
<1>5. \A i \in Idx : i >= n => q[i] = 0
  BY <1>2 DEF CleanTail
<1>6. \A i \in 0 .. n : e[i] \in 0 .. 1
  <2> TAKE i \in 0 .. n
  <2>1. CASE i = n
    BY <2>1
  <2>2. CASE i # n
    <3>1. i \in Idx /\ X.w[i] \in Nat
      BY <1>2, <2>2, At
    <3>2. e[i] = X.w[i] % 2
      BY <2>2
    <3> QED
      BY <3>1, <3>2
  <2> QED
    BY <2>1, <2>2
<1>7. q \in Words
  <2>1. \A i \in Idx : q[i] \in Word
    <3> TAKE i \in Idx
    <3>1. CASE i < n
      <4>1. i \in 0 .. n - 1
        BY <1>2, <3>1, Sizes
      <4> QED
        BY <1>4, <4>1
    <3>2. CASE ~(i < n)
      <4>1. i >= n /\ 0 \in Word
        BY <1>2, <3>2, Sizes
      <4> QED
        BY <1>5, <4>1
    <3> QED
      BY <3>1, <3>2
  <2>2. q = [i \in Idx |-> q[i]]
    OBVIOUS
  <2> HIDE DEF q
  <2> QED
    BY <2>1, <2>2 DEF Words
<1>8. e[n] = 0 /\ e[0] = X.w[0] % 2
  BY <1>2
<1>9. \A i \in 0 .. n - 1 : X.w[i] + B * e[i+1] = q[i] * 2 + e[i]
  BY <1>4
<1>10. h = QuotientBig(X, q)
  <2>1. X = [w |-> X.w, len |-> X.len, neg |-> X.neg]
    BY <1>2, BigIs
  <2> HIDE DEF q
  <2> QED
    BY <2>1 DEF QuotientBig
<1> HIDE DEF q, e, h
<1>11. Divided(X, 2, q, e)
  <2>1. 2 - 1 = 1
    OBVIOUS
  <2> QED
    BY <1>5, <1>6, <1>7, <1>8, <1>9, <2>1 DEF Divided
<1>12. Good(mr_lzero(h)) /\ mr_lzero(h).len <= X.len
       /\ Value(mr_lzero(h)) = IF X.neg THEN -(Mag(X) \div 2) ELSE Mag(X) \div 2
  BY <1>10, <1>11, QuotientGood
<1>13. Halve(X) = mr_lzero(h)
  <2>1. CASE h.w[n-1] = 0
    BY <1>1, <2>1
  <2>2. CASE h.w[n-1] # 0
    <3> DEFINE k == Significant(h.w, h.len)
    <3>1. h.w = q /\ h.len = n /\ h.neg = X.neg /\ h = [w |-> h.w, len |-> h.len, neg |-> h.neg]
      BY <1>10 DEF QuotientBig
    <3>2. k \in 0 .. n /\ \A i \in k .. n - 1 : h.w[i] = 0
      <4>1. n \in 0 .. Ext
        BY <1>2, Sizes
      <4> QED
        BY <1>7, <3>1, <4>1, SignificantIs
    <3>3. k = n
      <4> SUFFICES ASSUME k # n PROVE FALSE
        OBVIOUS
      <4> HIDE DEF k
      <4>1. n - 1 \in k .. n - 1
        BY <1>2, <3>2
      <4> QED
        BY <2>2, <3>2, <4>1
    <3>4. mr_lzero(h) = [h EXCEPT !.len = k, !.neg = h.neg /\ k > 0]
      BY DEF mr_lzero
    <3> HIDE DEF k
    <3>5. (h.neg /\ k > 0) = h.neg
      BY <1>2, <3>1, <3>3
    <3> QED
      BY <1>1, <2>2, <3>1, <3>3, <3>4, <3>5
  <2> QED
    BY <2>1, <2>2
<1>14. DivideOf(Mag(X), 2, Low(q, X.len), e[0])
  BY <1>2, <1>11, DividedIs
<1> QED
  BY <1>8, <1>12, <1>13, <1>14 DEF DivideOf

\* Quotient and remainder of integers are those of the magnitudes, with signs.
Signs(v, n, neg, turn, q, r) ==
  /\ Integer!Quot(v, n) = IF turn THEN (IF neg THEN q ELSE -q) ELSE IF neg THEN -q ELSE q
  /\ Integer!Rem(v, n) = IF neg THEN -r ELSE r
LEMMA TruncatedIs ==
  ASSUME NEW M \in Nat, NEW a \in Nat \ {0}, NEW neg \in BOOLEAN, neg => M # 0, NEW turn \in BOOLEAN
  PROVE  Signs(IF neg THEN -M ELSE M, IF turn THEN -a ELSE a, neg, turn, M \div a, M % a)
<1> DEFINE v == IF neg THEN -M ELSE M
           n == IF turn THEN -a ELSE a
           q == M \div a
           r == M % a
           t == Integer!Quot(v, n)
           d == a * q
<1>1. q \in Nat /\ r \in Nat /\ M = a * q + r
  OBVIOUS
<1>2. Integer!Mag(v) = M /\ Integer!Mag(n) = a /\ v \in Int /\ n \in Int
  <2>1. CASE neg
    <3>1. v = -M /\ v \in Int /\ v < 0
      BY <2>1
    <3> HIDE DEF v
    <3> QED
      BY <3>1 DEF Integer!Mag
  <2>2. CASE ~neg
    <3>1. v = M
      BY <2>2
    <3> HIDE DEF v
    <3> QED
      BY <3>1 DEF Integer!Mag
  <2> QED
    BY <2>1, <2>2
<1>3. (v < 0 <=> neg) /\ (n < 0 <=> turn)
  OBVIOUS
<1>4. t = IF (v < 0) = (n < 0) THEN q ELSE -q
  BY <1>2 DEF Integer!Quot
<1>5. Integer!Rem(v, n) = v - n * t
  BY DEF Integer!Rem
<1>6. d \in Nat /\ M = d + r
  <2>1. \A f, g \in Nat : f * g \in Nat
    OBVIOUS
  <2> QED
    BY <1>1, <2>1
<1>7. a * q = d /\ (-a) * q = -d /\ a * (-q) = -d /\ (-a) * (-q) = d
  <2>1. \A f, g \in Nat : (-f) * g = -(f * g) /\ f * (-g) = -(f * g) /\ (-f) * (-g) = f * g
    OBVIOUS
  <2> HIDE DEF q
  <2> QED
    BY <1>1, <2>1
<1> HIDE DEF q, r, t
<1>8. CASE neg /\ turn
  <2>1. v = -M /\ n = -a /\ t = q
    BY <1>3, <1>4, <1>8
  <2>2. v - n * t = -r
    <3>1. n * t = -d
      BY <1>7, <2>1
    <3> HIDE DEF d, v, n
    <3> QED
      BY <1>1, <1>6, <2>1, <3>1
  <2> QED
    BY <1>5, <1>8, <2>1, <2>2 DEF Signs, q, r, t
<1>9. CASE neg /\ ~turn
  <2>1. v = -M /\ n = a /\ t = -q
    BY <1>3, <1>4, <1>9
  <2>2. v - n * t = -r
    <3>1. n * t = -d
      BY <1>7, <2>1
    <3> HIDE DEF d, v, n
    <3> QED
      BY <1>1, <1>6, <2>1, <3>1
  <2> QED
    BY <1>5, <1>9, <2>1, <2>2 DEF Signs, q, r, t
<1>10. CASE ~neg /\ turn
  <2>1. v = M /\ n = -a /\ t = -q
    BY <1>3, <1>4, <1>10
  <2>2. v - n * t = r
    <3>1. n * t = d
      BY <1>7, <2>1
    <3> HIDE DEF d, v, n
    <3> QED
      BY <1>1, <1>6, <2>1, <3>1
  <2> QED
    BY <1>5, <1>10, <2>1, <2>2 DEF Signs, q, r, t
<1>11. CASE ~neg /\ ~turn
  <2>1. v = M /\ n = a /\ t = q
    BY <1>3, <1>4, <1>11
  <2>2. v - n * t = r
    <3>1. n * t = d
      BY <1>7, <2>1
    <3> HIDE DEF d, v, n
    <3> QED
      BY <1>1, <1>6, <2>1, <3>1
  <2> QED
    BY <1>5, <1>11, <2>1, <2>2 DEF Signs, q, r, t
<1> QED
  BY <1>8, <1>9, <1>10, <1>11

\* A division by a word that is not zero leaves the quotient in z and answers the
\* remainder.
LEMMA SubdivIs ==
  ASSUME NEW m \in Memories, m.ERNUM = 0, NEW x \in Names, NEW z \in Names, NEW n \in -(B - 1) .. B - 1, n # 0,
         Operand(m.r[x]), CleanTail(m.r[z]), m.check => m.r[x].len <= nib
  PROVE  /\ Leaves(m, subdiv(m, x, n, z), z, Integer!Quot(Value(m.r[x]), n))
         /\ subdiv(m, x, n, z).ERNUM = 0
         /\ subdiv_rem(m, x, n) = Integer!Rem(Value(m.r[x]), n)
<1> DEFINE X == m.r[x]
           a == Abs(n)
           M == Mag(X)
           turn == n < 0
           p == mr_sdiv(m, x, a, z)
           d == subdiv(m, x, n, z)
           cp == copy(m, x, z)
           r == subdiv_rem(m, x, n)
           qt == M \div a
           V == Integer!Quot(Value(X), n)
<1>1. d = IF X.len = 0 THEN zero(m, z) ELSE IF n = 1 THEN cp
          ELSE IF n = 2 THEN Put(cp, z, Halve(cp.r[z])) ELSE Turned(p, z, turn)
  BY DEF subdiv, Turned
<1>2. r = IF X.len = 0 \/ n = 1 THEN 0
          ELSE IF X.neg THEN -(IF n = 2 THEN X.w[0] % 2 ELSE sdiv_rem(X, a))
          ELSE IF n = 2 THEN X.w[0] % 2 ELSE sdiv_rem(X, a)
  BY DEF subdiv_rem
<1>3. n \in Int /\ a \in Word /\ a \in Nat \ {0} /\ n = (IF n < 0 THEN -a ELSE a) /\ (n < 0 => a = -n) /\ (n > 0 => a = n)
  BY Sizes DEF Abs
<1>4. Good(X) /\ X \in Big /\ M \in Nat /\ X.neg \in BOOLEAN /\ (X.neg => M # 0)
      /\ Value(X) = (IF X.neg THEN -M ELSE M) /\ X.len \in Nat /\ X.w \in Words
  <2>1. Good(X)
    BY DEF Operand
  <2>2. X.neg \in BOOLEAN /\ X.len \in Nat /\ X \in Big /\ X.w \in Words
    BY <2>1, BigIs, Sizes DEF Good
  <2> QED
    BY <2>1, <2>2, SignedValue
<1>5. turn \in BOOLEAN /\ (turn <=> n < 0)
  OBVIOUS
<1>6. m.check => X.len <= nib
  OBVIOUS
<1>7. Signs(Value(X), n, X.neg, turn, qt, M % a)
  <2>1. Signs(IF X.neg THEN -M ELSE M, IF turn THEN -a ELSE a, X.neg, turn, M \div a, M % a)
    <3> HIDE DEF X, M, turn
    <3> QED
      BY <1>3, <1>4, <1>5, TruncatedIs
  <2>2. n = IF turn THEN -a ELSE a
    BY <1>3
  <2> HIDE DEF X, M, turn, a
  <2> QED
    BY <1>4, <2>1, <2>2
<1>8. qt \in Nat /\ DivideOf(M, a, qt, M % a)
  <2> HIDE DEF M, a
  <2> QED
    BY <1>3, <1>4 DEF DivideOf
<1>9. Operand(X) /\ CleanTail(m.r[z])
  OBVIOUS
<1>10. Gets(m, cp, z, Value(X), X.len) /\ cp.r[z] = X
  BY <1>4, CopyGets, CopyIs DEF Good
<1>11. CASE X.len = 0
  <2>1. d = zero(m, z) /\ r = 0
    BY <1>1, <1>2, <1>11
  <2>2. M = 0
    BY <1>4, <1>11, LowIs DEF Mag
  <2>3. qt = 0 /\ M % a = 0
    <3> HIDE DEF M, a
    <3> QED
      BY <1>3, <2>2
  <2>4. ~X.neg
    BY <1>4, <2>2
  <2>5. V = 0 /\ Integer!Rem(Value(X), n) = 0
    <3>1. Integer!Rem(Value(X), n) = 0
      BY <1>7, <2>3, <2>4 DEF Signs
    <3>2. V = IF turn THEN -qt ELSE qt
      BY <1>7, <2>4 DEF Signs
    <3>3. -qt = 0
      <4> HIDE DEF qt
      <4>1. qt \in Nat /\ qt <= 0
        BY <1>8, <2>3
      <4> QED
        BY <4>1
    <3> HIDE DEF qt, turn
    <3> QED
      BY <2>3, <3>1, <3>2, <3>3
  <2>6. Changed(m, zero(m, z), z) /\ zero(m, z).r[z] = Zero
    BY <1>9, ZeroIs
  <2> HIDE DEF d, r
  <2> QED
    BY <2>1, <2>5, <2>6, ZeroGood, Sizes DEF Leaves, Changed, d, r, V
<1>12. CASE X.len # 0 /\ n = 1
  <2>1. d = cp /\ r = 0
    BY <1>1, <1>2, <1>12
  <2>2. a = 1 /\ ~turn
    BY <1>3, <1>12
  <2>3. qt = M /\ M % a = 0
    <3> HIDE DEF M, a
    <3> QED
      BY <1>4, <2>2
  <2>4. V = Value(X) /\ Integer!Rem(Value(X), n) = 0
    <3>1. Integer!Rem(Value(X), n) = IF X.neg THEN -0 ELSE 0
      BY <1>7, <2>3 DEF Signs
    <3>2. V = IF X.neg THEN -M ELSE M
      BY <1>7, <2>2, <2>3 DEF Signs
    <3>3. -0 = 0
      <4>1. \A f \in Nat : f <= 0 => -f = f
        OBVIOUS
      <4>2. 0 \in Nat /\ 0 <= 0
        OBVIOUS
      <4> QED
        BY Zenon, <4>1, <4>2
    <3> QED
      BY <1>4, <3>1, <3>2, <3>3
  <2>5. Leaves(m, cp, z, Value(X))
    BY <1>4, <1>6, <1>10, GetsLeaves
  <2>6. cp.ERNUM = 0
    BY <1>10 DEF Gets, Changed
  <2> HIDE DEF d, r
  <2> QED
    BY <2>1, <2>4, <2>5, <2>6 DEF d, r, V
<1>13. CASE X.len # 0 /\ n = 2
  <2> DEFINE h == Halve(X)
             g == Put(cp, z, h)
  <2>1. d = g /\ r = IF X.neg THEN -(X.w[0] % 2) ELSE X.w[0] % 2
    BY <1>1, <1>2, <1>10, <1>13
  <2>2. a = 2 /\ ~turn
    BY <1>3, <1>13
  <2>3. /\ Good(h) /\ h.len <= X.len /\ Value(h) = (IF X.neg THEN -qt ELSE qt)
        /\ X.w[0] % 2 = M % 2
    BY <1>3, <1>9, <1>13, <2>2, HalveIs
  <2>4. V = Value(h) /\ r = Integer!Rem(Value(X), n)
    <3> HIDE DEF r, h, qt, M
    <3> QED
      BY <1>7, <2>1, <2>2, <2>3 DEF Signs
  <2>5. cp \in Memories /\ Changed(m, cp, z)
    BY <1>10 DEF Gets, Changed, Others
  <2>6. Changed(cp, g, z) /\ g.r[z] = h
    BY <2>3, <2>5, PutIs DEF Good
  <2> HIDE DEF h, g, cp
  <2>7. Gets(m, g, z, Value(h), X.len)
    BY <2>3, <2>5, <2>6 DEF Gets, Changed, Others
  <2>8. Leaves(m, g, z, Value(h)) /\ g.ERNUM = 0
    BY <1>4, <1>6, <2>7, GetsLeaves DEF Gets, Changed
  <2> HIDE DEF d, r
  <2> QED
    BY <2>1, <2>4, <2>8 DEF d, r, V
<1>14. CASE X.len # 0 /\ n # 1 /\ n # 2
  <2>1. d = Turned(p, z, turn) /\ r = IF X.neg THEN -sdiv_rem(X, a) ELSE sdiv_rem(X, a)
    BY <1>1, <1>2, <1>14
  <2>2. Gets(m, p, z, IF X.neg THEN -qt ELSE qt, X.len) /\ sdiv_rem(X, a) = M % a
    BY <1>3, <1>9, SdivIs
  <2>3. Others(m, p, z) /\ p.ERNUM = 0 /\ Good(p.r[z]) /\ Value(p.r[z]) = (IF X.neg THEN -qt ELSE qt)
        /\ p.r[z].len <= X.len /\ p.r[z].len \in Nat
    <3>1. Others(m, p, z) /\ p.ERNUM = 0 /\ Good(p.r[z]) /\ Value(p.r[z]) = (IF X.neg THEN -qt ELSE qt)
          /\ p.r[z].len <= X.len
      BY <2>2 DEF Gets, Changed
    <3> HIDE DEF p
    <3> QED
      BY <3>1, BigIs, Sizes DEF Good
  <2> HIDE DEF p
  <2>4. /\ Others(m, d, z) /\ d.ERNUM = 0 /\ Good(d.r[z]) /\ d.r[z].len = p.r[z].len
        /\ Value(d.r[z]) = IF turn THEN -Value(p.r[z]) ELSE Value(p.r[z])
    <3> HIDE DEF turn
    <3> QED
      BY <1>5, <2>1, <2>3, TurnedIs
  <2> HIDE DEF d, r
  <2>5. Value(d.r[z]) = V
    <3>1. Value(d.r[z]) = IF turn THEN (IF X.neg THEN qt ELSE -qt) ELSE IF X.neg THEN -qt ELSE qt
      <4> HIDE DEF qt, turn
      <4>1. -(-qt) = qt
        BY <1>8
      <4> QED
        BY <2>3, <2>4, <4>1
    <3> QED
      BY <1>7, <3>1 DEF Signs
  <2>6. r = Integer!Rem(Value(X), n)
    BY <1>7, <2>1, <2>2 DEF Signs
  <2>7. m.check => d.r[z].len <= nib
    BY <1>4, <1>6, <2>3, <2>4, Sizes
  <2> QED
    BY <2>4, <2>5, <2>6, <2>7 DEF Leaves, d, r, V
<1> QED
  BY <1>11, <1>12, <1>13, <1>14

\* The words above the lowest add a multiple of the base.
LEMMA LowestWord ==
  ASSUME NEW w \in Words, NEW n \in 1 .. Ext
  PROVE  \E k \in Nat : Low(w, n) = w[0] + B * k
<1> DEFINE T == {i \in Nat : i + 1 <= n => \E k \in Nat : Low(w, i + 1) = w[0] + B * k}
<1>1. 0 \in Idx /\ 0 \in 0 .. Ext - 1 /\ B \in Nat /\ n \in Nat /\ n <= Ext
  BY Sizes
<1>2. w[0] \in Nat /\ BTo[0] = 1
  BY <1>1, At, BToIs
<1>3. 0 \in T
  <2>1. Low(w, 0 + 1) = Low(w, 0) + w[0] * BTo[0] /\ Low(w, 0) = 0
    BY <1>1, LowIs
  <2>2. Low(w, 0 + 1) = w[0] + B * 0
    BY <1>1, <1>2, <2>1
  <2> QED
    BY <2>2
<1>4. ASSUME NEW i \in Nat, i \in T PROVE i + 1 \in T
  <2> SUFFICES ASSUME (i + 1) + 1 <= n PROVE \E k \in Nat : Low(w, (i + 1) + 1) = w[0] + B * k
    OBVIOUS
  <2>1. i + 1 \in 0 .. Ext - 1 /\ i \in 0 .. Ext - 2 /\ i + 1 \in Idx /\ i \in Idx
    BY <1>1, Sizes
  <2>2. PICK k \in Nat : Low(w, i + 1) = w[0] + B * k
    BY <1>1, <1>4
  <2>3. Low(w, (i + 1) + 1) = Low(w, i + 1) + w[i+1] * BTo[i+1] /\ BTo[i+1] = B * BTo[i]
    BY <2>1, LowIs, BToIs
  <2>4. w[i+1] \in Nat /\ BTo[i] \in Nat
    BY <2>1, At
  <2> DEFINE f == w[i+1] * BTo[i]
  <2>5. f \in Nat /\ w[i+1] * (B * BTo[i]) = B * f /\ B * k + B * f = B * (k + f)
    <3>1. \A a, b, c \in Nat : a * (b * c) = b * (a * c) /\ a * b \in Nat /\ a * b + a * c = a * (b + c)
      OBVIOUS
    <3>2. f \in Nat
      BY <2>4, <3>1
    <3>3. w[i+1] * (B * BTo[i]) = B * f
      BY <1>1, <2>4, <3>1
    <3> HIDE DEF f
    <3>4. B * k + B * f = B * (k + f)
      BY <1>1, <2>2, <3>1, <3>2
    <3> QED
      BY <3>2, <3>3, <3>4
  <2> DEFINE g == B * k
             h == B * f
  <2>6. g \in Nat /\ h \in Nat /\ Low(w, (i + 1) + 1) = (w[0] + g) + h /\ g + h = B * (k + f) /\ k + f \in Nat
    <3>1. \A a, b \in Nat : a * b \in Nat
      OBVIOUS
    <3>2. g \in Nat
      BY <1>1, <2>2, <3>1
    <3>3. h \in Nat
      <4> HIDE DEF f
      <4> QED
        BY <1>1, <2>5, <3>1
    <3> HIDE DEF f
    <3> QED
      BY <2>2, <2>3, <2>5, <3>2, <3>3
  <2> HIDE DEF g, h, f
  <2>7. Low(w, (i + 1) + 1) = w[0] + (g + h)
    BY <1>2, <2>6
  <2>8. k + f \in Nat /\ Low(w, (i + 1) + 1) = w[0] + B * (k + f)
    BY <2>6, <2>7
  <2> QED
    BY <2>8
<1>5. Nat \subseteq T
  <2> HIDE DEF T
  <2> QED
    BY <1>3, <1>4, SetInduction
<1>6. n - 1 \in Nat /\ (n - 1) + 1 = n
  BY <1>1
<1>7. \E k \in Nat : Low(w, (n - 1) + 1) = w[0] + B * k
  BY <1>1, <1>5, <1>6
<1> QED
  BY <1>6, <1>7

\* A divisor of the base sees the lowest word only.
LEMMA LowRestIs ==
  ASSUME NEW X, Operand(X), NEW n \in Nat \ {0}, B % n = 0
  PROVE  X.w[0] % n = Mag(X) % n
<1>1. X.w \in Words /\ X.len \in 0 .. Ext /\ CleanTail(X) /\ 0 \in Idx /\ B \in Nat /\ X.len \in Nat
  BY BigIs, Sizes DEF Operand, Good
<1>2. X.w[0] \in Nat
  BY <1>1, At
<1>3. CASE X.len = 0
  <2>1. X.w[0] = 0 /\ Mag(X) = 0
    BY <1>1, <1>3, LowIs DEF CleanTail, Mag
  <2> QED
    BY <2>1
<1>4. CASE X.len # 0
  <2>1. X.len \in 1 .. Ext
    BY <1>1, <1>4, Sizes
  <2>2. PICK k \in Nat : Mag(X) = X.w[0] + B * k
    BY <1>1, <2>1, LowestWord DEF Mag
  <2> DEFINE x == X.w[0]
             q == x \div n
             r == x % n
             t == B \div n
             f == t * k
  <2>3. t \in Nat /\ B = n * t
    BY <1>1
  <2>4. q \in Nat /\ r \in 0 .. n - 1 /\ x = n * q + r
    BY <1>2
  <2>5. \A a, b, c \in Nat : (a * b) * c = a * (b * c) /\ a * b \in Nat /\ a * b + a * c = a * (b + c)
    OBVIOUS
  <2> HIDE DEF q, r, t, x
  <2>6. f \in Nat /\ B * k = n * f
    BY <2>2, <2>3, <2>5
  <2> HIDE DEF f
  <2>7. n * q + n * f = n * (q + f) /\ q + f \in Nat /\ n * q \in Nat /\ n * f \in Nat
    BY <2>4, <2>5, <2>6
  <2> DEFINE g == n * q
             h == n * f
             M == Mag(X)
  <2>8. g \in Nat /\ h \in Nat /\ x = g + r /\ M = x + h /\ r \in Nat /\ g + h = n * (q + f)
    BY <2>2, <2>4, <2>6, <2>7 DEF x
  <2> HIDE DEF g, h, M
  <2>9. M = (g + h) + r
    BY <2>8
  <2>10. M = n * (q + f) + r
    BY <2>8, <2>9
  <2>11. (n * (q + f) + r) % n = r
    BY <2>4, <2>7, Division
  <2> QED
    BY <2>10, <2>11 DEF M, r, x
<1> QED
  BY <1>3, <1>4

\* The remainder is the answer; the copy it takes is a scratch number.
LEMMA RemainIs ==
  ASSUME NEW m \in Memories, m.ERNUM = 0, NEW x \in Names, "w0" \in Names, NEW n \in -(B - 1) .. B - 1, n # 0,
         Operand(m.r[x]), CleanTail(m.r["w0"]), m.check => m.r[x].len <= nib
  PROVE  /\ remain(m, x, n) = Integer!Rem(Value(m.r[x]), n)
         /\ Others(m, remain_mem(m, x, n), "w0") /\ remain_mem(m, x, n).ERNUM = 0
<1> DEFINE X == m.r[x]
           cp == copy(m, x, "w0")
           low == X.w[0] % n
<1>1. remain(m, x, n) = IF ByLowWord(n) THEN (IF X.neg THEN -low ELSE low) ELSE subdiv_rem(m, x, n)
  BY DEF remain
<1>2. remain_mem(m, x, n) = IF ByLowWord(n) THEN m ELSE subdiv(cp, "w0", n, "w0")
  BY DEF remain_mem
<1>3. remain(m, x, n) = Integer!Rem(Value(X), n)
  <2>1. CASE ByLowWord(n)
    <3>1. n \in Nat \ {0} /\ B % n = 0
      BY <2>1 DEF ByLowWord
    <3>2. low = Mag(X) % n
      BY <3>1, LowRestIs
    <3>3. Good(X) /\ Mag(X) \in Nat /\ X.neg \in BOOLEAN /\ (X.neg => Mag(X) # 0)
          /\ Value(X) = IF X.neg THEN -Mag(X) ELSE Mag(X)
      BY SignedValue, BigIs DEF Operand, Good
    <3> DEFINE M == Mag(X)
               v == Value(X)
               t == FALSE
    <3>4. Signs(IF X.neg THEN -M ELSE M, IF t THEN -n ELSE n, X.neg, t, M \div n, M % n)
      <4>1. t \in BOOLEAN
        OBVIOUS
      <4> HIDE DEF X, M, t
      <4> QED
        BY <3>1, <3>3, <4>1, TruncatedIs DEF M
    <3>5. Signs(v, n, X.neg, t, M \div n, M % n)
      BY <3>3, <3>4
    <3> HIDE DEF v, t, M, X, low
    <3>6. Integer!Rem(v, n) = IF X.neg THEN -low ELSE low
      BY <3>2, <3>5 DEF Signs, M
    <3> QED
      BY <1>1, <2>1, <3>6 DEF v
  <2>2. CASE ~ByLowWord(n)
    <3>1. CleanTail(m.r[x])
      BY DEF Operand, Good
    <3>2. subdiv_rem(m, x, n) = Integer!Rem(Value(X), n)
      BY <3>1, SubdivIs
    <3> QED
      BY <1>1, <2>2, <3>2
  <2> QED
    BY <2>1, <2>2
<1>4. Others(m, remain_mem(m, x, n), "w0") /\ remain_mem(m, x, n).ERNUM = 0
  <2>1. CASE ByLowWord(n)
    BY <1>2, <2>1 DEF Others
  <2>2. CASE ~ByLowWord(n)
    <3>1. Changed(m, cp, "w0") /\ cp.r["w0"] = X
      BY CopyIs DEF Operand, Good
    <3>2. cp \in Memories /\ cp.ERNUM = 0 /\ cp.check = m.check
      BY <3>1 DEF Changed, Others
    <3> DEFINE d == subdiv(cp, "w0", n, "w0")
    <3> HIDE DEF cp
    <3>3. Operand(cp.r["w0"]) /\ CleanTail(cp.r["w0"]) /\ (cp.check => cp.r["w0"].len <= nib)
      BY <3>1, <3>2 DEF Operand, Good
    <3>4. Leaves(cp, d, "w0", Integer!Quot(Value(cp.r["w0"]), n)) /\ d.ERNUM = 0
      BY <3>2, <3>3, SubdivIs
    <3>5. remain_mem(m, x, n) = d
      BY <1>2, <2>2
    <3> HIDE DEF d
    <3> QED
      BY <3>1, <3>4, <3>5 DEF Leaves, Changed, Others
  <2> QED
    BY <2>1, <2>2
<1> QED
  BY <1>3, <1>4

-----------------------------------------------------------------------------
(* The calls by one word.                                                     *)

\* A call the integers give no value is right when it fails.
LEMMA FailsRight ==
  ASSUME Inv, NEW c, Integer!Undefined(c, val),
         \A m : Ready(m) => Run(c, m).m \in Memories /\ Run(c, m).m.ERNUM # 0
  PROVE  Exactly(c) /\ KeptForm(c)
<1>1. ASSUME NEW junk \in {Zero, Full}
      PROVE  Run(c, Memory(junk)).m \in Memories /\ Run(c, Memory(junk)).m.ERNUM # 0
  <2>1. Ready(Memory(junk))
    BY MemoryReady
  <2> QED
    BY <2>1
<1>2. Integer!MayFail(c, val)
  BY DEF Integer!MayFail
<1>3. KeptForm(c)
  <2>1. ASSUME NEW junk \in {Zero, Full}, NEW n, n = Run(c, Memory(junk)).m, NEW r \in Reg
        PROVE  n.r[r] \in Big /\ n.ERNUM # 0
    <3>1. n \in Memories /\ n.ERNUM # 0 /\ r \in Names
      BY <1>1, <2>1, MemoryReady DEF Ready
    <3> QED
      BY <3>1, MemoryIs
  <2> QED
    BY <2>1 DEF KeptForm
<1>4. Exactly(c)
  BY <1>1, <1>2 DEF Exactly
<1> QED
  BY <1>3, <1>4

\* A call that assigns nothing is right when it answers what the integers do and
\* leaves every number of the program alone, whatever it did to the scratch number.
LEMMA KeepsAll ==
  ASSUME Inv, NEW c, NEW ret,
         c.op \notin {"xgcd", "invmodp"}, Integer!Assigned(c, val) = <<>>,
         ~Integer!Undefined(c, val), Integer!Answer(c, val) = ret,
         \A m : Ready(m) => Run(c, m).ret = ret /\ Others(m, Run(c, m).m, "w0") /\ Run(c, m).m.ERNUM = 0
  PROVE  Exactly(c) /\ KeptForm(c)
<1>1. Integer!Outcomes(c, val) = {<<>>}
  BY DEF Integer!Outcomes
<1>2. Integer!Apply(<<>>, val) = val
  <2>1. Integer!Apply(<<>>, val) = [r \in Reg |-> val[r]]
    BY DEF Integer!Apply
  <2> QED
    BY <2>1 DEF Inv
<1>3. Integer!MayReturn(c, val, val, ret)
  <2>1. \A i \in DOMAIN <<>> : Integer!Fits(<<>>[i][2])
    OBVIOUS
  <2> QED
    BY <1>1, <1>2, <2>1 DEF Integer!MayReturn
<1>4. ASSUME NEW junk \in {Zero, Full}, NEW n, n = Run(c, Memory(junk)).m
      PROVE  /\ Run(c, Memory(junk)).ret = ret /\ n.ERNUM = 0
             /\ [r \in Reg |-> Value(n.r[r])] = val
             /\ \A r \in Reg : /\ n.r[r] \in Big /\ n.check /\ n.r[r].len <= nib
                               /\ CleanTail(n.r[r]) /\ Canonical(n.r[r])
  <2> DEFINE m == Memory(junk)
  <2>1. Ready(m)
    BY MemoryReady
  <2> HIDE DEF m
  <2>2. Run(c, m).ret = ret /\ Others(m, n, "w0") /\ n.ERNUM = 0
    BY <2>1, <1>4 DEF m
  <2>3. n.check /\ \A r \in Reg : n.r[r] = m.r[r]
    BY <2>1, <2>2 DEF Ready, Others
  <2>4. \A r \in Reg : Good(n.r[r]) /\ Value(n.r[r]) = val[r] /\ n.r[r].len <= nib
    BY <2>1, <2>3 DEF Ready
  <2>5. val = [r \in Reg |-> val[r]]
    BY DEF Inv
  <2>6. [r \in Reg |-> Value(n.r[r])] = val
    BY <2>4, <2>5
  <2> QED
    BY <2>2, <2>3, <2>4, <2>6 DEF Good, m
<1>5. KeptForm(c)
  BY <1>4 DEF KeptForm
<1>6. Exactly(c)
  <2>1. ASSUME NEW junk \in {Zero, Full}, NEW ran, ran = Run(c, Memory(junk))
        PROVE  ran.m.ERNUM = 0 /\ \A w \in {[r \in Reg |-> Value(ran.m.r[r])]} : Integer!MayReturn(c, val, w, ran.ret)
    BY <1>3, <1>4, <2>1
  <2> QED
    BY <2>1 DEF Exactly
<1> QED
  BY <1>5, <1>6

LEMMA ErrorIs ==
  ASSUME NEW m \in Memories, NEW e \in Int
  PROVE  mr_berror(m, e) \in Memories /\ mr_berror(m, e).ERNUM = e
BY DEF mr_berror, Memories

LEMMA SubdivCall ==
  ASSUME Inv, NEW x \in Reg, NEW n \in -(B - 1) .. B - 1, NEW z \in Reg
  PROVE  LET c == [op |-> "subdiv", a |-> <<x, n, z>>] IN Exactly(c) /\ KeptForm(c)
<1> DEFINE c == [op |-> "subdiv", a |-> <<x, n, z>>]
           v == Integer!Quot(val[x], n)
           e == Integer!Rem(val[x], n)
<1>1. ASSUME NEW m, Ready(m)
      PROVE  /\ Run(c, m).m = subdiv(m, x, n, z) /\ Run(c, m).ret = subdiv_rem(m, x, n)
             /\ m \in Memories /\ m.ERNUM = 0 /\ x \in Names /\ z \in Names /\ CleanTail(m.r[z])
             /\ Operand(m.r[x]) /\ Value(m.r[x]) = val[x] /\ m.r[x].len <= nib
  <2>1. Run(c, m).m = subdiv(m, x, n, z) /\ Run(c, m).ret = subdiv_rem(m, x, n)
    BY DEF Run, Subdiv, Ran
  <2> QED
    BY <1>1, <2>1, ReadyOperand DEF Ready, Good
<1>2. CASE n = 0
  <2>1. Integer!Undefined(c, val)
    BY <1>2 DEF Integer!Undefined
  <2>2. ASSUME NEW m, Ready(m) PROVE Run(c, m).m \in Memories /\ Run(c, m).m.ERNUM # 0
    <3>1. Run(c, m).m = mr_berror(m, ERR_DIV_BY_ZERO)
      BY <1>1, <1>2, <2>2 DEF subdiv
    <3> QED
      BY <1>1, <2>2, <3>1, ErrorIs DEF ERR_DIV_BY_ZERO
  <2> HIDE DEF c
  <2>3. Exactly(c) /\ KeptForm(c)
    BY <2>1, <2>2, FailsRight
  <2> QED
    BY <2>3 DEF c
<1>3. CASE n # 0
  <2>1. /\ Integer!Assigned(c, val) = << <<z, v>> >>
        /\ ~Integer!Undefined(c, val) /\ Integer!Answer(c, val) = e /\ c.op \notin {"xgcd", "invmodp"}
    BY <1>3 DEF Integer!Assigned, Integer!Undefined, Integer!Answer
  <2>2. v \in Int
    <3>1. val[x] \in Int /\ n \in Int
      BY NumbersFit, Sizes DEF Inv
    <3>2. Integer!Mag(val[x]) \in Nat /\ Integer!Mag(n) \in Nat \ {0}
      BY <1>3, <3>1 DEF Integer!Mag
    <3> DEFINE q == Integer!Mag(val[x]) \div Integer!Mag(n)
    <3>3. q \in Int
      BY <3>2
    <3>4. v = q \/ v = -q
      BY DEF Integer!Quot
    <3> HIDE DEF q, v
    <3> QED
      BY <3>3, <3>4
  <2>3. ASSUME NEW m, Ready(m) PROVE Run(c, m).ret = e /\ Result(m, Run(c, m).m, z, v)
    <3>1. /\ Leaves(m, subdiv(m, x, n, z), z, Integer!Quot(Value(m.r[x]), n))
          /\ subdiv_rem(m, x, n) = Integer!Rem(Value(m.r[x]), n)
      BY <1>1, <1>3, <2>3, SubdivIs
    <3>2. Leaves(m, Run(c, m).m, z, v) /\ Run(c, m).ret = e
      BY <1>1, <2>3, <3>1
    <3> QED
      BY <2>3, <3>2, LeavesResult
  <2> HIDE DEF c, v, e
  <2>4. Exactly(c) /\ KeptForm(c)
    BY <2>1, <2>2, <2>3, AssignsAnswer
  <2> QED
    BY <2>4 DEF c
<1> QED
  BY <1>2, <1>3

LEMMA RemainCall ==
  ASSUME Inv, NEW x \in Reg, NEW n \in -(B - 1) .. B - 1
  PROVE  LET c == [op |-> "remain", a |-> <<x, n>>] IN Exactly(c) /\ KeptForm(c)
<1> DEFINE c == [op |-> "remain", a |-> <<x, n>>]
           e == Integer!Rem(val[x], n)
<1>1. ASSUME NEW m, Ready(m)
      PROVE  /\ Run(c, m).m = remain_mem(m, x, n) /\ Run(c, m).ret = remain(m, x, n)
             /\ m \in Memories /\ m.ERNUM = 0 /\ x \in Names /\ "w0" \in Names /\ CleanTail(m.r["w0"])
             /\ Operand(m.r[x]) /\ Value(m.r[x]) = val[x] /\ m.r[x].len <= nib
  <2>1. Run(c, m).m = remain_mem(m, x, n) /\ Run(c, m).ret = remain(m, x, n)
    BY DEF Run, Remain, Ran
  <2> QED
    BY <1>1, <2>1, ReadyOperand DEF Ready, Good
<1>2. CASE n = 0
  <2>1. Integer!Undefined(c, val)
    BY <1>2 DEF Integer!Undefined
  <2>2. ASSUME NEW m, Ready(m) PROVE Run(c, m).m \in Memories /\ Run(c, m).m.ERNUM # 0
    <3> DEFINE cp == copy(m, x, "w0")
    <3>1. cp \in Memories /\ cp.ERNUM = 0
      BY <1>1, <2>2, CopyIs DEF Operand, Good, Changed, Others
    <3>2. Run(c, m).m = mr_berror(cp, ERR_DIV_BY_ZERO)
      <4>1. Run(c, m).m = subdiv(cp, "w0", n, "w0")
        BY <1>1, <1>2, <2>2 DEF remain_mem, ByLowWord
      <4> HIDE DEF cp, c
      <4> QED
        BY <1>2, <3>1, <4>1 DEF subdiv
    <3> HIDE DEF cp
    <3> QED
      BY <3>1, <3>2, ErrorIs DEF ERR_DIV_BY_ZERO
  <2> HIDE DEF c
  <2>3. Exactly(c) /\ KeptForm(c)
    BY <2>1, <2>2, FailsRight
  <2> QED
    BY <2>3 DEF c
<1>3. CASE n # 0
  <2>1. /\ Integer!Assigned(c, val) = <<>>
        /\ ~Integer!Undefined(c, val) /\ Integer!Answer(c, val) = e /\ c.op \notin {"xgcd", "invmodp"}
    BY <1>3 DEF Integer!Assigned, Integer!Undefined, Integer!Answer
  <2>2. ASSUME NEW m, Ready(m)
        PROVE  Run(c, m).ret = e /\ Others(m, Run(c, m).m, "w0") /\ Run(c, m).m.ERNUM = 0
    <3>1. /\ remain(m, x, n) = Integer!Rem(Value(m.r[x]), n)
          /\ Others(m, remain_mem(m, x, n), "w0") /\ remain_mem(m, x, n).ERNUM = 0
      BY <1>1, <1>3, <2>2, RemainIs
    <3> QED
      BY <1>1, <2>2, <3>1
  <2> HIDE DEF c, e
  <2>3. Exactly(c) /\ KeptForm(c)
    BY <2>1, <2>2, KeepsAll
  <2> QED
    BY <2>3 DEF c
<1> QED
  BY <1>2, <1>3

-----------------------------------------------------------------------------
(* Multiplication.                                                            *)

\* Words that are i + j apart.
LEMMA BToAdds ==
  ASSUME NEW i \in Idx, NEW j \in Idx, i + j \in Idx
  PROVE  BTo[i + j] = BTo[i] * BTo[j]
<1> DEFINE T == {k \in Nat : k <= j => BTo[i + k] = BTo[i] * BTo[k]}
<1>0. i \in Nat /\ j \in Nat /\ i + j <= Ext - 1
  BY Sizes
<1>1. 0 \in T
  <2>1. i + 0 = i /\ BTo[0] = 1 /\ BTo[i] \in Nat /\ BTo[i] * 1 = BTo[i]
    BY <1>0, BToIs
  <2> QED
    BY <2>1
<1>2. ASSUME NEW k \in Nat, k \in T PROVE k + 1 \in T
  <2> SUFFICES ASSUME k + 1 <= j PROVE BTo[i + (k + 1)] = BTo[i] * BTo[k + 1]
    OBVIOUS
  <2>1. k <= j /\ i + k \in 0 .. Ext - 2 /\ k \in 0 .. Ext - 2 /\ i + (k + 1) = (i + k) + 1 /\ k \in Idx
    BY <1>0, Sizes
  <2>2. BTo[i + k] = BTo[i] * BTo[k]
    BY <1>2, <2>1
  <2>3. BTo[(i + k) + 1] = B * BTo[i + k] /\ BTo[k + 1] = B * BTo[k]
    BY <2>1, BToIs
  <2>4. BTo[i] \in Nat /\ BTo[k] \in Nat /\ B \in Nat
    BY <2>1, BToIs, Sizes
  <2>5. \A f, g, h \in Nat : f * (g * h) = g * (f * h)
    OBVIOUS
  <2> QED
    BY <2>1, <2>2, <2>3, <2>4, <2>5
<1>3. Nat \subseteq T
  <2> HIDE DEF T
  <2> QED
    BY <1>1, <1>2, SetInduction
<1> QED
  BY <1>0, <1>3
\* The carries of a row are words and its sums are right.
RowCarries(w, x, y, from, to, off) ==
  Carried(to - from, 0, [j \in Idx |-> [carry \in Word |-> (x * y[from + j] + carry + w[off + from + j]) \div B]])
RowRight(w, x, y, from, to, off, c) ==
  /\ c[0] = 0 /\ \A j \in 0 .. to - from : c[j] \in Word
  /\ \A j \in 0 .. to - from - 1 :
       /\ (x * y[from + j] + c[j] + w[off + from + j]) % B \in Word
       /\ ((x * y[from + j] + c[j] + w[off + from + j]) % B) + B * c[j+1] = x * y[from + j] + c[j] + w[off + from + j]
LEMMA RowCarriesAre ==
  ASSUME NEW w \in Words, NEW y \in Words, NEW x \in Word, NEW from \in Nat, NEW to \in Nat, NEW off \in Nat,
         from <= to, off + to \in Idx
  PROVE  RowRight(w, x, y, from, to, off, RowCarries(w, x, y, from, to, off))
<1> DEFINE st == [j \in Idx |-> [carry \in Word |-> (x * y[from + j] + carry + w[off + from + j]) \div B]]
           n == to - from
           c == Carried(n, 0, st)
<1>1. /\ n \in Nat /\ 0 \in Word /\ \A j \in 0 .. n - 1 : j \in Idx /\ j \in 0 .. n /\ j + 1 \in 0 .. n
      /\ \A j \in 0 .. n - 1 : from + j \in Idx /\ off + from + j \in Idx
  BY Sizes
<1>2. ASSUME NEW j \in 0 .. n - 1, NEW v \in Word
      PROVE  LET u == x * y[from + j] + v + w[off + from + j] IN Split(u) /\ st[j][v] = u \div B
  <2>1. j \in Idx /\ y[from + j] \in Word /\ w[off + from + j] \in Word
    BY <1>1 DEF Words
  <2>2. Split(x * y[from + j] + v + w[off + from + j])
    BY <2>1, SplitIs
  <2>3. st[j][v] = (x * y[from + j] + v + w[off + from + j]) \div B
    BY <2>1
  <2> QED
    BY <2>2, <2>3
<1> HIDE DEF st
<1>3. Inside(n, Word, st)
  BY <1>2 DEF Inside, Split
<1>4. c \in [0 .. n -> Word] /\ CarriesOn(c, n, 0, st)
  <2> HIDE DEF n
  <2> QED
    BY <1>1, <1>3, CarriedIs
<1>5. RowCarries(w, x, y, from, to, off) = c
  BY DEF RowCarries, st
<1> HIDE DEF c
<1>6. ASSUME NEW j \in 0 .. n - 1
      PROVE  LET u == x * y[from + j] + c[j] + w[off + from + j] IN u % B \in Word /\ (u % B) + B * c[j+1] = u
  <2>1. c[j] \in Word /\ c[j+1] = st[j][c[j]]
    BY <1>1, <1>4 DEF CarriesOn
  <2> DEFINE u == x * y[from + j] + c[j] + w[off + from + j]
  <2>2. Split(u) /\ c[j+1] = u \div B
    BY <1>2, <2>1
  <2> HIDE DEF u
  <2>3. u % B \in Word /\ (u % B) + B * c[j+1] = u
    BY <2>2 DEF Split
  <2> QED
    BY <2>3 DEF u
<1>7. c[0] = 0 /\ \A j \in 0 .. n : c[j] \in Word
  BY <1>4 DEF CarriesOn
<1> QED
  BY <1>5, <1>6, <1>7 DEF RowRight

\* The words a row writes: the sums, and the last carry above them.
RowWords(w, x, y, from, to, off, c, v) ==
  /\ v \in Words
  /\ \A i \in Idx : /\ (i < off + from \/ i > off + to) => v[i] = w[i]
                    /\ (i >= off + from /\ i < off + to) =>
                         v[i] + B * c[i - off - from + 1] = x * y[i - off] + c[i - off - from] + w[i]
  /\ v[off + to] = c[to - from]
LEMMA RowWordsAre ==
  ASSUME NEW w \in Words, NEW y \in Words, NEW x \in Word, NEW from \in Nat, NEW to \in Nat, NEW off \in Nat,
         from <= to, off + to \in Idx, NEW c, c = RowCarries(w, x, y, from, to, off)
  PROVE  RowWords(w, x, y, from, to, off, c, AddRow(w, x, y, from, to, off)) /\ RowRight(w, x, y, from, to, off, c)
<1> DEFINE n == to - from
           v == AddRow(w, x, y, from, to, off)
<1>1. RowRight(w, x, y, from, to, off, c)
  BY RowCarriesAre
<1>2. v = [i \in Idx |-> IF i - off \in from .. to - 1 THEN (x * y[i-off] + c[i-off-from] + w[i]) % B
                         ELSE IF i = off + to THEN c[n] ELSE w[i]]
  BY DEF AddRow, RowCarries
<1> HIDE DEF v
<1>3. n \in Nat /\ n \in 0 .. n
  BY Sizes
<1>4. ASSUME NEW i \in Idx
      PROVE  /\ v[i] \in Word
             /\ (i < off + from \/ i > off + to) => v[i] = w[i]
             /\ (i >= off + from /\ i < off + to) =>
                  v[i] + B * c[i - off - from + 1] = x * y[i - off] + c[i - off - from] + w[i]
             /\ i = off + to => v[i] = c[n]
  <2>1. i \in Nat
    BY Sizes
  <2>2. CASE i >= off + from /\ i < off + to
    <3> DEFINE j == i - off - from
    <3>1. j \in 0 .. n - 1 /\ from + j = i - off /\ off + from + j = i /\ i - off \in from .. to - 1
      BY <2>1, <2>2
    <3>2. v[i] = (x * y[i-off] + c[j] + w[i]) % B
      BY <1>2, <3>1
    <3> HIDE DEF j
    <3>3. /\ (x * y[from + j] + c[j] + w[off + from + j]) % B \in Word
          /\ ((x * y[from + j] + c[j] + w[off + from + j]) % B) + B * c[j+1] = x * y[from + j] + c[j] + w[off + from + j]
      BY <1>1, <3>1 DEF RowRight
    <3>4. v[i] \in Word /\ v[i] + B * c[j+1] = x * y[i-off] + c[j] + w[i]
      BY <3>1, <3>2, <3>3
    <3> QED
      BY <2>1, <2>2, <3>4 DEF j
  <2>3. CASE i = off + to
    <3>1. ~(i - off \in from .. to - 1) /\ ~(i < off + from) /\ ~(i > off + to) /\ ~(i < off + to)
      BY <2>1, <2>3
    <3>2. v[i] = c[n]
      BY <1>2, <2>3, <3>1
    <3>3. c[n] \in Word
      BY <1>1, <1>3 DEF RowRight
    <3> QED
      BY <3>1, <3>2, <3>3
  <2>4. CASE (i < off + from /\ i # off + to) \/ i > off + to
    <3>1. ~(i - off \in from .. to - 1) /\ i # off + to /\ ~(i >= off + from /\ i < off + to)
      BY <2>1, <2>4
    <3>2. v[i] = w[i] /\ w[i] \in Word
      BY <1>2, <3>1 DEF Words
    <3> QED
      BY <3>1, <3>2
  <2> QED
    BY <2>1, <2>2, <2>3, <2>4
<1>5. v \in Words
  BY <1>2, <1>4 DEF Words
<1>6. v[off + to] = c[n]
  BY <1>4
<1> QED
  BY <1>1, <1>4, <1>5, <1>6 DEF RowWords, v

\* One place of a row, weighed.
RowStep(P, Q, R, b, v, c1, x, y, c, w, l) == v * P + c1 * (b * P) + (x * Q) * l = w * P + c * P + (x * Q) * (l + y * R)
LEMMA RowStepIs ==
  ASSUME NEW P \in Nat, NEW Q \in Nat, NEW R \in Nat, P = Q * R, NEW b \in Nat, NEW v \in Nat, NEW c1 \in Nat,
         NEW x \in Nat, NEW y \in Nat, NEW c \in Nat, NEW w \in Nat, NEW l \in Nat, v + b * c1 = x * y + c + w
  PROVE  RowStep(P, Q, R, b, v, c1, x, y, c, w, l)
<1> DEFINE xy == x * y
           bc == b * c1
           xq == x * Q
           e == xq * l
           f == xq * (y * R)
           p == v * P
           q == c1 * (b * P)
           r == w * P
           s == c * P
<1>1. xy \in Nat /\ bc \in Nat /\ xq \in Nat /\ e \in Nat /\ f \in Nat /\ p \in Nat /\ q \in Nat /\ r \in Nat /\ s \in Nat
  <2>1. \A g, h \in Nat : g * h \in Nat
    OBVIOUS
  <2> QED
    BY <2>1
<1>2. p + q = f + s + r
  <2>1. bc * P = q
    OBVIOUS
  <2>2. xy * P = f
    <3>1. (x * y) * (Q * R) = (x * Q) * (y * R)
      OBVIOUS
    <3> QED
      BY <3>1
  <2>3. (v + bc) * P = v * P + bc * P
    BY <1>1
  <2>4. (xy + c + w) * P = xy * P + c * P + w * P
    BY <1>1
  <2>5. v + bc = xy + c + w
    OBVIOUS
  <2> HIDE DEF xy, bc, f, q
  <2> QED
    BY <2>1, <2>2, <2>3, <2>4, <2>5
<1>3. xq * (l + y * R) = e + f
  <2>1. \A g, h, k \in Nat : g * (h + k) = g * h + g * k
    OBVIOUS
  <2>2. y * R \in Nat
    OBVIOUS
  <2> QED
    BY <1>1, <2>1, <2>2
<1> HIDE DEF e, f, p, q, r, s
<1>4. p + q + e = r + s + (e + f)
  BY <1>1, <1>2
<1> HIDE DEF xq
<1>5. v * P + c1 * (b * P) + xq * l = w * P + c * P + xq * (l + y * R)
  BY <1>3, <1>4 DEF e, p, q, r, s
<1> QED
  BY <1>5 DEF RowStep, xq

\* A row adds x times the words of y from the first one on, off words up.
RowAdds(w, x, y, from, to, off, v) ==
  /\ v \in Words /\ \A i \in Idx : (i < off + from \/ i > off + to) => v[i] = w[i]
  /\ Low(v, off + to + 1) = Low(w, off + to) + (x * BTo[off]) * (Low(y, to) - Low(y, from))
LEMMA RowIs ==
  ASSUME NEW w \in Words, NEW y \in Words, NEW x \in Word, NEW from \in Nat, NEW to \in Nat, NEW off \in Nat,
         from <= to, off + to \in Idx
  PROVE  RowAdds(w, x, y, from, to, off, AddRow(w, x, y, from, to, off))
<1> DEFINE cc == RowCarries(w, x, y, from, to, off)
           v == AddRow(w, x, y, from, to, off)
           k == off + from
           h == off + to
           C == [i \in k .. h |-> cc[i - off - from]]
           t == [i \in k .. h |-> (x * BTo[off]) * Low(y, i - off)]
<1>1. RowWords(w, x, y, from, to, off, cc, v) /\ RowRight(w, x, y, from, to, off, cc)
  BY RowWordsAre
<1>2. /\ k \in Nat /\ h \in Nat /\ k <= h /\ k \in Idx /\ h \in k .. Ext - 1 /\ h \in Idx /\ h \in 0 .. Ext - 1 /\ h \in 0 .. Ext
      /\ k \in 0 .. Ext /\ off \in Idx /\ to \in 0 .. Ext /\ from \in 0 .. Ext /\ x \in Nat /\ k \in k .. h /\ h \in k .. h
      /\ k - off = from /\ h - off = to /\ k - off - from = 0 /\ h - off - from = to - from
  BY Sizes
<1> HIDE DEF cc, v
<1>3. ASSUME NEW i \in k .. h
      PROVE  /\ C[i] = cc[i - off - from] /\ C[i] \in Nat
             /\ t[i] = (x * BTo[off]) * Low(y, i - off) /\ t[i] \in Int /\ Low(y, i - off) \in Nat /\ i - off \in 0 .. Ext
  <2>1. i - off \in 0 .. Ext /\ i - off - from \in 0 .. to - from
    BY <1>2, Sizes
  <2>2. cc[i - off - from] \in Nat
    <3>1. cc[i - off - from] \in Word
      BY <1>1, <2>1 DEF RowRight
    <3> QED
      BY <3>1, Sizes
  <2>3. Low(y, i - off) \in Nat /\ BTo[off] \in Nat
    BY <1>2, <2>1, LowIs, BToIs
  <2>4. (x * BTo[off]) * Low(y, i - off) \in Int
    <3>1. \A f, g \in Nat : f * g \in Nat
      OBVIOUS
    <3> QED
      BY <1>2, <2>3, <3>1
  <2> QED
    BY <2>1, <2>2, <2>3, <2>4
<1>4. ASSUME NEW i \in k .. h - 1
      PROVE  v[i] * BTo[i] + C[i+1] * BTo[i+1] + t[i] = w[i] * BTo[i] + C[i] * BTo[i] + t[i+1]
  <2> DEFINE j == i - off
  <2>1. /\ i \in k .. h /\ i + 1 \in k .. h /\ i \in Idx /\ i \in 0 .. Ext - 2 /\ i >= off + from /\ i < off + to
        /\ j \in Idx /\ j \in 0 .. Ext - 1 /\ (i + 1) - off = j + 1 /\ off + j = i
        /\ (i + 1) - off - from = i - off - from + 1
    BY <1>2, Sizes
  <2>2. v[i] + B * cc[i - off - from + 1] = x * y[i - off] + cc[i - off - from] + w[i]
    BY <1>1, <2>1 DEF RowWords
  <2>3. v[i] + B * C[i+1] = x * y[j] + C[i] + w[i]
    BY <1>3, <2>1, <2>2
  <2>4. BTo[i] = BTo[off] * BTo[j] /\ BTo[i+1] = B * BTo[i] /\ Low(y, j + 1) = Low(y, j) + y[j] * BTo[j]
    <3>1. off + j \in Idx
      BY <2>1
    <3>2. BTo[off + j] = BTo[off] * BTo[j]
      BY <1>2, <2>1, <3>1, BToAdds
    <3> HIDE DEF j
    <3> QED
      BY <2>1, <3>2, BToIs, LowIs
  <2>5. t[i] = (x * BTo[off]) * Low(y, j) /\ t[i+1] = (x * BTo[off]) * Low(y, j + 1)
    BY <1>3, <2>1
  <2> HIDE DEF j, t, C
  <2>6. /\ v[i] \in Nat /\ w[i] \in Nat /\ y[j] \in Nat /\ BTo[i] \in Nat /\ BTo[j] \in Nat /\ BTo[off] \in Nat
        /\ C[i] \in Nat /\ C[i+1] \in Nat /\ Low(y, j) \in Nat /\ B \in Nat
    <3>1. v \in Words
      BY <1>1 DEF RowWords
    <3> QED
      BY <1>2, <1>3, <2>1, <3>1, At, BToIs, Sizes
  <2>7. RowStep(BTo[i], BTo[off], BTo[j], B, v[i], C[i+1], x, y[j], C[i], w[i], Low(y, j))
    BY <1>2, <2>3, <2>4, <2>6, RowStepIs
  <2> QED
    BY <2>4, <2>5, <2>7 DEF RowStep
<1>5. Carrying(w, v, C, t, k, h)
  <2> HIDE DEF C, t, k, h
  <2> QED
    BY <1>3, <1>4 DEF Carrying
<1>6. v \in Words /\ (\A i \in Idx : (i < off + from \/ i > off + to) => v[i] = w[i]) /\ v[h] = cc[to - from]
  BY <1>1 DEF RowWords
<1>7. (Low(v, h) - Low(v, k)) + C[h] * BTo[h] + t[k] = (Low(w, h) - Low(w, k)) + C[k] * BTo[k] + t[h]
  <2> HIDE DEF C, t, k, h
  <2> QED
    BY <1>2, <1>5, <1>6, LowCarried
<1>8. C[h] = v[h] /\ C[k] = 0
  <2>1. cc[0] = 0
    BY <1>1 DEF RowRight
  <2> QED
    BY <1>2, <1>3, <1>6, <2>1
<1> DEFINE e == x * BTo[off]
           lt == Low(y, to)
           lf == Low(y, from)
<1>9. t[k] = e * lf /\ t[h] = e * lt /\ e \in Nat /\ lt \in Nat /\ lf \in Nat
  <2>1. BTo[off] \in Nat
    BY <1>2, BToIs
  <2>2. e \in Nat
    BY <1>2, <2>1
  <2> HIDE DEF e
  <2> QED
    BY <1>2, <1>3, <2>2 DEF e
<1>10. e * (lt - lf) = e * lt - e * lf /\ e * lt \in Nat /\ e * lf \in Nat
  <2> HIDE DEF e, lt, lf
  <2>1. \A f, g \in Nat : f * g \in Nat
    OBVIOUS
  <2>2. \A f, g, d \in Nat : f * (g - d) = f * g - f * d
    OBVIOUS
  <2> QED
    BY <1>9, <2>1, <2>2
<1>11. Low(v, k) = Low(w, k)
  <2>1. \A i \in 0 .. k - 1 : v[i] = w[i]
    <3> TAKE i \in 0 .. k - 1
    <3>1. i \in Idx /\ i < off + from
      BY <1>2, Sizes
    <3> QED
      BY <1>6, <3>1
  <2> HIDE DEF k
  <2> QED
    BY <1>2, <1>6, <2>1, LowSame
<1>12. Low(v, h + 1) = Low(v, h) + v[h] * BTo[h] /\ Low(v, h) \in Nat /\ Low(w, h) \in Nat /\ Low(w, k) \in Nat
       /\ v[h] * BTo[h] \in Nat /\ BTo[k] \in Nat
  <2>1. v[h] \in Nat /\ BTo[h] \in Nat
    BY <1>2, <1>6, At
  <2>2. v[h] * BTo[h] \in Nat
    BY <2>1
  <2> HIDE DEF h, k
  <2> QED
    BY <1>2, <1>6, <2>2, LowIs, BToIs
<1> DEFINE lv == Low(v, h)
           lw == Low(w, h)
           ek == Low(w, k)
           d == v[h] * BTo[h]
           a == e * lt
           b == e * lf
<1>13. (lv - ek) + d + b = (lw - ek) + 0 + a
  <2>1. 0 * BTo[k] = 0
    BY <1>12
  <2> HIDE DEF e, lt, lf, C, t, k, h
  <2> QED
    BY <1>7, <1>8, <1>9, <1>11, <2>1
<1>14. lv + d = lw + (a - b)
  <2>1. lv \in Nat /\ lw \in Nat /\ ek \in Nat /\ d \in Nat /\ a \in Nat /\ b \in Nat
    BY <1>10, <1>12
  <2> HIDE DEF lv, lw, ek, d, a, b
  <2> QED
    BY <1>13, <2>1
<1>15. Low(v, h + 1) = lw + e * (lt - lf)
  BY <1>10, <1>12, <1>14
<1> QED
  BY <1>6, <1>15 DEF RowAdds, v

\* Nothing but clear words.
LEMMA ZeroWords == Zero.w \in Words /\ (\A i \in Idx : Zero.w[i] = 0) /\ \A n \in 0 .. Ext : Low(Zero.w, n) = 0
<1>1. Zero.w \in Words /\ \A i \in Idx : Zero.w[i] = 0
  BY Sizes DEF Zero, Words
<1> HIDE DEF Zero
<1>2. ASSUME NEW n \in 0 .. Ext PROVE Low(Zero.w, n) = 0
  <2>1. 0 \in 0 .. Ext /\ n \in 0 .. Ext /\ \A i \in 0 .. n - 1 : i \in Idx
    BY Sizes
  <2>2. Low(Zero.w, n) = Low(Zero.w, 0) /\ Low(Zero.w, 0) = 0
    BY <1>1, <2>1, LowMore, LowIs
  <2> QED
    BY <2>2
<1> QED
  BY <1>1, <1>2

\* After i rows the words stand for the lowest i words of X times Y.
SoFar(X, Y, w, i) == /\ w \in Words /\ \A j \in Idx : j >= i + Y.len => w[j] = 0
                     /\ Low(w, i + Y.len) = Low(X.w, i) * Mag(Y)
LEMMA SchoolIs ==
  ASSUME NEW X \in Big, NEW Y \in Big, X.len + Y.len <= 2 * nib
  PROVE  SoFar(X, Y, SchoolProduct(X, Y, Zero.w), X.len)
<1> DEFINE st == [i \in Idx |-> [w \in [Idx -> Word] |-> AddRow(w, X.w[i], Y.w, 0, Y.len, i)]]
           n == X.len
           k == Y.len
           r == Carried(n, Zero.w, st)
<1>1. /\ X.w \in Words /\ Y.w \in Words /\ n \in Nat /\ k \in Nat /\ 0 \in Nat /\ 0 <= k /\ k \in 0 .. Ext /\ 0 \in 0 .. Ext
      /\ n + k <= 2 * nib /\ n \in 0 .. n
      /\ \A i \in 0 .. n - 1 : i \in Idx /\ i \in Nat /\ i + k \in Idx /\ i \in 0 .. Ext - 1 /\ i + 1 \in 0 .. Ext /\ i \in 0 .. Ext
  BY SMTT(30), BigIs, Sizes
<1>2. Mag(Y) \in Nat /\ Mag(Y) = Low(Y.w, k)
  <2>1. Low(Y.w, k) \in Nat
    BY <1>1, LowIs
  <2> QED
    BY <2>1 DEF Mag
<1>3. ASSUME NEW i \in 0 .. n - 1, NEW w \in Words
      PROVE  /\ st[i][w] \in Words /\ \A j \in Idx : j > i + k => st[i][w][j] = w[j]
             /\ Low(st[i][w], i + k + 1) = Low(w, i + k) + (X.w[i] * BTo[i]) * Mag(Y)
  <2>1. st[i][w] = AddRow(w, X.w[i], Y.w, 0, k, i)
    BY <1>1 DEF Words
  <2>2. X.w[i] \in Word
    BY <1>1 DEF Words
  <2> DEFINE v == AddRow(w, X.w[i], Y.w, 0, k, i)
  <2> HIDE DEF k, n
  <2>3. RowAdds(w, X.w[i], Y.w, 0, k, i, v)
    BY <1>1, <2>2, RowIs
  <2>4. Low(Y.w, 0) = 0
    BY <1>1, LowIs
  <2>5. Mag(Y) - 0 = Mag(Y)
    BY <1>2
  <2> HIDE DEF v, st
  <2>6. st[i][w] = v
    BY <2>1 DEF v
  <2> QED
    BY <1>2, <2>3, <2>4, <2>5, <2>6 DEF RowAdds
<1> HIDE DEF st
<1>4. Inside(n, Words, st)
  BY <1>3 DEF Inside
<1>5. r \in [0 .. n -> Words] /\ CarriesOn(r, n, Zero.w, st)
  <2>1. Zero.w \in Words
    BY ZeroWords
  <2> HIDE DEF n
  <2> QED
    BY <1>1, <1>4, <2>1, CarriedIs
<1>6. SchoolProduct(X, Y, Zero.w) = r[n]
  BY DEF SchoolProduct, st
<1> HIDE DEF r
<1> DEFINE T == {i \in Nat : i <= n => SoFar(X, Y, r[i], i)}
<1>7. 0 \in T
  <2>1. r[0] = Zero.w
    BY <1>5 DEF CarriesOn
  <2>2. 0 + k \in 0 .. Ext /\ Low(X.w, 0) = 0 /\ 0 * Mag(Y) = 0
    BY <1>1, <1>2, LowIs
  <2>3. SoFar(X, Y, Zero.w, 0)
    BY <2>2, ZeroWords DEF SoFar
  <2> QED
    BY <2>1, <2>3
<1>8. ASSUME NEW i \in Nat, i \in T PROVE i + 1 \in T
  <2> SUFFICES ASSUME i + 1 <= n PROVE SoFar(X, Y, r[i+1], i + 1)
    OBVIOUS
  <2>1. i \in 0 .. n - 1 /\ i <= n /\ i \in 0 .. n
    BY <1>1
  <2>2. SoFar(X, Y, r[i], i)
    BY <1>8, <2>1
  <2> DEFINE w == r[i]
             v == r[i+1]
             x == X.w[i]
             l == Low(X.w, i)
             M == Mag(Y)
  <2>3. w \in Words /\ v = st[i][w]
    BY <1>5, <2>1 DEF CarriesOn
  <2> HIDE DEF w, v
  <2>4. v \in Words /\ (\A j \in Idx : j > i + k => v[j] = w[j]) /\ Low(v, i + k + 1) = Low(w, i + k) + (x * BTo[i]) * M
    <3> HIDE DEF n, k
    <3> QED
      BY <1>3, <2>1, <2>3
  <2>5. (\A j \in Idx : j >= i + k => w[j] = 0) /\ Low(w, i + k) = l * M
    BY <2>2 DEF SoFar, w
  <2>6. i + 1 + k = i + k + 1 /\ \A j \in Idx : j >= i + 1 + k => j > i + k /\ j >= i + k
    <3>1. k \in Nat /\ i \in Nat /\ \A j \in Idx : j \in Nat
      BY <1>1, Sizes
    <3> HIDE DEF k
    <3> QED
      BY <3>1
  <2>7. Low(X.w, i + 1) = l + x * BTo[i] /\ l \in Nat /\ x \in Nat /\ BTo[i] \in Nat /\ M \in Nat
    BY <1>1, <1>2, <2>1, At, LowIs
  <2>8. (l + x * BTo[i]) * M = l * M + (x * BTo[i]) * M
    <3>1. x * BTo[i] \in Nat
      BY <2>7
    <3>2. \A f, g, h \in Nat : (f + g) * h = f * h + g * h
      OBVIOUS
    <3> QED
      BY <2>7, <3>1, <3>2
  <2>9. Low(v, i + 1 + k) = Low(X.w, i + 1) * M
    BY <2>4, <2>5, <2>6, <2>7, <2>8
  <2>10. \A j \in Idx : j >= i + 1 + k => v[j] = 0
    BY <2>4, <2>5, <2>6
  <2> HIDE DEF M
  <2>11. SoFar(X, Y, v, i + 1)
    BY <2>4, <2>9, <2>10 DEF SoFar, M
  <2> QED
    BY <2>11 DEF v
<1>9. Nat \subseteq T
  <2> HIDE DEF T
  <2> QED
    BY <1>7, <1>8, SetInduction
<1>10. SoFar(X, Y, r[n], n)
  BY <1>1, <1>9
<1> QED
  BY <1>6, <1>10

\* The squares of the words of X, weighed, one after the other.
Diagonal(X) == Carried(X.len, 0, [i \in Idx |-> [d \in Nat |-> d + (X.w[i] * BTo[i]) * (X.w[i] * BTo[i])]])
LEMMA DiagonalIs ==
  ASSUME NEW X \in Big, X.len \in Idx
  PROVE  /\ Diagonal(X)[0] = 0 /\ \A i \in 0 .. X.len : Diagonal(X)[i] \in Nat
         /\ \A i \in 0 .. X.len - 1 : Diagonal(X)[i+1] = Diagonal(X)[i] + (X.w[i] * BTo[i]) * (X.w[i] * BTo[i])
<1> DEFINE st == [i \in Idx |-> [d \in Nat |-> d + (X.w[i] * BTo[i]) * (X.w[i] * BTo[i])]]
           n == X.len
           c == Carried(n, 0, st)
<1>1. n \in Nat /\ 0 \in Nat /\ X.w \in Words /\ \A i \in 0 .. n - 1 : i \in Idx /\ i \in 0 .. n
  BY BigIs, Sizes
<1>2. ASSUME NEW i \in 0 .. n - 1, NEW d \in Nat
      PROVE  st[i][d] = d + (X.w[i] * BTo[i]) * (X.w[i] * BTo[i]) /\ st[i][d] \in Nat
  <2>1. st[i][d] = d + (X.w[i] * BTo[i]) * (X.w[i] * BTo[i])
    BY <1>1
  <2>2. X.w[i] \in Nat /\ BTo[i] \in Nat
    BY <1>1, At
  <2>3. X.w[i] * BTo[i] \in Nat
    BY <2>2
  <2> DEFINE u == X.w[i] * BTo[i]
  <2> HIDE DEF u
  <2>4. d + u * u \in Nat
    BY <2>3 DEF u
  <2> QED
    BY <2>1, <2>4 DEF u
<1> HIDE DEF st
<1>3. Inside(n, Nat, st)
  BY <1>2 DEF Inside
<1>4. c \in [0 .. n -> Nat] /\ CarriesOn(c, n, 0, st)
  <2> HIDE DEF n
  <2> QED
    BY <1>1, <1>3, CarriedIs
<1>5. Diagonal(X) = c
  BY DEF Diagonal, st
<1> HIDE DEF c
<1>6. \A i \in 0 .. n - 1 : c[i] \in Nat /\ c[i+1] = st[i][c[i]]
  BY <1>1, <1>4 DEF CarriesOn
<1>7. \A i \in 0 .. n - 1 : c[i+1] = c[i] + (X.w[i] * BTo[i]) * (X.w[i] * BTo[i])
  BY <1>2, <1>6
<1> QED
  BY <1>4, <1>5, <1>7 DEF CarriesOn

\* One row of the products of different words brings twice their sum, with the
\* squares, from l times l to the square of l + u.
LEMMA CrossStep ==
  ASSUME NEW u \in Nat, NEW l \in Nat, NEW L \in Nat, NEW e \in Nat, NEW d \in Nat, NEW f,
         2 * e + d + l * l = 2 * (L * l), f = e + u * (L - (l + u))
  PROVE  2 * f + (d + u * u) + (l + u) * (l + u) = 2 * (L * (l + u))
<1> DEFINE ul == u * l
           uu == u * u
           uL == u * L
           ll == l * l
           Ll == L * l
<1>1. ul \in Nat /\ uu \in Nat /\ uL \in Nat /\ ll \in Nat /\ Ll \in Nat
  BY SMT
<1>2. u * (L - (l + u)) = uL - (ul + uu)
  OBVIOUS
<1>3. (l + u) * (l + u) = ll + 2 * ul + uu
  OBVIOUS
<1>4. L * (l + u) = Ll + uL
  OBVIOUS
<1>5. 2 * e + d + ll = 2 * Ll /\ f = e + (uL - (ul + uu))
  BY <1>2
<1> HIDE DEF ul, uL, ll, Ll
<1>6. 2 * f + (d + uu) + (ll + 2 * ul + uu) = 2 * (Ll + uL)
  <2> HIDE DEF uu
  <2> QED
    BY <1>1, <1>5
<1> DEFINE s == (l + u) * (l + u)
           p == L * (l + u)
<1>7. s = ll + 2 * ul + uu /\ p = Ll + uL
  BY <1>3, <1>4
<1> HIDE DEF s, p
<1>8. 2 * f + (d + uu) + s = 2 * p
  BY <1>6, <1>7
<1> QED
  BY <1>8 DEF s, p

\* After i rows: what they add up to, doubled, with the squares of i words.
Half(X, w, d, i) == /\ w \in Words /\ \A j \in Idx : j >= i + X.len => w[j] = 0
                    /\ 2 * Low(w, i + X.len) + d + Low(X.w, i) * Low(X.w, i) = 2 * (Mag(X) * Low(X.w, i))
LEMMA CrossedIs ==
  ASSUME NEW X \in Big, X.len <= nib, X.len # 0
  PROVE  /\ Crossed(X, Zero.w) \in Words /\ \A j \in Idx : j >= 2 * X.len - 1 => Crossed(X, Zero.w)[j] = 0
         /\ 2 * Low(Crossed(X, Zero.w), 2 * X.len - 1) + Diagonal(X)[X.len] = Mag(X) * Mag(X)
<1> DEFINE st == [i \in Idx |-> [w \in [Idx -> Word] |-> AddRow(w, X.w[i], X.w, i + 1, X.len, i)]]
           k == X.len
           n == k - 1
           r == Carried(n, Zero.w, st)
           D == Diagonal(X)
           L == Mag(X)
<1>1. /\ X.w \in Words /\ n \in Nat /\ k \in Nat /\ 0 \in Nat /\ k \in 0 .. Ext /\ 0 \in 0 .. Ext /\ k \in Idx
      /\ k = n + 1 /\ n \in 0 .. n /\ n \in 0 .. k - 1
      /\ \A i \in 0 .. n - 1 : /\ i \in Idx /\ i \in Nat /\ i + 1 \in Nat /\ i + k \in Idx /\ i + 1 <= k
                               /\ i \in 0 .. k - 1
      /\ \A i \in 0 .. k - 1 : i \in 0 .. Ext - 1 /\ i + 1 \in 0 .. Ext /\ i \in 0 .. Ext /\ i + k \in 0 .. Ext /\ i \in Idx /\ i \in 0 .. k
  <2>1. X.w \in Words /\ k \in Nat /\ k # 0 /\ k <= nib
    BY BigIs, Sizes
  <2> HIDE DEF k
  <2>2. n \in Nat /\ k = n + 1 /\ n < nib
    BY <2>1, Sizes
  <2> HIDE DEF n
  <2>3. /\ k \in 0 .. Ext /\ 0 \in 0 .. Ext /\ k \in Idx /\ n \in 0 .. n /\ n \in 0 .. k - 1
    BY <2>1, <2>2, Sizes
  <2>4. ASSUME NEW i \in 0 .. k - 1
        PROVE  i \in 0 .. Ext - 1 /\ i + 1 \in 0 .. Ext /\ i \in 0 .. Ext /\ i + k \in 0 .. Ext /\ i \in Idx /\ i \in 0 .. k
    BY <2>1, <2>2, Sizes
  <2>5. ASSUME NEW i \in 0 .. n - 1
        PROVE  i \in Idx /\ i \in Nat /\ i + 1 \in Nat /\ i + k \in Idx /\ i + 1 <= k /\ i \in 0 .. k - 1
    BY <2>1, <2>2, Sizes
  <2> QED
    BY <2>1, <2>2, <2>3, <2>4, <2>5
<1>2. L \in Nat /\ L = Low(X.w, k)
  <2>1. Low(X.w, k) \in Nat
    BY <1>1, LowIs
  <2> QED
    BY <2>1 DEF Mag
<1>3. ASSUME NEW i \in 0 .. n - 1, NEW w \in Words
      PROVE  /\ st[i][w] \in Words /\ \A j \in Idx : j > i + k => st[i][w][j] = w[j]
             /\ Low(st[i][w], i + k + 1) = Low(w, i + k) + (X.w[i] * BTo[i]) * (L - Low(X.w, i + 1))
  <2>1. st[i][w] = AddRow(w, X.w[i], X.w, i + 1, k, i)
    BY <1>1 DEF Words
  <2>2. X.w[i] \in Word
    BY <1>1 DEF Words
  <2> DEFINE v == AddRow(w, X.w[i], X.w, i + 1, k, i)
  <2> HIDE DEF k, n
  <2>3. RowAdds(w, X.w[i], X.w, i + 1, k, i, v)
    BY <1>1, <2>2, RowIs
  <2> HIDE DEF v, st
  <2>4. st[i][w] = v
    BY <2>1 DEF v
  <2> QED
    BY <1>2, <2>3, <2>4 DEF RowAdds
<1> HIDE DEF st
<1>4. Inside(n, Words, st)
  BY <1>3 DEF Inside
<1>5. r \in [0 .. n -> Words] /\ CarriesOn(r, n, Zero.w, st)
  <2>1. Zero.w \in Words
    BY ZeroWords
  <2> HIDE DEF n
  <2> QED
    BY <1>1, <1>4, <2>1, CarriedIs
<1>6. Crossed(X, Zero.w) = r[n]
  BY DEF Crossed, st
<1> HIDE DEF r
<1>7. /\ D[0] = 0 /\ \A i \in 0 .. k : D[i] \in Nat
      /\ \A i \in 0 .. k - 1 : D[i+1] = D[i] + (X.w[i] * BTo[i]) * (X.w[i] * BTo[i])
  BY <1>1, DiagonalIs
<1> HIDE DEF D, L
\* One word of X more.
<1>8. ASSUME NEW i \in 0 .. k - 1, NEW w, Half(X, w, D[i], i), NEW f,
             f = Low(w, i + k) + (X.w[i] * BTo[i]) * (L - Low(X.w, i + 1))
      PROVE  2 * f + D[i+1] + Low(X.w, i + 1) * Low(X.w, i + 1) = 2 * (L * Low(X.w, i + 1))
  <2> DEFINE u == X.w[i] * BTo[i]
             l == Low(X.w, i)
             e == Low(w, i + k)
             d == D[i]
  <2>1. w \in Words /\ 2 * e + d + l * l = 2 * (L * l)
    BY <1>8 DEF Half, L
  <2>2. l \in Nat /\ e \in Nat /\ d \in Nat
    <3> HIDE DEF k
    <3> QED
      BY <1>1, <1>7, <2>1, LowIs
  <2>3. u \in Nat
    <3>1. X.w[i] \in Nat /\ BTo[i] \in Nat
      BY <1>1, At
    <3> QED
      BY <3>1
  <2>4. Low(X.w, i + 1) = l + u /\ D[i+1] = d + u * u
    BY <1>1, <1>7, LowIs
  <2> HIDE DEF u, l, e, d
  <2>5. f = e + u * (L - (l + u))
    BY <1>8, <2>4 DEF u, e
  <2>6. 2 * f + (d + u * u) + (l + u) * (l + u) = 2 * (L * (l + u))
    BY <1>2, <2>1, <2>2, <2>3, <2>5, CrossStep
  <2> QED
    BY <2>4, <2>6
<1> DEFINE T == {i \in Nat : i <= n => Half(X, r[i], D[i], i)}
<1>9. 0 \in T
  <2>1. r[0] = Zero.w
    BY <1>5 DEF CarriesOn
  <2>2. 0 + k \in 0 .. Ext /\ Low(X.w, 0) = 0 /\ L * 0 = 0
    BY <1>1, <1>2, LowIs
  <2>3. Low(Zero.w, 0 + k) = 0
    BY <2>2, ZeroWords
  <2>4. Half(X, Zero.w, D[0], 0)
    BY <1>7, <2>2, <2>3, ZeroWords DEF Half, L
  <2> QED
    BY <2>1, <2>4
<1>10. ASSUME NEW i \in Nat, i \in T PROVE i + 1 \in T
  <2> SUFFICES ASSUME i + 1 <= n PROVE Half(X, r[i+1], D[i+1], i + 1)
    OBVIOUS
  <2>1. i \in 0 .. n - 1 /\ i <= n /\ i \in 0 .. n /\ i \in 0 .. k - 1
    BY <1>1
  <2>2. Half(X, r[i], D[i], i)
    BY <1>10, <2>1
  <2> DEFINE w == r[i]
             v == r[i+1]
  <2>3. w \in Words /\ v = st[i][w]
    BY <1>5, <2>1 DEF CarriesOn
  <2> HIDE DEF w, v
  <2>4. /\ v \in Words /\ (\A j \in Idx : j > i + k => v[j] = w[j])
        /\ Low(v, i + k + 1) = Low(w, i + k) + (X.w[i] * BTo[i]) * (L - Low(X.w, i + 1))
    <3> HIDE DEF n, k
    <3> QED
      BY <1>3, <2>1, <2>3
  <2>5. \A j \in Idx : j >= i + k => w[j] = 0
    BY <2>2 DEF Half, w
  <2>6. i + 1 + k = i + k + 1 /\ \A j \in Idx : j >= i + 1 + k => j > i + k /\ j >= i + k
    <3>1. k \in Nat /\ i \in Nat /\ \A j \in Idx : j \in Nat
      BY <1>1, Sizes
    <3> HIDE DEF k
    <3> QED
      BY <3>1
  <2>7. \A j \in Idx : j >= i + 1 + k => v[j] = 0
    BY <2>4, <2>5, <2>6
  <2> DEFINE f == Low(v, i + 1 + k)
  <2>8. f = Low(w, i + k) + (X.w[i] * BTo[i]) * (L - Low(X.w, i + 1))
    BY <2>4, <2>6
  <2> HIDE DEF f
  <2>9. 2 * f + D[i+1] + Low(X.w, i + 1) * Low(X.w, i + 1) = 2 * (L * Low(X.w, i + 1))
    <3> HIDE DEF k
    <3> QED
      BY <1>8, <2>1, <2>2, <2>8 DEF w
  <2>10. Half(X, v, D[i+1], i + 1)
    BY <2>4, <2>7, <2>9 DEF Half, f, L
  <2> QED
    BY <2>10 DEF v
<1>11. Nat \subseteq T
  <2> HIDE DEF T
  <2> QED
    BY <1>9, <1>10, SetInduction
<1>12. Half(X, r[n], D[n], n)
  BY <1>1, <1>11
<1> DEFINE w == r[n]
           e == Low(w, n + k)
<1>13. w \in Words /\ e \in Nat /\ \A j \in Idx : j >= n + k => w[j] = 0
  <2>1. w \in Words /\ \A j \in Idx : j >= n + k => w[j] = 0
    BY <1>12 DEF Half
  <2> HIDE DEF w, n, k
  <2> QED
    BY <1>1, <2>1, LowIs
<1> HIDE DEF w, e
<1>14. 2 * e + D[k] + L * L = 2 * (L * L)
  <2>1. n + 1 = k /\ Low(X.w, n + 1) = L
    BY <1>1, <1>2
  <2>2. (X.w[n] * BTo[n]) * (L - L) = 0
    <3>1. X.w[n] \in Nat /\ BTo[n] \in Nat
      <4> HIDE DEF n, k
      <4> QED
        BY <1>1, At
    <3>2. X.w[n] * BTo[n] \in Nat /\ L - L = 0
      BY <1>2, <3>1
    <3> QED
      BY <3>2
  <2>3. e = Low(w, n + k) + (X.w[n] * BTo[n]) * (L - Low(X.w, n + 1))
    BY <1>13, <2>1, <2>2 DEF e
  <2> HIDE DEF n, k
  <2> QED
    BY <1>1, <1>8, <1>12, <2>1, <2>3 DEF w
<1>15. 2 * e + D[k] = L * L
  <2> DEFINE s == L * L
  <2>1. s \in Nat /\ D[k] \in Nat
    BY <1>1, <1>2, <1>7
  <2> HIDE DEF s, k
  <2>2. 2 * e + D[k] + s = 2 * s
    BY <1>14 DEF s
  <2>3. 2 * e + D[k] = s
    BY <1>13, <2>1, <2>2
  <2> QED
    BY <2>3 DEF s
<1>16. n + k = 2 * k - 1
  BY <1>1
<1> QED
  BY <1>6, <1>13, <1>15, <1>16 DEF w, e, D, L

\* mr_padd of a number to itself doubles its words, canonical or not.
Doubled(x, len, v) == /\ v \in Words /\ \A i \in Idx : i > len => v[i] = 0
                      /\ Low(v, len + 1) = 2 * Low(x, len)
LEMMA DoubledIs ==
  ASSUME NEW m \in Memories, NEW r \in Names, CleanTail(m.r[r]), m.r[r].len <= 2 * nib, m.check => m.r[r].len < nib
  PROVE  Doubled(m.r[r].w, m.r[r].len, mr_padd(m, r, r, r).r[r].w)
<1> DEFINE X == m.r[r]
           lz == X.len
           st == [i \in Idx |-> [carry \in 0 .. 1 |->
                   IF i >= lz /\ carry = 0 THEN 0 ELSE NextCarry(SumWord(X, X, i, carry), X.w[i], carry)]]
           c == SumCarries(X, X, lz, lz)
           room == lz < nib \/ ~m.check
           w == SumWords(X, X, X.w, c, lz, lz, room)
           len == IF room THEN lz + 1 ELSE lz
           done == [w |-> w, len |-> IF len > 0 /\ w[len-1] = 0 THEN len - 1 ELSE len, neg |-> FALSE]
<1>1. /\ X \in Big /\ X.w \in Words /\ lz \in Nat /\ lz \in Idx /\ lz \in 0 .. Ext /\ lz + 1 \in Idx /\ lz \in 0 .. Ext - 1
      /\ lz + 1 \in 0 .. Ext /\ (m.check => lz < nib) /\ m.check \in BOOLEAN /\ lz \in 0 .. lz
  BY SMTT(30), MemoryIs, BigIs, Sizes
<1>2. room
  BY <1>1
<1>3. mr_padd(m, r, r, r) = Put(m, r, done)
  <2>1. ~(lz > lz) /\ Most(lz, lz) = lz
    BY <1>1 DEF Most
  <2>2. mr_padd(m, r, r, r) = SumInto(m, r, r, r, lz, lz)
    BY <2>1 DEF mr_padd
  <2>3. SumInto(m, r, r, r, lz, lz) = Put(m, r, done)
    BY <1>2 DEF SumInto
  <2> QED
    BY <2>2, <2>3
<1>4. ASSUME NEW i \in Idx PROVE w[i] = IF i < lz THEN SumWord(X, X, i, c[i])
                                        ELSE IF i = lz /\ c[lz] > 0 THEN c[lz] ELSE X.w[i]
  <2>1. w[i] = IF i < lz \/ (i < lz /\ c[i] > 0) THEN SumWord(X, X, i, c[i])
               ELSE IF i = lz /\ c[lz] > 0 /\ room THEN c[lz] ELSE X.w[i]
    BY DEF SumWords
  <2> HIDE DEF w, c, X, lz
  <2> QED
    BY <1>2, <2>1
<1>5. c = Carried(lz, 0, st)
  BY DEF SumCarries
<1>6. w = [i \in Idx |-> w[i]]
  BY DEF SumWords
<1> HIDE DEF w, c
<1>7. ASSUME NEW i \in 0 .. lz - 1, NEW cy \in 0 .. 1
      PROVE  /\ i \in Idx /\ st[i][cy] \in 0 .. 1 /\ SumWord(X, X, i, cy) \in Word
             /\ SumWord(X, X, i, cy) + B * st[i][cy] = X.w[i] + X.w[i] + cy
  <2>1. i \in Idx /\ ~(i >= lz)
    BY <1>1, Sizes
  <2>2. X.w[i] \in Word
    BY <1>1, <2>1 DEF Words
  <2>3. CarryRight(X.w[i], X.w[i], cy)
    BY <2>2, CarryIs
  <2>4. st[i][cy] = NextCarry(SumWord(X, X, i, cy), X.w[i], cy)
    BY <2>1
  <2> HIDE DEF st, X, lz
  <2> QED
    BY <2>1, <2>3, <2>4 DEF CarryRight, SumWord
<1> HIDE DEF st, X
<1>8. Inside(lz, 0 .. 1, st)
  BY <1>7 DEF Inside
<1>9. c \in [0 .. lz -> 0 .. 1] /\ CarriesOn(c, lz, 0, st)
  <2>1. 0 \in 0 .. 1
    OBVIOUS
  <2> HIDE DEF lz
  <2> QED
    BY <1>1, <1>5, <1>8, <2>1, CarriedIs
<1>10. ASSUME NEW i \in 0 .. lz - 1
       PROVE  /\ c[i] \in Nat /\ c[i+1] \in Nat /\ w[i] \in Word /\ w[i] + B * c[i+1] = X.w[i] + X.w[i] + c[i]
  <2>1. i \in 0 .. lz /\ i + 1 \in 0 .. lz /\ i < lz /\ i \in Idx
    BY <1>1, <1>7
  <2>2. c[i] \in 0 .. 1 /\ c[i+1] \in 0 .. 1 /\ c[i+1] = st[i][c[i]]
    BY <1>9, <2>1 DEF CarriesOn
  <2>3. w[i] = SumWord(X, X, i, c[i])
    BY <1>4, <2>1
  <2> QED
    BY <1>7, <2>1, <2>2, <2>3
<1>11. \A i \in Idx : i >= lz => X.w[i] = 0
  BY DEF CleanTail, X
<1>12. c[lz] \in 0 .. 1 /\ c[0] = 0 /\ w[lz] = c[lz] /\ \A i \in Idx : i > lz => w[i] = 0
  <2>1. c[lz] \in 0 .. 1 /\ c[0] = 0
    BY <1>1, <1>9 DEF CarriesOn
  <2>2. w[lz] = c[lz]
    BY <1>1, <1>4, <1>11, <2>1
  <2>3. ASSUME NEW i \in Idx, i > lz PROVE w[i] = 0
    <3>1. ~(i < lz) /\ i # lz /\ i >= lz
      BY <1>1, <2>3, Sizes
    <3> QED
      BY <1>4, <1>11, <3>1
  <2> QED
    BY <2>1, <2>2, <2>3
<1>13. w \in Words
  <2>1. \A i \in Idx : w[i] \in Word
    <3> TAKE i \in Idx
    <3>1. CASE i < lz
      BY <1>1, <1>10, <3>1, Sizes
    <3>2. CASE i = lz
      BY <1>12, <3>2, Sizes
    <3>3. CASE i > lz
      BY <1>12, <3>3, Sizes
    <3> QED
      BY <1>1, <3>1, <3>2, <3>3, Sizes
  <2> QED
    BY <1>6, <2>1 DEF Words
<1>14. Low(w, lz) + c[lz] * BTo[lz] = Low(X.w, lz) + Low(X.w, lz)
  <2>1. AddsUp(X.w, X.w, w, c, lz)
    BY <1>10, <1>12 DEF AddsUp
  <2> HIDE DEF lz
  <2> QED
    BY <1>1, <1>13, <2>1, LowSum
<1>15. Low(w, lz + 1) = 2 * Low(X.w, lz)
  <2>1. Low(w, lz + 1) = Low(w, lz) + w[lz] * BTo[lz] /\ Low(X.w, lz) \in Nat
    <3> HIDE DEF lz
    <3> QED
      BY <1>1, <1>13, LowIs
  <2> DEFINE a == Low(X.w, lz)
             b == Low(w, lz) + w[lz] * BTo[lz]
  <2>2. b = a + a
    BY <1>12, <1>14
  <2> HIDE DEF a, b
  <2>3. b = 2 * a
    BY <2>1, <2>2 DEF a
  <2> QED
    BY <2>1, <2>3 DEF a, b
<1>16. Put(m, r, done).r[r].w = w
  <2>1. done.w = w /\ done.neg = FALSE /\ done = [w |-> done.w, len |-> done.len, neg |-> done.neg]
    OBVIOUS
  <2>2. done.len \in 0 .. Ext
    <3>1. len = lz + 1
      BY <1>2
    <3>2. done.len = len \/ (done.len = len - 1 /\ len > 0)
      OBVIOUS
    <3> HIDE DEF len, done
    <3> QED
      BY <1>1, <3>1, <3>2
  <2> HIDE DEF done
  <2>3. done \in Big
    BY <1>13, <2>1, <2>2, BigIs
  <2> QED
    BY <2>1, <2>3, PutIs
<1> QED
  BY ZenonT(30), <1>3, <1>12, <1>13, <1>15, <1>16 DEF Doubled, X

\* One square is added over two words, with the carry of the one before.
SquareAdded(d, x, t, v) ==
  /\ v.w \in Words /\ v.c \in 0 .. 1 /\ v = [w |-> v.w, c |-> v.c]
  /\ \A j \in Idx : j # t /\ j # t + 1 => v.w[j] = d.w[j]
  /\ v.w[t] + B * (v.w[t+1] + B * v.c) = x * x + d.c + d.w[t] + B * d.w[t+1]
LEMMA AddSquareIs ==
  ASSUME NEW d, d.w \in Words, d.c \in 0 .. 1, NEW x \in Word, NEW t \in Nat, t + 1 \in Idx
  PROVE  SquareAdded(d, x, t, AddSquare(d, x, t))
<1> DEFINE s == x * x + d.c + d.w[t]
           lo == s % B
           hi == s \div B
           q == d.w[t+1]
           top == (q + hi) % B
           cy == IF top < hi THEN 1 ELSE 0
           w == [d.w EXCEPT ![t] = lo, ![t+1] = top]
<1>1. AddSquare(d, x, t) = [w |-> w, c |-> cy]
  BY DEF AddSquare
<1>2. t \in Idx /\ t # t + 1 /\ d.w[t] \in Word /\ q \in Word /\ d.c \in Word /\ B \in Nat /\ Word \subseteq Nat
  <2>1. t \in Idx
    BY Sizes
  <2> QED
    BY <2>1, Sizes DEF Words
<1>3. Split(s)
  BY <1>2, SplitIs
<1>4. lo \in Word /\ hi \in Word /\ lo + B * hi = s
  BY <1>3 DEF Split
<1> HIDE DEF s, lo, hi, q
<1>5. top \in Word /\ cy \in 0 .. 1 /\ top + B * cy = q + hi
  <2>1. CarryRight(hi, q, 0)
    BY <1>2, <1>4, CarryIs
  <2>2. hi + q + 0 = q + hi
    BY <1>2, <1>4, Sizes
  <2>3. NextCarry(top, hi, 0) = cy
    <3>1. top \in Nat /\ hi \in Nat
      BY <1>2, <1>4, <2>1, <2>2 DEF CarryRight
    <3> HIDE DEF top
    <3> QED
      BY <3>1 DEF NextCarry
  <2> HIDE DEF cy
  <2> QED
    BY <2>1, <2>2, <2>3 DEF CarryRight
<1> HIDE DEF top, cy
<1>6. w \in Words /\ w[t] = lo /\ w[t+1] = top /\ \A j \in Idx : j # t /\ j # t + 1 => w[j] = d.w[j]
  BY <1>2, <1>4, <1>5 DEF Words
<1>7. lo + B * (top + B * cy) = s + B * q
  <2>1. lo \in Nat /\ hi \in Nat /\ q \in Nat
    BY <1>2, <1>4
  <2>2. B * (q + hi) = B * q + B * hi /\ B * q \in Nat /\ B * hi \in Nat
    BY <1>2, <2>1
  <2> DEFINE e == B * q
             f == B * hi
             g == B * (q + hi)
  <2>3. g = e + f /\ lo + f = s /\ e \in Nat /\ f \in Nat
    BY <1>4, <2>2
  <2> HIDE DEF e, f, g
  <2>4. lo + g = s + e
    BY <2>1, <2>3
  <2> QED
    BY <1>5, <2>4 DEF e, g
<1> HIDE DEF w
<1> QED
  BY <1>1, <1>5, <1>6, <1>7 DEF SquareAdded, s, q

\* What one square adds, weighed.
SquareStep(P, b, a0, a1, cy, x, c, d0, d1) ==
  a0 * P + a1 * (b * P) + cy * (b * (b * P)) = (x * x) * P + c * P + d0 * P + d1 * (b * P)
LEMMA SquareStepIs ==
  ASSUME NEW P \in Nat, NEW b \in Nat, NEW a0 \in Nat, NEW a1 \in Nat, NEW cy \in Nat, NEW x \in Nat, NEW c \in Nat,
         NEW d0 \in Nat, NEW d1 \in Nat, a0 + b * (a1 + b * cy) = x * x + c + d0 + b * d1
  PROVE  SquareStep(P, b, a0, a1, cy, x, c, d0, d1)
<1> DEFINE xx == x * x
           e == b * (a1 + b * cy)
           f == b * d1
<1>1. xx \in Nat /\ e \in Nat /\ f \in Nat
  <2>1. \A g, h \in Nat : g * h \in Nat
    OBVIOUS
  <2>2. b * cy \in Nat
    BY <2>1
  <2>3. a1 + b * cy \in Nat
    BY <2>2
  <2> QED
    BY <2>1, <2>3
<1>2. e * P = a1 * (b * P) + cy * (b * (b * P)) /\ f * P = d1 * (b * P)
  OBVIOUS
<1>3. a0 + e = xx + c + d0 + f
  OBVIOUS
<1> HIDE DEF xx, e, f
<1>4. (a0 + e) * P = a0 * P + e * P
  BY <1>1
<1>5. (xx + c + d0 + f) * P = xx * P + c * P + d0 * P + f * P
  BY <1>1
<1> DEFINE p0 == a0 * P
           p1 == a1 * (b * P)
           p2 == cy * (b * (b * P))
           q0 == xx * P
           q1 == c * P
           q2 == d0 * P
           q3 == d1 * (b * P)
<1>6. p0 + (p1 + p2) = q0 + q1 + q2 + q3
  BY <1>2, <1>3, <1>4, <1>5
<1>7. p0 \in Nat /\ p1 \in Nat /\ p2 \in Nat /\ q0 \in Nat /\ q1 \in Nat /\ q2 \in Nat /\ q3 \in Nat
  <2>1. \A g, h \in Nat : g * h \in Nat
    OBVIOUS
  <2> QED
    BY <1>1, <2>1
<1> HIDE DEF p0, p1, p2, q0, q1, q2, q3
<1>8. p0 + p1 + p2 = q0 + q1 + q2 + q3
  BY <1>6, <1>7
<1> QED
  BY <1>8 DEF SquareStep, p0, p1, p2, q0, q1, q2, q3, xx

\* After i squares: the words below 2 * i with their carry hold the sum so far, those
\* above are still the old ones.
Squares == [w : Words, c : 0 .. 1]
SquaredTo(T, D, d, i) == /\ d \in Squares /\ \A j \in Idx : j >= 2 * i => d.w[j] = T[j]
                         /\ Low(d.w, 2 * i) + d.c * BTo[2 * i] = Low(T, 2 * i) + D[i]
LEMMA SquaredStep ==
  ASSUME NEW T \in Words, NEW D, NEW i \in Nat, 2 * i + 2 \in Idx, D[i] \in Nat, NEW d, SquaredTo(T, D, d, i),
         NEW x \in Word, D[i+1] = D[i] + (x * BTo[i]) * (x * BTo[i])
  PROVE  SquaredTo(T, D, AddSquare(d, x, 2 * i), i + 1)
<1> DEFINE t == 2 * i
           v == AddSquare(d, x, t)
           P == BTo[t]
           u == x * BTo[i]
<1>1. /\ t \in Nat /\ t \in Idx /\ t + 1 \in Idx /\ t + 2 \in Idx /\ i \in Idx /\ i + i = t /\ i + i \in Idx /\ t \in 0 .. Ext - 2
      /\ t + 1 \in 0 .. Ext - 2 /\ t \in 0 .. Ext - 1 /\ t + 1 \in 0 .. Ext - 1 /\ t \in 0 .. Ext /\ t + 2 \in 0 .. Ext
      /\ 2 * (i + 1) = t + 2 /\ (t + 1) + 1 = t + 2 /\ x \in Nat /\ t # t + 1 /\ t + 1 >= t
  BY Sizes
<1> HIDE DEF t, v
<1>2. d.w \in Words /\ d.c \in 0 .. 1 /\ \A j \in Idx : j >= t => d.w[j] = T[j]
  BY DEF SquaredTo, Squares, t
<1>3. SquareAdded(d, x, t, v)
  BY <1>1, <1>2, AddSquareIs DEF v
<1>4. d.w[t] = T[t] /\ d.w[t+1] = T[t+1]
  BY <1>1, <1>2
<1>5. v \in Squares
  BY <1>3 DEF SquareAdded, Squares
<1>6. \A j \in Idx : j >= t + 2 => v.w[j] = T[j]
  <2>1. \A j \in Idx : j >= t + 2 => j # t /\ j # t + 1 /\ j >= t
    BY <1>1, Sizes
  <2> QED
    BY <1>2, <1>3, <2>1 DEF SquareAdded
<1>7. v.w[t] + B * (v.w[t+1] + B * v.c) = x * x + d.c + T[t] + B * T[t+1]
  BY <1>3, <1>4 DEF SquareAdded
<1>8. BTo[t+1] = B * P /\ BTo[t+2] = B * (B * P) /\ P = BTo[i] * BTo[i] /\ P \in Nat /\ BTo[i] \in Nat /\ B \in Nat
  <2>1. BTo[t+1] = B * P /\ BTo[(t+1)+1] = B * BTo[t+1]
    BY <1>1, BToIs
  <2>2. BTo[i + i] = BTo[i] * BTo[i]
    BY <1>1, BToAdds
  <2> QED
    BY <1>1, <2>1, <2>2, BToIs, Sizes
<1>9. v.w \in Words /\ v.c \in Nat /\ d.c \in Nat
  BY <1>2, <1>3 DEF SquareAdded
<1>10. v.w[t] \in Nat /\ v.w[t+1] \in Nat /\ T[t] \in Nat /\ T[t+1] \in Nat
  BY <1>1, <1>9, At
<1>11. SquareStep(P, B, v.w[t], v.w[t+1], v.c, x, d.c, T[t], T[t+1])
  <2> DEFINE a0 == v.w[t]
             a1 == v.w[t+1]
             cy == v.c
             dc == d.c
             d0 == T[t]
             d1 == T[t+1]
  <2>1. a0 + B * (a1 + B * cy) = x * x + dc + d0 + B * d1
    BY <1>7
  <2>2. a0 \in Nat /\ a1 \in Nat /\ cy \in Nat /\ dc \in Nat /\ d0 \in Nat /\ d1 \in Nat
    BY <1>9, <1>10
  <2> HIDE DEF a0, a1, cy, dc, d0, d1, P
  <2>3. SquareStep(P, B, a0, a1, cy, x, dc, d0, d1)
    BY <1>1, <1>8, <2>1, <2>2, SquareStepIs
  <2> QED
    BY <2>3 DEF a0, a1, cy, dc, d0, d1
<1>12. u * u = (x * x) * P
  <2>1. \A f, g \in Nat : (f * g) * (f * g) = (f * f) * (g * g)
    OBVIOUS
  <2> QED
    BY <1>1, <1>8, <2>1
<1>13. /\ Low(v.w, t + 2) = Low(v.w, t) + v.w[t] * P + v.w[t+1] * (B * P)
       /\ Low(T, t + 2) = Low(T, t) + T[t] * P + T[t+1] * (B * P)
  <2>1. /\ Low(v.w, t + 1) = Low(v.w, t) + v.w[t] * P /\ Low(T, t + 1) = Low(T, t) + T[t] * P
        /\ Low(v.w, (t+1) + 1) = Low(v.w, t + 1) + v.w[t+1] * BTo[t+1]
        /\ Low(T, (t+1) + 1) = Low(T, t + 1) + T[t+1] * BTo[t+1]
    <3> DEFINE t1 == t + 1
    <3>1. t1 \in 0 .. Ext - 1
      BY <1>1
    <3> HIDE DEF t1
    <3>2. Low(v.w, t1 + 1) = Low(v.w, t1) + v.w[t1] * BTo[t1] /\ Low(T, t1 + 1) = Low(T, t1) + T[t1] * BTo[t1]
      BY <1>9, <3>1, LowIs
    <3>3. Low(v.w, t + 1) = Low(v.w, t) + v.w[t] * P /\ Low(T, t + 1) = Low(T, t) + T[t] * P
      BY <1>1, <1>9, LowIs
    <3> QED
      BY <3>2, <3>3 DEF t1
  <2> QED
    BY <1>1, <1>8, <2>1
<1>14. Low(v.w, t) = Low(d.w, t) /\ Low(v.w, t) \in Nat /\ Low(T, t) \in Nat
  <2>1. \A j \in 0 .. t - 1 : v.w[j] = d.w[j]
    <3> TAKE j \in 0 .. t - 1
    <3>1. j \in Idx /\ j # t /\ j # t + 1
      BY <1>1, Sizes
    <3> QED
      BY <1>3, <3>1 DEF SquareAdded
  <2> QED
    BY <1>1, <1>2, <1>9, <2>1, LowSame, LowIs
<1>15. Low(d.w, t) + d.c * P = Low(T, t) + D[i]
  BY DEF SquaredTo, t
<1>16. Low(v.w, t + 2) + v.c * BTo[t+2] = Low(T, t + 2) + D[i+1]
  <2> DEFINE l == Low(v.w, t)
             lt == Low(T, t)
             a0 == v.w[t] * P
             a1 == v.w[t+1] * (B * P)
             a2 == v.c * (B * (B * P))
             q0 == u * u
             q1 == d.c * P
             q2 == T[t] * P
             q3 == T[t+1] * (B * P)
             e == D[i]
  <2>1. a0 + a1 + a2 = q0 + q1 + q2 + q3
    BY <1>11, <1>12 DEF SquareStep
  <2>2. l + q1 = lt + e
    BY <1>14, <1>15
  <2>3. /\ l \in Nat /\ lt \in Nat /\ a0 \in Nat /\ a1 \in Nat /\ a2 \in Nat /\ q1 \in Nat /\ q2 \in Nat /\ q3 \in Nat
        /\ q0 \in Nat /\ e \in Nat
    <3>1. \A f, g \in Nat : f * g \in Nat
      OBVIOUS
    <3>2. u \in Nat /\ B * P \in Nat
      BY <1>1, <1>8, <3>1
    <3>3. B * (B * P) \in Nat
      BY <1>8, <3>1, <3>2
    <3> HIDE DEF u
    <3> QED
      BY <1>8, <1>9, <1>10, <1>14, <3>1, <3>2, <3>3
  <2> HIDE DEF l, lt, a0, a1, a2, q0, q1, q2, q3, e
  <2>4. (l + a0 + a1) + a2 = (lt + q2 + q3) + (e + q0)
    BY <2>1, <2>2, <2>3
  <2> QED
    BY <1>8, <1>13, <2>4 DEF l, lt, a0, a1, a2, q0, q2, q3, e
<1> QED
  BY <1>1, <1>5, <1>6, <1>16 DEF SquaredTo, v, t

LEMMA SquareBelow ==
  ASSUME NEW a \in Nat, NEW b \in Nat, a < b
  PROVE  a * a < b * b
<1>1. PICK e \in Nat : b = a + e /\ e > 0
  <2>1. b - a \in Nat /\ b = a + (b - a) /\ b - a > 0
    OBVIOUS
  <2> QED
    BY <2>1
<1>2. (a + e) * (a + e) = a * a + (2 * (a * e) + e * e) /\ a * e \in Nat /\ e * e \in Nat /\ a * a \in Nat
  OBVIOUS
<1>3. e * e > 0
  <2>1. PICK f \in Nat : e = f + 1
    <3>1. e - 1 \in Nat /\ e = (e - 1) + 1
      BY <1>1
    <3> QED
      BY <3>1
  <2>2. (f + 1) * (f + 1) = f * f + 2 * f + 1 /\ f * f \in Nat
    OBVIOUS
  <2> QED
    BY <2>1, <2>2
<1> DEFINE p == a * a
           q == 2 * (a * e) + e * e
           s == (a + e) * (a + e)
<1>4. s = p + q /\ p \in Nat /\ q \in Nat /\ q > 0
  BY <1>2, <1>3
<1> HIDE DEF p, q, s
<1>5. s > p
  BY <1>4
<1> QED
  BY <1>1, <1>5 DEF p, s

\* With the doubled products of different words below it, the diagonal makes the square.
LEMMA SquaredIs ==
  ASSUME NEW X \in Big, X.len <= nib, NEW T \in Words, Low(T, 2 * X.len) + Diagonal(X)[X.len] = Mag(X) * Mag(X)
  PROVE  /\ Squared(X, T) \in Words /\ \A j \in Idx : j >= 2 * X.len => Squared(X, T)[j] = T[j]
         /\ Low(Squared(X, T), 2 * X.len) = Mag(X) * Mag(X)
<1> DEFINE st == [i \in Idx |-> [d \in [w : [Idx -> Word], c : 0 .. 1] |-> AddSquare(d, X.w[i], 2 * i)]]
           n == X.len
           s == [w |-> T, c |-> 0]
           r == Carried(n, s, st)
           D == Diagonal(X)
           M == Mag(X)
<1>1. /\ X.w \in Words /\ n \in Nat /\ n \in Idx /\ n \in 0 .. n /\ 2 * n \in Idx /\ n + n = 2 * n /\ 2 * n \in 0 .. Ext
      /\ \A i \in 0 .. n - 1 : i \in Idx /\ i \in Nat /\ 2 * i + 2 \in Idx /\ i \in 0 .. n
  <2>1. X.w \in Words /\ n \in Nat /\ n <= nib
    BY BigIs, Sizes
  <2> HIDE DEF n
  <2> QED
    BY <2>1, Sizes
<1>2. s \in Squares
  BY DEF Squares
<1>3. /\ D[0] = 0 /\ \A i \in 0 .. n : D[i] \in Nat
      /\ \A i \in 0 .. n - 1 : D[i+1] = D[i] + (X.w[i] * BTo[i]) * (X.w[i] * BTo[i])
  BY <1>1, DiagonalIs
<1>4. ASSUME NEW i \in 0 .. n - 1, NEW d \in Squares
      PROVE  st[i][d] = AddSquare(d, X.w[i], 2 * i) /\ st[i][d] \in Squares
  <2>1. st[i][d] = AddSquare(d, X.w[i], 2 * i)
    BY <1>1 DEF Squares, Words
  <2>20. i \in Idx
    BY <1>1
  <2>21. X.w[i] \in Word
    BY <1>1, <2>20 DEF Words
  <2>22. d.w \in Words /\ d.c \in 0 .. 1
    BY DEF Squares
  <2>23. 2 * i \in Nat /\ 2 * i + 1 \in Idx
    BY <1>1, Sizes
  <2>2. X.w[i] \in Word /\ 2 * i \in Nat /\ 2 * i + 1 \in Idx /\ d.w \in Words /\ d.c \in 0 .. 1
    BY <2>21, <2>22, <2>23
  <2> DEFINE t == 2 * i
             v == AddSquare(d, X.w[i], t)
  <2> HIDE DEF t, v
  <2>3. SquareAdded(d, X.w[i], t, v)
    BY <2>2, AddSquareIs DEF t, v
  <2>4. v \in Squares
    BY <2>3 DEF SquareAdded, Squares
  <2> HIDE DEF st
  <2> QED
    BY <2>1, <2>4 DEF v, t
<1> HIDE DEF st, s
<1>5. Inside(n, Squares, st)
  BY <1>4 DEF Inside
<1>6. r \in [0 .. n -> Squares] /\ CarriesOn(r, n, s, st)
  <2> HIDE DEF n
  <2> QED
    BY <1>1, <1>2, <1>5, CarriedIs
<1>7. Squared(X, T) = r[n].w
  BY DEF Squared, st, s
<1> HIDE DEF r, D, M
<1> DEFINE U == {i \in Nat : i <= n => SquaredTo(T, D, r[i], i)}
<1>8. 0 \in U
  <2>1. r[0] = s /\ s.w = T /\ s.c = 0
    BY <1>6 DEF CarriesOn, s
  <2>2. 2 * 0 = 0 /\ Low(T, 0) = 0 /\ BTo[0] = 1 /\ 0 * BTo[0] = 0
    BY LowIs, BToIs
  <2>3. SquaredTo(T, D, s, 0)
    BY <1>2, <1>3, <2>1, <2>2 DEF SquaredTo
  <2> QED
    BY <2>1, <2>3
<1>9. ASSUME NEW i \in Nat, i \in U PROVE i + 1 \in U
  <2> SUFFICES ASSUME i + 1 <= n PROVE SquaredTo(T, D, r[i+1], i + 1)
    OBVIOUS
  <2>1. i \in 0 .. n - 1 /\ i <= n /\ i \in 0 .. n
    BY <1>1
  <2>2. SquaredTo(T, D, r[i], i)
    BY <1>9, <2>1
  <2>3. r[i] \in Squares /\ r[i+1] = st[i][r[i]]
    BY <1>6, <2>1 DEF CarriesOn
  <2> DEFINE d == r[i]
             v == r[i+1]
             x == X.w[i]
  <2>4. v = AddSquare(d, x, 2 * i) /\ x \in Word
    BY <1>1, <1>4, <2>1, <2>3 DEF Words
  <2>5. D[i] \in Nat /\ D[i+1] = D[i] + (x * BTo[i]) * (x * BTo[i]) /\ 2 * i + 2 \in Idx
    BY <1>1, <1>3, <2>1
  <2> HIDE DEF d, v, x
  <2>6. SquaredTo(T, D, d, i)
    BY <2>2 DEF d
  <2>7. SquaredTo(T, D, v, i + 1)
    BY <2>4, <2>5, <2>6, SquaredStep
  <2> QED
    BY <2>7 DEF v
<1>10. Nat \subseteq U
  <2> HIDE DEF U
  <2> QED
    BY <1>8, <1>9, SetInduction
<1>11. SquaredTo(T, D, r[n], n)
  BY <1>1, <1>10
<1> DEFINE v == r[n].w
           c == r[n].c
           P == BTo[2 * n]
           l == Low(v, 2 * n)
           q == M * M
<1>12. v \in Words /\ c \in 0 .. 1 /\ (\A j \in Idx : j >= 2 * n => v[j] = T[j]) /\ l + c * P = Low(T, 2 * n) + D[n]
  BY <1>11 DEF SquaredTo, Squares
<1>13. l + c * P = q
  BY <1>12 DEF D, M
<1>14. M \in Nat /\ M < BTo[n] /\ BTo[n] \in Nat
  BY <1>1, LowBelow, BToIs DEF Mag, M
<1>15. q < P /\ q \in Nat /\ P \in Nat
  <2>1. BTo[n + n] = BTo[n] * BTo[n]
    <3> HIDE DEF n
    <3> QED
      BY <1>1, BToAdds
  <2>2. q < BTo[n] * BTo[n]
    BY <1>14, SquareBelow
  <2>3. q \in Nat
    BY <1>14
  <2> HIDE DEF q
  <2> QED
    BY <1>1, <2>1, <2>2, <2>3, BToIs
<1>16. l \in Nat
  <2> HIDE DEF v, n
  <2> QED
    BY <1>1, <1>12, LowIs
<1> HIDE DEF v, c, P, l, q
<1>17. c = 0
  <2> SUFFICES ASSUME c = 1 PROVE FALSE
    BY <1>12
  <2>1. 1 * P = P
    BY <1>15
  <2> QED
    BY <1>13, <1>15, <1>16, <2>1
<1>18. l = q
  <2>1. 0 * P = 0
    BY <1>15
  <2> QED
    BY <1>13, <1>15, <1>16, <1>17, <2>1
<1> QED
  BY <1>7, <1>12, <1>18 DEF v, l, q, M

\* The square of a number is what its own algorithm makes of clear words.
LEMMA SquareIs ==
  ASSUME NEW m \in Memories, NEW r \in Names, m.r[r] = Zero, NEW X \in Big, X.len # 0, X.len <= nib,
         m.check => X.len + X.len <= nib
  PROVE  SoFar(X, X, SquareProduct(m, X, r), X.len)
<1> DEFINE n == X.len
           w == Crossed(X, Zero.w)
           b == [w |-> w, len |-> 2 * n - 1, neg |-> FALSE]
           p == Put(m, r, b)
           T == mr_padd(p, r, r, r).r[r].w
<1>1. SquareProduct(m, X, r) = Squared(X, T)
  BY DEF SquareProduct
<1>2. w \in Words /\ (\A j \in Idx : j >= 2 * n - 1 => w[j] = 0) /\ 2 * Low(w, 2 * n - 1) + Diagonal(X)[n] = Mag(X) * Mag(X)
  BY CrossedIs
<1>3. n \in Nat /\ n # 0 /\ n <= nib /\ (m.check => n + n <= nib)
  BY BigIs, Sizes
<1> HIDE DEF w, n
<1>4. 2 * n - 1 \in 0 .. Ext /\ 2 * n - 1 <= 2 * nib /\ (2 * n - 1) + 1 = 2 * n /\ (m.check => 2 * n - 1 < nib) /\ n + n = 2 * n
  BY <1>3, Sizes
<1>5. b.w = w /\ b.len = 2 * n - 1 /\ b \in Big
  BY <1>2, <1>4 DEF Big, Words
<1>6. CleanTail(b)
  BY <1>2, <1>5 DEF CleanTail
<1> HIDE DEF b
<1>7. p \in Memories /\ p.r[r] = b /\ p.check = m.check
  BY <1>5, PutIs DEF Changed, Others
<1> HIDE DEF p
<1>8. Doubled(w, 2 * n - 1, T)
  BY <1>4, <1>5, <1>6, <1>7, DoubledIs
<1>9. T \in Words /\ (\A i \in Idx : i > 2 * n - 1 => T[i] = 0) /\ Low(T, 2 * n) = 2 * Low(w, 2 * n - 1)
  BY <1>4, <1>8 DEF Doubled
<1> HIDE DEF T
<1>10. /\ Squared(X, T) \in Words /\ (\A j \in Idx : j >= 2 * n => Squared(X, T)[j] = T[j])
       /\ Low(Squared(X, T), 2 * n) = Mag(X) * Mag(X)
  BY <1>2, <1>3, <1>9, SquaredIs DEF n
<1>11. \A j \in Idx : j >= n + n => Squared(X, T)[j] = 0
  <2>1. \A j \in Idx : j >= n + n => j >= 2 * n /\ j > 2 * n - 1
    BY <1>3, Sizes
  <2> QED
    BY <1>9, <1>10, <2>1
<1>12. Low(Squared(X, T), n + n) = Low(X.w, n) * Mag(X)
  BY <1>4, <1>10 DEF Mag, n
<1> QED
  BY <1>1, <1>10, <1>11, <1>12 DEF SoFar, n

-----------------------------------------------------------------------------
(* Numbers multiplied.                                                        *)

\* More words than a number has room for mean a product that is nearly too large.
LEMMA ProductSized ==
  ASSUME NEW X, Good(X), X.len # 0, NEW Y, Good(Y), Y.len # 0, X.len <= nib, Y.len <= nib, X.len + Y.len > nib
  PROVE  Mag(X) * Mag(Y) >= BTo[nib - 1]
<1> DEFINE i == X.len - 1
           j == Y.len - 1
<1>1. X.w \in Words /\ Y.w \in Words /\ X.len \in Nat /\ Y.len \in Nat /\ X.w[i] # 0 /\ Y.w[j] # 0
  BY BigIs, Sizes DEF Good, Canonical
<1>2. /\ i \in 0 .. Ext - 1 /\ j \in 0 .. Ext - 1 /\ i \in Idx /\ j \in Idx /\ i + j \in Idx
      /\ nib - 1 \in Idx /\ i + j \in nib - 1 .. Ext - 1 /\ i + 1 = X.len /\ j + 1 = Y.len
  <2>1. i \in Nat /\ j \in Nat /\ i < nib /\ j < nib /\ i + j >= nib - 1 /\ i + 1 = X.len /\ j + 1 = Y.len
    BY SMTT(30), <1>1, Sizes
  <2> HIDE DEF i, j
  <2> QED
    BY <2>1, Sizes
<1> HIDE DEF i, j
<1>3. BTo[i] <= Mag(X) /\ BTo[j] <= Mag(Y)
  BY <1>1, <1>2, LowTop DEF Mag
<1>4. BTo[i] \in Nat /\ BTo[j] \in Nat /\ BTo[nib - 1] \in Nat /\ Mag(X) \in Nat /\ Mag(Y) \in Nat
  BY <1>2, BToIs, SignedValue
<1>5. BTo[i + j] = BTo[i] * BTo[j] /\ BTo[nib - 1] <= BTo[i + j] /\ BTo[i + j] \in Nat
  BY <1>2, BToAdds, BToGrows, BToIs
<1>6. ASSUME NEW a \in Nat, NEW b \in Nat, NEW p \in Nat, NEW q \in Nat, a <= p, b <= q
      PROVE  a * b <= p * q /\ p * q \in Nat
  <2>1. a * b <= p * b
    BY <1>6
  <2>2. p * b <= p * q
    BY <1>6
  <2>3. a * b \in Nat /\ p * b \in Nat /\ p * q \in Nat
    OBVIOUS
  <2> QED
    BY <2>1, <2>2, <2>3
<1>7. BTo[i] * BTo[j] <= Mag(X) * Mag(Y) /\ Mag(X) * Mag(Y) \in Nat
  BY <1>3, <1>4, <1>6
<1> DEFINE p == Mag(X) * Mag(Y)
           q == BTo[i] * BTo[j]
<1>8. p \in Nat /\ q <= p /\ BTo[i + j] = q
  BY <1>5, <1>7
<1> HIDE DEF p, q
<1>9. p >= BTo[nib - 1]
  BY <1>4, <1>5, <1>8
<1> QED
  BY <1>9 DEF p

\* The sign of a product.
LEMMA SignedProduct ==
  ASSUME NEW X, Good(X), NEW Y, Good(Y)
  PROVE  /\ Mag(X) * Mag(Y) \in Nat /\ Integer!Mag(Value(X) * Value(Y)) = Mag(X) * Mag(Y)
         /\ Value(X) * Value(Y) = IF X.neg # Y.neg THEN -(Mag(X) * Mag(Y)) ELSE Mag(X) * Mag(Y)
<1>1. X.neg \in BOOLEAN /\ Y.neg \in BOOLEAN
  BY BigIs DEF Good
<1>2. ASSUME NEW a \in Nat, NEW b \in Nat
      PROVE  a * b \in Nat /\ (-a) * b = -(a * b) /\ a * (-b) = -(a * b) /\ (-a) * (-b) = a * b
  OBVIOUS
<1> DEFINE p == Mag(X) * Mag(Y)
           v == Value(X) * Value(Y)
<1>3. p \in Nat
  BY <1>2, SignedValue
<1>4. v = IF X.neg # Y.neg THEN -p ELSE p
  <2>1. CASE X.neg /\ Y.neg
    <3>1. Value(X) = -Mag(X) /\ Value(Y) = -Mag(Y) /\ Mag(X) \in Nat /\ Mag(Y) \in Nat
      BY <2>1, SignedValue
    <3>2. v = (-Mag(X)) * (-Mag(Y))
      BY <3>1
    <3>3. (-Mag(X)) * (-Mag(Y)) = p
      BY <1>2, <3>1
    <3> HIDE DEF p, v
    <3> QED
      BY <1>1, <2>1, <3>2, <3>3
  <2>2. CASE X.neg /\ ~Y.neg
    <3>1. Value(X) = -Mag(X) /\ Value(Y) = Mag(Y) /\ Mag(X) \in Nat /\ Mag(Y) \in Nat
      BY <2>2, SignedValue
    <3>2. v = (-Mag(X)) * Mag(Y)
      BY <3>1
    <3>3. (-Mag(X)) * Mag(Y) = -p
      BY <1>2, <3>1
    <3> HIDE DEF p, v
    <3> QED
      BY <2>2, <3>2, <3>3
  <2>3. CASE ~X.neg /\ Y.neg
    <3>1. Value(X) = Mag(X) /\ Value(Y) = -Mag(Y) /\ Mag(X) \in Nat /\ Mag(Y) \in Nat
      BY <2>3, SignedValue
    <3>2. v = Mag(X) * (-Mag(Y))
      BY <3>1
    <3>3. Mag(X) * (-Mag(Y)) = -p
      BY <1>2, <3>1
    <3> HIDE DEF p, v
    <3> QED
      BY <2>3, <3>2, <3>3
  <2>4. CASE ~X.neg /\ ~Y.neg
    <3>1. Value(X) = Mag(X) /\ Value(Y) = Mag(Y) /\ Mag(X) \in Nat /\ Mag(Y) \in Nat
      BY <2>4, SignedValue
    <3>2. v = Mag(X) * Mag(Y)
      BY <3>1
    <3>3. Mag(X) * Mag(Y) = p
      BY <1>2, <3>1
    <3> HIDE DEF p, v
    <3> QED
      BY <1>1, <2>4, <3>2, <3>3
  <2> HIDE DEF p, v
  <2>5. (X.neg /\ Y.neg) \/ (X.neg /\ ~Y.neg) \/ (~X.neg /\ Y.neg) \/ (~X.neg /\ ~Y.neg)
    BY <1>1
  <2> QED
    BY <2>1, <2>2, <2>3, <2>4, <2>5, Zenon
<1> HIDE DEF p, v
<1>5. (v < 0 => v = -p) /\ (~(v < 0) => v = p)
  BY <1>3, <1>4
<1>6. Integer!Mag(v) = p
  BY <1>3, <1>4, <1>5 DEF Integer!Mag
<1> QED
  BY <1>3, <1>4, <1>6 DEF p, v

\* The words of a product, by whichever algorithm, in the kept form.
LEMMA WordsMultiply ==
  ASSUME NEW X, Good(X), NEW Y, Good(Y), X.len + Y.len <= nib, NEW w, SoFar(X, Y, w, X.len), NEW s \in BOOLEAN
  PROVE  LET p == mr_lzero([w |-> w, len |-> X.len + Y.len, neg |-> s])
         IN  Good(p) /\ p.len <= nib /\ Mag(p) = Mag(X) * Mag(Y) /\ Value(p) = IF s THEN -Mag(p) ELSE Mag(p)
<1> DEFINE n == X.len + Y.len
           b == [w |-> w, len |-> n, neg |-> s]
           p == mr_lzero(b)
<1>1. X.len \in Nat /\ Y.len \in Nat /\ n \in Nat /\ n <= nib
  BY SMTT(30), BigIs, Sizes DEF Good
<1>2. w \in Words /\ (\A j \in Idx : j >= n => w[j] = 0) /\ Low(w, n) = Mag(X) * Mag(Y)
  BY DEF SoFar, Mag
<1> HIDE DEF n
<1>3. n \in 0 .. Ext
  BY <1>1, Sizes
<1>4. b.w = w /\ b.len = n /\ b.neg = s /\ b \in Big
  BY <1>2, <1>3 DEF Big, Words
<1>5. CleanTail(b)
  BY <1>2, <1>4 DEF CleanTail
<1>6. Value(b) = IF s THEN -(Mag(X) * Mag(Y)) ELSE Mag(X) * Mag(Y)
  BY <1>2, <1>4 DEF Value
<1> HIDE DEF b
<1>7. Good(p) /\ Value(p) = Value(b) /\ p.w = b.w /\ p.len <= b.len
  BY <1>4, <1>5, LzeroIs
<1>8. p.len \in 0 .. Ext /\ p.len \in Nat /\ p.len <= n
  BY <1>4, <1>7, BigIs, Sizes DEF Good
<1>9. p.len <= nib
  BY <1>1, <1>8, Sizes
<1>10. Mag(p) = Mag(X) * Mag(Y)
  <2>1. p \in Big /\ CleanTail(p) /\ n \in p.len .. Ext /\ p.w = w
    BY <1>3, <1>4, <1>7, <1>8 DEF Good
  <2>2. Low(w, n) = Low(w, p.len)
    BY <2>1, LowWhole
  <2> QED
    BY <1>2, <2>1, <2>2 DEF Mag
<1> QED
  BY <1>6, <1>7, <1>9, <1>10 DEF b, n

\* The product in z, w0 used for it; or too many words, and an error.
Product(m, n, x, y, z) ==
  LET X == m.r[x]  Y == m.r[y]
  IN  /\ n \in Memories /\ n.check = m.check
      /\ \A k \in Names : k \notin {"w0", z} => n.r[k] = m.r[k]
      /\ \/ /\ n.ERNUM = 0 /\ Good(n.r[z]) /\ Value(n.r[z]) = Value(X) * Value(Y) /\ n.r[z].len <= nib
         \/ n.ERNUM = ERR_OVERFLOW /\ Integer!Mag(Value(X) * Value(Y)) >= BTo[nib - 1]
LEMMA MultiplyIs ==
  ASSUME NEW m \in Memories, m.ERNUM = 0, m.check, NEW x \in Names, NEW y \in Names, NEW z \in Names, "w0" \in Names,
         z \notin {"w0", "w5"}, Good(m.r[x]), Good(m.r[y]), m.r[x].len <= nib, m.r[y].len <= nib,
         CleanTail(m.r[z]), CleanTail(m.r["w0"])
  PROVE  Product(m, multiply(m, x, y, z), x, y, z)
<1> DEFINE X == m.r[x]
           Y == m.r[y]
           c0 == zero(m, "w0")
           w == IF x = y /\ X.len > SqrFaster THEN SquareProduct(c0, X, "w0") ELSE SchoolProduct(X, Y, c0.r["w0"].w)
           s == X.neg # Y.neg
           p == mr_lzero([w |-> w, len |-> X.len + Y.len, neg |-> s])
           t == multiply(m, x, y, z)
           v == Value(X) * Value(Y)
<1>1. t = IF X.len = 0 \/ Y.len = 0 THEN zero(m, z)
          ELSE IF X.len + Y.len > nib THEN mr_berror(c0, ERR_OVERFLOW)
          ELSE copy(Put(c0, "w0", p), "w0", z)
  BY DEF multiply
<1>2. /\ X \in Big /\ Y \in Big /\ X.len \in Nat /\ Y.len \in Nat /\ X.neg \in BOOLEAN /\ Y.neg \in BOOLEAN
  BY SMTT(30), BigIs, Sizes DEF Good
<1>3. /\ Mag(X) * Mag(Y) \in Nat /\ Integer!Mag(v) = Mag(X) * Mag(Y)
      /\ v = IF s THEN -(Mag(X) * Mag(Y)) ELSE Mag(X) * Mag(Y)
  BY SignedProduct
<1>0. s \in BOOLEAN
  OBVIOUS
<1> HIDE DEF s
<1>4. Changed(m, c0, "w0") /\ c0.r["w0"] = Zero
  BY ZeroIs
<1>5. c0 \in Memories /\ c0.check = m.check /\ c0.ERNUM = 0 /\ \A k \in Names : k # "w0" => c0.r[k] = m.r[k]
  BY <1>4 DEF Changed, Others
<1> HIDE DEF c0
<1>6. CASE X.len = 0 \/ Y.len = 0
  <2>1. Changed(m, t, z) /\ t.r[z] = Zero
    BY <1>1, <1>6, ZeroIs
  <2>2. v = 0
    <3>1. Mag(X) = 0 \/ Mag(Y) = 0
      <4>1. X.len = 0 => Mag(X) = 0
        BY <1>2, BigIs, LowIs DEF Mag
      <4>2. Y.len = 0 => Mag(Y) = 0
        BY <1>2, BigIs, LowIs DEF Mag
      <4> QED
        BY <1>6, <4>1, <4>2
    <3>2. Value(X) = 0 \/ Value(Y) = 0
      BY <3>1, SignedValue
    <3>3. Value(X) \in Int /\ Value(Y) \in Int
      BY SignedValue
    <3> QED
      BY <3>2, <3>3
  <2>3. Good(t.r[z]) /\ Value(t.r[z]) = 0 /\ t.r[z].len = 0 /\ 0 <= nib
    BY <2>1, ZeroGood, Sizes
  <2> HIDE DEF t, v
  <2> QED
    BY <2>1, <2>2, <2>3 DEF Changed, Others, Product, t, v
<1>7. CASE X.len # 0 /\ Y.len # 0 /\ X.len + Y.len > nib
  <2>1. t = mr_berror(c0, ERR_OVERFLOW)
    BY <1>1, <1>7
  <2>2. t \in Memories /\ t.ERNUM = ERR_OVERFLOW /\ t.r = c0.r /\ t.check = c0.check
    <3>1. ERR_OVERFLOW \in Int
      BY DEF ERR_OVERFLOW
    <3> HIDE DEF t
    <3> QED
      BY <1>5, <2>1, <3>1, ErrorIs DEF mr_berror, Memories
  <2>3. Mag(X) * Mag(Y) >= BTo[nib - 1]
    BY <1>7, ProductSized
  <2> HIDE DEF t, v
  <2> QED
    BY <1>3, <1>5, <2>2, <2>3 DEF Product, t, v
<1>8. CASE X.len # 0 /\ Y.len # 0 /\ X.len + Y.len <= nib
  <2>1. t = copy(Put(c0, "w0", p), "w0", z)
    BY <1>1, <1>2, <1>8, Sizes
  <2>2. SoFar(X, Y, w, X.len)
    <3>1. CASE x = y /\ X.len > SqrFaster
      <4>1. X.len + X.len <= nib /\ X.len <= nib /\ X = Y
        BY <1>8, <3>1
      <4>2. SoFar(X, X, SquareProduct(c0, X, "w0"), X.len)
        BY <1>2, <1>4, <1>5, <1>8, <4>1, SquareIs
      <4> QED
        BY <3>1, <4>1, <4>2
    <3>2. CASE ~(x = y /\ X.len > SqrFaster)
      <4>1. X.len + Y.len <= 2 * nib
        BY <1>2, <1>8, Sizes
      <4>2. SoFar(X, Y, SchoolProduct(X, Y, Zero.w), X.len)
        BY <1>2, <4>1, SchoolIs
      <4> QED
        BY <1>4, <3>2, <4>2
    <3> QED
      BY <3>1, <3>2
  <2> HIDE DEF w
  <2>3. Good(p) /\ p.len <= nib /\ Mag(p) = Mag(X) * Mag(Y) /\ Value(p) = IF s THEN -Mag(p) ELSE Mag(p)
    BY <1>2, <1>8, <1>0, <2>2, WordsMultiply
  <2> HIDE DEF p, t
  <2>4. Value(p) = v
    BY <1>3, <2>3
  <2> DEFINE u == Put(c0, "w0", p)
  <2>5. Changed(c0, u, "w0") /\ u.r["w0"] = p
    BY <1>5, <2>3, PutIs DEF Good
  <2>6. u \in Memories /\ u.check = m.check /\ u.ERNUM = 0 /\ \A k \in Names : k # "w0" => u.r[k] = m.r[k]
    BY <1>5, <2>5 DEF Changed, Others
  <2> HIDE DEF u
  <2>7. CleanTail(u.r["w0"]) /\ CleanTail(u.r[z])
    BY <2>3, <2>5, <2>6 DEF Good
  <2>8. Changed(u, t, z) /\ t.r[z] = p
    BY <2>1, <2>5, <2>6, <2>7, CopyIs DEF u
  <2> HIDE DEF v
  <2>9. t \in Memories /\ t.check = m.check /\ t.ERNUM = 0 /\ \A k \in Names : k \notin {"w0", z} => t.r[k] = m.r[k]
    BY <2>6, <2>8 DEF Changed, Others
  <2> QED
    BY <2>3, <2>4, <2>8, <2>9 DEF Product, t, v
<1>9. X.len + Y.len > nib \/ X.len + Y.len <= nib
  BY <1>2, Sizes
<1> HIDE DEF t, v
<1> QED
  BY <1>6, <1>7, <1>8, <1>9 DEF t

LEMMA MultiplyCall ==
  ASSUME Inv, NEW x \in Reg, NEW y \in Reg, NEW z \in Reg
  PROVE  LET c == [op |-> "multiply", a |-> <<x, y, z>>] IN Exactly(c) /\ KeptForm(c)
<1> DEFINE c == [op |-> "multiply", a |-> <<x, y, z>>]
           v == val[x] * val[y]
<1>1. /\ Integer!Assigned(c, val) = << <<z, v>> >>
      /\ ~Integer!Undefined(c, val) /\ Integer!Answer(c, val) = 0 /\ c.op \notin {"xgcd", "invmodp"}
  BY DEF Integer!Assigned, Integer!Undefined, Integer!Answer
<1>2. v \in Int
  <2>1. val[x] \in Int /\ val[y] \in Int
    BY NumbersFit DEF Inv
  <2> QED
    BY <2>1
<1>3. ASSUME NEW m, Ready(m)
      PROVE  \/ Run(c, m).ret = 0 /\ Result(m, Run(c, m).m, z, v)
             \/ Integer!Coarse(c, val) /\ Failed(Run(c, m).m)
  <2>1. Run(c, m).m = multiply(m, x, y, z) /\ Run(c, m).ret = 0
    BY DEF Run, Multiply, Done, Ran
  <2>2. /\ m \in Memories /\ m.ERNUM = 0 /\ m.check /\ x \in Names /\ y \in Names /\ z \in Names /\ CleanTail(m.r[z])
        /\ Good(m.r[x]) /\ Value(m.r[x]) = val[x] /\ m.r[x].len <= nib
        /\ Good(m.r[y]) /\ Value(m.r[y]) = val[y] /\ m.r[y].len <= nib
        /\ "w0" \in Names /\ CleanTail(m.r["w0"])
    BY <1>3 DEF Ready, Good
  <2>3. z \notin {"w0", "w5"} /\ "w0" \notin Reg /\ \A k \in Reg : k \in Names
    BY ProgramsAssumption DEF Scratch, Names
  <2> DEFINE n == multiply(m, x, y, z)
  <2>4. Product(m, n, x, y, z)
    BY <2>2, <2>3, MultiplyIs
  <2> HIDE DEF n
  <2>5. \A k \in Reg : k # z => n.r[k] = m.r[k]
    BY <2>3, <2>4 DEF Product
  <2>6. CASE n.ERNUM = 0 /\ Good(n.r[z]) /\ Value(n.r[z]) = Value(m.r[x]) * Value(m.r[y]) /\ n.r[z].len <= nib
    <3>1. Result(m, n, z, v)
      BY <2>2, <2>4, <2>5, <2>6 DEF Product, Result
    <3> QED
      BY <2>1, <3>1 DEF n
  <2>7. CASE n.ERNUM = ERR_OVERFLOW /\ Integer!Mag(Value(m.r[x]) * Value(m.r[y])) >= BTo[nib - 1]
    <3>1. Integer!Coarse(c, val)
      <4>1. c.op = "multiply" /\ c.a[1] = x /\ c.a[2] = y /\ Integer!Mag(val[x] * val[y]) >= BTo[nib - 1]
        BY <2>2, <2>7
      <4> HIDE DEF c
      <4> QED
        BY <4>1 DEF Integer!Coarse
    <3>2. Failed(n)
      BY <2>4, <2>7 DEF Product, Failed, ERR_OVERFLOW
    <3> QED
      BY <2>1, <3>1, <3>2 DEF n
  <2> QED
    BY <2>4, <2>6, <2>7 DEF Product
<1> HIDE DEF v, c
<1>4. \A m : Ready(m) => \/ Run(c, m).ret = 0 /\ Result(m, Run(c, m).m, z, v)
                         \/ Integer!Coarse(c, val) /\ Failed(Run(c, m).m)
  BY <1>3
<1>5. Exactly(c) /\ KeptForm(c)
  BY <1>1, <1>2, <1>4, AssignsAnswer
<1> QED
  BY <1>5 DEF c

==============================================================================
