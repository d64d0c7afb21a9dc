------------------------- MODULE MiraclDivide_proofs -------------------------
(***************************************************************************)
(* The arithmetic of MIRACL, continued: the quotient and the remainder of  *)
(* two numbers (divide and divisible of mrarth2.c), word by word with the  *)
(* guess, its correction and the number put back, and with them the        *)
(* theorem that every call of the basic operations gives the value the     *)
(* integers give, whatever calls came before.                              *)
(***************************************************************************)
EXTENDS Miracl_proofs

-----------------------------------------------------------------------------
(* The guess of a word of the quotient.                                       *)

\* What a guess q leaves of the top words decides whether it is too large.
LEMMA TooLarge ==
  ASSUME NEW q \in Nat, NEW l \in Nat, NEW s \in Nat, NEW left \in Nat, NEW low \in Nat, NEW b \in Nat
  PROVE  q * (l * b + s) <= (q * l + left) * b + low <=> q * s <= left * b + low
<1> DEFINE a == (q * l) * b
           d == q * s
           e == left * b
<1>1. q * (l * b + s) = q * (l * b) + q * s /\ q * (l * b) = (q * l) * b /\ (q * l + left) * b = (q * l) * b + left * b
  OBVIOUS
<1>2. q * (l * b + s) = a + d /\ (q * l + left) * b = a + e
  BY <1>1
<1>3. a \in Nat /\ d \in Nat /\ e \in Nat
  <2>1. \A f, g \in Nat : f * g \in Nat
    OBVIOUS
  <2> QED
    BY <2>1
<1> HIDE DEF a, d, e
<1>4. a + d <= (a + e) + low <=> d <= e + low
  BY <1>3
<1>5. q * (l * b + s) <= (q * l + left) * b + low <=> d <= e + low
  BY <1>2, <1>4
<1> QED
  BY <1>5 DEF d, e

Guesses == [q : Word, ra : Word, over : BOOLEAN]
\* A guess that is not too small, with what it leaves of the top words.
Guessing(g, top, low, l, s) ==
  /\ g \in Guesses /\ top - g.q * l \in Nat
  /\ IF g.over THEN top - g.q * l >= B ELSE g.ra = top - g.q * l
  /\ \A n \in Word : n * (l * B + s) <= top * B + low => n <= g.q
\* It is small enough.
Enough(g, low, s) == \/ g.over
                     \/ (g.q * s) \div B < g.ra
                     \/ (g.q * s) \div B = g.ra /\ (g.q * s) % B <= low
LEMMA EnoughIs ==
  ASSUME NEW top \in Nat, NEW low \in Word, NEW l \in Word, NEW s \in Word, NEW g, Guessing(g, top, low, l, s)
  PROVE  Enough(g, low, s) <=> g.q * (l * B + s) <= top * B + low
<1> DEFINE q == g.q
           left == top - q * l
           p == q * s
           h == p \div B
           e == p % B
<1>1. /\ q \in Nat /\ l \in Nat /\ s \in Nat /\ low \in Nat /\ low < B /\ q < B /\ s < B /\ B \in Nat \ {0}
      /\ g.ra \in Nat /\ g.ra < B /\ g.over \in BOOLEAN
  BY Sizes DEF Guessing, Guesses
<1>2. left \in Nat /\ IF g.over THEN left >= B ELSE g.ra = left
  BY DEF Guessing
<1>3. top = q * l + left
  BY <1>1
<1>4. q * (l * B + s) <= (q * l + left) * B + low <=> q * s <= left * B + low
  <2> HIDE DEF left, q
  <2> QED
    BY <1>1, <1>2, TooLarge
<1>5. p \in Nat /\ p < B * B
  <2>1. q * s <= q * B /\ q * B <= B * B
    BY <1>1
  <2>2. \A f, n \in Nat : f * n \in Nat
    OBVIOUS
  <2>3. q * s \in Nat /\ q * B \in Nat /\ B * B \in Nat
    BY <1>1, <2>2
  <2>4. q + 1 <= B /\ (q + 1) * B = q * B + B
    BY <1>1
  <2>5. \A f, n, k \in Nat : f <= n => f * k <= n * k
    OBVIOUS
  <2>6. (q + 1) * B <= B * B
    BY <1>1, <2>4, <2>5
  <2> DEFINE x == q * s
             y == q * B
             z == B * B
  <2>7. x <= y /\ x \in Nat /\ y \in Nat /\ z \in Nat /\ y + B <= z
    BY <2>1, <2>3, <2>4, <2>6
  <2> HIDE DEF x, y, z
  <2>8. x \in Nat /\ x < z
    BY <1>1, <2>7
  <2> QED
    BY <2>8 DEF x, z
<1>6. p = B * h + e /\ h \in Nat /\ e \in 0 .. B - 1
  <2> HIDE DEF p
  <2> QED
    BY <1>1, <1>5
<1> HIDE DEF left, p, h, e
<1>7. ASSUME left >= B PROVE p <= left * B + low
  <2>1. left * B >= B * B /\ left * B \in Nat /\ B * B \in Nat
    BY <1>1, <1>2, <1>7
  <2> DEFINE y == left * B
             z == B * B
  <2>2. p <= y + low
    <3> HIDE DEF y, z
    <3> QED
      BY <1>1, <1>5, <2>1 DEF y, z
  <2> QED
    BY <2>2
<1>8. ASSUME left < B
      PROVE  p <= left * B + low <=> h < left \/ (h = left /\ e <= low)
  <2>1. CASE h < left
    <3>1. h + 1 <= left /\ (h + 1) * B <= left * B /\ (h + 1) * B = B * h + B
      BY <1>1, <1>2, <1>6, <2>1
    <3>2. left * B \in Nat /\ B * h \in Nat
      BY <1>1, <1>2, <1>6
    <3> QED
      BY <1>1, <1>6, <2>1, <3>1, <3>2
  <2>2. CASE h = left
    <3>1. left * B = B * h /\ B * h \in Nat
      BY <1>1, <1>2, <1>6, <2>2
    <3> QED
      BY <1>1, <1>6, <2>2, <3>1
  <2>3. CASE h > left
    <3>1. left + 1 <= h /\ (left + 1) * B <= B * h /\ (left + 1) * B = left * B + B
      BY <1>1, <1>2, <1>6, <2>3
    <3>2. left * B \in Nat /\ B * h \in Nat
      BY <1>1, <1>2, <1>6
    <3> DEFINE x == left * B
               y == B * h
    <3>3. x + B <= y /\ p = y + e /\ x \in Nat /\ y \in Nat
      BY <1>6, <3>1, <3>2
    <3> HIDE DEF x, y
    <3>4. ~(p <= x + low)
      BY <1>1, <1>6, <3>3
    <3> QED
      BY <1>2, <1>6, <2>3, <3>4 DEF x
  <2> QED
    BY <1>2, <1>6, <2>1, <2>2, <2>3
<1>9. Enough(g, low, s) <=> p <= left * B + low
  <2>1. Enough(g, low, s) <=> g.over \/ h < g.ra \/ (h = g.ra /\ e <= low)
    BY DEF Enough, p, h, e
  <2>2. CASE g.over
    BY <1>2, <1>7, <2>1, <2>2
  <2>3. CASE ~g.over
    BY <1>1, <1>2, <1>8, <2>1, <2>3
  <2> QED
    BY <2>2, <2>3
<1> QED
  BY <1>3, <1>4, <1>9 DEF p

\* What is left of the top words with one ldy more, in a word and its overflow.
LEMMA LeftIs ==
  ASSUME NEW l \in Word, NEW a \in Word, NEW ra, ra = (a + l) % B
  PROVE  ra \in Word /\ IF ra < l THEN a + l >= B ELSE ra = a + l
<1>1. B \in Nat \ {0} /\ l \in Nat /\ a \in Nat /\ l < B /\ a < B
  BY Sizes
<1>2. CASE a + l < B
  <2>1. ra = a + l
    BY <1>1, <1>2, SmallRest
  <2> QED
    BY <1>1, <1>2, <2>1, Sizes
<1>3. CASE a + l >= B
  <2>1. a + l = B * 1 + (a + l - B) /\ a + l - B \in 0 .. B - 1
    BY <1>1, <1>3
  <2>2. (B * 1 + (a + l - B)) % B = a + l - B
    BY <1>1, <2>1, Division
  <2> QED
    <3>1. ra = a + l - B
      BY <2>1, <2>2
    <3> QED
      BY <1>1, <1>3, <3>1, Sizes
<1> QED
  BY <1>1, <1>2, <1>3

\* One refinement: the guess goes down by one where it is too large.
LEMMA RefinedIs ==
  ASSUME NEW top \in Nat, NEW low \in Word, NEW l \in Word, l # 0, NEW s \in Word, NEW g, Guessing(g, top, low, l, s)
  PROVE  /\ Enough(g, low, s) => Refined(g, low, l, s) = g
         /\ ~Enough(g, low, s) => /\ Guessing(Refined(g, low, l, s), top, low, l, s)
                                  /\ top - Refined(g, low, l, s).q * l >= (top - g.q * l) + 1
<1> DEFINE ra == (g.ra + l) % B
           h == [q |-> g.q - 1, ra |-> ra, over |-> ra < l]
<1>1. g \in Guesses /\ g.q \in Word /\ g.ra \in Word /\ B \in Nat \ {0} /\ Word = 0 .. B - 1
  BY Sizes DEF Guessing, Guesses
<1>2. Enough(g, low, s) => Refined(g, low, l, s) = g
  BY DEF Enough, Refined
<1>3. ~Enough(g, low, s) => Refined(g, low, l, s) = h
  BY DEF Enough, Refined
<1>4. ASSUME ~Enough(g, low, s)
      PROVE  Guessing(h, top, low, l, s) /\ top - h.q * l >= (top - g.q * l) + 1
  <2>1. g.q # 0
    <3>1. CASE g.q = 0
      <4>1. g.q * s = 0 /\ 0 \div B = 0 /\ 0 % B = 0
        BY <1>1, <3>1
      <4>2. g.ra > 0 \/ (g.ra = 0 /\ 0 <= low)
        BY <1>1
      <4> QED
        BY <1>1, <1>4, <4>1, <4>2 DEF Enough
    <3> QED
      BY <3>1
  <2>2. h.q \in Word /\ h.q = g.q - 1 /\ ra \in Word /\ IF ra < l THEN g.ra + l >= B ELSE ra = g.ra + l
    <3>1. ra \in Word /\ IF ra < l THEN g.ra + l >= B ELSE ra = g.ra + l
      <4> HIDE DEF ra
      <4>1. ra = (g.ra + l) % B
        BY DEF ra
      <4> QED
        BY <1>1, <4>1, LeftIs
    <3>2. h.q = g.q - 1
      OBVIOUS
    <3> QED
      BY <1>1, <2>1, <3>1, <3>2
  <2>3. h \in Guesses
    BY <2>2 DEF Guesses
  <2>4. g.ra = top - g.q * l
    BY <1>4 DEF Enough, Guessing
  <2>5. h.q * l = g.q * l - l /\ g.q * l \in Int
    BY <1>1, <2>2
  <2>6. top - h.q * l = g.ra + l
    <3> DEFINE a == g.q * l
               b == h.q * l
    <3>1. b = a - l /\ a \in Int /\ g.ra = top - a
      BY <2>4, <2>5
    <3> HIDE DEF a, b
    <3>2. top - b = g.ra + l
      BY <1>1, <3>1
    <3> QED
      BY <3>2 DEF b
  <2>7. ASSUME NEW n \in Word, n * (l * B + s) <= top * B + low
        PROVE  n <= h.q
    <3>1. n <= g.q
      BY <2>7 DEF Guessing
    <3>2. ~(g.q * (l * B + s) <= top * B + low)
      BY <1>4, EnoughIs
    <3>3. n # g.q
      BY <2>7, <3>2
    <3> QED
      BY <1>1, <2>2, <3>1, <3>3
  <2>8. top - h.q * l \in Nat /\ IF ra < l THEN top - h.q * l >= B ELSE ra = top - h.q * l
    <3> DEFINE left == top - h.q * l
    <3>1. left = g.ra + l
      BY <2>6
    <3> HIDE DEF left, ra
    <3>2. left \in Nat /\ IF ra < l THEN left >= B ELSE ra = left
      BY <1>1, <2>2, <3>1
    <3> QED
      BY <3>2 DEF left
  <2>9. h.over = (ra < l) /\ h.ra = ra
    OBVIOUS
  <2>10. top - h.q * l >= (top - g.q * l) + 1
    <3>1. top - h.q * l = g.ra + l /\ top - g.q * l = g.ra
      BY <2>4, <2>6
    <3>2. g.ra + l >= g.ra + 1
      BY <1>1
    <3> QED
      BY <3>1, <3>2
  <2> HIDE DEF h
  <2>11. IF h.over THEN top - h.q * l >= B ELSE h.ra = top - h.q * l
    BY <2>8, <2>9
  <2> QED
    BY <2>3, <2>7, <2>8, <2>10, <2>11 DEF Guessing
<1> QED
  BY <1>2, <1>3, <1>4

\* A refinement of any guess is a guess.
LEMMA RefinedGuess ==
  ASSUME NEW low \in Word, NEW l \in Word, NEW s \in Word, NEW g \in Guesses
  PROVE  Refined(g, low, l, s) \in Guesses
<1> DEFINE ra == (g.ra + l) % B
           h == [q |-> g.q - 1, ra |-> ra, over |-> ra < l]
<1>1. g.q \in Word /\ g.ra \in Word /\ B \in Nat \ {0} /\ Word = 0 .. B - 1
  BY Sizes DEF Guesses
<1>2. CASE Enough(g, low, s)
  BY <1>2 DEF Enough, Refined
<1>3. CASE ~Enough(g, low, s)
  <2>1. g.q # 0
    <3>1. CASE g.q = 0
      <4>1. g.q * s = 0 /\ 0 \div B = 0 /\ 0 % B = 0
        BY <1>1, <3>1
      <4>2. g.ra > 0 \/ (g.ra = 0 /\ 0 <= low)
        BY <1>1
      <4> QED
        BY <1>1, <1>3, <4>1, <4>2 DEF Enough
    <3> QED
      BY <3>1
  <2>2. g.q - 1 \in Word /\ ra \in Word
    BY <1>1, <2>1, LeftIs
  <2>3. h \in Guesses
    BY <2>2 DEF Guesses
  <2> QED
    BY <1>3, <2>3 DEF Enough, Refined
<1> QED
  BY <1>2, <1>3

\* The first guess, from the two top words and the top word of y.
FirstGuess(u2, u1, l) ==
  LET same == u2 = l
      top == u2 * B + u1
      ra == IF same THEN (l + u1) % B ELSE top % l
  IN  [q |-> IF same THEN B - 1 ELSE top \div l, ra |-> ra, over |-> same /\ ra < l]
LEMMA FirstGuessIs ==
  ASSUME NEW u2 \in Word, NEW u1 \in Word, NEW low \in Word, NEW l \in Word, l # 0, u2 <= l, NEW s \in Word
  PROVE  Guessing(FirstGuess(u2, u1, l), u2 * B + u1, low, l, s)
<1> DEFINE g == FirstGuess(u2, u1, l)
           top == u2 * B + u1
<1>1. /\ B \in Nat \ {0} /\ B >= 2 /\ Word = 0 .. B - 1 /\ u2 \in Nat /\ u1 \in Nat /\ u1 < B /\ u2 < B
      /\ l \in Nat \ {0} /\ l < B /\ s \in Nat /\ low \in Nat /\ low < B
  BY Sizes
<1>2. top \in Nat /\ u2 * B \in Nat
  BY <1>1
<1>3. CASE u2 = l
  <2> DEFINE ra == (u1 + l) % B
  <2>1. ra \in Word /\ IF ra < l THEN u1 + l >= B ELSE ra = u1 + l
    <3> HIDE DEF ra
    <3>1. ra = (u1 + l) % B
      BY DEF ra
    <3> QED
      BY <3>1, LeftIs
  <2>2. l + u1 = u1 + l
    BY <1>1
  <2>3. g.q = B - 1 /\ g.ra = ra /\ g.over = (ra < l) /\ g = [q |-> B - 1, ra |-> ra, over |-> ra < l]
    BY <1>3, <2>2 DEF FirstGuess
  <2>4. g \in Guesses
    <3>1. B - 1 \in Word /\ (ra < l) \in BOOLEAN
      BY <1>1
    <3> QED
      BY <2>1, <2>3, <3>1 DEF Guesses
  <2>5. top - (B - 1) * l = u1 + l
    <3>1. (B - 1) * l = l * B - l /\ l * B \in Nat
      BY <1>1
    <3> QED
      BY <1>1, <1>3, <3>1
  <2> HIDE DEF g, top, ra
  <2>6. top - g.q * l \in Nat /\ IF g.over THEN top - g.q * l >= B ELSE g.ra = top - g.q * l
    <3> DEFINE left == top - g.q * l
    <3>1. left = u1 + l
      BY <2>3, <2>5
    <3> HIDE DEF left
    <3>2. left \in Nat
      BY <1>1, <3>1
    <3>3. CASE ra < l
      BY <2>1, <2>3, <3>1, <3>2, <3>3 DEF left
    <3>4. CASE ~(ra < l)
      BY <2>1, <2>3, <3>1, <3>2, <3>4 DEF left
    <3> QED
      BY <3>3, <3>4
  <2>7. \A n \in Word : n <= g.q
    BY <1>1, <2>3
  <2>8. \A n \in Word : n * (l * B + s) <= top * B + low => n <= g.q
    BY <2>7
  <2> QED
    BY <2>4, <2>6, <2>8 DEF Guessing, top, g
<1>4. CASE u2 # l
  <2> DEFINE q == top \div l
             ra == top % l
  <2>1. top = l * q + ra /\ q \in Nat /\ ra \in 0 .. l - 1
    <3> HIDE DEF top
    <3> QED
      BY <1>1, <1>2
  <2>2. g = [q |-> q, ra |-> ra, over |-> FALSE]
    BY <1>4 DEF FirstGuess
  <2>3. q < B
    <3>1. u2 + 1 <= l
      BY <1>1, <1>4
    <3>2. (u2 + 1) * B <= l * B /\ (u2 + 1) * B = u2 * B + B /\ l * B \in Nat
      BY <1>1, <3>1
    <3>3. top < l * B
      BY <1>1, <1>2, <3>2
    <3>4. ASSUME q >= B PROVE FALSE
      <4> HIDE DEF q, top, ra
      <4>1. l * B <= l * q /\ l * q \in Nat /\ ra \in Nat
        BY <1>1, <2>1, <3>4
      <4>2. top >= l * q
        BY <2>1, <4>1
      <4> QED
        BY <1>2, <3>2, <3>3, <4>1, <4>2
    <3> QED
      BY <1>1, <2>1, <3>4
  <2>4. g.q = q /\ g.ra = ra /\ g.over = FALSE
    BY <2>2
  <2>5. g \in Guesses
    <3>1. q \in Word /\ ra \in Word /\ FALSE \in BOOLEAN
      BY <1>1, <2>1, <2>3
    <3> QED
      BY <2>2, <3>1 DEF Guesses
  <2> HIDE DEF g, q, ra
  <2>6. top - g.q * l = ra
    <3>1. g.q * l = l * q /\ l * q \in Nat
      BY <1>1, <2>1, <2>4
    <3> HIDE DEF top
    <3> QED
      BY <1>2, <2>1, <3>1
  <2>7. ASSUME NEW n \in Word, n * (l * B + s) <= top * B + low
        PROVE  n <= g.q
    <3> HIDE DEF top
    <3>1. n \in Nat
      BY <1>1
    <3>2. n * (l * B + s) = (n * l) * B + n * s /\ n * s \in Nat /\ (n * l) * B \in Nat /\ n * l \in Nat
      BY <1>1, <3>1
    <3>3. (top + 1) * B = top * B + B /\ top * B \in Nat
      BY <1>1, <1>2
    <3>4. (n * l) * B < (top + 1) * B
      <4> DEFINE a == (n * l) * B
                 t == top * B
                 e == n * s
      <4>1. a + e <= t + low /\ a \in Nat /\ e \in Nat /\ t \in Nat /\ (top + 1) * B = t + B
        BY <2>7, <3>2, <3>3
      <4> HIDE DEF a, t, e
      <4>2. a < t + B
        BY <1>1, <4>1
      <4> QED
        BY <4>1, <4>2 DEF a
    <3>5. n * l < top + 1
      <4> DEFINE a == n * l
      <4>1. a \in Nat
        BY <3>2
      <4>2. a * B < (top + 1) * B
        BY <3>4
      <4> HIDE DEF a
      <4>3. \A f, h \in Nat : f >= h => f * B >= h * B
        BY <1>1
      <4>4. ~(a >= top + 1)
        <5>1. a * B \in Nat /\ (top + 1) * B \in Nat /\ top + 1 \in Nat
          <6>1. \A f, h \in Nat : f * h \in Nat
            OBVIOUS
          <6> QED
            BY <1>1, <1>2, <4>1, <6>1
        <5> QED
          BY <4>1, <4>2, <4>3, <5>1
      <4>5. a < top + 1
        BY <1>2, <4>1, <4>4
      <4> QED
        BY <4>5 DEF a
    <3>6. ASSUME n > q PROVE FALSE
      <4>1. q + 1 <= n /\ l * (q + 1) <= l * n /\ l * (q + 1) = l * q + l /\ l * n = n * l
        BY <1>1, <2>1, <3>1, <3>6
      <4>2. l * q \in Nat
        BY <1>1, <2>1
      <4> DEFINE a == l * q
                 b == n * l
      <4>3. a + l <= b /\ b < top + 1 /\ top = a + ra /\ a \in Nat /\ b \in Nat
        BY <2>1, <3>2, <3>5, <4>1, <4>2
      <4> HIDE DEF a, b
      <4> QED
        BY <1>1, <1>2, <2>1, <4>3
    <3> QED
      BY <2>1, <2>4, <3>1, <3>6
  <2>8. top - g.q * l \in Nat
    BY <2>1, <2>6
  <2>9. IF g.over THEN top - g.q * l >= B ELSE g.ra = top - g.q * l
    BY <2>4, <2>6
  <2> QED
    BY <2>5, <2>7, <2>8, <2>9 DEF Guessing, g
<1> QED
  BY <1>3, <1>4

\* The word a trial digit is: the largest the top three words allow.
DigitOf(q, top, low, l, s) ==
  /\ q \in Word /\ q * (l * B + s) <= top * B + low
  /\ \A n \in Word : n * (l * B + s) <= top * B + low => n <= q
LEMMA TrialDigitIs ==
  ASSUME NEW w \in Words, NEW k \in Nat, k - 1 \in Idx, k + 1 \in Idx, NEW l \in Word, l # 0, NEW s \in Word, w[k+1] <= l
  PROVE  DigitOf(TrialDigit(w, k, l, s), w[k+1] * B + w[k], w[k-1], l, s)
<1> DEFINE top == w[k+1] * B + w[k]
           low == w[k-1]
           first == FirstGuess(w[k+1], w[k], l)
           step == [i \in Word |-> [g \in Guesses |-> Refined(g, low, l, s)]]
           c == Carried(B, first, step)
           Sound(i) == Guessing(c[i], top, low, l, s) /\ (Enough(c[i], low, s) \/ top - c[i].q * l >= i)
           R == {i \in Nat : i <= B => Sound(i)}
<1>1. /\ B \in Nat /\ B >= 2 /\ Word = 0 .. B - 1 /\ w[k+1] \in Word /\ w[k] \in Word /\ low \in Word /\ top \in Nat
      /\ 0 .. B - 1 = Word /\ l \in Nat /\ s \in Nat
  <2>1. k \in Idx /\ k - 1 \in Idx /\ k + 1 \in Idx /\ Idx = 0 .. Ext - 1 /\ Ext \in Nat
    BY Sizes
  <2>2. w[k+1] \in Word /\ w[k] \in Word /\ low \in Word
    BY <2>1 DEF Words
  <2> QED
    BY <2>2, Sizes
<1>2. TrialDigit(w, k, l, s) = c[B].q
  BY DEF TrialDigit, FirstGuess, Guesses
<1>3. Guessing(first, top, low, l, s)
  BY <1>1, FirstGuessIs
<1>4. first \in Guesses
  BY <1>3 DEF Guessing
<1>5. Inside(B, Guesses, step)
  <2> SUFFICES ASSUME NEW i \in 0 .. B - 1, NEW g \in Guesses PROVE step[i][g] \in Guesses
    BY DEF Inside
  <2>1. step[i][g] = Refined(g, low, l, s)
    BY <1>1
  <2> QED
    BY <1>1, <2>1, RefinedGuess
<1>6. c[0] = first /\ \A i \in 0 .. B - 1 : c[i] \in Guesses /\ c[i+1] = Refined(c[i], low, l, s)
  <2> HIDE DEF first
  <2>1. c \in [0 .. B -> Guesses] /\ CarriesOn(c, B, first, step)
    <3> HIDE DEF step
    <3> QED
      BY <1>1, <1>4, <1>5, CarriedIs
  <2>2. ASSUME NEW i \in 0 .. B - 1 PROVE c[i] \in Guesses /\ c[i+1] = Refined(c[i], low, l, s)
    <3> HIDE DEF c
    <3>1. c[i] \in Guesses /\ c[i+1] = step[i][c[i]]
      <4> HIDE DEF step
      <4>1. i \in 0 .. B
        BY <1>1
      <4> QED
        BY <2>1, <4>1 DEF CarriesOn
    <3> QED
      BY <1>1, <3>1
  <2> QED
    BY <2>1, <2>2 DEF CarriesOn
<1> HIDE DEF c, first, step, top, low
<1>7. 0 \in R
  <2>1. top - c[0].q * l >= 0
    BY <1>3, <1>6 DEF Guessing
  <2> QED
    BY <1>3, <1>6, <2>1
<1>8. ASSUME NEW i \in Nat, i \in R PROVE i + 1 \in R
  <2> SUFFICES ASSUME i + 1 <= B PROVE Sound(i + 1)
    OBVIOUS
  <2>1. i \in 0 .. B - 1 /\ Sound(i)
    BY <1>1, <1>8
  <2>2. c[i+1] = Refined(c[i], low, l, s)
    BY <1>6, <2>1
  <2>3. CASE Enough(c[i], low, s)
    <3>1. c[i+1] = c[i]
      BY <1>1, <2>1, <2>2, <2>3, RefinedIs
    <3> QED
      BY <2>1, <2>3, <3>1
  <2>4. CASE ~Enough(c[i], low, s)
    <3>1. Guessing(c[i+1], top, low, l, s) /\ top - c[i+1].q * l >= (top - c[i].q * l) + 1
      BY <1>1, <2>1, <2>2, <2>4, RefinedIs
    <3>2. top - c[i].q * l >= i /\ top - c[i].q * l \in Nat /\ top - c[i+1].q * l \in Nat
      BY <2>1, <2>4, <3>1 DEF Guessing
    <3> DEFINE a == top - c[i].q * l
               b == top - c[i+1].q * l
    <3>3. b >= a + 1 /\ a >= i /\ a \in Nat /\ b \in Nat
      BY <3>1, <3>2
    <3> HIDE DEF a, b
    <3>4. b >= i + 1
      BY <3>3
    <3> QED
      BY <3>1, <3>4 DEF b
  <2> QED
    BY <2>3, <2>4
<1>9. B \in R
  <2> HIDE DEF R
  <2>1. \A n \in Nat : n \in R => n + 1 \in R
    BY <1>8
  <2>2. Nat \subseteq R
    BY <1>7, <2>1, SetInduction
  <2> QED
    BY <1>1, <2>2
<1>10. Guessing(c[B], top, low, l, s) /\ (Enough(c[B], low, s) \/ top - c[B].q * l >= B)
  BY <1>1, <1>9
<1>11. Enough(c[B], low, s)
  <2>1. CASE top - c[B].q * l >= B
    <3>1. c[B].ra \in Word /\ c[B].over \in BOOLEAN
      BY <1>10 DEF Guessing, Guesses
    <3>2. CASE ~c[B].over
      <4>1. c[B].ra = top - c[B].q * l
        BY <1>10, <3>2 DEF Guessing
      <4>2. c[B].ra >= B
        BY <2>1, <4>1
      <4> QED
        BY <1>1, <3>1, <4>2
    <3> QED
      BY <3>2 DEF Enough
  <2> QED
    BY <1>10, <2>1
<1>12. c[B].q * (l * B + s) <= top * B + low
  BY <1>1, <1>10, <1>11, EnoughIs
<1> QED
  BY <1>2, <1>10, <1>12 DEF DigitOf, Guessing, Guesses, top, low

-----------------------------------------------------------------------------
(* A multiple of y taken off the words of w.                                  *)

\* One place: what is left of the word, and what the next one is lowered by.
LessWord(a, y, b, w, v, bn) == v \in Word /\ bn \in Word /\ v + a * y + b = w + B * bn
LEMMA LessWordIs ==
  ASSUME NEW a \in Word, NEW y \in Word, NEW b \in Word, NEW w \in Word
  PROVE  LET t == a * y + b
         IN  LessWord(a, y, b, w, (w - a * y - b) % B, (t \div B) + (IF w < t % B THEN 1 ELSE 0))
<1> DEFINE p == a * y
           t == p + b
           h == t \div B
           e == t % B
           bn == h + (IF w < e THEN 1 ELSE 0)
           r == IF w < e THEN B + w - e ELSE w - e
           u == p + b + (B - 1 - w)
<1>1. /\ B \in Nat \ {0} /\ B >= 2 /\ Word = 0 .. B - 1 /\ w \in Nat /\ w < B /\ b \in Nat /\ b < B
      /\ B - 1 - w \in Word /\ 0 \in Word
  BY Sizes
<1>2. p + b + 0 \in Nat /\ Split(p + b + 0) /\ u \in Nat /\ Split(u)
  BY <1>1, SplitIs
<1>3. p \in Int
  BY <1>1
<1> HIDE DEF p
<1>4. t + 0 = t /\ t \in Nat /\ Split(t)
  <2>1. p + b + 0 = t
    BY <1>1, <1>3
  <2> QED
    BY <1>2, <2>1
<1>5. h \in Word /\ e \in Word /\ t = e + B * h
  BY <1>4 DEF Split
<1> HIDE DEF h, e
<1>6. bn \in Nat /\ r \in Word
  BY <1>1, <1>5
<1>7. u = B * bn + (B - 1 - r) /\ B - 1 - r \in 0 .. B - 1 /\ B * bn \in Nat
  <2>1. B * (h + 1) = B * h + B /\ B * h \in Nat
    BY <1>1, <1>5
  <2>2. u = t + (B - 1 - w)
    BY <1>1, <1>3
  <2> HIDE DEF u, t
  <2>3. CASE w < e
    <3>1. bn = h + 1 /\ r = B + w - e
      BY <2>3
    <3> QED
      BY <1>1, <1>5, <2>1, <2>2, <2>3, <3>1
  <2>4. CASE ~(w < e)
    <3>1. bn = h /\ r = w - e
      BY <1>1, <1>5, <2>4
    <3> QED
      BY <1>1, <1>5, <2>1, <2>2, <2>4, <3>1
  <2> QED
    BY <2>3, <2>4
<1>8. bn \in Word
  <2>1. u \div B = bn
    <3> HIDE DEF bn, r, u
    <3>1. (B * bn + (B - 1 - r)) \div B = bn
      BY <1>1, <1>6, <1>7, Division
    <3> QED
      BY <1>7, <3>1
  <2> QED
    BY <1>2, <2>1 DEF Split
<1>9. r + p + b = w + B * bn
  <2> DEFINE k == B * bn
  <2>1. k \in Nat /\ u = k + (B - 1 - r)
    BY <1>7
  <2>2. u = p + b + (B - 1 - w)
    OBVIOUS
  <2> HIDE DEF u, k, r
  <2>3. r + p + b = w + k
    BY <1>1, <1>3, <1>6, <2>1, <2>2
  <2> QED
    BY <2>3 DEF k
<1>10. (w - p - b) % B = r
  <2> DEFINE k == w - p - b
  <2>1. k \in Int
    BY <1>1, <1>3
  <2>2. k = r + B * (-bn)
    <3> DEFINE f == B * bn
    <3>1. B * (-bn) = -f /\ f \in Nat /\ r + p + b = w + f
      BY <1>1, <1>6, <1>7, <1>9
    <3> HIDE DEF f, r, bn
    <3> QED
      BY <1>1, <1>3, <1>6, <3>1
  <2>3. Same(k, r, B)
    <3> HIDE DEF k, r, bn
    <3>1. -bn \in Int
      BY <1>6
    <3> QED
      BY <2>2, <3>1 DEF Same
  <2> HIDE DEF k, r
  <2>4. k % B = r % B /\ r % B = r
    <3>1. r \in 0 .. B - 1 /\ r \in Int
      BY <1>1, <1>6
    <3>2. k % B = r % B
      BY <1>1, <2>1, <2>3, <3>1, SameRests
    <3>3. r % B = r
      BY <1>1, <3>1, SmallRest
    <3> QED
      BY <3>2, <3>3
  <2> QED
    BY <2>4 DEF k
<1>11. LessWord(a, y, b, w, r, bn)
  BY <1>6, <1>8, <1>9 DEF LessWord, p
<1> QED
  BY <1>10, <1>11 DEF p, h, e, bn

\* The words that are left and what is borrowed from each.
LessRow(w, y, y0, m, a, v, b) ==
  /\ v \in Words /\ b[0] = 0 /\ \A i \in 0 .. y0 : b[i] \in Word
  /\ \A i \in Idx : (i < m \/ i >= m + y0) => v[i] = w[i]
  /\ \A i \in 0 .. y0 - 1 : v[m+i] + a * y[i] + b[i] = w[m+i] + B * b[i+1]
LEMMA LessenedIs ==
  ASSUME NEW w \in Words, NEW y \in Words, NEW y0 \in Nat, NEW m \in Nat, m + y0 \in Idx, NEW a \in Word
  PROVE  LessRow(w, y, y0, m, a, Lessened(w, y, y0, m, a), Borrows(w, y, y0, m, a))
<1> DEFINE st == [i \in Idx |-> [bw \in Word |-> LET t == a * y[i] + bw
                                                IN  (t \div B) + (IF w[m+i] < t % B THEN 1 ELSE 0)]]
           b == Carried(y0, 0, st)
           v == Lessened(w, y, y0, m, a)
<1>1. /\ 0 \in Word /\ \A i \in 0 .. y0 - 1 : i \in Idx /\ i \in 0 .. y0 /\ i + 1 \in 0 .. y0 /\ m + i \in Idx
  BY Sizes
<1>2. ASSUME NEW i \in 0 .. y0 - 1, NEW bw \in Word
      PROVE  LessWord(a, y[i], bw, w[m+i], (w[m+i] - a * y[i] - bw) % B, st[i][bw])
  <2>1. i \in Idx /\ y[i] \in Word /\ w[m+i] \in Word
    BY <1>1 DEF Words
  <2>2. st[i][bw] = LET t == a * y[i] + bw IN (t \div B) + (IF w[m+i] < t % B THEN 1 ELSE 0)
    BY <2>1
  <2> HIDE DEF st
  <2> QED
    BY <2>1, <2>2, LessWordIs
<1> HIDE DEF st
<1>3. Inside(y0, Word, st)
  BY <1>2 DEF Inside, LessWord
<1>4. b \in [0 .. y0 -> Word] /\ CarriesOn(b, y0, 0, st)
  BY <1>1, <1>3, CarriedIs
<1>5. Borrows(w, y, y0, m, a) = b
  BY DEF Borrows, st
<1> HIDE DEF b
<1>6. v = [i \in Idx |-> IF i - m \in 0 .. y0 - 1 THEN (w[i] - a * y[i-m] - b[i-m]) % B ELSE w[i]]
  BY <1>5 DEF Lessened
<1> HIDE DEF v
<1>7. ASSUME NEW i \in 0 .. y0 - 1
      PROVE  LessWord(a, y[i], b[i], w[m+i], v[m+i], b[i+1])
  <2>1. b[i] \in Word /\ b[i+1] = st[i][b[i]]
    BY <1>1, <1>4 DEF CarriesOn
  <2>2. m + i \in Idx /\ (m + i) - m = i
    BY <1>1
  <2>3. v[m+i] = (w[m+i] - a * y[i] - b[i]) % B
    BY <1>6, <2>2
  <2> QED
    BY <1>2, <2>1, <2>3
<1>8. ASSUME NEW i \in Idx PROVE v[i] \in Word /\ ((i < m \/ i >= m + y0) => v[i] = w[i])
  <2>1. CASE i - m \in 0 .. y0 - 1
    <3>1. m + (i - m) = i
      BY Sizes
    <3>2. v[i] \in Word
      BY <1>7, <2>1, <3>1 DEF LessWord
    <3>3. ~(i < m \/ i >= m + y0)
      BY <2>1, Sizes
    <3> QED
      BY <3>2, <3>3
  <2>2. CASE ~(i - m \in 0 .. y0 - 1)
    <3>1. v[i] = w[i]
      BY <1>6, <2>2
    <3> QED
      BY <3>1 DEF Words
  <2> QED
    BY <2>1, <2>2
<1>9. v \in Words
  BY <1>6, <1>8 DEF Words
<1>10. b[0] = 0 /\ \A i \in 0 .. y0 : b[i] \in Word
  BY <1>4 DEF CarriesOn
<1> QED
  BY <1>5, <1>7, <1>8, <1>9, <1>10 DEF LessRow, LessWord, v

\* Words w that make up, with a carry c, for the words v and a times those of y.
Segment(w, n, m) == Low(w, n) - Low(w, m)
AlongSegment(w, v, y, y0, m, a, c) ==
  /\ c[0] = 0 /\ \A i \in 0 .. y0 : c[i] \in Nat
  /\ \A i \in 0 .. y0 - 1 : w[m+i] + B * c[i+1] = a * y[i] + c[i] + v[m+i]
LEMMA SegmentIs ==
  ASSUME NEW w \in Words, NEW v \in Words, NEW y \in Words, NEW y0 \in Nat, NEW m \in Nat, NEW n, n = m + y0, n \in Idx,
         NEW a \in Nat, NEW c, AlongSegment(w, v, y, y0, m, a, c)
  PROVE  Segment(w, n, m) + c[y0] * BTo[n] = Segment(v, n, m) + (a * BTo[m]) * Low(y, y0)
<1> DEFINE C == [i \in m .. n |-> c[i - m]]
           t == [i \in m .. n |-> (a * BTo[m]) * Low(y, i - m)]
<1>1. /\ n \in Nat /\ m <= n /\ m \in Idx /\ n \in m .. Ext - 1 /\ n \in 0 .. Ext /\ m \in 0 .. Ext /\ y0 \in 0 .. Ext
      /\ m \in m .. n /\ n \in m .. n /\ m - m = 0 /\ n - m = y0 /\ y0 \in Idx
  BY Sizes
<1>2. ASSUME NEW i \in m .. n
      PROVE  /\ C[i] = c[i - m] /\ C[i] \in Nat
             /\ t[i] = (a * BTo[m]) * Low(y, i - m) /\ t[i] \in Int /\ Low(y, i - m) \in Nat /\ i - m \in 0 .. y0
  <2>1. i - m \in 0 .. Ext /\ i - m \in 0 .. y0
    BY <1>1, Sizes
  <2>2. c[i - m] \in Nat
    BY <2>1 DEF AlongSegment
  <2>3. Low(y, i - m) \in Nat /\ BTo[m] \in Nat
    BY <1>1, <2>1, LowIs, BToIs
  <2>4. (a * BTo[m]) * Low(y, i - m) \in Int
    <3>1. \A f, g \in Nat : f * g \in Nat
      OBVIOUS
    <3> QED
      BY <1>1, <2>3, <3>1
  <2> QED
    BY <2>1, <2>2, <2>3, <2>4
<1>3. ASSUME NEW i \in m .. n - 1
      PROVE  w[i] * BTo[i] + C[i+1] * BTo[i+1] + t[i] = v[i] * BTo[i] + C[i] * BTo[i] + t[i+1]
  <2> DEFINE j == i - m
  <2>1. /\ i \in m .. n /\ i + 1 \in m .. n /\ i \in Idx /\ i \in 0 .. Ext - 2 /\ j \in 0 .. y0 - 1
        /\ j \in Idx /\ j \in 0 .. Ext - 1 /\ (i + 1) - m = j + 1 /\ m + j = i
    BY <1>1, Sizes
  <2>2. w[i] + B * C[i+1] = a * y[j] + C[i] + v[i]
    <3>1. w[m+j] + B * c[j+1] = a * y[j] + c[j] + v[m+j]
      BY <2>1 DEF AlongSegment
    <3> QED
      BY <1>2, <2>1, <3>1
  <2>3. BTo[i] = BTo[m] * BTo[j] /\ BTo[i+1] = B * BTo[i] /\ Low(y, j + 1) = Low(y, j) + y[j] * BTo[j]
    <3>1. m + j \in Idx
      BY <2>1
    <3>2. BTo[m + j] = BTo[m] * BTo[j]
      BY <1>1, <2>1, <3>1, BToAdds
    <3> HIDE DEF j
    <3> QED
      BY <2>1, <3>2, BToIs, LowIs
  <2>4. t[i] = (a * BTo[m]) * Low(y, j) /\ t[i+1] = (a * BTo[m]) * Low(y, j + 1)
    BY <1>2, <2>1
  <2> HIDE DEF j, t, C
  <2>5. /\ v[i] \in Nat /\ w[i] \in Nat /\ y[j] \in Nat /\ BTo[i] \in Nat /\ BTo[j] \in Nat /\ BTo[m] \in Nat
        /\ C[i] \in Nat /\ C[i+1] \in Nat /\ Low(y, j) \in Nat /\ B \in Nat
    BY <1>1, <1>2, <2>1, At, BToIs, Sizes
  <2>6. RowStep(BTo[i], BTo[m], BTo[j], B, w[i], C[i+1], a, y[j], C[i], v[i], Low(y, j))
    BY <1>1, <2>2, <2>3, <2>5, RowStepIs
  <2> QED
    BY <2>3, <2>4, <2>6 DEF RowStep
<1>4. Carrying(v, w, C, t, m, n)
  <2> HIDE DEF C, t
  <2> QED
    BY <1>2, <1>3 DEF Carrying
<1>5. (Low(w, n) - Low(w, m)) + C[n] * BTo[n] + t[m] = (Low(v, n) - Low(v, m)) + C[m] * BTo[m] + t[n]
  <2> HIDE DEF C, t
  <2> QED
    BY <1>1, <1>4, LowCarried
<1>6. C[m] = 0 /\ C[n] = c[y0]
  <2>1. c[0] = 0
    BY DEF AlongSegment
  <2> QED
    BY <1>1, <1>2, <2>1
<1> DEFINE e == a * BTo[m]
           l == Low(y, y0)
<1>7. t[m] = e * Low(y, 0) /\ t[n] = e * l /\ e \in Nat /\ l \in Nat /\ Low(y, 0) = 0 /\ BTo[m] \in Nat /\ BTo[n] \in Nat
  <2>1. BTo[m] \in Nat /\ BTo[n] \in Nat
    BY <1>1, BToIs
  <2>2. e \in Nat
    BY <2>1
  <2>3. l \in Nat /\ Low(y, 0) = 0
    BY <1>1, LowIs
  <2> HIDE DEF e, l
  <2> QED
    BY <1>1, <1>2, <2>1, <2>2, <2>3 DEF e, l
<1> DEFINE lw == Low(w, n)
           kw == Low(w, m)
           lv == Low(v, n)
           kv == Low(v, m)
           d == c[y0] * BTo[n]
           f == e * l
<1>8. lw \in Nat /\ kw \in Nat /\ lv \in Nat /\ kv \in Nat /\ d \in Nat /\ f \in Nat
  <2>1. \A g, h \in Nat : g * h \in Nat
    OBVIOUS
  <2>2. c[y0] \in Nat
    BY DEF AlongSegment
  <2>3. lw \in Nat /\ kw \in Nat /\ lv \in Nat /\ kv \in Nat
    BY <1>1, LowIs
  <2> HIDE DEF e, l
  <2> QED
    BY <1>7, <2>1, <2>2, <2>3
<1>9. (lw - kw) + d + 0 = (lv - kv) + 0 + f
  <2>1. e * 0 = 0 /\ 0 * BTo[m] = 0
    BY <1>7
  <2> HIDE DEF C, t, e, l
  <2> QED
    BY <1>5, <1>6, <1>7, <2>1
<1>10. (lw - kw) + d = (lv - kv) + f
  <2> HIDE DEF lw, kw, lv, kv, d, f
  <2> QED
    BY <1>8, <1>9
<1> QED
  BY <1>10 DEF Segment

\* y added to the words of v.
LEMMA PutBackIs ==
  ASSUME NEW v \in Words, NEW y \in Words, NEW y0 \in Nat, NEW m \in Nat, m + y0 \in Idx
  PROVE  LET w == PutBack(v, y, y0, m)
         IN  /\ w \in Words /\ w[m+y0] = 0 /\ \A i \in Idx : (i < m \/ i > m + y0) => w[i] = v[i]
             /\ \E c : AlongSegment(w, v, y, y0, m, 1, c)
<1> DEFINE st == [i \in Idx |-> [carry \in 0 .. 1 |-> NextCarry((v[m+i] + y[i] + carry) % B, y[i], carry)]]
           c == Carried(y0, 0, st)
           w == PutBack(v, y, y0, m)
<1>1. /\ 0 \in Word /\ \A i \in 0 .. y0 - 1 : i \in Idx /\ i \in 0 .. y0 /\ i + 1 \in 0 .. y0 /\ m + i \in Idx
  BY Sizes
<1>2. ASSUME NEW i \in 0 .. y0 - 1, NEW carry \in 0 .. 1
      PROVE  LET s == (v[m+i] + y[i] + carry) % B
             IN  s \in Word /\ st[i][carry] \in 0 .. 1 /\ s + B * st[i][carry] = 1 * y[i] + carry + v[m+i]
  <2>1. i \in Idx /\ y[i] \in Word /\ v[m+i] \in Word
    BY <1>1 DEF Words
  <2>2. y[i] \in Nat /\ v[m+i] \in Nat /\ carry \in Nat
    BY <2>1, Sizes
  <2>3. y[i] + v[m+i] + carry = v[m+i] + y[i] + carry /\ 1 * y[i] + carry + v[m+i] = v[m+i] + y[i] + carry
    BY <2>2
  <2>4. st[i][carry] = NextCarry((v[m+i] + y[i] + carry) % B, y[i], carry)
    BY <2>1
  <2>5. CarryRight(y[i], v[m+i], carry)
    BY <2>1, CarryIs
  <2> HIDE DEF st
  <2> QED
    BY <2>3, <2>4, <2>5 DEF CarryRight
<1> HIDE DEF st
<1>3. Inside(y0, 0 .. 1, st)
  BY <1>2 DEF Inside
<1>4. c \in [0 .. y0 -> 0 .. 1] /\ CarriesOn(c, y0, 0, st)
  <2>1. 0 \in 0 .. 1
    OBVIOUS
  <2> QED
    BY <1>3, <2>1, CarriedIs
<1>5. w = [i \in Idx |-> IF i - m \in 0 .. y0 - 1 THEN (v[i] + y[i-m] + c[i-m]) % B
                         ELSE IF i = m + y0 THEN 0 ELSE v[i]]
  BY DEF PutBack, st
<1> HIDE DEF c, w
<1>6. ASSUME NEW i \in 0 .. y0 - 1
      PROVE  w[m+i] \in Word /\ w[m+i] + B * c[i+1] = 1 * y[i] + c[i] + v[m+i]
  <2>1. c[i] \in 0 .. 1 /\ c[i+1] = st[i][c[i]]
    BY <1>1, <1>4 DEF CarriesOn
  <2>2. m + i \in Idx /\ (m + i) - m = i
    BY <1>1
  <2>3. w[m+i] = (v[m+i] + y[i] + c[i]) % B
    BY <1>5, <2>2
  <2> QED
    BY <1>2, <2>1, <2>3
<1>7. ASSUME NEW i \in Idx PROVE w[i] \in Word /\ ((i < m \/ i > m + y0) => w[i] = v[i])
  <2>1. CASE i - m \in 0 .. y0 - 1
    <3>1. m + (i - m) = i /\ ~(i < m \/ i > m + y0)
      BY <2>1, Sizes
    <3> QED
      BY <1>6, <2>1, <3>1
  <2>2. CASE i = m + y0
    <3>1. ~(i - m \in 0 .. y0 - 1)
      BY <2>2
    <3>2. w[i] = 0
      BY <1>5, <2>2, <3>1
    <3> QED
      BY <1>1, <2>2, <3>2
  <2>3. CASE ~(i - m \in 0 .. y0 - 1) /\ i # m + y0
    <3>1. w[i] = v[i]
      BY <1>5, <2>3
    <3> QED
      BY <3>1 DEF Words
  <2> QED
    BY <2>1, <2>2, <2>3
<1>8. w \in Words
  BY <1>5, <1>7 DEF Words
<1>9. w[m+y0] = 0
  <2>1. ~((m + y0) - m \in 0 .. y0 - 1)
    OBVIOUS
  <2> QED
    BY <1>5, <2>1
<1>10. AlongSegment(w, v, y, y0, m, 1, c)
  <2>1. c[0] = 0 /\ \A i \in 0 .. y0 : c[i] \in Nat
    BY <1>4 DEF CarriesOn
  <2> QED
    BY <1>6, <2>1 DEF AlongSegment
<1> QED
  BY <1>7, <1>8, <1>9, <1>10 DEF w

\* The sums of the segments: a guess that is too large borrows more than there is.
TakeOffSums(uw, uv, ub, top, b, c, T, q, D) ==
  IF top >= b THEN uv + (top - b) * T = (uw + top * T) - q * D
  ELSE ub = (uw + top * T) - (q - 1) * D /\ ub < D
LEMMA TakeOffSum ==
  ASSUME NEW uw \in Nat, NEW uv \in Nat, NEW ub \in Nat, NEW top \in Nat, NEW b \in Nat, NEW c \in Nat, NEW T \in Nat,
         NEW q \in Nat, NEW D \in Nat, uw + b * T = uv + q * D, ub + c * T = uv + D, uv < T, ub < T, D < T,
         (q - 1) * D <= uw + top * T
  PROVE  TakeOffSums(uw, uv, ub, top, b, c, T, q, D)
<1> DEFINE f == q * D
           g == top * T
           h == b * T
<1>1. f \in Nat /\ g \in Nat /\ h \in Nat /\ (q - 1) * D = f - D
  <2>1. \A x, z \in Nat : x * z \in Nat
    OBVIOUS
  <2> QED
    BY <2>1
<1>2. uw + h = uv + f
  OBVIOUS
<1> HIDE DEF f, g, h
<1>3. CASE top >= b
  <2>1. (top - b) * T = g - h
    BY DEF g, h
  <2>2. uv + (g - h) = (uw + g) - f
    BY <1>1, <1>2
  <2>3. uv + (top - b) * T = (uw + g) - f
    BY <2>1, <2>2
  <2> QED
    BY <1>3, <2>3 DEF TakeOffSums, f, g
<1>4. CASE top < b
  <2> DEFINE e == b - top
             k == e * T
             l == c * T
  <2>1. e \in Nat /\ e >= 1 /\ k = h - g /\ k \in Nat /\ l \in Nat
    <3>1. e \in Nat /\ e >= 1
      BY <1>4
    <3>2. \A x, z \in Nat : x * z \in Nat
      OBVIOUS
    <3>3. k = h - g
      BY DEF h, g
    <3> HIDE DEF e
    <3> QED
      BY <3>1, <3>2, <3>3
  <2>2. ub + l = uv + D
    OBVIOUS
  <2>3. (uw + g) - (f - D) = ub + (l - k) /\ (uw + g) - (f - D) = uv + D - k
    <3> HIDE DEF e, k, l
    <3> QED
      BY <1>1, <1>2, <2>1, <2>2
  <2>4. f - D <= uw + g
    BY <1>1 DEF g
  <2>5. k >= T
    <3> HIDE DEF e
    <3>1. e * T >= 1 * T /\ 1 * T = T
      BY <2>1
    <3> QED
      BY <3>1
  <2>6. (uw + g) - (f - D) >= 0 /\ (uw + g) - (f - D) < D
    <3> HIDE DEF e, k, l
    <3> QED
      BY <1>1, <2>1, <2>3, <2>4, <2>5
  <2>7. c = e
    <3>1. CASE c > e
      <4> HIDE DEF e
      <4>1. e + 1 <= c /\ (e + 1) * T <= c * T /\ (e + 1) * T = e * T + T
        BY <2>1, <3>1
      <4>2. k + T <= l
        BY <4>1
      <4> HIDE DEF k, l
      <4> QED
        BY <1>1, <2>1, <2>3, <2>6, <4>2
    <3>2. CASE c < e
      <4> HIDE DEF e
      <4>1. c + 1 <= e /\ (c + 1) * T <= e * T /\ (c + 1) * T = c * T + T
        BY <2>1, <3>2
      <4>2. l + T <= k
        BY <4>1
      <4> HIDE DEF k, l
      <4> QED
        BY <1>1, <2>1, <2>3, <2>6, <4>2
    <3> HIDE DEF e
    <3> QED
      BY <2>1, <3>1, <3>2
  <2>8. l = k
    BY <2>7
  <2> HIDE DEF k, l
  <2>9. ub = (uw + g) - (f - D) /\ ub < D
    BY <1>1, <2>1, <2>3, <2>6, <2>8
  <2>10. ub = (uw + top * T) - (q - 1) * D
    BY <1>1, <2>9 DEF g
  <2> QED
    BY <1>4, <2>9, <2>10 DEF TakeOffSums
<1> QED
  BY <1>3, <1>4

\* q times y comes off the words of w from m up, or one time less if that is more
\* than there is.
TakenOff(w, y, y0, m, q, t) ==
  LET n == m + y0
      D == BTo[m] * Low(y, y0)
  IN  /\ t.w \in Words /\ \A i \in Idx : (i < m \/ i > n) => t.w[i] = w[i]
      /\ t.q \in Word /\ (t.q = q \/ (t.q = q - 1 /\ Segment(t.w, n + 1, m) < D))
      /\ Segment(t.w, n + 1, m) = Segment(w, n + 1, m) - t.q * D
LEMMA TakeOffIs ==
  ASSUME NEW w \in Words, NEW y \in Words, NEW y0 \in Nat, NEW m \in Nat, m + y0 \in Idx, NEW q \in Word, q # 0,
         (q - 1) * (BTo[m] * Low(y, y0)) <= Segment(w, m + y0 + 1, m)
  PROVE  TakenOff(w, y, y0, m, q, TakeOff(w, y, y0, m, q))
<1> DEFINE n == m + y0
           b == Borrows(w, y, y0, m, q)
           v == Lessened(w, y, y0, m, q)
           z == PutBack(v, y, y0, m)
           t == TakeOff(w, y, y0, m, q)
           V == Low(y, y0)
           P == BTo[m]
           T == BTo[n]
           D == P * V
           uw == Segment(w, n, m)
           uv == Segment(v, n, m)
           ub == Segment(z, n, m)
           top == w[n]
<1>1. /\ n \in Nat /\ n \in Idx /\ n \in 0 .. Ext - 1 /\ n \in 0 .. Ext /\ m \in Idx /\ m \in 0 .. Ext /\ y0 \in Idx
      /\ q \in Nat /\ m <= n /\ y0 \in 0 .. Ext /\ n \in m .. Ext /\ n + 1 \in m .. Ext
  BY Sizes
<1>2. LessRow(w, y, y0, m, q, v, b)
  BY LessenedIs
<1>3. v \in Words /\ b[y0] \in Word /\ v[n] = top
  BY <1>1, <1>2 DEF LessRow
<1>4. z \in Words /\ z[n] = 0 /\ (\A i \in Idx : (i < m \/ i > n) => z[i] = v[i])
      /\ \E c : AlongSegment(z, v, y, y0, m, 1, c)
  BY <1>3, PutBackIs
<1> HIDE DEF b, v, z
<1>5. uw + b[y0] * T = uv + (q * P) * V
  <2>1. AlongSegment(w, v, y, y0, m, q, b)
    <3>1. ASSUME NEW i \in 0 .. y0 - 1 PROVE w[m+i] + B * b[i+1] = q * y[i] + b[i] + v[m+i]
      <4>1. v[m+i] + q * y[i] + b[i] = w[m+i] + B * b[i+1]
        BY <1>2 DEF LessRow
      <4>2. v[m+i] \in Nat /\ b[i] \in Nat /\ y[i] \in Nat
        <5>1. i \in Idx /\ m + i \in Idx /\ i \in 0 .. y0
          BY <1>1, Sizes
        <5>2. b[i] \in Word
          BY <1>2, <5>1 DEF LessRow
        <5> QED
          BY <1>3, <5>1, <5>2, At, Sizes
      <4>3. q * y[i] \in Nat
        BY <1>1, <4>2
      <4> QED
        BY <4>1, <4>2, <4>3
    <3>2. b[0] = 0 /\ \A i \in 0 .. y0 : b[i] \in Nat
      BY <1>2, Sizes DEF LessRow
    <3> QED
      BY <3>1, <3>2 DEF AlongSegment
  <2>2. n = m + y0
    OBVIOUS
  <2> HIDE DEF n
  <2> QED
    BY <1>1, <1>3, <2>1, <2>2, SegmentIs
<1>6. PICK c : AlongSegment(z, v, y, y0, m, 1, c)
  BY <1>4
<1>7. ub + c[y0] * T = uv + (1 * P) * V
  <2>1. n = m + y0
    OBVIOUS
  <2> HIDE DEF n
  <2> QED
    BY <1>1, <1>3, <1>4, <1>6, <2>1, SegmentIs
<1>8. c[y0] \in Nat
  BY <1>1, <1>6 DEF AlongSegment
<1>9. T \in Nat /\ P \in Nat \ {0} /\ V \in Nat /\ V < BTo[y0] /\ BTo[y0] \in Nat /\ T = P * BTo[y0]
  <2>1. BTo[m + y0] = BTo[m] * BTo[y0]
    BY <1>1, BToAdds
  <2> QED
    BY <1>1, <2>1, BToIs, LowBelow
<1>10. D \in Nat /\ D < T
  <2>1. V + 1 <= BTo[y0] /\ P * (V + 1) <= P * BTo[y0] /\ P * (V + 1) = P * V + P
    <3> HIDE DEF P, V
    <3>1. \A f, g, h \in Nat : f <= g => h * f <= h * g
      OBVIOUS
    <3> QED
      BY <1>9, <3>1
  <2>2. P * V \in Nat
    <3> HIDE DEF P, V
    <3> QED
      BY <1>9
  <2> HIDE DEF P, V
  <2> QED
    BY <1>9, <2>1, <2>2
<1>11. (q * P) * V = q * D /\ (1 * P) * V = D
  <2> HIDE DEF P, V
  <2> QED
    BY <1>1, <1>9
<1>12. \A x \in Words : /\ Segment(x, n, m) \in Nat /\ Segment(x, n, m) < T
                        /\ Segment(x, n + 1, m) = Segment(x, n, m) + x[n] * T
  <2> SUFFICES ASSUME NEW x \in Words
               PROVE  /\ Segment(x, n, m) \in Nat /\ Segment(x, n, m) < T
                      /\ Segment(x, n + 1, m) = Segment(x, n, m) + x[n] * T
    OBVIOUS
  <2>1. Low(x, n) \in Nat /\ Low(x, m) \in Nat /\ Low(x, n) < T /\ Low(x, m) <= Low(x, n)
    <3> HIDE DEF n
    <3> QED
      BY <1>1, LowBelow, LowMore
  <2>2. Low(x, n + 1) = Low(x, n) + x[n] * T
    <3> HIDE DEF n
    <3> QED
      BY <1>1, LowIs
  <2>3. x[n] * T \in Nat
    <3>1. x[n] \in Nat
      BY <1>1, At
    <3> HIDE DEF T
    <3> QED
      BY <1>9, <3>1
  <2> DEFINE d == x[n] * T
             l == Low(x, n)
             k == Low(x, m)
  <2>4. Low(x, n + 1) = l + d /\ d \in Nat /\ l \in Nat /\ k \in Nat /\ k <= l /\ l < T
    BY <2>1, <2>2, <2>3
  <2> HIDE DEF d, l, k, T, n
  <2>5. l - k \in Nat /\ l - k < T /\ (l + d) - k = (l - k) + d
    BY <1>9, <2>4
  <2> QED
    BY <2>4, <2>5 DEF Segment, d, l, k
<1>13. uw \in Nat /\ uv \in Nat /\ ub \in Nat /\ uv < T /\ ub < T /\ Segment(w, n + 1, m) = uw + top * T
       /\ top \in Nat /\ b[y0] \in Nat
  <2>1. top \in Nat
    BY <1>1, At
  <2> QED
    BY <1>3, <1>4, <1>12, <2>1, Sizes
<1>14. (q - 1) * D <= uw + top * T
  BY <1>13
<1>15. TakeOffSums(uw, uv, ub, top, b[y0], c[y0], T, q, D)
  <2> HIDE DEF uw, uv, ub, T, D, P, V, n, top
  <2>1. uw + b[y0] * T = uv + q * D /\ ub + c[y0] * T = uv + D
    BY <1>5, <1>7, <1>11
  <2> QED
    BY <1>1, <1>8, <1>9, <1>10, <1>13, <1>14, <2>1, TakeOffSum
<1>16. CASE top >= b[y0]
  <2> DEFINE x == [v EXCEPT ![n] = @ - b[y0]]
  <2>1. t = [w |-> x, q |-> q]
    <3>1. ~(w[m+y0] < b[y0])
      BY <1>13, <1>16
    <3> QED
      BY <3>1 DEF TakeOff, b, v
  <2>2. x[n] = top - b[y0] /\ x[n] \in Word
    <3>1. x[n] = v[n] - b[y0]
      BY <1>1, <1>3 DEF Words
    <3>2. top < B /\ B \in Nat /\ Word = 0 .. B - 1
      BY <1>1, At, Sizes
    <3> HIDE DEF x, n
    <3>3. top - b[y0] \in Word
      <4> HIDE DEF top
      <4> QED
        BY <1>13, <1>16, <3>2
    <3> QED
      BY <1>3, <3>1, <3>3
  <2>3. x \in Words
    <3>1. \A i \in Idx : i # n => x[i] = v[i]
      BY <1>1, <1>3 DEF Words
    <3>2. x = [i \in Idx |-> x[i]]
      BY <1>3 DEF Words
    <3> HIDE DEF x, n
    <3>3. \A i \in Idx : x[i] \in Word
      BY <1>3, <2>2, <3>1 DEF Words
    <3> QED
      BY <3>2, <3>3 DEF Words
  <2>4. \A i \in Idx : i # n => x[i] = v[i]
    BY <1>3 DEF Words
  <2>5. Segment(x, n, m) = uv
    <3>1. Low(x, n) = Low(v, n) /\ Low(x, m) = Low(v, m)
      <4>1. \A i \in 0 .. n - 1 : i \in Idx /\ i # n
        BY <1>1, Sizes
      <4>2. \A i \in 0 .. m - 1 : i \in Idx /\ i # n
        BY <1>1, Sizes
      <4> HIDE DEF x, n
      <4> QED
        BY <1>1, <1>3, <2>3, <2>4, <4>1, <4>2, LowSame
    <3> HIDE DEF x
    <3> QED
      BY <3>1 DEF Segment
  <2>6. Segment(x, n + 1, m) = Segment(w, n + 1, m) - q * D
    <3>1. uv + (top - b[y0]) * T = (uw + top * T) - q * D
      BY <1>15, <1>16 DEF TakeOffSums
    <3> HIDE DEF x, n, T, D, uv, top
    <3> QED
      BY <1>12, <1>13, <2>2, <2>3, <2>5, <3>1
  <2>7. \A i \in Idx : (i < m \/ i > n) => x[i] = w[i]
    <3> TAKE i \in Idx
    <3> HAVE i < m \/ i > n
    <3>1. i # n
      BY <1>1
    <3>2. v[i] = w[i]
      BY <1>1, <1>2, Sizes DEF LessRow
    <3> HIDE DEF x, n
    <3> QED
      BY <2>4, <3>1, <3>2
  <2> HIDE DEF x, t
  <2>8. t.w = x /\ t.q = q
    BY <2>1
  <2> QED
    BY <2>3, <2>6, <2>7, <2>8 DEF TakenOff, t
<1>17. CASE top < b[y0]
  <2>1. t = [w |-> z, q |-> q - 1]
    BY <1>17 DEF TakeOff, b, v, z
  <2>2. ub = (uw + top * T) - (q - 1) * D /\ ub < D
    <3>1. ~(top >= b[y0])
      BY <1>13, <1>17
    <3> HIDE DEF uw, uv, ub, T, D, top
    <3> QED
      BY <1>15, <3>1 DEF TakeOffSums
  <2>3. Segment(z, n + 1, m) = ub
    <3>1. Segment(z, n + 1, m) = ub + 0 * T
      BY <1>4, <1>12
    <3> HIDE DEF T, ub
    <3> QED
      BY <1>9, <1>13, <3>1
  <2>4. q - 1 \in Word
    BY <1>1, Sizes
  <2>5. \A i \in Idx : (i < m \/ i > n) => z[i] = w[i]
    <3> TAKE i \in Idx
    <3> HAVE i < m \/ i > n
    <3>1. v[i] = w[i]
      BY <1>1, <1>2, Sizes DEF LessRow
    <3> QED
      BY <1>4, <3>1
  <2> HIDE DEF t
  <2>6. t.w = z /\ t.q = q - 1
    BY <2>1
  <2>7. Segment(z, n + 1, m) = Segment(w, n + 1, m) - (q - 1) * D /\ Segment(z, n + 1, m) < D
    BY <1>13, <2>2, <2>3
  <2> QED
    BY <1>4, <2>4, <2>5, <2>6, <2>7 DEF TakenOff, t
<1> QED
  BY <1>13, <1>16, <1>17

-----------------------------------------------------------------------------
(* A word of the quotient.                                                    *)

\* A number and its two or three top words.
LEMMA TopTwo ==
  ASSUME NEW y \in Words, NEW j \in Nat, j + 2 \in 0 .. Ext
  PROVE  /\ Low(y, j + 2) = Low(y, j) + (y[j+1] * B + y[j]) * BTo[j]
         /\ Low(y, j) \in Nat /\ Low(y, j) < BTo[j] /\ BTo[j] \in Nat \ {0} /\ y[j+1] \in Nat /\ y[j] \in Nat
<1> DEFINE P == BTo[j]
           l == Low(y, j)
<1>1. j \in Idx /\ j + 1 \in Idx /\ j \in 0 .. Ext - 2 /\ j \in 0 .. Ext - 1 /\ j + 1 \in 0 .. Ext - 1 /\ (j + 1) + 1 = j + 2
  BY Sizes
<1>2. y[j+1] \in Nat /\ y[j] \in Nat /\ P \in Nat \ {0} /\ l \in Nat /\ l < P /\ B \in Nat
  BY <1>1, At, BToIs, LowBelow, Sizes
<1>3. Low(y, j + 1) = l + y[j] * P /\ Low(y, (j + 1) + 1) = Low(y, j + 1) + y[j+1] * BTo[j+1] /\ BTo[j+1] = B * P
  BY <1>1, LowIs, BToIs
<1>4. (y[j+1] * B + y[j]) * P = y[j+1] * (B * P) + y[j] * P /\ y[j+1] * (B * P) \in Nat /\ y[j] * P \in Nat
  <2> HIDE DEF P
  <2>1. \A f, g \in Nat : f * g \in Nat
    OBVIOUS
  <2>2. y[j+1] * B \in Nat /\ B * P \in Nat
    BY <1>2, <2>1
  <2>3. y[j+1] * (B * P) \in Nat /\ y[j] * P \in Nat
    BY <1>2, <2>1, <2>2
  <2>4. \A a, c, b, p \in Nat : (a * b + c) * p = a * (b * p) + c * p
    OBVIOUS
  <2> QED
    BY <1>2, <2>3, <2>4
<1> DEFINE f == y[j+1] * (B * P)
           g == y[j] * P
           h == (y[j+1] * B + y[j]) * P
<1>5. h = f + g /\ f \in Nat /\ g \in Nat /\ Low(y, j + 2) = (l + g) + f
  <2> HIDE DEF P, l
  <2> QED
    BY <1>1, <1>3, <1>4
<1>6. Low(y, j + 2) = l + h
  <2> HIDE DEF f, g, h, l, P
  <2> QED
    BY <1>2, <1>5
<1> QED
  BY <1>2, <1>6

LEMMA TopThree ==
  ASSUME NEW w \in Words, NEW j \in Nat, j + 3 \in 0 .. Ext
  PROVE  Low(w, j + 3) = Low(w, j) + ((w[j+2] * B + w[j+1]) * B + w[j]) * BTo[j]
<1> DEFINE P == BTo[j]
           a == w[j+2] * B + w[j+1]
           l == Low(w, j)
<1>1. (j + 1) + 2 = j + 3 /\ j + 1 \in Nat /\ (j + 1) + 1 = j + 2 /\ j \in Idx /\ j \in 0 .. Ext - 2 /\ j \in 0 .. Ext - 1
      /\ (j + 1) + 2 \in 0 .. Ext
  BY Sizes
<1>2. /\ Low(w, (j + 1) + 2) = Low(w, j + 1) + (w[(j + 1) + 1] * B + w[j+1]) * BTo[j+1]
      /\ w[(j + 1) + 1] \in Nat /\ w[j+1] \in Nat
  <2> DEFINE i == j + 1
  <2>1. i \in Nat /\ i + 2 \in 0 .. Ext
    BY <1>1
  <2> HIDE DEF i
  <2>2. Low(w, i + 2) = Low(w, i) + (w[i+1] * B + w[i]) * BTo[i] /\ w[i+1] \in Nat /\ w[i] \in Nat
    BY <2>1, TopTwo
  <2> QED
    BY <2>2 DEF i
<1>3. Low(w, j + 1) = l + w[j] * P /\ BTo[j+1] = B * P /\ P \in Nat /\ l \in Nat /\ w[j] \in Nat /\ B \in Nat
  BY <1>1, LowIs, BToIs, At, Sizes
<1>4. Low(w, j + 3) = (l + w[j] * P) + a * (B * P) /\ a \in Nat
  <2>1. w[j+2] * B \in Nat
    BY <1>1, <1>2, <1>3
  <2> QED
    BY <1>1, <1>2, <1>3, <2>1
<1> HIDE DEF a, P, l
<1>5. (a * B + w[j]) * P = a * (B * P) + w[j] * P /\ a * (B * P) \in Nat /\ w[j] * P \in Nat
  <2>1. \A f, g \in Nat : f * g \in Nat
    OBVIOUS
  <2>2. B * P \in Nat /\ w[j] * P \in Nat
    BY <1>3, <2>1
  <2>3. \A f, c, b, p \in Nat : (f * b + c) * p = f * (b * p) + c * p
    OBVIOUS
  <2> QED
    BY <1>3, <1>4, <2>1, <2>2, <2>3
<1> DEFINE f == a * (B * P)
           g == w[j] * P
           h == (a * B + w[j]) * P
<1>6. h = f + g /\ f \in Nat /\ g \in Nat /\ Low(w, j + 3) = (l + g) + f
  BY <1>4, <1>5
<1>7. Low(w, j + 3) = l + h
  <2> HIDE DEF f, g, h
  <2> QED
    BY <1>3, <1>6
<1> QED
  BY <1>7 DEF h, a, P, l

\* Magnitudes known by their top words, each with a rest below the weight p.
Between(x, t, p) == t * p <= x /\ x < (t + 1) * p
LEMMA BetweenIs ==
  ASSUME NEW t \in Nat, NEW p \in Nat, NEW l \in Nat, l < p
  PROVE  Between(l + t * p, t, p)
<1> DEFINE a == t * p
<1>1. a \in Nat /\ (t + 1) * p = a + p
  OBVIOUS
<1> HIDE DEF a
<1>2. a <= l + a /\ l + a < a + p
  BY <1>1
<1> QED
  BY <1>1, <1>2 DEF Between, a

\* What the largest word that the top words allow is to the quotient of all words.
LEMMA DigitBounds ==
  ASSUME NEW b \in Nat, NEW t \in Nat, NEW v \in Nat, NEW p \in Nat, NEW R \in Nat, NEW D \in Nat, NEW q \in Nat,
         Between(R, t, p), Between(D, v, p), b <= v, q < b, R < D * b,
         q * v <= t, \A n \in 0 .. b - 1 : n * v <= t => n <= q
  PROVE  R < (q + 1) * D /\ (q # 0 => (q - 1) * D <= t * p)
<1>0. \A f, g \in Nat : f * g \in Nat
  OBVIOUS
<1>1. R < (q + 1) * D
  <2>1. CASE q + 1 = b
    <3>1. D * b = (q + 1) * D
      BY <2>1
    <3> QED
      BY <3>1
  <2>2. CASE q + 1 # b
    <3>1. q + 1 \in 0 .. b - 1 /\ ~(q + 1 <= q)
      BY <2>2
    <3>2. ~((q + 1) * v <= t)
      BY <3>1
    <3> DEFINE g == (q + 1) * v
    <3>3. g \in Nat /\ g >= t + 1
      <4>1. g \in Nat
        BY <1>0
      <4> HIDE DEF g
      <4> QED
        BY <3>2, <4>1 DEF g
    <3>4. (t + 1) * p <= g * p
      <4> HIDE DEF g
      <4>1. \A x, y, z \in Nat : x <= y => x * z <= y * z
        OBVIOUS
      <4> QED
        BY <3>3, <4>1
    <3>5. g * p = (q + 1) * (v * p)
      OBVIOUS
    <3>6. (q + 1) * (v * p) <= (q + 1) * D
      <4>1. \A x, y, z \in Nat : x <= y => z * x <= z * y
        OBVIOUS
      <4>2. v * p \in Nat /\ v * p <= D
        BY <1>0 DEF Between
      <4> QED
        BY <4>1, <4>2
    <3> DEFINE a == (t + 1) * p
               c == (q + 1) * (v * p)
               d == (q + 1) * D
    <3>7. R < a /\ a <= c /\ c <= d /\ a \in Nat /\ c \in Nat /\ d \in Nat
      <4>1. R < a
        BY DEF Between
      <4>2. a \in Nat /\ d \in Nat
        BY <1>0
      <4>3. c \in Nat
        <5>1. v * p \in Nat
          BY <1>0
        <5> QED
          BY <1>0, <5>1
      <4>4. a <= c
        BY <3>4, <3>5
      <4> QED
        BY <3>6, <4>1, <4>2, <4>3, <4>4
    <3> HIDE DEF a, c, d
    <3>8. R < d
      BY <3>7
    <3> QED
      BY <3>8 DEF d
  <2> QED
    BY <2>1, <2>2
<1>2. ASSUME q # 0 PROVE (q - 1) * D <= t * p
  <2> DEFINE e == q - 1
             g == e * (v + 1)
  <2>1. e \in Nat /\ q = e + 1
    BY <1>2
  <2>2. g <= t /\ g \in Nat
    <3> HIDE DEF e
    <3>1. g = e * v + e /\ q * v = e * v + v /\ e * v \in Nat
      BY <2>1
    <3>2. e <= v
      BY <2>1
    <3> DEFINE x == e * v
    <3>3. g = x + e /\ x + v <= t /\ x \in Nat
      BY <3>1
    <3> HIDE DEF x, g
    <3> QED
      BY <2>1, <3>2, <3>3
  <2>3. g * p <= t * p
    <3> HIDE DEF g
    <3>1. \A x, y, z \in Nat : x <= y => x * z <= y * z
      OBVIOUS
    <3> QED
      BY <2>2, <3>1
  <2>4. e * D <= e * ((v + 1) * p)
    <3> HIDE DEF e
    <3>1. \A x, y, z \in Nat : x <= y => z * x <= z * y
      OBVIOUS
    <3>2. (v + 1) * p \in Nat /\ D <= (v + 1) * p
      <4>1. (v + 1) * p \in Nat
        BY <1>0
      <4>2. D < (v + 1) * p
        BY DEF Between
      <4> QED
        BY <4>1, <4>2
    <3> QED
      BY <2>1, <3>1, <3>2
  <2>5. e * ((v + 1) * p) = g * p
    <3> HIDE DEF e
    <3> QED
      BY <2>1
  <2> DEFINE a == e * D
             c == g * p
             d == t * p
  <2>6. a <= c /\ c <= d /\ a \in Nat /\ c \in Nat /\ d \in Nat
    <3>1. a \in Nat /\ c \in Nat /\ d \in Nat
      <4> HIDE DEF e, g
      <4> QED
        BY <1>0, <2>1, <2>2
    <3> QED
      BY <2>3, <2>4, <2>5, <3>1
  <2> HIDE DEF a, c, d
  <2>7. a <= d
    BY <2>6
  <2> QED
    BY <2>7 DEF a, d
<1> QED
  BY <1>1, <1>2

\* The top word of what is left is not above the top word of y.
LEMMA TopBelow ==
  ASSUME NEW b \in Nat, NEW u2 \in Nat, NEW u1 \in Nat, NEW u0 \in Nat, NEW l \in Nat, NEW s \in Nat, s < b,
         NEW p \in Nat, NEW R \in Nat, NEW D \in Nat, Between(R, (u2 * b + u1) * b + u0, p), Between(D, l * b + s, p),
         R < D * b
  PROVE  u2 <= l
<1>0. \A f, g \in Nat : f * g \in Nat
  OBVIOUS
<1>m. \A x, y, z \in Nat : x <= y => x * z <= y * z
  OBVIOUS
<1> SUFFICES ASSUME u2 >= l + 1 PROVE FALSE
  OBVIOUS
<1> DEFINE t == (u2 * b + u1) * b + u0
           v == l * b + s
<1>1. v \in Nat /\ t \in Nat /\ v + 1 <= (l + 1) * b /\ (l + 1) * b \in Nat
  <2>1. l * b \in Nat /\ (l + 1) * b = l * b + b /\ u2 * b \in Nat
    BY <1>0
  <2>2. (u2 * b + u1) * b \in Nat
    BY <1>0, <2>1
  <2> QED
    BY <2>1, <2>2
<1>2. (v + 1) * b <= t
  <2>1. (l + 1) * b <= u2 * b /\ u2 * b \in Nat
    BY <1>0, <1>m
  <2> DEFINE f == u2 * b
             g == (l + 1) * b
  <2>2. v + 1 <= f + u1 /\ f \in Nat
    <3>1. g <= f /\ g \in Nat /\ f \in Nat /\ v + 1 <= g
      BY <1>1, <2>1
    <3> HIDE DEF f, g, v
    <3> QED
      BY <1>1, <3>1
  <2> HIDE DEF f, v
  <2>3. (v + 1) * b <= (f + u1) * b
    BY <1>1, <1>m, <2>2
  <2>4. (v + 1) * b \in Nat /\ (f + u1) * b \in Nat
    BY <1>0, <1>1, <2>2
  <2> DEFINE x == (v + 1) * b
             z == (f + u1) * b
  <2>5. x <= z /\ x \in Nat /\ z \in Nat /\ t = z + u0
    BY <2>3, <2>4 DEF f
  <2> HIDE DEF x, z, t
  <2>6. x <= t
    BY <2>5
  <2> QED
    BY <2>6 DEF x
<1> HIDE DEF t, v
<1>3. ((v + 1) * b) * p <= t * p
  <2>1. (v + 1) * b \in Nat
    BY <1>0, <1>1
  <2> QED
    BY <1>1, <1>2, <1>m, <2>1
<1>4. D * b <= ((v + 1) * p) * b /\ ((v + 1) * p) * b = ((v + 1) * b) * p
  <2>1. (v + 1) * p \in Nat
    BY <1>0, <1>1
  <2>2. D <= (v + 1) * p
    <3>1. D < (v + 1) * p
      BY DEF Between, v
    <3> QED
      BY <2>1, <3>1
  <2>3. D * b <= ((v + 1) * p) * b
    BY <1>m, <2>1, <2>2
  <2>4. \A x \in Nat : (x * p) * b = (x * b) * p
    OBVIOUS
  <2>5. v + 1 \in Nat
    BY <1>1
  <2> QED
    BY <2>3, <2>4, <2>5
<1>5. t * p <= R
  BY DEF Between, t
<1> DEFINE a == D * b
           c == ((v + 1) * b) * p
           d == t * p
<1>6. R < a /\ a <= c /\ c <= d /\ d <= R /\ a \in Nat /\ c \in Nat /\ d \in Nat
  <2>1. (v + 1) * b \in Nat
    BY <1>0, <1>1
  <2>2. a \in Nat /\ c \in Nat /\ d \in Nat
    BY <1>0, <1>1, <2>1
  <2> QED
    BY <1>3, <1>4, <1>5, <2>2
<1> HIDE DEF a, c, d
<1> QED
  BY <1>6

\* The words from m up weigh a multiple of the weight of word m.
LEMMA SegmentMultiple ==
  ASSUME NEW w \in Words, NEW m \in Idx, NEW n \in m .. Ext
  PROVE  \E j \in Nat : Segment(w, n, m) = BTo[m] * j
<1> DEFINE P == BTo[m]
           T == {i \in Nat : m + i <= n => \E j \in Nat : Low(w, m + i) = Low(w, m) + P * j}
<1>1. m \in Nat /\ n \in Nat /\ n <= Ext /\ m <= n /\ m \in 0 .. Ext /\ P \in Nat /\ Low(w, m) \in Nat
  BY Sizes, BToIs, At
<1>2. 0 \in T
  <2>1. m + 0 = m /\ Low(w, m) = Low(w, m) + P * 0 /\ 0 \in Nat
    BY <1>1
  <2>2. \E j \in Nat : Low(w, m + 0) = Low(w, m) + P * j
    BY <2>1
  <2> QED
    BY <2>2
<1>3. ASSUME NEW i \in Nat, i \in T PROVE i + 1 \in T
  <2> SUFFICES ASSUME m + (i + 1) <= n PROVE \E j \in Nat : Low(w, m + (i + 1)) = Low(w, m) + P * j
    OBVIOUS
  <2>1. m + i \in Idx /\ m + i \in 0 .. Ext - 1 /\ (m + i) + 1 = m + (i + 1) /\ m + i <= n /\ i \in Idx
    BY <1>1, Sizes
  <2>2. PICK j \in Nat : Low(w, m + i) = Low(w, m) + P * j
    BY <1>3, <2>1
  <2>3. Low(w, (m + i) + 1) = Low(w, m + i) + w[m+i] * BTo[m+i] /\ BTo[m+i] = P * BTo[i]
    BY <2>1, LowIs, BToAdds
  <2>4. w[m+i] \in Nat /\ BTo[i] \in Nat
    BY <2>1, At
  <2> DEFINE d == w[m+i] * BTo[i]
  <2>5. d \in Nat /\ w[m+i] * (P * BTo[i]) = P * d /\ P * (j + d) = P * j + P * d /\ P * j \in Nat /\ P * d \in Nat
    <3> HIDE DEF P
    <3>1. \A f, g \in Nat : f * g \in Nat
      OBVIOUS
    <3>2. d \in Nat
      BY <2>4, <3>1
    <3>3. w[m+i] * (P * BTo[i]) = P * d
      BY <1>1, <2>4
    <3> HIDE DEF d
    <3> QED
      BY <1>1, <3>1, <3>2, <3>3
  <2> HIDE DEF d, P
  <2> DEFINE e == P * j
             f == P * d
  <2>6. Low(w, m + (i + 1)) = (Low(w, m) + e) + f /\ e \in Nat /\ f \in Nat /\ P * (j + d) = e + f
    BY <2>1, <2>2, <2>3, <2>5
  <2> HIDE DEF e, f
  <2>7. Low(w, m + (i + 1)) = Low(w, m) + P * (j + d) /\ j + d \in Nat
    BY <1>1, <2>5, <2>6
  <2> QED
    BY <2>7
<1>4. Nat \subseteq T
  <2> HIDE DEF T
  <2> QED
    BY <1>2, <1>3, SetInduction
<1>5. n - m \in Nat /\ m + (n - m) = n
  BY <1>1
<1>6. n - m \in T /\ m + (n - m) <= n
  <2>1. m + (n - m) <= n
    BY <1>1
  <2> HIDE DEF T
  <2> QED
    BY <1>4, <1>5, <2>1
<1>7. PICK j \in Nat : Low(w, m + (n - m)) = Low(w, m) + P * j
  BY <1>6
<1> DEFINE e == P * j
<1>8. Low(w, n) = Low(w, m) + e /\ e \in Nat
  <2>1. e \in Nat
    <3> HIDE DEF P
    <3> QED
      BY <1>1
  <2> QED
    BY <1>5, <1>7, <2>1
<1>9. Low(w, n) - Low(w, m) = e
  <2> HIDE DEF e
  <2> QED
    BY <1>1, <1>8
<1> QED
  BY <1>9 DEF Segment

\* A rest below a multiple of the weight stays below it with the words below.
LEMMA RestBelow ==
  ASSUME NEW P \in Nat, NEW j \in Nat, NEW V \in Nat, NEW e \in Nat, e < P, P * j < P * V
  PROVE  P * j + e < P * V
<1>1. CASE j >= V
  <2>1. \A x, y \in Nat : x <= y => P * x <= P * y
    OBVIOUS
  <2>2. P * V <= P * j /\ P * V \in Nat /\ P * j \in Nat
    <3>1. \A x, y \in Nat : x * y \in Nat
      OBVIOUS
    <3> QED
      BY <1>1, <2>1, <3>1
  <2> QED
    BY <2>2
<1>2. CASE j + 1 <= V
  <2>1. \A x, y \in Nat : x <= y => P * x <= P * y
    OBVIOUS
  <2>2. P * (j + 1) <= P * V /\ P * (j + 1) = P * j + P /\ P * j \in Nat /\ P * V \in Nat
    <3>1. \A x, y \in Nat : x * y \in Nat
      OBVIOUS
    <3> QED
      BY <1>2, <2>1, <3>1
  <2> DEFINE x == P * j
             y == P * V
  <2>3. x + P <= y /\ x \in Nat /\ y \in Nat
    BY <2>2
  <2> HIDE DEF x, y
  <2>4. x + e < y
    BY <2>3
  <2> QED
    BY <2>4 DEF x, y
<1> QED
  BY <1>1, <1>2

\* The top words of a multiple of the weight of word m of a number.
LEMMA WeighedTop ==
  ASSUME NEW P \in Nat \ {0}, NEW Q \in Nat, NEW l \in Nat, l < Q, NEW v \in Nat, NEW V, V = l + v * Q
  PROVE  Between(P * V, v, P * Q)
<1> DEFINE a == P * l
           b == P * Q
<1>1. P * V = a + v * b
  <2>1. P * (l + v * Q) = P * l + v * (P * Q)
    OBVIOUS
  <2> QED
    BY <2>1
<1>2. a \in Nat /\ b \in Nat /\ a < b
  <2>1. \A x, y \in Nat : x * y \in Nat
    OBVIOUS
  <2>2. P * (l + 1) <= P * Q /\ P * (l + 1) = P * l + P
    <3>1. \A x, y \in Nat : x <= y => P * x <= P * y
      OBVIOUS
    <3> QED
      BY <3>1
  <2>3. a \in Nat /\ b \in Nat
    BY <2>1
  <2>4. a + P <= b
    BY <2>2
  <2> HIDE DEF a, b
  <2> QED
    BY <2>3, <2>4
<1>3. Between(a + v * b, v, b)
  <2> HIDE DEF a, b
  <2> QED
    BY <1>2, BetweenIs
<1> QED
  BY <1>1, <1>3

\* One word of the quotient, found and taken off what is left.
OneDigit(w, k, y, y0) ==
  LET q == TrialDigit(w, k, y[y0-1], y[y0-2])
  IN  IF q > 0 THEN TakeOff(w, y, y0, k - y0 + 1, q) ELSE [w |-> w, q |-> 0]
DigitTaken(w, y, y0, m, t) ==
  LET n == m + y0
      D == BTo[m] * Low(y, y0)
  IN  /\ t.w \in Words /\ \A i \in Idx : i >= n => t.w[i] = 0
      /\ t.q \in Word /\ Low(t.w, n + 1) < D /\ Low(w, n + 1) = Low(t.w, n + 1) + t.q * D
LEMMA OneDigitIs ==
  ASSUME NEW w \in Words, NEW y \in Words, NEW y0 \in Nat, y0 >= 2, NEW m \in Nat, m + y0 \in Idx, y[y0-1] # 0,
         Low(w, m + y0 + 1) < (BTo[m] * Low(y, y0)) * B, \A i \in Idx : i > m + y0 => w[i] = 0
  PROVE  DigitTaken(w, y, y0, m, OneDigit(w, m + y0 - 1, y, y0))
<1> DEFINE n == m + y0
           k == n - 1
           j == n - 2
           l == y[y0-1]
           s == y[y0-2]
           V2 == l * B + s
           top == w[n] * B + w[k]
           T3 == top * B + w[j]
           P == BTo[m]
           p == BTo[j]
           V == Low(y, y0)
           D == P * V
           R == Low(w, n + 1)
           q == TrialDigit(w, k, l, s)
           t == OneDigit(w, k, y, y0)
           Taken == /\ t.w \in Words /\ t.q \in Word /\ Low(t.w, n + 1) < D /\ R = Low(t.w, n + 1) + t.q * D
                    /\ \A i \in Idx : i > n => t.w[i] = 0
<1>1. /\ n \in Nat /\ n \in Idx /\ k \in Idx /\ j \in Idx /\ j \in Nat /\ k \in Nat /\ m \in Idx /\ y0 - 1 \in Idx /\ y0 - 2 \in Idx
      /\ k - 1 = j /\ k + 1 = n /\ j + 3 = n + 1 /\ j + 2 = n /\ j + 1 = k /\ j + 3 \in 0 .. Ext /\ n + 1 \in m .. Ext
      /\ (y0 - 2) + 2 = y0 /\ (y0 - 2) + 1 = y0 - 1 /\ y0 - 2 \in Nat /\ y0 \in 0 .. Ext /\ m + (y0 - 2) = j
      /\ k - y0 + 1 = m /\ n + 1 \in 0 .. Ext /\ n \in 0 .. Ext - 1 /\ y0 \in Idx /\ m \in 0 .. Ext /\ j \in m .. Ext
  BY Sizes
<1>2. /\ w[n] \in Word /\ w[k] \in Word /\ w[j] \in Word /\ l \in Word /\ s \in Word
      /\ w[n] \in Nat /\ w[k] \in Nat /\ w[j] \in Nat /\ l \in Nat /\ l # 0 /\ s \in Nat /\ s < B
      /\ B \in Nat \ {0} /\ Word = 0 .. B - 1 /\ P \in Nat \ {0} /\ p \in Nat \ {0} /\ V \in Nat /\ R \in Nat
      /\ BTo[y0] \in Nat /\ V < BTo[y0] /\ BTo[n] \in Nat /\ BTo[n] = P * BTo[y0]
  <2>1. w[n] \in Word /\ w[k] \in Word /\ w[j] \in Word /\ l \in Word /\ s \in Word
    BY <1>1 DEF Words
  <2>2. P \in Nat \ {0} /\ p \in Nat \ {0} /\ BTo[y0] \in Nat /\ BTo[n] \in Nat
    BY <1>1, BToIs
  <2>3. V \in Nat /\ V < BTo[y0] /\ R \in Nat
    BY <1>1, LowBelow, LowNat
  <2>4. BTo[m + y0] = BTo[m] * BTo[y0]
    BY <1>1, BToAdds
  <2> HIDE DEF n, k, j, V, R
  <2> QED
    BY <2>1, <2>2, <2>3, <2>4, Sizes DEF n
<1>n. V2 \in Nat /\ T3 \in Nat /\ D \in Nat
  <2>1. \A f, g \in Nat : f * g \in Nat
    OBVIOUS
  <2>2. \A f, g \in Nat : f + g \in Nat
    OBVIOUS
  <2>3. V2 \in Nat
    <3> HIDE DEF l, s
    <3> QED
      BY <1>2, <2>1, <2>2
  <2>4. top \in Nat
    <3> HIDE DEF n, k
    <3> QED
      BY <1>2, <2>1, <2>2
  <2>5. T3 \in Nat
    <3> HIDE DEF top, j
    <3> QED
      BY <1>2, <2>1, <2>2, <2>4
  <2>6. D \in Nat
    <3> HIDE DEF P, V
    <3> QED
      BY <1>2, <2>1
  <2> QED
    BY <2>3, <2>5, <2>6
<1>3. Between(R, T3, p)
  <2>1. R = Low(w, j) + T3 * p
    <3>1. Low(w, j + 3) = Low(w, j) + ((w[j+2] * B + w[j+1]) * B + w[j]) * BTo[j]
      <4> HIDE DEF j
      <4> QED
        BY <1>1, TopThree
    <3> HIDE DEF n, k, j
    <3> QED
      BY <1>1, <3>1
  <2>2. Low(w, j) \in Nat /\ Low(w, j) < p
    <3> HIDE DEF j
    <3> QED
      BY <1>1, LowBelow
  <2> HIDE DEF T3, p, j, R
  <2> QED
    BY <1>2, <1>n, <2>1, <2>2, BetweenIs
<1>4. Between(D, V2, p)
  <2> DEFINE i == y0 - 2
  <2>1. /\ Low(y, i + 2) = Low(y, i) + (y[i+1] * B + y[i]) * BTo[i]
        /\ Low(y, i) \in Nat /\ Low(y, i) < BTo[i] /\ BTo[i] \in Nat
    <3>1. i \in Nat /\ i + 2 \in 0 .. Ext
      BY <1>1
    <3> HIDE DEF i
    <3> QED
      BY <3>1, TopTwo
  <2>2. V = Low(y, i) + V2 * BTo[i]
    <3>1. i + 2 = y0 /\ i + 1 = y0 - 1
      BY <1>1
    <3> QED
      BY <2>1, <3>1
  <2>3. p = P * BTo[i]
    <3>1. m + i \in Idx /\ i \in Idx /\ m + i = j
      BY <1>1
    <3> HIDE DEF i, j
    <3>2. BTo[m + i] = BTo[m] * BTo[i]
      BY <1>1, <3>1, BToAdds
    <3> QED
      BY <3>1, <3>2
  <2> HIDE DEF i, V2, V, P, p
  <2> QED
    BY <1>2, <1>n, <2>1, <2>2, <2>3, WeighedTop
<1>5. D \in Nat /\ V2 \in Nat /\ T3 \in Nat /\ R < D * B
  BY <1>n
<1>6. w[n] <= l
  <2> HIDE DEF n, k, j, l, s, R, D, p
  <2> QED
    BY <1>2, <1>3, <1>4, <1>5, TopBelow
<1>7. DigitOf(q, top, w[j], l, s)
  <2>1. DigitOf(TrialDigit(w, k, l, s), w[k+1] * B + w[k], w[k-1], l, s)
    <3>1. k \in Nat /\ k - 1 \in Idx /\ k + 1 \in Idx /\ w[k+1] <= l
      BY <1>1, <1>6
    <3> HIDE DEF k, l, s
    <3> QED
      BY <1>2, <3>1, TrialDigitIs
  <2> HIDE DEF q, l, s, k, n, j
  <2> QED
    BY <1>1, <2>1 DEF q
<1>8. q \in Word /\ q \in Nat /\ q < B /\ q * V2 <= T3 /\ \A x \in 0 .. B - 1 : x * V2 <= T3 => x <= q
  <2> HIDE DEF q, l, s, n, k, j
  <2>1. q \in Word /\ q * V2 <= T3 /\ \A x \in Word : x * V2 <= T3 => x <= q
    BY <1>7 DEF DigitOf
  <2> HIDE DEF V2, T3
  <2> QED
    BY <1>2, <2>1
<1>9. B <= V2
  <2>1. l >= 1 /\ l * B >= 1 * B /\ l * B \in Nat
    <3> HIDE DEF l
    <3>1. l >= 1
      BY <1>2
    <3>2. \A x, z \in Nat : x <= z => x * B <= z * B
      BY <1>2
    <3>3. \A x, z \in Nat : x * z \in Nat
      OBVIOUS
    <3> QED
      BY <1>2, <3>1, <3>2, <3>3
  <2> DEFINE a == l * B
  <2>2. a >= B /\ V2 = a + s /\ a \in Nat
    BY <1>2, <2>1
  <2> HIDE DEF a, s, V2
  <2> QED
    BY <1>2, <2>2
<1>10. R < (q + 1) * D /\ (q # 0 => (q - 1) * D <= T3 * p)
  <2> HIDE DEF q, V2, T3, p, R, D
  <2> QED
    BY <1>2, <1>3, <1>4, <1>5, <1>8, <1>9, DigitBounds
<1>11. ASSUME q = 0 PROVE Taken
  <2>1. t = [w |-> w, q |-> 0]
    <3>1. ~(q > 0)
      BY <1>11
    <3> QED
      BY <3>1 DEF OneDigit
  <2> HIDE DEF t
  <2>2. t.w = w /\ t.q = 0
    BY <2>1
  <2>3. R < D
    <3>1. (0 + 1) * D = D
      <4> HIDE DEF D
      <4> QED
        BY <1>5
    <3> HIDE DEF q, R, D
    <3> QED
      BY <1>10, <1>11, <3>1
  <2>4. R = R + 0 * D /\ 0 \in Word
    <3> HIDE DEF R, D
    <3> QED
      BY <1>2, <1>5
  <2> HIDE DEF D, R
  <2> QED
    BY <2>2, <2>3, <2>4 DEF R
<1>12. ASSUME q # 0 PROVE Taken
  <2>1. t = TakeOff(w, y, y0, m, q)
    <3>1. q > 0
      BY <1>8, <1>12
    <3> QED
      BY <1>1, <3>1 DEF OneDigit
  <2>2. T3 * p <= Segment(w, n + 1, m)
    <3>1. R = Low(w, j) + T3 * p
      <4>1. Low(w, j + 3) = Low(w, j) + ((w[j+2] * B + w[j+1]) * B + w[j]) * BTo[j]
        <5> HIDE DEF j
        <5> QED
          BY <1>1, TopThree
      <4> HIDE DEF n, k, j
      <4> QED
        BY <1>1, <4>1
    <3>2. Low(w, m) <= Low(w, j) /\ Low(w, m) \in Nat /\ Low(w, j) \in Nat
      <4> HIDE DEF j
      <4> QED
        BY <1>1, LowMore, LowNat
    <3>3. T3 * p \in Nat
      <4> HIDE DEF T3, p
      <4> QED
        BY <1>2, <1>5
    <3> DEFINE f == T3 * p
    <3>4. R = Low(w, j) + f /\ f \in Nat
      BY <3>1, <3>3
    <3> HIDE DEF f, R, j
    <3>5. f <= R - Low(w, m)
      BY <3>2, <3>4
    <3> QED
      BY <3>5 DEF f, Segment, R
  <2>3. (q - 1) * D <= Segment(w, n + 1, m)
    <3> DEFINE f == T3 * p
               e == (q - 1) * D
               u == Segment(w, n + 1, m)
    <3>1. e <= f /\ f <= u /\ e \in Int /\ f \in Int /\ u \in Int
      <4>1. f \in Int
        <5> HIDE DEF T3, p
        <5> QED
          BY <1>2, <1>5
      <4>2. e \in Int
        <5> HIDE DEF q, D
        <5> QED
          BY <1>5, <1>8
      <4>3. u \in Int
        <5>1. Low(w, m) \in Nat
          BY <1>1, LowNat
        <5> HIDE DEF R
        <5>2. R - Low(w, m) \in Int
          BY <1>2, <5>1
        <5> QED
          BY <5>2 DEF Segment, R
      <4> HIDE DEF q, T3, p, D
      <4> QED
        BY <1>10, <1>12, <2>2, <4>1, <4>2, <4>3
    <3> HIDE DEF e, f, u
    <3>2. e <= u
      BY <3>1
    <3> QED
      BY <3>2 DEF e, u
  <2>4. TakenOff(w, y, y0, m, q, t)
    <3>1. (q - 1) * (BTo[m] * Low(y, y0)) <= Segment(w, m + y0 + 1, m)
      BY <2>3
    <3> HIDE DEF q, t
    <3> QED
      BY <1>8, <1>12, <2>1, <3>1, TakeOffIs
  <2> HIDE DEF t
  <2>5. /\ t.w \in Words /\ (\A i \in Idx : (i < m \/ i > n) => t.w[i] = w[i])
        /\ t.q \in Word /\ (t.q = q \/ (t.q = q - 1 /\ Segment(t.w, n + 1, m) < D))
        /\ Segment(t.w, n + 1, m) = Segment(w, n + 1, m) - t.q * D
    <3> HIDE DEF q
    <3> QED
      BY <2>4 DEF TakenOff
  <2>6. Low(t.w, m) = Low(w, m) /\ Low(w, m) \in Nat /\ Low(w, m) < P /\ Low(t.w, n + 1) \in Nat
    <3>1. \A i \in 0 .. m - 1 : t.w[i] = w[i]
      <4> TAKE i \in 0 .. m - 1
      <4>1. i \in Idx /\ i < m
        BY <1>1, Sizes
      <4> HIDE DEF q, n, D
      <4> QED
        BY <2>5, <4>1
    <3>2. t.w \in Words
      BY <2>5
    <3> HIDE DEF n
    <3> QED
      BY <1>1, <3>1, <3>2, LowSame, LowBelow, LowNat
  <2>7. R = Low(t.w, n + 1) + t.q * D
    <3> DEFINE r == Low(t.w, n + 1)
               f == t.q * D
               e == Low(w, m)
    <3>1. f \in Int
      <4>1. t.q \in Int
        BY <1>2, <2>5
      <4> HIDE DEF D
      <4> QED
        BY <1>5, <4>1
    <3>2. r - e = (R - e) - f
      <4>1. Segment(t.w, n + 1, m) = r - e /\ Segment(w, n + 1, m) = R - e
        <5>1. Low(t.w, m) = e
          BY <2>6
        <5> HIDE DEF n, e
        <5> QED
          BY <5>1 DEF Segment, e
      <4> HIDE DEF r, R, e
      <4> QED
        BY <2>5, <4>1
    <3>3. r \in Nat /\ e \in Nat /\ R \in Nat
      BY <1>2, <2>6
    <3> HIDE DEF r, f, e, R
    <3>4. R = r + f
      BY <3>1, <3>2, <3>3
    <3> QED
      BY <3>4 DEF R, r, f
  <2>8. Low(t.w, n + 1) < D
    <3> DEFINE r == Low(t.w, n + 1)
    <3>1. CASE t.q = q
      <4> DEFINE f == q * D
      <4>1. f \in Nat /\ (q + 1) * D = f + D
        <5> HIDE DEF q, D
        <5> QED
          BY <1>5, <1>8
      <4>2. R = r + f /\ R < f + D
        <5> HIDE DEF q, D, R
        <5> QED
          BY <1>10, <2>7, <3>1, <4>1
      <4>3. r \in Nat
        BY <2>6
      <4> HIDE DEF f, D, R, r
      <4>4. r < D
        BY <1>5, <4>1, <4>2, <4>3
      <4> QED
        BY <4>4 DEF r
    <3>2. CASE t.q # q
      <4>1. Segment(t.w, n + 1, m) < D
        BY <2>5, <3>2
      <4>2. PICK i \in Nat : Segment(t.w, n + 1, m) = P * i
        <5>1. t.w \in Words
          BY <2>5
        <5> HIDE DEF n
        <5> QED
          BY <1>1, <5>1, SegmentMultiple
      <4>3. P * i + Low(w, m) < P * V
        <5>1. P * i < P * V
          BY <4>1, <4>2
        <5> HIDE DEF P, V
        <5> QED
          BY <1>2, <2>6, <5>1, RestBelow
      <4>4. r = P * i + Low(w, m)
        <5> DEFINE g == P * i
                   e == Low(w, m)
        <5>1. r - e = g /\ r \in Nat /\ e \in Nat /\ g \in Nat
          <6>1. Segment(t.w, n + 1, m) = r - e
            BY <2>6 DEF Segment
          <6>2. g \in Nat
            <7> HIDE DEF P
            <7> QED
              BY <1>2
          <6> QED
            BY <2>6, <4>2, <6>1, <6>2
        <5> HIDE DEF g, e, r
        <5>2. r = g + e
          BY <5>1
        <5> QED
          BY <5>2 DEF g, e
      <4> QED
        BY <4>3, <4>4
    <3> QED
      BY <3>1, <3>2
  <2>9. \A i \in Idx : i > n => t.w[i] = 0
    <3> TAKE i \in Idx
    <3> HAVE i > n
    <3> HIDE DEF q, D
    <3> QED
      BY <2>5
  <2> HIDE DEF D, R
  <2> QED
    BY <2>5, <2>7, <2>8, <2>9
<1>13. Taken
  BY <1>11, <1>12
<1>14. t.w[n] = 0
  <2>1. CASE t.w[n] # 0
    <3>1. BTo[n] <= Low(t.w, n + 1)
      <4>1. t.w \in Words
        BY <1>13
      <4> HIDE DEF t, n
      <4> QED
        BY <1>1, <2>1, <4>1, LowTop
    <3>2. D <= BTo[n]
      <4> HIDE DEF P, V, n
      <4>1. \A a, c \in Nat : a <= c => P * a <= P * c
        BY <1>2
      <4> QED
        BY <1>2, <4>1
    <3>3. Low(t.w, n + 1) < D /\ Low(t.w, n + 1) \in Nat
      <4>1. t.w \in Words
        BY <1>13
      <4> HIDE DEF t, n
      <4> QED
        BY <1>1, <1>13, <4>1, LowNat
    <3> HIDE DEF D, n, t
    <3> QED
      BY <1>2, <1>5, <3>1, <3>2, <3>3
  <2> QED
    BY <2>1
<1>15. \A i \in Idx : i >= n => t.w[i] = 0
  <2> TAKE i \in Idx
  <2> HAVE i >= n
  <2>1. i > n \/ i = n
    BY <1>1, Sizes
  <2> HIDE DEF D, R
  <2> QED
    BY <1>13, <1>14, <2>1
<1> HIDE DEF t, D, R
<1>16. t.w \in Words /\ t.q \in Word /\ Low(t.w, n + 1) < D /\ R = Low(t.w, n + 1) + t.q * D
  BY <1>13
<1> QED
  BY <1>15, <1>16 DEF DigitTaken, t, D, R

\* A word written where there was none.
LEMMA LowSet ==
  ASSUME NEW z \in Words, NEW m \in Idx, z[m] = 0, NEW q \in Word, NEW n \in m + 1 .. Ext
  PROVE  LET v == [z EXCEPT ![m] = q] IN v \in Words /\ Low(v, n) = Low(z, n) + q * BTo[m]
<1> DEFINE v == [z EXCEPT ![m] = q]
<1>1. /\ m \in Nat /\ m \in 0 .. Ext - 1 /\ m \in 0 .. Ext /\ m + 1 \in 0 .. Ext /\ n \in 0 .. Ext /\ n \in m + 1 .. Ext
      /\ \A i \in 0 .. m - 1 : i \in Idx /\ i # m
      /\ \A i \in m + 1 .. n - 1 : i \in Idx /\ i # m
  BY Sizes
<1>2. v \in Words /\ v[m] = q /\ \A i \in Idx : i # m => v[i] = z[i]
  BY DEF Words
<1> HIDE DEF v
<1>3. Low(v, m) = Low(z, m)
  <2>1. \A i \in 0 .. m - 1 : v[i] = z[i]
    BY <1>1, <1>2
  <2> QED
    BY <1>1, <1>2, <2>1, LowSame
<1>4. Low(v, m + 1) = Low(v, m) + q * BTo[m] /\ Low(z, m + 1) = Low(z, m) + 0 * BTo[m]
  BY <1>1, <1>2, LowIs
<1>5. Low(v, n) - Low(v, m + 1) = Low(z, n) - Low(z, m + 1)
  <2>1. \A i \in m + 1 .. n - 1 : v[i] = z[i]
    BY <1>1, <1>2
  <2> QED
    BY <1>1, <1>2, <2>1, LowRest
<1>6. Low(v, n) \in Nat /\ Low(z, n) \in Nat /\ Low(z, m) \in Nat /\ Low(v, m + 1) \in Nat /\ BTo[m] \in Nat /\ q \in Nat
  <2>1. Low(v, n) \in Nat /\ Low(z, n) \in Nat
    BY <1>1, <1>2, LowNat
  <2>2. Low(z, m) \in Nat /\ Low(v, m + 1) \in Nat
    BY <1>1, <1>2, LowNat
  <2>3. BTo[m] \in Nat
    BY BToIs
  <2>4. q \in Nat
    BY Sizes
  <2> QED
    BY <2>1, <2>2, <2>3, <2>4
<1>7. 0 * BTo[m] = 0 /\ q * BTo[m] \in Nat
  BY <1>6
<1> DEFINE d == q * BTo[m]
<1>8. Low(v, m + 1) = Low(z, m) + d /\ Low(z, m + 1) = Low(z, m) /\ d \in Nat
  BY <1>3, <1>4, <1>6, <1>7
<1> HIDE DEF d
<1>9. Low(v, n) = Low(z, n) + d
  BY <1>5, <1>6, <1>8
<1> QED
  BY <1>2, <1>9 DEF d, v

\* What the loop has left of x with word h on top, and the quotient so far: its
\* words are known when the result was clear before.
QuotientStates == [w : Words, z : Words, len : 0 .. Ext]
DividedTo(s, h, y, y0, top, x, clear) ==
  /\ s \in QuotientStates /\ h <= s.len /\ s.len <= top
  /\ \A j \in Idx : j > h => s.w[j] = 0
  /\ Low(s.w, h + 1) < Low(y, y0) * BTo[h - y0 + 1]
  /\ \E Q \in Nat : x = Low(s.w, h + 1) + Low(y, y0) * Q /\ (clear => Q = Low(s.z, top - y0 + 1))
  /\ clear => \A j \in Idx : (j < h - y0 + 1 \/ j >= s.len - y0 + 1) => s.z[j] = 0
LEMMA QuotientStepIs ==
  ASSUME NEW Y, Y.w \in Words, NEW y0 \in Nat, y0 >= 2, Y.w[y0-1] # 0, NEW top \in Idx, NEW h \in y0 .. top,
         NEW x, NEW clear \in BOOLEAN, NEW s, DividedTo(s, h, Y.w, y0, top, x, clear)
  PROVE  DividedTo(QuotientStep(s, h - 1, Y, y0), h - 1, Y.w, y0, top, x, clear)
<1> DEFINE y == Y.w
           V == Low(y, y0)
           k == h - 1
           m == h - y0
           N == top - y0 + 1
           P == BTo[m]
           R == Low(s.w, h + 1)
           t == OneDigit(s.w, k, y, y0)
           v == QuotientStep(s, k, Y, y0)
<1>1. /\ h \in Nat /\ m \in Nat /\ k \in Nat /\ h \in Idx /\ m \in Idx /\ m + y0 = h /\ k + 1 = h /\ k - y0 + 1 = m
      /\ h - y0 + 1 = m + 1 /\ m \in 0 .. Ext - 2 /\ h \in 0 .. Ext - 1 /\ h + 1 \in 0 .. Ext /\ N \in m + 1 .. Ext /\ N \in 0 .. Ext
      /\ top \in Nat /\ y0 \in 0 .. Ext /\ y \in Words
  BY Sizes
<1>2. s \in QuotientStates /\ s.w \in Words /\ s.z \in Words /\ s.len \in 0 .. Ext /\ s.len \in Nat /\ h <= s.len /\ s.len <= top
      /\ s = [w |-> s.w, z |-> s.z, len |-> s.len]
  <2>1. s \in QuotientStates /\ h <= s.len /\ s.len <= top
    BY DEF DividedTo
  <2> QED
    BY <2>1, Sizes DEF QuotientStates
<1>3. V \in Nat /\ P \in Nat /\ R \in Nat /\ B \in Nat /\ BTo[m+1] = B * P
  <2> HIDE DEF m, y
  <2> QED
    BY <1>1, <1>2, LowNat, BToIs, Sizes
<1>4. DigitTaken(s.w, y, y0, m, t)
  <2>1. R < V * BTo[m+1]
    BY <1>1 DEF DividedTo
  <2>2. V * (B * P) = (P * V) * B
    <3> HIDE DEF V, P
    <3> QED
      BY <1>3
  <2>3. Low(s.w, m + y0 + 1) < (BTo[m] * Low(y, y0)) * B
    <3>1. R < (P * V) * B
      <4> HIDE DEF V, P, R
      <4> QED
        BY <1>3, <2>1, <2>2
    <3> QED
      BY <1>1, <3>1
  <2>4. \A i \in Idx : i > m + y0 => s.w[i] = 0
    BY <1>1 DEF DividedTo
  <2>5. m + y0 - 1 = k /\ m + y0 \in Idx
    BY <1>1
  <2>6. DigitTaken(s.w, y, y0, m, OneDigit(s.w, m + y0 - 1, y, y0))
    <3> HIDE DEF m, k
    <3> QED
      BY <1>1, <1>2, <2>3, <2>4, <2>5, OneDigitIs
  <2> HIDE DEF t, m, k
  <2> QED
    BY <2>5, <2>6 DEF t
<1>5. /\ t.w \in Words /\ (\A i \in Idx : i >= h => t.w[i] = 0) /\ t.q \in Word /\ t.q \in Nat
      /\ Low(t.w, h + 1) < P * V /\ R = Low(t.w, h + 1) + t.q * (P * V)
  <2> HIDE DEF t
  <2> QED
    BY <1>1, <1>4, Sizes DEF DigitTaken
<1>6. v = IF k = s.len - 1 /\ t.q = 0 THEN [w |-> t.w, z |-> s.z, len |-> s.len - 1]
          ELSE [w |-> t.w, z |-> [s.z EXCEPT ![m] = t.q], len |-> s.len]
  <2>1. v = IF k = s.len - 1 /\ t.q = 0 THEN [w |-> t.w, z |-> s.z, len |-> s.len - 1]
            ELSE [w |-> t.w, z |-> [s.z EXCEPT ![k - y0 + 1] = t.q], len |-> s.len]
    BY DEF QuotientStep, OneDigit
  <2> HIDE DEF v, t, m, k
  <2> QED
    BY <1>1, <2>1
<1> HIDE DEF t, v
<1>7. Low(t.w, h) = Low(t.w, h + 1) /\ Low(t.w, h) \in Nat
  <2>1. t.w[h] = 0 /\ Low(t.w, h + 1) = Low(t.w, h) + t.w[h] * BTo[h]
    BY <1>1, <1>5, LowIs
  <2>2. BTo[h] \in Nat /\ Low(t.w, h) \in Nat
    BY <1>1, <1>5, BToIs, At
  <2>3. 0 * BTo[h] = 0
    BY <2>2
  <2> QED
    BY <2>1, <2>2, <2>3
<1>8. Low(t.w, k + 1) < V * BTo[k - y0 + 1]
  <2>1. P * V = V * P
    <3> HIDE DEF P, V
    <3> QED
      BY <1>3
  <2>2. Low(t.w, h) < V * P
    BY <1>5, <1>7, <2>1
  <2> QED
    BY <1>1, <2>2
<1>9. \A j \in Idx : j > k => t.w[j] = 0
  <2> TAKE j \in Idx
  <2> HAVE j > k
  <2>1. j >= h
    BY <1>1, Sizes
  <2> QED
    BY <1>5, <2>1
<1>10. v \in QuotientStates /\ v.w = t.w /\ k <= v.len /\ v.len <= top
  <2>1. CASE k = s.len - 1 /\ t.q = 0
    <3>1. v = [w |-> t.w, z |-> s.z, len |-> s.len - 1]
      BY <1>6, <2>1
    <3>2. s.len - 1 \in 0 .. Ext /\ k <= s.len - 1 /\ s.len - 1 <= top
      <4>1. s.len - 1 = k
        BY <2>1
      <4>2. k \in 0 .. Ext /\ k <= top
        <5>1. h <= top
          OBVIOUS
        <5>2. k \in Nat /\ k + 1 = h /\ h \in 0 .. Ext - 1 /\ top \in Nat
          BY <1>1
        <5> HIDE DEF k
        <5> QED
          BY <5>1, <5>2, Sizes
      <4> HIDE DEF k
      <4> QED
        BY <4>1, <4>2
    <3> HIDE DEF k
    <3> QED
      BY <1>2, <1>5, <3>1, <3>2 DEF QuotientStates
  <2>2. CASE ~(k = s.len - 1 /\ t.q = 0)
    <3>1. v = [w |-> t.w, z |-> [s.z EXCEPT ![m] = t.q], len |-> s.len]
      BY <1>6, <2>2
    <3>2. [s.z EXCEPT ![m] = t.q] \in Words
      BY <1>1, <1>2, <1>5 DEF Words
    <3>3. k <= s.len
      BY <1>1, <1>2
    <3> HIDE DEF k, m
    <3> QED
      BY <1>2, <1>5, <3>1, <3>2, <3>3 DEF QuotientStates
  <2> QED
    BY <2>1, <2>2
<1>11. PICK Q \in Nat : x = R + V * Q /\ (clear => Q = Low(s.z, N))
  BY DEF DividedTo
<1>12. x = Low(t.w, k + 1) + V * (Q + t.q * P) /\ Q + t.q * P \in Nat
  <2> DEFINE r == Low(t.w, h + 1)
             q == t.q
  <2>1. q * (P * V) = V * (q * P) /\ q * P \in Nat /\ V * (Q + q * P) = V * Q + V * (q * P)
    <3> HIDE DEF P, V, q
    <3>1. q \in Nat
      BY <1>5 DEF q
    <3>2. q * P \in Nat
      <4>1. \A f, g \in Nat : f * g \in Nat
        OBVIOUS
      <4> QED
        BY <1>3, <3>1, <4>1
    <3>3. \A f, g, e \in Nat : f * (g * e) = e * (f * g)
      OBVIOUS
    <3>4. \A f, g, e \in Nat : f * (g + e) = f * g + f * e
      OBVIOUS
    <3> QED
      BY <1>3, <3>1, <3>2, <3>3, <3>4
  <2>2. V * Q \in Nat /\ V * (q * P) \in Nat
    <3>1. \A f, g \in Nat : f * g \in Nat
      OBVIOUS
    <3> HIDE DEF P, V, q
    <3> QED
      BY <1>3, <2>1, <3>1
  <2> DEFINE a == V * Q
             b == V * (q * P)
             c == V * (Q + q * P)
  <2>3. x = (r + b) + a /\ r \in Nat /\ a \in Nat /\ b \in Nat /\ c = a + b
    <3> HIDE DEF P, V, R
    <3> QED
      BY <1>5, <1>7, <1>11, <2>1, <2>2
  <2>4. Q + q * P \in Nat
    <3> HIDE DEF q, P
    <3> QED
      BY <2>1
  <2> HIDE DEF a, b, c, r
  <2>5. x = r + c
    BY <2>3
  <2> HIDE DEF V, P
  <2> QED
    BY <1>1, <1>7, <2>4, <2>5 DEF r, c, q
<1>13. ASSUME clear PROVE /\ Low(v.z, N) = Q + t.q * P
                         /\ \A j \in Idx : (j < k - y0 + 1 \/ j >= v.len - y0 + 1) => v.z[j] = 0
  <2>1. Q = Low(s.z, N) /\ \A j \in Idx : (j < m + 1 \/ j >= s.len - y0 + 1) => s.z[j] = 0
    BY <1>1, <1>11, <1>13 DEF DividedTo
  <2>2. s.z[m] = 0
    BY <1>1, <2>1
  <2>3. CASE k = s.len - 1 /\ t.q = 0
    <3>1. v = [w |-> t.w, z |-> s.z, len |-> s.len - 1]
      BY <1>6, <2>3
    <3>2. v.z = s.z /\ v.len = s.len - 1
      BY <3>1
    <3>3. Q + t.q * P = Q
      <4> HIDE DEF P
      <4>1. 0 * P = 0
        BY <1>3
      <4> QED
        BY <2>3, <4>1
    <3>4. \A j \in Idx : (j < m \/ j >= (s.len - 1) - y0 + 1) => s.z[j] = 0
      <4> TAKE j \in Idx
      <4> HAVE j < m \/ j >= (s.len - 1) - y0 + 1
      <4>1. j \in Nat
        BY Sizes
      <4>2. s.len = h
        BY <1>1, <1>2, <2>3
      <4>3. j < m + 1 \/ j >= s.len - y0 + 1
        BY <1>1, <1>2, <4>1, <4>2
      <4> QED
        BY <2>1, <4>3
    <3> HIDE DEF N, P, m, k
    <3> QED
      BY <1>1, <2>1, <3>2, <3>3, <3>4
  <2>4. CASE ~(k = s.len - 1 /\ t.q = 0)
    <3> DEFINE u == [s.z EXCEPT ![m] = t.q]
    <3>1. v = [w |-> t.w, z |-> u, len |-> s.len]
      BY <1>6, <2>4
    <3>2. u \in Words /\ Low(u, N) = Low(s.z, N) + t.q * P
      <4> HIDE DEF N
      <4> QED
        BY <1>1, <1>2, <1>5, <2>2, LowSet
    <3>3. \A j \in Idx : j # m => u[j] = s.z[j]
      BY <1>2 DEF Words
    <3> HIDE DEF u
    <3>4. v.z = u /\ v.len = s.len
      BY <3>1
    <3>5. \A j \in Idx : (j < m \/ j >= s.len - y0 + 1) => u[j] = 0
      <4> TAKE j \in Idx
      <4> HAVE j < m \/ j >= s.len - y0 + 1
      <4>1. j \in Nat
        BY Sizes
      <4>2. j # m /\ (j < m + 1 \/ j >= s.len - y0 + 1)
        BY <1>1, <1>2, <4>1
      <4> QED
        BY <2>1, <3>3, <4>2
    <3> HIDE DEF N, P, m, k
    <3> QED
      BY <1>1, <2>1, <3>2, <3>4, <3>5
  <2> QED
    BY <2>3, <2>4
<1>14. \E q \in Nat : x = Low(v.w, k + 1) + V * q /\ (clear => q = Low(v.z, N))
  <2> DEFINE q == Q + t.q * P
  <2>1. q \in Nat /\ x = Low(v.w, k + 1) + V * q /\ (clear => q = Low(v.z, N))
    BY <1>10, <1>12, <1>13
  <2> HIDE DEF q, V, N, k
  <2> QED
    BY <2>1
<1> HIDE DEF V, P, R
<1>15. clear => \A j \in Idx : (j < k - y0 + 1 \/ j >= v.len - y0 + 1) => v.z[j] = 0
  BY <1>13
<1> QED
  BY <1>8, <1>9, <1>10, <1>14, <1>15 DEF DividedTo, v, V

\* The loop divides: what is left is below y, the rest is y times the quotient.
LEMMA QuotientWordsIs ==
  ASSUME NEW Y, Y.w \in Words, NEW y0 \in Nat, y0 >= 2, Y.w[y0-1] # 0, NEW top \in Idx, y0 <= top,
         NEW w \in Words, NEW z \in Words, \A j \in Idx : j > top => w[j] = 0,
         Low(w, top + 1) < Low(Y.w, y0) * BTo[top - y0 + 1],
         NEW clear \in BOOLEAN, clear => \A j \in Idx : z[j] = 0
  PROVE  DividedTo(QuotientWords(w, top, Y, y0, z), y0 - 1, Y.w, y0, top, Low(w, top + 1), clear)
<1> DEFINE x == Low(w, top + 1)
           N == top - y0 + 1
           D(s, h) == DividedTo(s, h, Y.w, y0, top, x, clear)
           S == [i \in 0 .. N |-> {s \in QuotientStates : D(s, top - i)}]
           first == [w |-> w, z |-> z, len |-> top]
           step == [i \in Idx |-> [s \in [w : [Idx -> Word], z : [Idx -> Word], len : 0 .. Ext] |->
                                   QuotientStep(s, top - 1 - i, Y, y0)]]
           e == Carried(N, first, step)[N]
<1>1. /\ top \in Nat /\ N \in Nat /\ N \in 0 .. Ext /\ top - N = y0 - 1 /\ top - 0 = top /\ N \in Idx
      /\ 0 \in 0 .. N /\ N \in 0 .. N /\ 0 .. N - 1 \in SUBSET Idx /\ top \in 0 .. Ext /\ top + 1 \in 0 .. Ext
  BY Sizes
<1>2. x \in Nat /\ Low(Y.w, y0) \in Nat
  BY <1>1, LowNat, Sizes
<1>3. first \in QuotientStates /\ first.w = w /\ first.z = z /\ first.len = top
  BY <1>1 DEF QuotientStates, Words
<1> HIDE DEF first
<1>4. D(first, top)
  <2>1. x = x + Low(Y.w, y0) * 0
    <3> HIDE DEF x
    <3> QED
      BY <1>2
  <2>2. clear => 0 = Low(z, N)
    <3>1. ASSUME clear PROVE 0 = Low(z, N)
      <4>1. \A j \in Idx : z[j] = 0
        BY <3>1
      <4> HIDE DEF N
      <4>2. \A i \in 0 .. N - 1 : z[i] = 0
        BY <1>1, <4>1
      <4>3. Low(z, 0) = 0 /\ 0 \in 0 .. Ext /\ N \in 0 .. Ext
        BY <1>1, LowIs, Sizes
      <4> QED
        BY <1>1, <4>2, <4>3, LowMore
    <3> QED
      BY <3>1
  <2>3. \E Q \in Nat : x = Low(first.w, top + 1) + Low(Y.w, y0) * Q /\ (clear => Q = Low(first.z, N))
    <3>1. 0 \in Nat /\ x = Low(first.w, top + 1) + Low(Y.w, y0) * 0 /\ (clear => 0 = Low(first.z, N))
      BY <1>3, <2>1, <2>2
    <3> HIDE DEF x, N
    <3> QED
      BY <3>1
  <2>4. clear => \A j \in Idx : (j < top - y0 + 1 \/ j >= first.len - y0 + 1) => first.z[j] = 0
    BY <1>3
  <2>5. top <= first.len /\ first.len <= top
    BY <1>1, <1>3
  <2> QED
    BY <1>3, <2>3, <2>4, <2>5 DEF DividedTo
<1>5. first \in S[0]
  BY <1>1, <1>3, <1>4
<1>6. Through(N, S, step)
  <2> SUFFICES ASSUME NEW i \in 0 .. N - 1, NEW s \in S[i] PROVE step[i][s] \in S[i+1]
    BY DEF Through
  <2> DEFINE h == top - i
             v == QuotientStep(s, h - 1, Y, y0)
  <2>1. i \in Idx /\ i \in 0 .. N /\ i + 1 \in 0 .. N /\ h \in y0 .. top /\ h - 1 = top - 1 - i /\ h - 1 = top - (i + 1)
    BY <1>1
  <2>2. s \in QuotientStates /\ D(s, h)
    BY <2>1
  <2>3. step[i][s] = v
    <3>1. step[i][s] = QuotientStep(s, top - 1 - i, Y, y0)
      BY <2>1, <2>2 DEF QuotientStates, Words
    <3> HIDE DEF step, h
    <3> QED
      BY <2>1, <3>1
  <2>4. D(v, h - 1)
    <3> HIDE DEF h, x
    <3> QED
      BY <2>1, <2>2, QuotientStepIs
  <2>5. v \in QuotientStates
    BY <2>4 DEF DividedTo
  <2>6. D(v, top - (i + 1))
    <3> HIDE DEF v, h, D
    <3> QED
      BY <2>1, <2>4
  <2> HIDE DEF v, h, D, step
  <2> QED
    BY <2>1, <2>3, <2>5, <2>6
<1>7. e \in S[N]
  <2> HIDE DEF first, step, S, N
  <2> QED
    BY <1>1, <1>5, <1>6, CarriedThrough DEF e
<1>8. D(e, y0 - 1)
  <2>1. D(e, top - N)
    <3> HIDE DEF D, e
    <3> QED
      BY <1>1, <1>7
  <2> HIDE DEF D, e, N
  <2> QED
    BY <1>1, <2>1
<1>9. e = QuotientWords(w, top, Y, y0, z)
  BY DEF QuotientWords, first
<1> QED
  BY <1>8, <1>9

\* The quotient and the remainder of scaled numbers.
ScaledBack(x, v, d, r, q) == q = x \div v /\ r = (x % v) * d /\ r \div d = x % v /\ x \div v \in Nat /\ x % v \in Nat
LEMMA ScaledQuotient ==
  ASSUME NEW x \in Nat, NEW v \in Nat \ {0}, NEW d \in Nat \ {0}, NEW r \in Nat, NEW q \in Nat,
         x * d = r + (v * d) * q, r < v * d
  PROVE  ScaledBack(x, v, d, r, q)
<1> DEFINE a == x \div v
           e == x % v
           P == v * d
           g == e * d
<1>1. x = v * a + e /\ a \in Nat /\ e \in Nat /\ e < v
  OBVIOUS
<1>2. P \in Nat \ {0}
  <2>1. \A i, j \in Nat \ {0} : i * j \in Nat \ {0}
    OBVIOUS
  <2> QED
    BY <2>1
<1> HIDE DEF a, e
<1>3. g \in Nat /\ g <= P - 1
  <2>1. \A i, j \in Nat : i * j \in Nat
    OBVIOUS
  <2>2. e + 1 <= v /\ e + 1 \in Nat /\ v \in Nat /\ d \in Nat
    BY <1>1
  <2>3. \A i, j \in Nat : i <= j => d * i <= d * j
    OBVIOUS
  <2>4. d * (e + 1) = e * d + d /\ d * v = v * d
    BY <1>1
  <2>5. d * (e + 1) <= d * v /\ e * d \in Nat
    BY <1>1, <2>1, <2>2, <2>3
  <2> HIDE DEF P, g
  <2>6. g + d <= P
    BY <2>4, <2>5 DEF g, P
  <2>7. d >= 1
    OBVIOUS
  <2>8. g \in Nat
    BY <2>5 DEF g
  <2> QED
    BY <1>2, <2>2, <2>6, <2>7, <2>8
<1>4. x * d = P * a + g
  <2>1. (v * a + e) * d = (v * d) * a + e * d
    BY <1>1
  <2> QED
    BY <1>1, <2>1
<1>5. r + P * q = P * q + r /\ P * a \in Nat /\ P * q \in Nat
  <2>1. \A i, j \in Nat : i * j \in Nat
    OBVIOUS
  <2>2. P * a \in Nat /\ P * q \in Nat
    <3> HIDE DEF P
    <3> QED
      BY <1>1, <1>2, <2>1
  <2> HIDE DEF P
  <2> QED
    BY <2>2
<1>6. r \in 0 .. P - 1 /\ g \in 0 .. P - 1
  <2> HIDE DEF P, g
  <2>1. r < P
    BY DEF P
  <2> QED
    BY <1>2, <1>3, <2>1
<1>7. P * q + r = P * a + g
  <2>1. x * d = r + P * q
    OBVIOUS
  <2> HIDE DEF P, g
  <2> QED
    BY <1>4, <1>5, <2>1
<1>8. q = a /\ r = g
  <2>1. (P * q + r) \div P = q /\ (P * q + r) % P = r
    <3> HIDE DEF P
    <3> QED
      BY <1>2, <1>6, Division
  <2>2. (P * a + g) \div P = a /\ (P * a + g) % P = g
    <3> HIDE DEF P, g
    <3> QED
      BY <1>1, <1>2, <1>6, Division
  <2> HIDE DEF P, g
  <2> QED
    BY <1>7, <2>1, <2>2
<1>9. g \div d = e
  <2>1. e * d = d * e
    BY <1>1
  <2>2. (d * e) \div d = e
    BY <1>1, RestOfMultiple
  <2> QED
    BY <2>1, <2>2
<1> QED
  BY <1>1, <1>8, <1>9 DEF a, e, ScaledBack

\* The factor never makes a divisor longer.
LEMMA NormFactorIs ==
  ASSUME NEW Y, Good(Y), Y.len # 0, Y.len \in Idx
  PROVE  NormFactor(Y) \in Word /\ NormFactor(Y) # 0 /\ Mag(Y) * NormFactor(Y) < BTo[Y.len]
<1> DEFINE n == Y.len
           t == Y.w[n-1]
           r == (t + 1) % B
           d == NormFactor(Y)
           P == BTo[n-1]
           l == Low(Y.w, n - 1)
           M == Mag(Y)
<1>1. Y \in Big /\ Y.w \in Words /\ n \in Nat /\ n - 1 \in Idx /\ (n - 1) + 1 = n /\ n - 1 \in 0 .. Ext - 1
      /\ n - 1 \in 0 .. Ext - 2 /\ n \in Idx
  BY GoodIs, Sizes
<1>2. t \in Nat /\ t # 0 /\ t < B /\ B \in Nat /\ B >= 2 /\ Word = 0 .. B - 1
  <2>1. t # 0
    BY <1>1 DEF Good, Canonical
  <2> QED
    BY <1>1, <2>1, At, Sizes
<1>3. M = l + t * P /\ l \in Nat /\ l < P /\ P \in Nat /\ BTo[n] = B * P
  <2>1. Low(Y.w, (n - 1) + 1) = Low(Y.w, n - 1) + Y.w[n-1] * BTo[n-1]
    BY <1>1, LowIs
  <2>2. BTo[(n - 1) + 1] = B * BTo[n-1]
    BY <1>1, BToIs
  <2>3. l \in Nat /\ l < P
    BY <1>1, LowBelow
  <2> QED
    BY <1>1, <2>1, <2>2, <2>3, At DEF Mag
<1>4. d = IF r = 0 THEN 1 ELSE B \div r
  BY DEF NormFactor
<1> HIDE DEF t, l, P, M, d, n
<1>5. M < (t + 1) * P /\ M \in Nat
  <2> DEFINE a == t * P
  <2>1. a \in Nat /\ (t + 1) * P = a + P
    BY <1>2, <1>3
  <2>2. M = l + a
    BY <1>3
  <2> HIDE DEF a
  <2> QED
    BY <1>3, <2>1, <2>2
<1>6. CASE t + 1 = B
  <2>1. d = 1
    BY <1>2, <1>4, <1>6
  <2>2. M * 1 = M
    BY <1>5
  <2> QED
    BY <1>2, <1>3, <1>5, <1>6, <2>1, <2>2 DEF M, d, n
<1>7. CASE t + 1 # B
  <2>1. r = t + 1 /\ r \in Nat /\ r >= 2 /\ r < B
    BY <1>2, <1>7
  <2>2. d = B \div r
    BY <1>4, <2>1
  <2> HIDE DEF r
  <2>3. d \in Nat /\ r * d <= B /\ r * d > B - r
    <3>1. \A b \in Nat, e \in Nat \ {0} : b \div e \in Nat /\ b = e * (b \div e) + (b % e) /\ b % e \in 0 .. e - 1
      OBVIOUS
    <3>2. d \in Nat /\ B = r * d + (B % r) /\ B % r \in 0 .. r - 1
      <4>1. r \in Nat \ {0} /\ B \in Nat
        BY <1>2, <2>1
      <4>2. B \div r \in Nat /\ B = r * (B \div r) + (B % r) /\ B % r \in 0 .. r - 1
        BY ONLY <3>1, <4>1
      <4> QED
        BY <2>2, <4>2
    <3>3. \A i, j \in Nat : i * j \in Nat
      OBVIOUS
    <3> DEFINE p == r * d
    <3>4. p \in Nat /\ B = p + (B % r)
      BY <2>1, <3>2, <3>3
    <3> HIDE DEF p
    <3>5. p <= B /\ p > B - r
      BY <1>2, <2>1, <3>2, <3>4
    <3> QED
      BY <3>2, <3>5 DEF p
  <2>4. d # 0
    <3>1. r * 0 = 0
      BY <2>1
    <3> QED
      BY <1>2, <2>1, <2>3, <3>1
  <2>5. d < B
    <3>1. \A i, j \in Nat : i <= j => d * i <= d * j
      BY <2>3
    <3>2. d * 2 <= d * r /\ d * r = r * d /\ d * 2 = d + d
      BY <2>1, <2>3, <3>1
    <3> DEFINE p == r * d
    <3>3. p \in Nat
      BY <2>1, <2>3
    <3>4. p = r * d /\ d + d <= p /\ p <= B
      BY <2>3, <3>2
    <3> HIDE DEF p
    <3> QED
      BY <1>2, <2>3, <2>4, <3>3, <3>4
  <2>6. M * d < B * P
    <3> DEFINE a == r * P
    <3>1. a \in Nat /\ M < a
      BY <1>3, <1>5, <2>1
    <3> HIDE DEF a
    <3>2. M * d < a * d
      <4>1. \A i, j \in Nat : i + 1 <= j => d * i + d <= d * j
        <5>1. \A i, j \in Nat : i <= j => d * i <= d * j
          BY <2>3
        <5>2. \A i \in Nat : d * (i + 1) = d * i + d
          BY <2>3
        <5> QED
          BY <5>1, <5>2
      <4>2. d * M + d <= d * a
        BY <1>5, <3>1, <4>1
      <4>3. d * M = M * d /\ d * a = a * d
        BY <1>5, <2>3, <3>1
      <4>4. \A i, j \in Nat : i * j \in Nat
        OBVIOUS
      <4> DEFINE p == M * d
                 q == a * d
      <4>5. p \in Nat /\ q \in Nat
        BY <1>5, <2>3, <3>1, <4>4
      <4>6. p + d <= q
        BY <4>2, <4>3
      <4> HIDE DEF p, q
      <4>7. p < q
        BY <2>3, <2>4, <4>5, <4>6
      <4> QED
        BY <4>7 DEF p, q
    <3>3. a * d = P * (r * d)
      BY <1>3, <2>1, <2>3 DEF a
    <3>4. P * (r * d) <= P * B
      <4>1. \A i, j \in Nat : i <= j => P * i <= P * j
        BY <1>3
      <4>2. r * d \in Nat
        BY <2>1, <2>3
      <4> QED
        BY <1>2, <2>3, <4>1, <4>2
    <3>5. P * B = B * P
      BY <1>2, <1>3
    <3> DEFINE e == a * d
               f == M * d
               g == B * P
    <3>6. e \in Nat /\ f \in Nat /\ g \in Nat /\ f < e /\ e <= g
      <4>1. \A i, j \in Nat : i * j \in Nat
        OBVIOUS
      <4>2. e \in Nat /\ f \in Nat /\ g \in Nat
        BY <1>2, <1>3, <1>5, <2>3, <3>1, <4>1
      <4> QED
        BY <3>2, <3>3, <3>4, <3>5, <4>2
    <3> HIDE DEF e, f, g
    <3>7. f < g
      BY <3>6
    <3> QED
      BY <3>7 DEF f, g
  <2> QED
    BY <1>2, <1>3, <2>3, <2>4, <2>5, <2>6 DEF M, d, n
<1> QED
  BY <1>6, <1>7

\* A number times the factor, and a number divided by it again.
Scaled(m, r, d) == IF d = 1 THEN m ELSE mr_pmul(m, r, d, r)
Unscaled(m, r, d, z) == IF d = 1 THEN copy(m, r, z) ELSE mr_sdiv(m, r, d, z)
LEMMA ScaledIs ==
  ASSUME NEW m \in Memories, NEW r \in Names, NEW d \in Word, d # 0, Operand(m.r[r]), ~m.r[r].neg,
         m.check => m.r[r].len <= nib /\ Mag(m.r[r]) * d < BTo[nib]
  PROVE  LET n == Scaled(m, r, d)
         IN  Changed(m, n, r) /\ Good(n.r[r]) /\ ~n.r[r].neg /\ Mag(n.r[r]) = Mag(m.r[r]) * d
<1> DEFINE n == Scaled(m, r, d)
<1>1. Good(m.r[r]) /\ CleanTail(m.r[r]) /\ Mag(m.r[r]) \in Nat /\ d \in Nat
  BY SignedValue, Sizes DEF Operand, Good
<1>2. CASE d = 1
  <2>1. n = m
    BY <1>2 DEF Scaled
  <2>2. Changed(m, m, r)
    BY DEF Changed, Others
  <2>3. Mag(m.r[r]) * 1 = Mag(m.r[r])
    BY <1>1
  <2> HIDE DEF n
  <2> QED
    BY <1>1, <1>2, <2>1, <2>2, <2>3 DEF n
<1>3. CASE d # 1
  <2>1. n = mr_pmul(m, r, d, r)
    BY <1>3 DEF Scaled
  <2>2. Timed(m, mr_pmul(m, r, d, r), r, Mag(m.r[r]) * d, d # 0 /\ m.r[r].neg)
    BY <1>1, PmulIs
  <2> HIDE DEF n
  <2>3. n \in Memories /\ Others(m, n, r)
    BY <2>1, <2>2 DEF Timed, Others
  <2>4. CASE n.ERNUM = m.ERNUM /\ Good(n.r[r]) /\ n.r[r].neg = (d # 0 /\ m.r[r].neg) /\ Mag(n.r[r]) = Mag(m.r[r]) * d
    BY <2>3, <2>4 DEF Changed, n
  <2>5. CASE m.check /\ Mag(m.r[r]) * d >= BTo[nib]
    <3>1. Mag(m.r[r]) * d < BTo[nib]
      BY <2>5
    <3>2. BTo[nib] \in Nat /\ Mag(m.r[r]) * d \in Nat
      <4>1. nib \in Idx
        BY Sizes
      <4>2. \A i, j \in Nat : i * j \in Nat
        OBVIOUS
      <4> QED
        BY <1>1, <4>1, <4>2, BToIs
    <3> DEFINE p == Mag(m.r[r]) * d
    <3>3. p < BTo[nib] /\ p >= BTo[nib] /\ p \in Nat /\ BTo[nib] \in Nat
      BY <2>5, <3>1, <3>2
    <3> HIDE DEF p
    <3> QED
      BY <3>3
  <2> QED
    BY <2>1, <2>2, <2>4, <2>5 DEF Timed
<1> QED
  BY <1>2, <1>3

LEMMA UnscaledIs ==
  ASSUME NEW m \in Memories, NEW r \in Names, NEW d \in Word, d # 0, Operand(m.r[r]), ~m.r[r].neg,
         NEW z \in Names, CleanTail(m.r[z])
  PROVE  Gets(m, Unscaled(m, r, d, z), z, Mag(m.r[r]) \div d, m.r[r].len)
<1>1. Good(m.r[r]) /\ CleanTail(m.r[r]) /\ Mag(m.r[r]) \in Nat /\ Value(m.r[r]) = Mag(m.r[r])
  BY SignedValue DEF Operand, Good
<1>2. CASE d = 1
  <2>1. Mag(m.r[r]) \div 1 = Mag(m.r[r])
    BY <1>1
  <2> QED
    BY <1>1, <1>2, <2>1, CopyGets DEF Unscaled
<1>3. CASE d # 1
  BY <1>1, <1>3, SdivIs DEF Unscaled
<1> QED
  BY <1>2, <1>3

\* The check switched off for the time being.
LEMMA CheckSet ==
  ASSUME NEW m \in Memories, NEW b \in BOOLEAN
  PROVE  LET n == [m EXCEPT !.check = b] IN n \in Memories /\ n.r = m.r /\ n.ERNUM = m.ERNUM /\ n.check = b
BY DEF Memories

\* A number as the library scales it for a division: no longer than a word more.
LEMMA ScaledLength ==
  ASSUME NEW b, Good(b), NEW X, Good(X), X.len <= 2 * nib, NEW d \in Word, Mag(b) = Mag(X) * d
  PROVE  /\ X.len + 1 \in Idx /\ Low(b.w, X.len + 1) = Mag(b)
         /\ \A j \in Idx : j > X.len => b.w[j] = 0
<1> DEFINE n == X.len
           M == Mag(X)
           P == BTo[n]
<1>1. n \in Nat /\ n \in Idx /\ n + 1 \in Idx /\ n \in 0 .. Ext - 2 /\ d \in Nat /\ d < B /\ B \in Nat /\ n + 1 \in 0 .. Ext
  BY GoodIs, Sizes
<1>2. M < P /\ M \in Nat /\ P \in Nat \ {0} /\ BTo[n+1] = B * P
  BY <1>1, LengthTells, SignedValue, BToIs DEF Mag
<1>3. M * d < B * P
  <2>1. \A i, j, k \in Nat : i <= j => k * i <= k * j
    OBVIOUS
  <2>2. \A i, j \in Nat : i * j \in Nat /\ i * j = j * i
    OBVIOUS
  <2> HIDE DEF M, P
  <2>3. d * M <= d * P
    BY <1>1, <1>2, <2>1
  <2>4. P * (d + 1) <= P * B
    <3>1. d + 1 <= B /\ d + 1 \in Nat
      BY <1>1
    <3> QED
      BY <1>1, <1>2, <2>1, <3>1
  <2>5. P * (d + 1) = d * P + P
    BY <1>1, <1>2
  <2> DEFINE e == d * P
             f == M * d
             g == B * P
  <2>6. e \in Nat /\ f \in Nat /\ g \in Nat /\ f <= e /\ e + P <= g
    BY <1>1, <1>2, <2>2, <2>3, <2>4, <2>5
  <2> HIDE DEF e, f, g
  <2>7. f < g
    BY <1>2, <2>6
  <2> QED
    BY <2>7 DEF f, g
<1>4. b.len <= n + 1
  <2>1. Low(b.w, b.len) < BTo[n+1]
    BY <1>2, <1>3 DEF Mag
  <2> QED
    BY <1>1, <2>1, LengthTells
<1>5. b \in Big /\ CleanTail(b) /\ b.len \in Nat
  BY GoodIs, Sizes
<1>6. Low(b.w, n + 1) = Mag(b)
  BY <1>1, <1>4, <1>5, LowWhole DEF Mag
<1>7. \A j \in Idx : j > n => b.w[j] = 0
  <2> TAKE j \in Idx
  <2> HAVE j > n
  <2>1. j >= b.len
    BY <1>1, <1>4, <1>5, Sizes
  <2> QED
    BY <1>5, <2>1 DEF CleanTail
<1> QED
  BY <1>1, <1>6, <1>7

\* What a long division works on: both numbers scaled, the check off, z clear
\* unless it is the divisor.
Prepared(m, y, z) ==
  Scaled([Scaled(IF y # z THEN zero(m, z) ELSE m, y, NormFactor(m.r[y])) EXCEPT !.check = FALSE],
         "w0", NormFactor(m.r[y]))
PreparedWell(m, y, z, d, u) ==
  LET X == m.r["w0"]  Y == m.r[y]  U == u.r["w0"]
  IN  /\ u \in Memories /\ u.check = FALSE /\ u.ERNUM = m.ERNUM /\ d \in Word /\ d # 0
      /\ \A k \in Names : k \notin {y, z, "w0"} => u.r[k] = m.r[k]
      /\ Good(u.r[y]) /\ ~u.r[y].neg /\ Mag(u.r[y]) = Mag(Y) * d /\ u.r[y].len = Y.len
      /\ Good(U) /\ X.len + 1 \in Idx /\ Low(U.w, X.len + 1) = Mag(X) * d
      /\ \A j \in Idx : j > X.len => U.w[j] = 0
      /\ y # z => u.r[z] = Zero
LEMMA PreparedIs ==
  ASSUME NEW m \in Memories, NEW y \in Names, NEW z \in Names, "w0" \in Names, y # "w0", z # "w0",
         Operand(m.r["w0"]), ~m.r["w0"].neg, Good(m.r[y]), ~m.r[y].neg, m.r[y].len \in 1 .. nib, CleanTail(m.r[z])
  PROVE  PreparedWell(m, y, z, NormFactor(m.r[y]), Prepared(m, y, z))
<1> DEFINE X == m.r["w0"]
           Y == m.r[y]
           d == NormFactor(Y)
           a == IF y # z THEN zero(m, z) ELSE m
           n == Scaled(a, y, d)
           off == [n EXCEPT !.check = FALSE]
           u == Scaled(off, "w0", d)
<1>1. Y.len \in Nat /\ Y.len # 0 /\ Y.len \in Idx /\ Y.len <= nib /\ nib \in Idx /\ Y.len <= 2 * nib
  BY Sizes
<1>2. d \in Word /\ d # 0 /\ Mag(Y) * d < BTo[Y.len] /\ Mag(Y) \in Nat /\ d \in Nat
  BY <1>1, NormFactorIs, SignedValue, Sizes
<1> HIDE DEF d
<1>3. /\ a \in Memories /\ a.check = m.check /\ a.ERNUM = m.ERNUM /\ (\A k \in Names : k # z \/ y = z => a.r[k] = m.r[k])
      /\ (y # z => a.r[z] = Zero)
  <2>1. CASE y # z
    BY <2>1, ZeroIs DEF Changed, Others
  <2>2. CASE y = z
    BY <2>2
  <2> QED
    BY <2>1, <2>2
<1> HIDE DEF a
<1>4. a.r[y] = Y /\ a.r["w0"] = X
  BY <1>3
<1>5. Mag(Y) * d < BTo[nib] /\ Mag(Y) * d \in Nat
  <2>1. \A i, j \in Nat : i * j \in Nat
    OBVIOUS
  <2>2. BTo[Y.len] <= BTo[nib] /\ BTo[nib] \in Nat /\ BTo[Y.len] \in Nat
    <3>1. nib \in Y.len .. Ext - 1
      BY <1>1, Sizes
    <3> QED
      BY <1>1, <3>1, BToGrows, BToIs
  <2> DEFINE p == Mag(Y) * d
  <2>3. p \in Nat /\ p < BTo[Y.len]
    BY <1>2, <2>1
  <2> HIDE DEF p
  <2>4. p < BTo[nib]
    BY <2>2, <2>3
  <2> QED
    BY <2>3, <2>4 DEF p
<1>6. Changed(a, n, y) /\ Good(n.r[y]) /\ ~n.r[y].neg /\ Mag(n.r[y]) = Mag(Y) * d
  BY <1>1, <1>2, <1>3, <1>4, <1>5, ScaledIs DEF Operand
<1> HIDE DEF n
<1>7. n.r[y].len = Y.len
  <2> DEFINE V == Mag(Y)
             p == V * d
             k == Y.len - 1
  <2>1. k \in Idx /\ Y.len = k + 1 /\ k \in Nat /\ n.r[y].len \in Nat
    BY <1>1, <1>6, GoodIs, Sizes
  <2>2. ~(Low(Y.w, Y.len) < BTo[k])
    BY <2>1, LengthTells
  <2>3. V \in Nat /\ BTo[k] \in Nat /\ V >= BTo[k]
    BY <1>2, <2>1, <2>2, BToIs DEF Mag
  <2>4. p >= V /\ p \in Nat
    <3>1. \A i, j \in Nat : i <= j => V * i <= V * j
      BY <2>3
    <3>2. 1 <= d /\ V * 1 = V
      BY <1>2, <2>3
    <3> QED
      BY <1>2, <1>5, <3>1, <3>2
  <2> HIDE DEF V, p, k
  <2>5. p >= BTo[k]
    BY <2>3, <2>4
  <2>6. Low(n.r[y].w, n.r[y].len) = p
    BY <1>6 DEF Mag, p, V
  <2>7. ~(n.r[y].len <= k)
    <3>1. ~(p < BTo[k])
      BY <2>3, <2>4, <2>5
    <3> QED
      BY <1>6, <2>1, <2>6, <3>1, LengthTells
  <2>8. n.r[y].len <= Y.len
    <3>1. p < BTo[Y.len]
      BY <1>2 DEF p, V
    <3> QED
      BY <1>1, <1>6, <2>6, <3>1, LengthTells
  <2> QED
    BY <1>1, <2>1, <2>7, <2>8
<1>8. n \in Memories /\ n.ERNUM = m.ERNUM /\ n.r["w0"] = X /\ \A k \in Names : k # y => n.r[k] = a.r[k]
  BY <1>3, <1>4, <1>6 DEF Changed, Others
<1>9. off \in Memories /\ off.r = n.r /\ off.ERNUM = m.ERNUM /\ off.check = FALSE
  BY <1>8, CheckSet
<1> HIDE DEF off
<1>10. Changed(off, u, "w0") /\ Good(u.r["w0"]) /\ ~u.r["w0"].neg /\ Mag(u.r["w0"]) = Mag(X) * d
  BY <1>2, <1>8, <1>9, ScaledIs
<1> HIDE DEF u
<1>11. /\ u \in Memories /\ u.check = FALSE /\ u.ERNUM = m.ERNUM
       /\ \A k \in Names : k # "w0" => u.r[k] = n.r[k]
  BY <1>9, <1>10 DEF Changed, Others
<1>12. X.len + 1 \in Idx /\ Low(u.r["w0"].w, X.len + 1) = Mag(X) * d /\ \A j \in Idx : j > X.len => u.r["w0"].w[j] = 0
  BY <1>2, <1>10, ScaledLength DEF Operand
<1>13. /\ \A k \in Names : k \notin {y, z, "w0"} => u.r[k] = m.r[k]
       /\ Good(u.r[y]) /\ ~u.r[y].neg /\ Mag(u.r[y]) = Mag(Y) * d /\ u.r[y].len = Y.len
       /\ y # z => u.r[z] = Zero
  BY <1>3, <1>6, <1>7, <1>8, <1>11
<1>14. PreparedWell(m, y, z, d, u)
  BY <1>2, <1>10, <1>11, <1>12, <1>13 DEF PreparedWell
<1>15. u = Prepared(m, y, z)
  BY DEF Prepared, u, off, n, a, d
<1> QED
  BY <1>14, <1>15 DEF d

\* Scaled alike, the numbers stay in their order.
LEMMA ScaledBelow ==
  ASSUME NEW x \in Nat, NEW v \in Nat, NEW d \in Nat \ {0}, NEW P \in Nat, NEW Q \in Nat, x < P * Q, P <= v
  PROVE  x * d < (v * d) * Q
<1>0. \A f, g \in Nat : f * g \in Nat
  OBVIOUS
<1> DEFINE a == P * Q
           b == v * Q
<1>1. a \in Nat /\ b \in Nat /\ a <= b
  <2>1. \A i, j \in Nat : i <= j => Q * i <= Q * j
    OBVIOUS
  <2>2. Q * P <= Q * v /\ Q * P = P * Q /\ Q * v = v * Q
    BY <2>1
  <2> QED
    BY <1>0, <2>2
<1> HIDE DEF a, b
<1>2. x + 1 <= b
  <2>1. x < a
    BY DEF a
  <2> QED
    BY <1>1, <2>1
<1>3. d * (x + 1) <= d * b
  <2>1. \A i, j \in Nat : i <= j => d * i <= d * j
    OBVIOUS
  <2> QED
    BY <1>1, <1>2, <2>1
<1>4. d * (x + 1) = x * d + d
  OBVIOUS
<1>5. d * b = (v * d) * Q
  BY DEF b
<1> DEFINE e == x * d
           f == d * b
<1>6. e \in Nat /\ f \in Nat /\ e + d <= f
  BY <1>0, <1>1, <1>3, <1>4
<1> HIDE DEF e, f
<1>7. e < f
  BY <1>6
<1> QED
  BY <1>5, <1>7 DEF e, f

\* The words of the remainder, scaled, and those of the quotient where they are kept.
LongWords(X, Y, d, keep, s) ==
  /\ s.w \in Words /\ s.z \in Words /\ s.len \in Nat /\ Y.len - 1 <= s.len /\ s.len <= X.len
  /\ \A j \in Idx : j >= Y.len => s.w[j] = 0
  /\ Low(s.w, Y.len) = (Mag(X) % Mag(Y)) * d
  /\ keep => /\ \A j \in Idx : j >= s.len - Y.len + 1 => s.z[j] = 0
             /\ Low(s.z, s.len - Y.len + 1) = Mag(X) \div Mag(Y)
LEMMA LongWordsAre ==
  ASSUME NEW m \in Memories, NEW y \in Names, NEW z \in Names, "w0" \in Names, Operand(m.r["w0"]),
         Good(m.r[y]), m.r[y].len \in 2 .. nib, Mag(m.r[y]) <= Mag(m.r["w0"]),
         NEW d, NEW u, PreparedWell(m, y, z, d, u)
  PROVE  LongWords(m.r["w0"], m.r[y], d, y # z,
                   QuotientWords(u.r["w0"].w, m.r["w0"].len, u.r[y], m.r[y].len, u.r[z].w))
<1> DEFINE X == m.r["w0"]
           Y == m.r[y]
           top == X.len
           y0 == Y.len
           U == u.r["w0"].w
           T == u.r[y]
           Z == u.r[z].w
           s == QuotientWords(U, top, T, y0, Z)
           keep == y # z
<1>1. /\ Good(X) /\ top \in Nat /\ top <= 2 * nib /\ top \in Idx /\ y0 \in Nat /\ y0 >= 2 /\ y0 <= nib /\ y0 \in Idx
      /\ y0 - 1 \in Idx /\ y0 \in 0 .. Ext /\ top + 1 \in 0 .. Ext
  <2>1. Good(X) /\ X.len \in 0 .. Ext /\ X.len <= 2 * nib /\ Y.len \in 2 .. nib
    BY BigIs DEF Operand, Good
  <2>2. Ext = 2 * nib + 2 /\ nib \in Nat \ {0} /\ Idx = 0 .. Ext - 1
    BY Sizes
  <2> HIDE DEF X, Y
  <2> QED
    BY SMTT(30), <2>1, <2>2
<1>2. /\ Mag(X) \in Nat /\ Mag(Y) \in Nat /\ BTo[y0-1] \in Nat \ {0} /\ BTo[y0-1] <= Mag(Y) /\ Mag(Y) # 0
      /\ Mag(X) < BTo[top]
  <2>1. Mag(X) \in Nat /\ Mag(Y) \in Nat /\ BTo[y0-1] \in Nat \ {0}
    BY <1>1, SignedValue, BToIs
  <2>2. ~(Mag(Y) < BTo[y0-1])
    <3>1. ~(y0 <= y0 - 1)
      BY <1>1
    <3> QED
      BY <1>1, <3>1, LengthTells DEF Mag
  <2>3. Mag(X) < BTo[top]
    BY <1>1, LengthTells DEF Mag
  <2> QED
    BY <2>1, <2>2, <2>3
<1>3. y0 <= top
  <2> SUFFICES ASSUME top <= y0 - 1 PROVE FALSE
    BY <1>1
  <2>1. Mag(X) < BTo[y0-1]
    BY <1>1, LengthTells DEF Mag
  <2> QED
    BY <1>2, <2>1
<1>4. /\ u \in Memories /\ d \in Word /\ d # 0 /\ d \in Nat \ {0} /\ Good(T) /\ Mag(T) = Mag(Y) * d /\ T.len = y0
      /\ U \in Words /\ T.w \in Words /\ Z \in Words
      /\ Low(U, top + 1) = Mag(X) * d /\ (\A j \in Idx : j > top => U[j] = 0)
      /\ keep => u.r[z] = Zero
  <2>1. u \in Memories /\ Good(u.r["w0"]) /\ Good(T) /\ u.r[z] \in Big
    BY MemoryIs DEF PreparedWell
  <2>2. U \in Words /\ T.w \in Words /\ Z \in Words
    BY <2>1, BigIs DEF Good
  <2> QED
    BY <2>1, <2>2, Sizes DEF PreparedWell
<1>5. T.w[y0-1] # 0 /\ Low(T.w, y0) = Mag(Y) * d
  BY <1>1, <1>4 DEF Good, Canonical, Mag
<1>6. Low(U, top + 1) < Low(T.w, y0) * BTo[top - y0 + 1]
  <2> DEFINE P == BTo[y0-1]
             Q == BTo[top - y0 + 1]
  <2>1. top - y0 + 1 \in Idx /\ (y0 - 1) + (top - y0 + 1) = top
    <3>1. top \in Nat /\ y0 \in Nat /\ y0 >= 2 /\ y0 <= top /\ top <= 2 * nib
      BY <1>1, <1>3
    <3> HIDE DEF top, y0
    <3> QED
      BY <3>1, Sizes
  <2>2. BTo[(y0 - 1) + (top - y0 + 1)] = P * Q
    BY <1>1, <2>1, BToAdds
  <2>3. Q \in Nat /\ P \in Nat
    BY <1>1, <2>1, BToIs
  <2>4. Mag(X) < P * Q
    BY <1>2, <2>1, <2>2
  <2>5. Mag(X) * d < (Mag(Y) * d) * Q
    <3>1. P <= Mag(Y)
      BY <1>2
    <3> HIDE DEF P, Q, X, Y
    <3> QED
      BY <1>2, <1>4, <2>3, <2>4, <3>1, ScaledBelow
  <2> QED
    BY <1>4, <1>5, <2>5
<1>7. keep => \A j \in Idx : Z[j] = 0
  <2>1. ASSUME keep PROVE \A j \in Idx : Z[j] = 0
    <3>1. u.r[z] = Zero
      BY <1>4, <2>1
    <3> QED
      BY <3>1, ZeroWords
  <2> QED
    BY <2>1
<1>8. DividedTo(s, y0 - 1, T.w, y0, top, Mag(X) * d, keep)
  <2>1. keep \in BOOLEAN
    OBVIOUS
  <2> HIDE DEF X, y0, top, U, T, Z, keep
  <2>2. DividedTo(QuotientWords(U, top, T, y0, Z), y0 - 1, T.w, y0, top, Low(U, top + 1), keep)
    BY <1>1, <1>3, <1>4, <1>5, <1>6, <1>7, <2>1, QuotientWordsIs
  <2> QED
    BY <1>4, <2>2
<1> HIDE DEF s
<1>9. /\ s.w \in Words /\ s.z \in Words /\ s.len \in 0 .. Ext /\ s.len \in Nat /\ y0 - 1 <= s.len /\ s.len <= top
      /\ \A j \in Idx : j >= y0 => s.w[j] = 0
      /\ Low(s.w, y0) < Low(T.w, y0) * BTo[0] /\ (y0 - 1) - y0 + 1 = 0 /\ (y0 - 1) + 1 = y0
  <2>1. s \in QuotientStates /\ y0 - 1 <= s.len /\ s.len <= top /\ (\A j \in Idx : j > y0 - 1 => s.w[j] = 0)
        /\ Low(s.w, (y0 - 1) + 1) < Low(T.w, y0) * BTo[(y0 - 1) - y0 + 1]
    BY <1>8 DEF DividedTo
  <2>2. (y0 - 1) - y0 + 1 = 0 /\ (y0 - 1) + 1 = y0
    BY <1>1
  <2>3. \A j \in Idx : j >= y0 => s.w[j] = 0
    <3> TAKE j \in Idx
    <3> HAVE j >= y0
    <3>1. j > y0 - 1
      BY <1>1, Sizes
    <3> QED
      BY <2>1, <3>1
  <2> QED
    BY <2>1, <2>2, <2>3, Sizes DEF QuotientStates
<1>10. PICK Q \in Nat : /\ Mag(X) * d = Low(s.w, y0) + Low(T.w, y0) * Q
                        /\ keep => Q = Low(s.z, top - y0 + 1)
  <2>1. \E Q \in Nat : /\ Mag(X) * d = Low(s.w, (y0 - 1) + 1) + Low(T.w, y0) * Q
                       /\ keep => Q = Low(s.z, top - y0 + 1)
    BY <1>8 DEF DividedTo
  <2> QED
    BY <1>9, <2>1
<1>11. Q = Mag(X) \div Mag(Y) /\ Low(s.w, y0) = (Mag(X) % Mag(Y)) * d
  <2> DEFINE r == Low(s.w, y0)
             v == Mag(Y)
             x == Mag(X)
  <2>1. r \in Nat /\ v \in Nat \ {0} /\ x \in Nat
    BY <1>1, <1>2, <1>9, LowNat
  <2>2. x * d = r + (v * d) * Q
    BY <1>5, <1>10
  <2>3. r < v * d
    <3>1. (v * d) * 1 = v * d
      <4> HIDE DEF v
      <4> QED
        BY <1>4, <2>1
    <3>2. r < (v * d) * BTo[0]
      BY <1>5, <1>9
    <3> QED
      BY <3>1, <3>2, BToIs
  <2> HIDE DEF r, v, x
  <2>4. Q = x \div v /\ r = (x % v) * d
    <3>1. d \in Nat \ {0} /\ Q \in Nat
      BY <1>4
    <3>2. ScaledBack(x, v, d, r, Q)
      BY <2>1, <2>2, <2>3, <3>1, ScaledQuotient
    <3> QED
      BY <3>2 DEF ScaledBack
  <2> QED
    BY <2>4 DEF r, v, x
<1>12. ASSUME keep PROVE /\ \A j \in Idx : j >= s.len - y0 + 1 => s.z[j] = 0
                        /\ Low(s.z, s.len - y0 + 1) = Mag(X) \div Mag(Y)
  <2>1. \A j \in Idx : (j < (y0 - 1) - y0 + 1 \/ j >= s.len - y0 + 1) => s.z[j] = 0
    BY <1>8, <1>12 DEF DividedTo
  <2>2. \A j \in Idx : j >= s.len - y0 + 1 => s.z[j] = 0
    BY <2>1
  <2> DEFINE k == s.len - y0 + 1
             n == top - y0 + 1
  <2>3. k \in 0 .. Ext /\ n \in k .. Ext /\ \A i \in k .. n - 1 : i \in Idx /\ i >= k
    <3>1. y0 - 1 <= s.len /\ s.len <= top /\ s.len \in Nat /\ top \in Nat /\ y0 \in Nat /\ top <= 2 * nib /\ y0 >= 2
      BY <1>1, <1>9
    <3> HIDE DEF top, y0
    <3> QED
      BY <3>1, Sizes
  <2>4. \A i \in k .. n - 1 : s.z[i] = 0
    <3> HIDE DEF k, n
    <3>1. \A j \in Idx : j >= k => s.z[j] = 0
      BY <2>2 DEF k
    <3> QED
      BY <2>3, <3>1
  <2>5. Low(s.z, n) = Low(s.z, k)
    <3> HIDE DEF k, n
    <3> QED
      BY <1>9, <2>3, <2>4, LowMore
  <2>6. Q = Low(s.z, n)
    BY <1>10, <1>12
  <2> QED
    BY <1>11, <2>2, <2>5, <2>6
<1>13. keep => /\ \A j \in Idx : j >= s.len - y0 + 1 => s.z[j] = 0
               /\ Low(s.z, s.len - y0 + 1) = Mag(X) \div Mag(Y)
  BY <1>12
<1>14. LongWords(X, Y, d, keep, s)
  <2> HIDE DEF keep, X, Y
  <2> QED
    BY <1>9, <1>11, <1>13 DEF LongWords, y0, top
<1> QED
  BY <1>14 DEF s

\* A number that is not zero gets a sign.
LEMMA SignPutIs ==
  ASSUME NEW m \in Memories, NEW n, NEW z \in Names, NEW v \in Nat, NEW len \in Nat, Gets(m, n, z, v, len), NEW s \in BOOLEAN
  PROVE  /\ Gets(m, IF n.r[z].len = 0 THEN n ELSE SetSign(n, z, s), z, IF s THEN -v ELSE v, len)
         /\ v # 0 => n.r[z].len # 0
<1> DEFINE b == n.r[z]
<1>1. Good(b) /\ Value(b) = v
  BY DEF Gets
<1>2. Mag(b) \in Nat /\ (b.neg => Mag(b) # 0) /\ Value(b) = (IF b.neg THEN -Mag(b) ELSE Mag(b))
  BY <1>1, SignedValue
<1>3. Mag(b) = v
  BY <1>1, <1>2
<1>4. ASSUME b.len = 0 PROVE v = 0
  <2>1. b.w \in Words /\ Mag(b) = Low(b.w, 0)
    BY <1>1, <1>4, BigIs DEF Good, Mag
  <2> QED
    BY <1>3, <2>1, LowIs
<1>5. CASE b.len = 0
  <2>1. v = 0 /\ (IF s THEN -v ELSE v) = v
    <3>1. v \in Nat /\ v <= 0 /\ v = 0
      BY <1>4, <1>5
    <3>2. \A f \in Nat : f <= 0 => -f = f
      OBVIOUS
    <3>3. -v = v
      BY Zenon, <3>1, <3>2
    <3> QED
      BY <3>1, <3>3
  <2> HIDE DEF b
  <2> QED
    BY <1>5, <2>1 DEF b
<1>6. CASE b.len # 0
  <2>1. Gets(m, SetSign(n, z, s), z, IF s THEN -Mag(n.r[z]) ELSE Mag(n.r[z]), len)
    BY <1>6, SignGets
  <2> QED
    BY <1>3, <1>6, <2>1
<1> QED
  BY <1>5, <1>6

\* A magnitude with its words clear above, stored without its leading zeros.
LEMMA StoredIs ==
  ASSUME NEW w \in Words, NEW len \in 0 .. Ext, \A j \in Idx : j >= len => w[j] = 0, NEW s \in BOOLEAN
  PROVE  LET b == mr_lzero([w |-> w, len |-> len, neg |-> s])
         IN  Good(b) /\ b.len <= len /\ Value(b) = (IF s THEN -Low(w, len) ELSE Low(w, len)) /\ (~s => ~b.neg)
             /\ b.w = w /\ Mag(b) = Low(w, len)
<1> DEFINE c == [w |-> w, len |-> len, neg |-> s]
           b == mr_lzero(c)
<1>1. c \in Big /\ c.w = w /\ c.len = len /\ c.neg = s
  BY DEF Big, Words
<1> HIDE DEF c
<1>2. CleanTail(c)
  BY <1>1 DEF CleanTail
<1>3. Good(b) /\ Value(b) = Value(c) /\ b.w = c.w /\ b.len <= c.len /\ (~c.neg => ~b.neg)
  BY <1>1, <1>2, LzeroIs
<1>4. Value(c) = IF s THEN -Low(w, len) ELSE Low(w, len)
  BY <1>1 DEF Value
<1> HIDE DEF b
<1>5. b \in Big /\ CleanTail(b) /\ b.len \in 0 .. Ext /\ len \in b.len .. Ext
  BY <1>1, <1>3, GoodIs, Sizes
<1>6. Low(b.w, len) = Low(b.w, b.len)
  BY <1>5, LowWhole
<1>7. Mag(b) = Low(w, len)
  BY <1>1, <1>3, <1>6 DEF Mag
<1> QED
  BY <1>1, <1>3, <1>4, <1>7 DEF b, c

\* What a division leaves of the magnitude in w0 and of y, sx and sy the signs the
\* operands had: the remainder in x and the quotient in z, where they are asked for.
DivisionLeft(m, n, x, y, z, sx, sy) ==
  LET X == Mag(m.r["w0"])  V == Mag(m.r[y])
  IN  /\ n \in Memories /\ n.check = m.check /\ n.ERNUM = m.ERNUM
      /\ \A k \in Names : k \notin {x, y, z, "w0"} => n.r[k] = m.r[k]
      /\ Good(n.r[y]) /\ Value(n.r[y]) = (IF sy THEN -V ELSE V) /\ n.r[y].len <= m.r[y].len
      /\ x # z => /\ Good(n.r[x]) /\ Value(n.r[x]) = (IF sx THEN -(X % V) ELSE X % V)
                  /\ n.r[x].len <= m.r[y].len
      /\ y # z => /\ Good(n.r[z]) /\ Value(n.r[z]) = (IF sx # sy THEN -(X \div V) ELSE X \div V)
                  /\ n.r[z].len <= m.r["w0"].len

\* The quotient words go to z, those of the remainder stay in w0.
QuotientPut(u, y, z, y0, s, t) ==
  LET v0 == Put(u, "w0", [w |-> s.w, len |-> y0, neg |-> FALSE])
  IN  IF y = z THEN v0 ELSE Put(v0, z, mr_lzero([w |-> s.z, len |-> s.len - y0 + 1, neg |-> t]))
QuotientThere(u, v, y, z, X, Y, s, t) ==
  /\ v \in Memories /\ v.check = u.check /\ v.ERNUM = u.ERNUM
  /\ \A k \in Names : k # "w0" /\ (y = z \/ k # z) => v.r[k] = u.r[k]
  /\ v.r["w0"] = [w |-> s.w, len |-> Y.len, neg |-> FALSE]
  /\ y # z => /\ Good(v.r[z]) /\ v.r[z].len <= X.len
              /\ Value(v.r[z]) = (IF t THEN -(Mag(X) \div Mag(Y)) ELSE Mag(X) \div Mag(Y))
LEMMA QuotientPutIs ==
  ASSUME NEW u \in Memories, NEW y \in Names, NEW z \in Names, "w0" \in Names, z # "w0",
         NEW X, NEW Y, NEW d, NEW s, LongWords(X, Y, d, y # z, s), Y.len \in 2 .. nib, X.len \in Nat, X.len <= 2 * nib,
         NEW t \in BOOLEAN, NEW v, v = QuotientPut(u, y, z, Y.len, s, t)
  PROVE  QuotientThere(u, v, y, z, X, Y, s, t)
<1> DEFINE y0 == Y.len
           A == [w |-> s.w, len |-> y0, neg |-> FALSE]
           v0 == Put(u, "w0", A)
           k0 == s.len - y0 + 1
           Q == mr_lzero([w |-> s.z, len |-> k0, neg |-> t])
<1>1. /\ s.w \in Words /\ s.z \in Words /\ k0 \in 0 .. Ext /\ k0 <= X.len /\ y0 \in 0 .. Ext
      /\ y # z => (\A j \in Idx : j >= k0 => s.z[j] = 0) /\ Low(s.z, k0) = Mag(X) \div Mag(Y)
  <2>1. s.w \in Words /\ s.z \in Words /\ s.len \in Nat /\ y0 - 1 <= s.len /\ s.len <= X.len
    BY DEF LongWords
  <2>2. y0 \in 2 .. nib
    OBVIOUS
  <2> HIDE DEF y0
  <2>3. k0 \in 0 .. Ext /\ k0 <= X.len /\ y0 \in 0 .. Ext
    <3>1. X.len \in Nat /\ X.len <= 2 * nib
      OBVIOUS
    <3> QED
      BY <2>1, <2>2, <3>1, Sizes
  <2>4. y # z => (\A j \in Idx : j >= k0 => s.z[j] = 0) /\ Low(s.z, k0) = Mag(X) \div Mag(Y)
    BY DEF LongWords, y0
  <2> QED
    BY <2>1, <2>3, <2>4
<1>2. A \in Big
  BY <1>1 DEF Big, Words
<1> HIDE DEF A
<1>3. Changed(u, v0, "w0") /\ v0.r["w0"] = A
  BY <1>2, PutIs
<1> HIDE DEF v0
<1>4. v0 \in Memories /\ v0.check = u.check /\ v0.ERNUM = u.ERNUM /\ \A k \in Names : k # "w0" => v0.r[k] = u.r[k]
  BY <1>3 DEF Changed, Others
<1>5. CASE y = z
  <2>1. v = v0
    BY <1>5 DEF QuotientPut, v0, A
  <2> QED
    BY <1>3, <1>4, <1>5, <2>1 DEF A, QuotientThere
<1>6. CASE y # z
  <2>1. v = Put(v0, z, Q)
    BY <1>6 DEF QuotientPut, v0, A
  <2>2. /\ Good(Q) /\ Q.len <= k0 /\ Value(Q) = IF t THEN -Low(s.z, k0) ELSE Low(s.z, k0)
    <3> HIDE DEF k0
    <3>1. \A j \in Idx : j >= k0 => s.z[j] = 0
      BY <1>1, <1>6
    <3> QED
      BY <1>1, <3>1, StoredIs
  <2> HIDE DEF Q, k0
  <2>3. Q.len <= X.len
    <3>1. Q.len \in Nat /\ k0 \in Nat
      BY <1>1, <2>2, GoodIs, Sizes
    <3> QED
      BY <1>1, <2>2, <3>1
  <2>4. Changed(v0, v, z) /\ v.r[z] = Q
    BY <1>4, <2>1, <2>2, PutIs DEF Good
  <2>5. v \in Memories /\ v.check = v0.check /\ v.ERNUM = v0.ERNUM /\ \A k \in Names : k # z => v.r[k] = v0.r[k]
    BY <2>4 DEF Changed, Others
  <2>6. Value(Q) = IF t THEN -(Mag(X) \div Mag(Y)) ELSE Mag(X) \div Mag(Y)
    BY <1>1, <1>6, <2>2
  <2> QED
    BY <1>3, <1>4, <1>6, <2>2, <2>3, <2>4, <2>5, <2>6 DEF A, QuotientThere
<1> QED
  BY <1>5, <1>6

\* The remainder, scaled back, goes from w0 to x and gets the sign of the dividend.
RemainderPut(v, x, d, s) ==
  LET l == Put(v, "w0", mr_lzero(v.r["w0"]))
      c == Unscaled(l, "w0", d, x)
  IN  IF c.r[x].len = 0 THEN c ELSE SetSign(c, x, s)
LEMMA RemainderPutIs ==
  ASSUME NEW v \in Memories, NEW x \in Names, "w0" \in Names, NEW w \in Words, NEW n \in 0 .. nib,
         \A j \in Idx : j >= n => w[j] = 0, v.r["w0"] = [w |-> w, len |-> n, neg |-> FALSE],
         NEW d \in Word, d # 0, NEW R \in Nat, Low(w, n) = R * d, x # "w0" => CleanTail(v.r[x]), NEW s \in BOOLEAN,
         NEW r, r = RemainderPut(v, x, d, s)
  PROVE  /\ r \in Memories /\ r.check = v.check /\ r.ERNUM = v.ERNUM
         /\ \A k \in Names : k \notin {"w0", x} => r.r[k] = v.r[k]
         /\ Good(r.r[x]) /\ Value(r.r[x]) = (IF s THEN -R ELSE R) /\ r.r[x].len <= n
<1> DEFINE b == mr_lzero([w |-> w, len |-> n, neg |-> FALSE])
           l == Put(v, "w0", b)
           c == Unscaled(l, "w0", d, x)
<1>1. Good(b) /\ b.len <= n /\ ~b.neg /\ Mag(b) = R * d /\ n \in 0 .. Ext
  <2>1. n \in 0 .. Ext
    BY Sizes
  <2> HIDE DEF b
  <2>2. Good(b) /\ b.len <= n /\ ~b.neg /\ Mag(b) = Low(w, n)
    BY <2>1, StoredIs DEF b
  <2> QED
    BY <2>1, <2>2
<1>2. r = IF c.r[x].len = 0 THEN c ELSE SetSign(c, x, s)
  BY DEF RemainderPut
<1> HIDE DEF b
<1>3. b \in Big /\ CleanTail(b) /\ b.len \in Nat /\ Operand(b)
  <2>1. b \in Big /\ CleanTail(b) /\ b.len \in 0 .. Ext
    BY <1>1, BigIs DEF Good
  <2>2. b.len \in Nat /\ b.len <= 2 * nib
    BY <1>1, <2>1, Sizes
  <2> QED
    BY <1>1, <2>1, <2>2 DEF Operand
<1>4. Changed(v, l, "w0") /\ l.r["w0"] = b
  BY <1>3, PutIs
<1> HIDE DEF l
<1>5. l \in Memories /\ l.check = v.check /\ l.ERNUM = v.ERNUM /\ \A k \in Names : k # "w0" => l.r[k] = v.r[k]
  BY <1>4 DEF Changed, Others
<1>6. CleanTail(l.r[x])
  BY <1>3, <1>4, <1>5
<1>7. (R * d) \div d = R
  <2>1. d \in Nat \ {0}
    BY Sizes
  <2>2. R * d = d * R
    BY <2>1
  <2>3. (d * R) \div d = R
    BY <2>1, RestOfMultiple
  <2> QED
    BY <2>2, <2>3
<1>8. Gets(l, c, x, R, b.len)
  <2>1. Gets(l, c, x, Mag(l.r["w0"]) \div d, l.r["w0"].len)
    BY <1>1, <1>3, <1>4, <1>5, <1>6, UnscaledIs
  <2> QED
    BY <1>1, <1>4, <1>7, <2>1
<1> HIDE DEF c
<1>9. Gets(l, r, x, IF s THEN -R ELSE R, b.len)
  BY <1>2, <1>3, <1>5, <1>8, SignPutIs
<1>10. r.r[x].len <= n
  <2>1. Good(r.r[x]) /\ r.r[x].len <= b.len
    BY <1>9 DEF Gets
  <2>2. r.r[x].len \in Nat /\ n \in Nat
    BY <2>1, GoodIs, Sizes
  <2> QED
    BY <1>1, <1>3, <2>1, <2>2
<1> QED
  BY <1>5, <1>9, <1>10 DEF Gets, Changed, Others

\* The schoolbook division: scaled, word by word, scaled back.
LEMMA LongDivisionIs ==
  ASSUME NEW m \in Memories, NEW x \in Names, NEW y \in Names, NEW z \in Names, "w0" \in Names,
         x # y, y # "w0", z # "w0", Operand(m.r["w0"]), ~m.r["w0"].neg, Good(m.r[y]), ~m.r[y].neg,
         m.r[y].len \in 2 .. nib, Mag(m.r[y]) <= Mag(m.r["w0"]), CleanTail(m.r[x]), CleanTail(m.r[z]),
         NEW sx \in BOOLEAN, NEW sy \in BOOLEAN
  PROVE  DivisionLeft(m, LongDivision(m, x, y, z, sx, sy), x, y, z, sx, sy)
<1> DEFINE X == m.r["w0"]
           Y == m.r[y]
           d == NormFactor(Y)
           u == Prepared(m, y, z)
           s == QuotientWords(u.r["w0"].w, X.len, u.r[y], Y.len, u.r[z].w)
           v == QuotientPut(u, y, z, Y.len, s, sx # sy)
           r == IF x = z THEN v ELSE RemainderPut(v, x, d, sx)
           back == Unscaled(r, y, d, y)
           open == [back EXCEPT !.check = m.check]
           n == SetSign(open, y, sy)
<1>1. n = LongDivision(m, x, y, z, sx, sy)
  <2> DEFINE a == IF y # z THEN zero(m, z) ELSE m
  <2>1. a.r[y] = Y /\ a \in Memories
    <3>1. CASE y # z
      <4>1. Changed(m, zero(m, z), z)
        BY ZeroIs
      <4> QED
        BY <3>1, <4>1 DEF Changed, Others
    <3>2. CASE y = z
      BY <3>2
    <3> QED
      BY <3>1, <3>2
  <2> HIDE DEF a
  <2>2. normalise(a, y, y) = Scaled(a, y, d)
    BY <2>1 DEF normalise, Scaled, copy
  <2>3. u = IF d = 1 THEN [normalise(a, y, y) EXCEPT !.check = FALSE]
            ELSE mr_pmul([normalise(a, y, y) EXCEPT !.check = FALSE], "w0", d, "w0")
    <3>1. u = Scaled([Scaled(a, y, d) EXCEPT !.check = FALSE], "w0", d)
      BY DEF Prepared, a
    <3>2. u = Scaled([normalise(a, y, y) EXCEPT !.check = FALSE], "w0", d)
      BY <2>2, <3>1
    <3> HIDE DEF u, d
    <3> QED
      BY <3>2 DEF Scaled
  <2>4. LongDivision(m, x, y, z, sx, sy) =
          LET v0 == Put(u, "w0", [w |-> s.w, len |-> Y.len, neg |-> FALSE])
              v1 == IF y = z THEN v0
                    ELSE Put(v0, z, mr_lzero([w |-> s.z, len |-> s.len - Y.len + 1, neg |-> sx # sy]))
              rem == IF x = z THEN v1
                     ELSE LET l == Put(v1, "w0", mr_lzero(v1.r["w0"]))
                              c == IF d = 1 THEN copy(l, "w0", x) ELSE mr_sdiv(l, "w0", d, x)
                          IN  IF c.r[x].len = 0 THEN c ELSE SetSign(c, x, sx)
              bk == IF d = 1 THEN rem ELSE mr_sdiv(rem, y, d, y)
          IN  SetSign([bk EXCEPT !.check = m.check], y, sy)
    <3> HIDE DEF u, d
    <3> QED
      BY <2>3 DEF LongDivision, a, d
  <2> HIDE DEF u, d, s
  <2>5. v = (LET v0 == Put(u, "w0", [w |-> s.w, len |-> Y.len, neg |-> FALSE])
             IN  IF y = z THEN v0
                 ELSE Put(v0, z, mr_lzero([w |-> s.z, len |-> s.len - Y.len + 1, neg |-> sx # sy])))
    BY DEF QuotientPut
  <2> HIDE DEF v
  <2>6. r = IF x = z THEN v
            ELSE LET l == Put(v, "w0", mr_lzero(v.r["w0"]))
                     c == IF d = 1 THEN copy(l, "w0", x) ELSE mr_sdiv(l, "w0", d, x)
                 IN  IF c.r[x].len = 0 THEN c ELSE SetSign(c, x, sx)
    BY DEF RemainderPut, Unscaled
  <2> HIDE DEF r
  <2>7. back = IF d = 1 THEN r ELSE mr_sdiv(r, y, d, y)
    BY DEF Unscaled, copy
  <2> HIDE DEF back
  <2> QED
    BY <2>4, <2>5, <2>6, <2>7
<1>2. /\ Y.len \in 1 .. nib /\ X.len \in Nat /\ X.len <= 2 * nib /\ Y.len \in Nat /\ Y.len \in 0 .. nib
      /\ Mag(X) \in Nat /\ Mag(Y) \in Nat
  <2>1. Good(X) /\ X.len \in 0 .. Ext /\ X.len <= 2 * nib
    BY BigIs DEF Operand, Good
  <2>2. Y.len \in 2 .. nib /\ Mag(X) \in Nat /\ Mag(Y) \in Nat
    BY <2>1, SignedValue
  <2> HIDE DEF X, Y
  <2> QED
    BY <2>1, <2>2, Sizes
<1>3. PreparedWell(m, y, z, d, u)
  BY <1>2, PreparedIs
<1> HIDE DEF d, u
<1>4. LongWords(X, Y, d, y # z, s)
  BY <1>3, LongWordsAre
<1> HIDE DEF s
<1>5. /\ u \in Memories /\ u.check = FALSE /\ u.ERNUM = m.ERNUM /\ d \in Word /\ d # 0
      /\ \A k \in Names : k \notin {y, z, "w0"} => u.r[k] = m.r[k]
      /\ Good(u.r[y]) /\ ~u.r[y].neg /\ Mag(u.r[y]) = Mag(Y) * d /\ u.r[y].len = Y.len
  BY <1>3 DEF PreparedWell
<1>7. /\ v \in Memories /\ v.check = FALSE /\ v.ERNUM = m.ERNUM
      /\ \A k \in Names : k # "w0" /\ (y = z \/ k # z) => v.r[k] = u.r[k]
      /\ v.r["w0"] = [w |-> s.w, len |-> Y.len, neg |-> FALSE]
      /\ y # z => /\ Good(v.r[z]) /\ v.r[z].len <= X.len
                  /\ Value(v.r[z]) = (IF sx # sy THEN -(Mag(X) \div Mag(Y)) ELSE Mag(X) \div Mag(Y))
  <2> HIDE DEF v, X, Y
  <2>1. Y.len \in 2 .. nib
    BY DEF Y
  <2> DEFINE t == sx # sy
  <2>2. v = QuotientPut(u, y, z, Y.len, s, t) /\ t \in BOOLEAN
    BY DEF v
  <2> HIDE DEF t
  <2>3. QuotientThere(u, v, y, z, X, Y, s, t)
    BY <1>2, <1>4, <1>5, <2>1, <2>2, QuotientPutIs
  <2> QED
    BY <1>5, <2>3 DEF t, QuotientThere
<1> HIDE DEF v
<1>8. v.r[y] = u.r[y] /\ \A k \in Names : k \notin {y, z, "w0"} => v.r[k] = m.r[k]
  BY <1>5, <1>7
<1>9. /\ r \in Memories /\ r.check = FALSE /\ r.ERNUM = m.ERNUM
      /\ \A k \in Names : k \notin {"w0", x} \/ (k # "w0" /\ x = z) => r.r[k] = v.r[k]
      /\ x # z => /\ Good(r.r[x]) /\ Value(r.r[x]) = (IF sx THEN -(Mag(X) % Mag(Y)) ELSE Mag(X) % Mag(Y))
                  /\ r.r[x].len <= Y.len
  <2>1. CASE x = z
    BY <1>7, <2>1
  <2>2. CASE x # z
    <3>1. r = RemainderPut(v, x, d, sx)
      BY <2>2
    <3>2. /\ s.w \in Words /\ (\A j \in Idx : j >= Y.len => s.w[j] = 0)
          /\ Low(s.w, Y.len) = (Mag(X) % Mag(Y)) * d
      BY <1>4 DEF LongWords
    <3>3. x # "w0" => CleanTail(v.r[x])
      BY <1>8, <2>2
    <3>4. Mag(X) % Mag(Y) \in Nat
      <4>1. Mag(Y) # 0
        <5>1. ~(Y.len <= 0) /\ 0 \in Idx
          BY <1>2, Sizes
        <5>2. ~(Mag(Y) < BTo[0])
          BY <5>1, LengthTells DEF Mag
        <5> QED
          BY <5>2, BToIs
      <4> QED
        BY <1>2, <4>1
    <3> HIDE DEF r, X, Y
    <3>5. /\ r \in Memories /\ r.check = v.check /\ r.ERNUM = v.ERNUM
          /\ \A k \in Names : k \notin {"w0", x} => r.r[k] = v.r[k]
          /\ Good(r.r[x]) /\ Value(r.r[x]) = (IF sx THEN -(Mag(X) % Mag(Y)) ELSE Mag(X) % Mag(Y))
          /\ r.r[x].len <= Y.len
      BY <1>2, <1>5, <1>7, <3>1, <3>2, <3>3, <3>4, RemainderPutIs
    <3> QED
      BY <1>7, <2>2, <3>5
  <2> QED
    BY <2>1, <2>2
<1> HIDE DEF r
<1>10. r.r[y] = u.r[y]
  BY <1>8, <1>9
<1>11. Gets(r, back, y, Mag(Y), Y.len)
  <2>1. Operand(r.r[y]) /\ ~r.r[y].neg /\ CleanTail(r.r[y])
    <3>1. Y.len <= 2 * nib
      <4>1. Y.len \in 2 .. nib
        OBVIOUS
      <4> HIDE DEF Y
      <4> QED
        BY <4>1, Sizes
    <3> QED
      BY <1>5, <1>10, <3>1 DEF Operand, Good
  <2>2. (Mag(Y) * d) \div d = Mag(Y)
    <3>1. d \in Nat \ {0}
      BY <1>5, Sizes
    <3>2. Mag(Y) * d = d * Mag(Y)
      BY <1>2, <3>1
    <3>3. (d * Mag(Y)) \div d = Mag(Y)
      BY <1>2, <3>1, RestOfMultiple
    <3> QED
      BY <3>2, <3>3
  <2>3. Gets(r, back, y, Mag(r.r[y]) \div d, r.r[y].len)
    BY <1>5, <1>9, <2>1, UnscaledIs
  <2> QED
    BY <1>5, <1>10, <2>2, <2>3
<1> HIDE DEF back
<1>12. back \in Memories /\ back.ERNUM = m.ERNUM /\ \A k \in Names : k # y => back.r[k] = r.r[k]
  BY <1>9, <1>11 DEF Gets, Changed, Others
<1>13. open \in Memories /\ open.r = back.r /\ open.ERNUM = m.ERNUM /\ open.check = m.check
  BY <1>12, CheckSet, MemoryIs
<1> HIDE DEF open
<1>14. Gets(open, open, y, Mag(Y), Y.len) /\ Gets(open, n, y, IF sy THEN -Mag(Y) ELSE Mag(Y), Y.len)
  <2>1. Gets(open, open, y, Mag(Y), Y.len)
    BY <1>11, <1>13 DEF Gets, Changed, Others
  <2>2. Mag(Y) # 0
    <3>1. ~(Y.len <= 0) /\ 0 \in Idx
      BY <1>2, Sizes
    <3>2. ~(Mag(Y) < BTo[0])
      BY <3>1, LengthTells DEF Mag
    <3> QED
      BY <3>2, BToIs
  <2>3. n = IF open.r[y].len = 0 THEN open ELSE SetSign(open, y, sy)
    BY <1>2, <1>13, <2>1, <2>2, SignPutIs
  <2> HIDE DEF n
  <2> QED
    BY <1>2, <1>13, <2>1, <2>3, SignPutIs
<1> HIDE DEF n
<1>15. n \in Memories /\ n.check = m.check /\ n.ERNUM = m.ERNUM /\ \A k \in Names : k # y => n.r[k] = r.r[k]
  BY <1>12, <1>13, <1>14 DEF Gets, Changed, Others
<1>16. \A k \in Names : k \notin {x, y, z, "w0"} => n.r[k] = m.r[k]
  BY <1>8, <1>9, <1>15
<1>17. Good(n.r[y]) /\ Value(n.r[y]) = (IF sy THEN -Mag(Y) ELSE Mag(Y)) /\ n.r[y].len <= Y.len
  BY <1>14 DEF Gets
<1>18. x # z => /\ Good(n.r[x]) /\ Value(n.r[x]) = (IF sx THEN -(Mag(X) % Mag(Y)) ELSE Mag(X) % Mag(Y))
                /\ n.r[x].len <= Y.len
  BY <1>9, <1>15
<1>19. y # z => /\ Good(n.r[z]) /\ Value(n.r[z]) = (IF sx # sy THEN -(Mag(X) \div Mag(Y)) ELSE Mag(X) \div Mag(Y))
                /\ n.r[z].len <= X.len
  <2> SUFFICES ASSUME y # z
               PROVE  /\ Good(n.r[z]) /\ Value(n.r[z]) = (IF sx # sy THEN -(Mag(X) \div Mag(Y)) ELSE Mag(X) \div Mag(Y))
                      /\ n.r[z].len <= X.len
    OBVIOUS
  <2>1. n.r[z] = v.r[z]
    BY <1>9, <1>15
  <2> QED
    BY <1>7, <2>1
<1>20. DivisionLeft(m, n, x, y, z, sx, sy)
  BY <1>15, <1>16, <1>17, <1>18, <1>19 DEF DivisionLeft
<1> QED
  BY <1>1, <1>20

\* y taken off the magnitude in w0 so many times.
Lowered(m, y, p) ==
  /\ p = [m |-> p.m, d |-> p.d] /\ p.d \in Nat /\ Changed(m, p.m, "w0")
  /\ Operand(p.m.r["w0"]) /\ ~p.m.r["w0"].neg /\ p.m.r["w0"].len <= m.r["w0"].len
  /\ Mag(m.r["w0"]) = Mag(p.m.r["w0"]) + p.d * Mag(m.r[y])
Once(m, y, p, q) == /\ Lowered(m, y, q)
                    /\ Mag(p.m.r["w0"]) < Mag(m.r[y]) => q = p
                    /\ Mag(p.m.r["w0"]) >= Mag(m.r[y]) => q.d = p.d + 1
LEMMA LessOnceIs ==
  ASSUME NEW m \in Memories, NEW y \in Names, "w0" \in Names, y # "w0", Operand(m.r["w0"]), Operand(m.r[y]), ~m.r[y].neg,
         NEW p, Lowered(m, y, p)
  PROVE  Once(m, y, p, LessOnce(p, y))
<1> DEFINE X == p.m.r["w0"]
           Y == m.r[y]
           n == mr_psub(p.m, "w0", y, "w0")
           q == LessOnce(p, y)
<1>1. /\ p = [m |-> p.m, d |-> p.d] /\ p.d \in Nat /\ Changed(m, p.m, "w0") /\ p.m \in Memories
      /\ Operand(X) /\ ~X.neg /\ X.len <= m.r["w0"].len /\ Mag(m.r["w0"]) = Mag(X) + p.d * Mag(Y)
  BY DEF Lowered, Changed, Others
<1>2. p.m.r[y] = Y
  BY <1>1 DEF Changed, Others
<1>3. Good(X) /\ Good(Y) /\ X.len < Ext /\ Y.len < Ext
  <2>1. Good(X) /\ Good(Y) /\ X.len \in 0 .. Ext /\ Y.len \in 0 .. Ext /\ X.len <= 2 * nib /\ Y.len <= 2 * nib
    BY <1>1, BigIs DEF Operand, Good
  <2> HIDE DEF X, Y
  <2> QED
    BY <2>1, Sizes
<1>4. Mag(X) \in Nat /\ Value(X) = Mag(X) /\ Mag(Y) \in Nat /\ Value(Y) = Mag(Y)
  BY <1>1, <1>3, SignedValue
<1>5. mr_compare(p.m, "w0", y) = SignOf(Mag(X) - Mag(Y))
  <2>1. mr_compare(p.m, "w0", y) = CompareBig(X, Y)
    BY <1>2 DEF mr_compare
  <2>2. CompareBig(X, Y) = SignOf(Value(X) - Value(Y))
    BY <1>3, CompareIs
  <2> QED
    BY <1>4, <2>1, <2>2
<1>6. CASE Mag(X) < Mag(Y)
  <2>1. mr_compare(p.m, "w0", y) < 0
    BY <1>4, <1>5, <1>6 DEF SignOf
  <2>2. q = p
    BY <2>1 DEF LessOnce
  <2> HIDE DEF q
  <2>3. ~(Mag(X) >= Mag(Y))
    BY <1>4, <1>6
  <2> QED
    BY <2>2, <2>3 DEF Once, q
<1>7. CASE Mag(X) >= Mag(Y)
  <2>1. ~(mr_compare(p.m, "w0", y) < 0)
    BY <1>4, <1>5, <1>7 DEF SignOf
  <2>2. q = [m |-> n, d |-> p.d + 1]
    BY <2>1 DEF LessOnce
  <2>3. HoldsDiff(p.m, n, "w0", Mag(X) - Mag(Y), X.len)
    <3>1. Mag(Y) <= Mag(X) /\ CleanTail(X)
      BY <1>3, <1>4, <1>7 DEF Good
    <3> QED
      BY <1>1, <1>2, <3>1, PsubIs
  <2> HIDE DEF n, q
  <2>4. Changed(p.m, n, "w0") /\ Good(n.r["w0"]) /\ ~n.r["w0"].neg /\ Mag(n.r["w0"]) = Mag(X) - Mag(Y) /\ n.r["w0"].len <= X.len
    BY <2>3 DEF HoldsDiff
  <2>5. Changed(m, n, "w0")
    BY <1>1, <2>4 DEF Changed, Others
  <2>6. Operand(n.r["w0"]) /\ n.r["w0"].len <= m.r["w0"].len
    <3>1. X.len \in Nat /\ n.r["w0"].len \in Nat /\ m.r["w0"].len \in Nat /\ X.len <= 2 * nib
      BY <1>1, <1>3, <2>4, GoodIs, Sizes DEF Operand
    <3> HIDE DEF X
    <3>2. n.r["w0"].len <= 2 * nib /\ n.r["w0"].len <= m.r["w0"].len
      <4>1. n.r["w0"].len <= X.len /\ X.len <= m.r["w0"].len /\ nib \in Nat
        BY <1>1, <2>4, Sizes
      <4> QED
        BY <3>1, <4>1
    <3> QED
      BY <2>4, <3>2 DEF Operand
  <2>7. Mag(m.r["w0"]) = Mag(n.r["w0"]) + (p.d + 1) * Mag(Y)
    <3> DEFINE a == p.d * Mag(Y)
    <3>1. (p.d + 1) * Mag(Y) = a + Mag(Y) /\ a \in Nat
      <4>1. \A i, j \in Nat : i * j \in Nat /\ (i + 1) * j = i * j + j
        OBVIOUS
      <4> QED
        BY <1>1, <1>4, <4>1
    <3>2. Mag(m.r["w0"]) = Mag(X) + a
      BY <1>1
    <3> HIDE DEF a, X, Y
    <3> QED
      BY <1>4, <2>4, <3>1, <3>2
  <2>8. Lowered(m, y, q)
    <3>1. q.m = n /\ q.d = p.d + 1 /\ q = [m |-> q.m, d |-> q.d] /\ q.d \in Nat
      BY <1>1, <2>2
    <3> QED
      BY <2>4, <2>5, <2>6, <2>7, <3>1 DEF Lowered
  <2>9. q.d = p.d + 1 /\ ~(Mag(X) < Mag(Y))
    BY <1>4, <1>7, <2>2
  <2> QED
    BY <2>8, <2>9 DEF Once, q
<1> QED
  BY <1>4, <1>6, <1>7

\* The rows of such subtractions: eight of them, or as many as there are to make.
LowerRow(m, y, off) == off = [i \in 0 .. 8 |-> IF i = 0 THEN [m |-> m, d |-> 0] ELSE LessOnce(off[i-1], y)]
LEMMA LowerRowIs ==
  ASSUME NEW m \in Memories, NEW y \in Names, "w0" \in Names, y # "w0", Operand(m.r["w0"]), ~m.r["w0"].neg,
         Operand(m.r[y]), ~m.r[y].neg, NEW off, off = CHOOSE f : LowerRow(m, y, f)
  PROVE  /\ Lowered(m, y, off[8])
         /\ Mag(off[8].m.r["w0"]) < Mag(m.r[y]) \/ off[8].d = 8
<1> DEFINE S == {p \in [m : Memories, d : Nat] : Lowered(m, y, p)}
           first == [m |-> m, d |-> 0]
           step == [q \in S \X Nat |-> LessOnce(q[1], y)]
           Small(p) == Mag(p.m.r["w0"]) < Mag(m.r[y])
<1>1. \A p : Lowered(m, y, p) => p \in S
  <2> SUFFICES ASSUME NEW p, Lowered(m, y, p) PROVE p \in S
    OBVIOUS
  <2>1. p = [m |-> p.m, d |-> p.d] /\ p.d \in Nat /\ p.m \in Memories
    BY DEF Lowered, Changed, Others
  <2>2. [m |-> p.m, d |-> p.d] \in [m : Memories, d : Nat]
    BY <2>1
  <2> QED
    BY <2>1, <2>2
<1>2. Lowered(m, y, first)
  <2>1. Changed(m, m, "w0")
    BY DEF Changed, Others
  <2>2. Mag(m.r["w0"]) \in Nat /\ Mag(m.r[y]) \in Nat
    BY SignedValue DEF Operand
  <2>3. Mag(m.r["w0"]) = Mag(m.r["w0"]) + 0 * Mag(m.r[y])
    BY <2>2
  <2>4. m.r["w0"].len <= m.r["w0"].len
    BY GoodIs, Sizes DEF Operand
  <2> QED
    BY <2>1, <2>3, <2>4 DEF Lowered
<1>3. ASSUME NEW p \in S PROVE Once(m, y, p, LessOnce(p, y)) /\ LessOnce(p, y) \in S
  <2>1. Once(m, y, p, LessOnce(p, y))
    BY LessOnceIs
  <2> QED
    BY <1>1, <2>1 DEF Once
<1>4. first \in S
  BY <1>1, <1>2
<1>5. step \in [S \X Nat -> S]
  <2> HIDE DEF S
  <2> QED
    BY <1>3
<1>6. \E f : LowerRow(m, y, f)
  <2>1. PICK f \in [0 .. 8 -> S] : IsSteps(f, 8, first, step)
    <3> HIDE DEF first, step, S
    <3>1. 8 \in Nat
      OBVIOUS
    <3> QED
      BY <1>4, <1>5, <3>1, RowOfSteps
  <2>2. \A k \in 1 .. 8 : step[<<f[k-1], k>>] = LessOnce(f[k-1], y)
    <3> HIDE DEF S
    <3>1. \A k \in 1 .. 8 : k \in Nat /\ f[k-1] \in S
      BY <2>1
    <3> QED
      BY <3>1
  <2>3. LowerRow(m, y, f)
    <3> HIDE DEF step, S
    <3>1. f = [k \in 0 .. 8 |-> IF k = 0 THEN first ELSE step[<<f[k-1], k>>]]
      BY <2>1 DEF IsSteps
    <3>2. \A k \in 0 .. 8 : k # 0 => k \in 1 .. 8
      OBVIOUS
    <3>3. \A k \in 0 .. 8 : (IF k = 0 THEN first ELSE step[<<f[k-1], k>>]) = (IF k = 0 THEN first ELSE LessOnce(f[k-1], y))
      BY <2>2, <3>2
    <3> QED
      BY <3>1, <3>3 DEF LowerRow
  <2> QED
    BY <2>3
<1>7. LowerRow(m, y, off)
  BY <1>6
<1> HIDE DEF first, step
<1>8. off[0] = first /\ \A k \in 1 .. 8 : off[k] = LessOnce(off[k-1], y)
  <2>1. 0 \in 0 .. 8 /\ \A k \in 1 .. 8 : k \in 0 .. 8 /\ k # 0
    OBVIOUS
  <2>2. \A k \in 0 .. 8 : off[k] = IF k = 0 THEN first ELSE LessOnce(off[k-1], y)
    <3>1. off = [i \in 0 .. 8 |-> IF i = 0 THEN first ELSE LessOnce(off[i-1], y)]
      BY <1>7 DEF LowerRow, first
    <3> QED
      BY ZenonT(30), <3>1
  <2> QED
    BY <2>1, <2>2
<1> DEFINE g == [k \in 0 .. 8 |-> <<k, off[k]>>]
           G == {q \in (0 .. 8) \X S : Small(q[2]) \/ q[2].d = q[1]}
<1>9. g[0] \in G
  <2>1. g[0] = <<0, first>> /\ first.d = 0
    BY <1>8 DEF first
  <2> HIDE DEF g, S, Small
  <2>2. <<0, first>> \in (0 .. 8) \X S
    BY <1>4
  <2> QED
    BY <2>1, <2>2
<1>10. ASSUME NEW k \in 1 .. 8, g[k-1] \in G PROVE g[k] \in G
  <2> DEFINE p == off[k-1]
             q == off[k]
  <2>1. k - 1 \in 0 .. 8 /\ k \in 0 .. 8 /\ k \in Nat
    OBVIOUS
  <2>2. g[k-1] = <<k - 1, p>> /\ g[k] = <<k, q>>
    BY <2>1
  <2> HIDE DEF g, S, Small
  <2>3. p \in S /\ (Small(p) \/ p.d = k - 1)
    BY <1>10, <2>2
  <2>4. q = LessOnce(p, y)
    BY <1>8
  <2>5. q \in S /\ Once(m, y, p, q)
    BY <1>3, <2>3, <2>4
  <2>6. Small(q) \/ q.d = k
    <3>1. CASE Small(p)
      BY <2>5, <3>1 DEF Once, Small
    <3>2. CASE ~Small(p)
      <4>1. Mag(p.m.r["w0"]) \in Nat /\ Mag(m.r[y]) \in Nat /\ p.d \in Nat
        <5>1. Lowered(m, y, p)
          BY <2>3 DEF S
        <5> QED
          BY <5>1, SignedValue DEF Lowered, Operand
      <4>2. q.d = p.d + 1
        BY <2>5, <3>2, <4>1 DEF Once, Small
      <4> QED
        BY <2>1, <2>3, <3>2, <4>1, <4>2
    <3> QED
      BY <3>1, <3>2
  <2> QED
    BY <2>1, <2>2, <2>5, <2>6
<1>11. g[8] \in G
  <2> HIDE DEF g, G
  <2>1. 8 \in Nat /\ 8 \in 0 .. 8
    OBVIOUS
  <2> QED
    BY <1>9, <1>10, <2>1, StepsKeep
<1>12. off[8] \in S /\ (Small(off[8]) \/ off[8].d = 8)
  <2>1. g[8] = <<8, off[8]>>
    OBVIOUS
  <2> HIDE DEF g, S, Small
  <2> QED
    BY <1>11, <2>1
<1> QED
  BY <1>12

\* Nothing taken off yet.
LEMMA LoweredNone ==
  ASSUME NEW m \in Memories, NEW y \in Names, Operand(m.r["w0"]), "w0" \in Names, ~m.r["w0"].neg, Good(m.r[y])
  PROVE  Lowered(m, y, [m |-> m, d |-> 0])
<1>1. Changed(m, m, "w0")
  BY DEF Changed, Others
<1>2. Mag(m.r["w0"]) \in Nat /\ Mag(m.r[y]) \in Nat
  BY SignedValue DEF Operand
<1>3. Mag(m.r["w0"]) = Mag(m.r["w0"]) + 0 * Mag(m.r[y])
  BY <1>2
<1>4. m.r["w0"].len <= m.r["w0"].len
  BY GoodIs, Sizes DEF Operand
<1> QED
  BY <1>1, <1>3, <1>4 DEF Lowered

\* Numbers of one length are not B times one another, nor four times when the top
\* word of one is less than four times that of the other.
LEMMA AlikeBounds ==
  ASSUME NEW X, Good(X), NEW Y, Good(Y), X.len = Y.len, Y.len # 0, Y.len \in Idx
  PROVE  /\ Mag(X) < B * Mag(Y)
         /\ (X.w[X.len - 1] \div 4) < Y.w[Y.len - 1] => Mag(X) < 4 * Mag(Y)
<1> DEFINE n == Y.len
           P == BTo[n-1]
           x == X.w[n-1]
           y == Y.w[n-1]
           lx == Low(X.w, n - 1)
           ly == Low(Y.w, n - 1)
<1>1. /\ n - 1 \in Idx /\ (n - 1) + 1 = n /\ n - 1 \in 0 .. Ext - 1 /\ n - 1 \in 0 .. Ext - 2 /\ X.w \in Words /\ Y.w \in Words
  BY GoodIs, Sizes
<1>2. /\ Mag(X) = lx + x * P /\ Mag(Y) = ly + y * P /\ BTo[n] = B * P /\ P \in Nat \ {0} /\ x \in Nat /\ y \in Nat
      /\ lx \in Nat /\ ly \in Nat /\ lx < P /\ B \in Nat
  <2>1. Low(X.w, (n - 1) + 1) = lx + x * P /\ Low(Y.w, (n - 1) + 1) = ly + y * P
    BY <1>1, LowIs
  <2>2. BTo[(n - 1) + 1] = B * P
    BY <1>1, BToIs
  <2>3. lx \in Nat /\ lx < P /\ ly \in Nat
    BY <1>1, LowBelow
  <2>4. x \in Nat /\ y \in Nat /\ P \in Nat \ {0} /\ B \in Nat
    BY <1>1, At, BToIs, Sizes
  <2> QED
    BY <1>1, <2>1, <2>2, <2>3, <2>4 DEF Mag
<1>3. Mag(X) < BTo[n] /\ Mag(X) \in Nat /\ Mag(Y) \in Nat /\ P <= Mag(Y)
  <2>1. Mag(X) \in Nat /\ Mag(Y) \in Nat
    BY SignedValue
  <2>2. Mag(X) < BTo[n]
    <3>1. X.len <= n
      BY Sizes
    <3> QED
      BY <3>1, LengthTells DEF Mag
  <2>3. ~(Mag(Y) < P)
    <3>1. ~(n <= n - 1)
      BY Sizes
    <3> QED
      BY <1>1, <3>1, LengthTells DEF Mag
  <2> QED
    BY <1>2, <2>1, <2>2, <2>3
<1>4. Mag(X) < B * Mag(Y)
  <2>1. \A i, j \in Nat : i <= j => B * i <= B * j
    BY <1>2
  <2>2. B * P <= B * Mag(Y)
    BY <1>2, <1>3, <2>1
  <2> DEFINE a == B * P
             b == B * Mag(Y)
  <2>3. a \in Nat /\ b \in Nat /\ a <= b /\ Mag(X) < a
    <3>1. \A i, j \in Nat : i * j \in Nat
      OBVIOUS
    <3> QED
      BY <1>2, <1>3, <2>2, <3>1
  <2> HIDE DEF a, b
  <2>4. Mag(X) < b
    BY <1>3, <2>3
  <2> QED
    BY <2>4 DEF b
<1>5. ASSUME (X.w[X.len - 1] \div 4) < Y.w[Y.len - 1] PROVE Mag(X) < 4 * Mag(Y)
  <2>1. x + 1 <= 4 * y
    <3>1. x \div 4 < y
      BY <1>5
    <3> HIDE DEF x, y
    <3> QED
      BY <1>2, <3>1
  <2>2. P * (x + 1) <= P * (4 * y)
    <3>1. \A i, j \in Nat : i <= j => P * i <= P * j
      BY <1>2
    <3> HIDE DEF x, y, P
    <3>2. x + 1 \in Nat /\ 4 * y \in Nat
      BY <1>2
    <3> QED
      BY <2>1, <3>1, <3>2
  <2> DEFINE a == x * P
             b == y * P
  <2>3. P * (x + 1) = a + P /\ P * (4 * y) = 4 * b /\ a \in Nat /\ b \in Nat
    <3> HIDE DEF x, y, P
    <3> QED
      BY <1>2
  <2>4. Mag(X) = lx + a /\ Mag(Y) = ly + b
    BY <1>2
  <2> HIDE DEF a, b, lx, ly, P
  <2> QED
    BY <1>2, <2>2, <2>3, <2>4
<1> QED
  BY <1>4, <1>5

\* A number of one word is that word.
LEMMA WordMag ==
  ASSUME NEW X, Good(X), X.len = 1
  PROVE  Mag(X) = X.w[0] /\ X.w[0] \in Word /\ X.w[0] # 0 /\ X.w \in Words
<1>1. X.w \in Words /\ 0 \in Idx /\ 0 \in 0 .. Ext - 1 /\ 0 + 1 = 1 /\ 1 - 1 = 0
  BY GoodIs, Sizes
<1>2. Low(X.w, 0 + 1) = Low(X.w, 0) + X.w[0] * BTo[0] /\ Low(X.w, 0) = 0
  BY <1>1, LowIs
<1>3. X.w[0] \in Nat /\ X.w[0] \in Word /\ BTo[0] = 1
  BY <1>1, At, BToIs DEF Words
<1>4. X.w[0] * 1 = X.w[0]
  BY <1>3
<1>5. X.w[0] # 0
  BY <1>1 DEF Good, Canonical
<1> QED
  BY <1>1, <1>2, <1>3, <1>4, <1>5 DEF Mag

\* A word that may be zero as a number.
LEMMA WordPut ==
  ASSUME NEW X, X \in Big, CleanTail(X), X.len = 1, ~X.neg, NEW q \in Word
  PROVE  LET b == mr_lzero([X EXCEPT !.w[0] = q])
         IN  Good(b) /\ ~b.neg /\ b.len <= 1 /\ Mag(b) = q
<1> DEFINE w == [X.w EXCEPT ![0] = q]
<1>1. X.w \in Words /\ 0 \in Idx /\ 1 \in 0 .. Ext /\ 0 \in 0 .. Ext - 1 /\ X = [w |-> X.w, len |-> 1, neg |-> FALSE]
  BY BigIs, Sizes
<1>2. w \in Words /\ w[0] = q /\ \A i \in Idx : i # 0 => w[i] = X.w[i]
  BY <1>1 DEF Words
<1>3. [X EXCEPT !.w[0] = q] = [w |-> w, len |-> 1, neg |-> FALSE]
  <2> DEFINE c == [X EXCEPT !.w[0] = q]
  <2>1. c \in Big /\ c.w = w /\ c.len = X.len /\ c.neg = X.neg
    BY <1>1, <1>2 DEF Big, Words
  <2> HIDE DEF c, w
  <2>2. c = [w |-> c.w, len |-> c.len, neg |-> c.neg]
    BY <2>1, BigIs
  <2>3. X.len = 1 /\ X.neg = FALSE
    BY <1>1
  <2> QED
    BY <2>1, <2>2, <2>3 DEF c
<1> HIDE DEF w
<1>4. \A j \in Idx : j >= 1 => w[j] = 0
  BY <1>2, Sizes DEF CleanTail
<1>5. Low(w, 1) = q
  <2>1. 0 + 1 = 1 /\ Low(w, 0 + 1) = Low(w, 0) + w[0] * BTo[0] /\ Low(w, 0) = 0 /\ BTo[0] = 1
    BY <1>1, <1>2, LowIs, BToIs
  <2>2. q \in Nat /\ q * 1 = q
    BY Sizes
  <2> QED
    BY <1>2, <2>1, <2>2
<1> DEFINE b == mr_lzero([w |-> w, len |-> 1, neg |-> FALSE])
<1>6. Good(b) /\ b.len <= 1 /\ ~b.neg /\ Mag(b) = Low(w, 1)
  BY <1>1, <1>2, <1>4, StoredIs
<1>7. mr_lzero([X EXCEPT !.w[0] = q]) = b
  BY <1>3
<1> HIDE DEF b
<1> QED
  BY <1>5, <1>6, <1>7

\* The quotient is small when the divisor is gone through; otherwise nothing was done.
SmallDone(m, y, p) == /\ Lowered(m, y, p) /\ p.d < B
                      /\ Mag(p.m.r["w0"]) < Mag(m.r[y]) \/ p = [m |-> m, d |-> 0]
LEMMA SmallQuotientIs ==
  ASSUME NEW m \in Memories, NEW y \in Names, "w0" \in Names, y # "w0", Operand(m.r["w0"]), ~m.r["w0"].neg,
         Good(m.r[y]), ~m.r[y].neg, m.r[y].len \in 1 .. nib
  PROVE  SmallDone(m, y, SmallQuotient(m, y))
<1> DEFINE X == m.r["w0"]
           Y == m.r[y]
           n == X.len
           off == CHOOSE f : LowerRow(m, y, f)
           none == [m |-> m, d |-> 0]
           b == mr_lzero([X EXCEPT !.w[0] = @ % Y.w[0]])
           one == [m |-> Put(m, "w0", b), d |-> X.w[0] \div Y.w[0]]
           p == SmallQuotient(m, y)
<1>1. p = IF n # Y.len THEN none ELSE IF n = 1 THEN one
          ELSE IF X.w[n-1] \div 4 < Y.w[n-1] THEN off[8] ELSE none
  BY DEF SmallQuotient, LowerRow
<1>2. /\ Good(X) /\ Y.len # 0 /\ Y.len \in Idx /\ Operand(Y) /\ Mag(X) \in Nat /\ Mag(Y) \in Nat /\ B \in Nat \ {0}
  <2>1. Y.len \in 1 .. nib /\ Good(X)
    BY DEF Operand
  <2>2. Y.len # 0 /\ Y.len \in Idx /\ Y.len <= 2 * nib
    <3> HIDE DEF Y
    <3> QED
      BY <2>1, Sizes
  <2> QED
    BY <2>1, <2>2, SignedValue, Sizes DEF Operand
<1>3. Lowered(m, y, none)
  BY <1>2, LoweredNone
<1> HIDE DEF p, off
<1>4. CASE p = none
  BY <1>2, <1>3, <1>4 DEF SmallDone, p
<1>5. ASSUME n = Y.len, Lowered(m, y, p) PROVE p.d < B
  <2>1. Mag(X) < B * Mag(Y)
    BY <1>2, <1>5, AlikeBounds
  <2>2. p.d \in Nat /\ Mag(X) = Mag(p.m.r["w0"]) + p.d * Mag(Y) /\ Mag(p.m.r["w0"]) \in Nat
    BY <1>5, SignedValue DEF Lowered, Operand
  <2> DEFINE v == Mag(Y)
             e == p.d
             r == Mag(p.m.r["w0"])
             x == Mag(X)
  <2> HIDE DEF v, e, r, x
  <2>3. v \in Nat /\ e \in Nat /\ r \in Nat /\ x = r + e * v /\ x < B * v
    BY <1>2, <2>1, <2>2 DEF v, e, r, x
  <2>4. CASE e >= B
    <3>1. \A i, j \in Nat : i <= j => v * i <= v * j
      BY <2>3
    <3>2. v * B <= v * e /\ v * B = B * v /\ v * e = e * v /\ e * v \in Nat /\ B * v \in Nat
      <4>1. \A i, j \in Nat : i * j \in Nat /\ i * j = j * i
        OBVIOUS
      <4> QED
        BY <1>2, <2>3, <2>4, <3>1, <4>1
    <3> DEFINE f == e * v
               g == B * v
    <3>3. g <= f /\ f \in Nat /\ g \in Nat /\ x = r + f /\ x < g
      BY <2>3, <3>2
    <3> HIDE DEF f, g
    <3>4. FALSE
      BY <2>3, <3>3
    <3> QED
      BY <3>4
  <2> QED
    BY <1>2, <2>3, <2>4 DEF e
<1>6. CASE n = Y.len /\ n = 1
  <2>1. p = one
    BY <1>1, <1>6
  <2>2. /\ Mag(X) = X.w[0] /\ X.w[0] \in Word /\ Mag(Y) = Y.w[0] /\ Y.w[0] \in Word /\ Y.w[0] # 0
        /\ X \in Big /\ CleanTail(X)
    BY <1>2, <1>6, WordMag DEF Good
  <2> DEFINE x == X.w[0]
             v == Y.w[0]
             q == x \div v
             r == x % v
  <2>3. x \in Nat /\ v \in Nat \ {0} /\ q \in Nat /\ r \in Word /\ r \in Nat /\ r < v /\ x = r + q * v
    <3>1. x \in Nat /\ v \in Nat \ {0} /\ x < B /\ v < B /\ B \in Nat
      BY <2>2, Sizes
    <3>2. \A i \in Nat, j \in Nat \ {0} : i \div j \in Nat /\ i % j \in Nat /\ i % j < j /\ i = (i % j) + (i \div j) * j
      OBVIOUS
    <3> HIDE DEF x, v
    <3>3. q \in Nat /\ r \in Nat /\ r < v /\ x = r + q * v
      BY ONLY <3>1, <3>2
    <3> HIDE DEF q, r
    <3> QED
      BY <3>1, <3>3, Sizes
  <2>4. b = mr_lzero([X EXCEPT !.w[0] = r])
    OBVIOUS
  <2>5. Good(b) /\ ~b.neg /\ b.len <= 1 /\ Mag(b) = r
    <3> HIDE DEF r, b, X
    <3> QED
      BY <1>6, <2>2, <2>3, <2>4, WordPut DEF X
  <2> HIDE DEF b
  <2>6. b \in Big /\ Operand(b)
    <3>1. b \in Big /\ b.len \in 0 .. Ext
      BY <2>5, BigIs DEF Good
    <3>2. b.len <= 2 * nib
      BY <2>5, <3>1, Sizes
    <3> QED
      BY <2>5, <3>1, <3>2 DEF Operand
  <2>7. Changed(m, one.m, "w0") /\ one.m.r["w0"] = b /\ one.d = q
    BY <2>6, PutIs
  <2>8. one = [m |-> one.m, d |-> one.d]
    OBVIOUS
  <2> HIDE DEF one
  <2>9. Lowered(m, y, one)
    <3>1. Mag(X) = Mag(b) + q * Mag(Y)
      BY <2>2, <2>3, <2>5
    <3>2. one.m.r["w0"].len <= m.r["w0"].len
      BY <1>6, <2>5, <2>7
    <3> HIDE DEF q
    <3> QED
      BY <2>3, <2>5, <2>6, <2>7, <2>8, <3>1, <3>2 DEF Lowered
  <2>10. Mag(p.m.r["w0"]) < Mag(Y)
    BY <2>1, <2>2, <2>3, <2>5, <2>7
  <2>11. p.d < B
    BY <1>5, <1>6, <2>1, <2>9
  <2> QED
    BY <2>1, <2>9, <2>10, <2>11 DEF SmallDone, p
<1>7. CASE n = Y.len /\ p = off[8] /\ X.w[n-1] \div 4 < Y.w[n-1]
  <2>1. Lowered(m, y, p) /\ (Mag(p.m.r["w0"]) < Mag(Y) \/ p.d = 8)
    BY <1>2, <1>7, LowerRowIs DEF off
  <2>2. p.d # 8
    <3> SUFFICES ASSUME p.d = 8 PROVE FALSE
      OBVIOUS
    <3>1. Mag(X) < 4 * Mag(Y)
      BY <1>2, <1>7, AlikeBounds
    <3>2. Mag(X) = Mag(p.m.r["w0"]) + 8 * Mag(Y) /\ Mag(p.m.r["w0"]) \in Nat
      BY <2>1, SignedValue DEF Lowered, Operand
    <3> HIDE DEF X, Y
    <3> QED
      BY <1>2, <3>1, <3>2
  <2>3. p.d < B
    BY <1>5, <1>7, <2>1
  <2> QED
    BY <2>1, <2>2, <2>3 DEF SmallDone, p
<1> QED
  BY <1>1, <1>4, <1>6, <1>7 DEF p

\* A word with a sign, or zero, put where a number was.
LEMMA Word1Is ==
  ASSUME NEW m \in Memories, NEW r \in Names, CleanTail(m.r[r]), NEW n \in Word, NEW neg \in BOOLEAN
  PROVE  Gets(m, Word1(m, r, n, neg), r, IF neg THEN -n ELSE n, IF n > 0 THEN 1 ELSE 0)
<1> DEFINE c == zero(m, r)
           len == IF n > 0 THEN 1 ELSE 0
           w == [Zero.w EXCEPT ![0] = n]
           b == [w |-> w, len |-> len, neg |-> n > 0 /\ neg]
           q == Put(c, r, b)
<1>1. Changed(m, c, r) /\ c.r[r] = Zero
  BY ZeroIs
<1>2. /\ n \in Nat /\ 0 \in Idx /\ Zero.w \in Words /\ (\A i \in Idx : Zero.w[i] = 0) /\ len \in 0 .. Ext
      /\ 0 \in 0 .. Ext - 1
  BY ZeroWords, Sizes
<1>20. (n > 0 => len = 1) /\ (~(n > 0) => len = 0)
  OBVIOUS
<1> HIDE DEF len
<1>3. w \in Words /\ w[0] = n /\ \A i \in Idx : i # 0 => w[i] = 0
  BY <1>2 DEF Words
<1>4. b \in Big
  BY <1>2, <1>3 DEF Big, Words
<1>5. Word1(m, r, n, neg) = q
  <2> DEFINE e == [Zero EXCEPT !.w[0] = n, !.len = len, !.neg = n > 0 /\ neg]
  <2>1. e = b
    <3>1. Zero \in Big /\ Zero = [w |-> Zero.w, len |-> Zero.len, neg |-> Zero.neg]
      BY ZeroGood, BigIs DEF Good
    <3> DEFINE z1 == [Zero EXCEPT !.w[0] = n]
               z2 == [z1 EXCEPT !.len = len]
    <3>2. z1 = [w |-> w, len |-> Zero.len, neg |-> Zero.neg]
      BY <3>1
    <3>4. e = [z2 EXCEPT !.neg = n > 0 /\ neg]
      OBVIOUS
    <3> HIDE DEF z1, w
    <3>3. z2 = [w |-> w, len |-> len, neg |-> Zero.neg]
      BY <3>2
    <3> HIDE DEF z2
    <3> QED
      BY <3>3, <3>4
  <2> HIDE DEF b, c, len
  <2> QED
    BY <1>1, <2>1 DEF Word1, len, c, e
<1> HIDE DEF c
<1>6. Changed(c, q, r) /\ q.r[r] = b
  BY <1>1, <1>4, PutIs DEF Changed, Others
<1>7. Changed(m, q, r)
  BY <1>1, <1>6 DEF Changed, Others
<1>8. b.w = w /\ b.len = len /\ b.neg = (n > 0 /\ neg)
  OBVIOUS
<1> HIDE DEF q, b, w
<1>9. CASE n = 0
  <2>1. len = 0 /\ ~b.neg /\ b.len = 0 /\ len <= len
    <3>1. ~(n > 0) /\ len = 0 /\ len <= len
      BY <1>2, <1>9, <1>20
    <3> QED
      BY <1>8, <3>1
  <2>2. CleanTail(b)
    BY <1>3, <1>8, <1>9 DEF CleanTail
  <2>3. Low(b.w, 0) = 0
    BY <1>3, <1>8, LowIs
  <2>4. Good(b) /\ Value(b) = 0
    BY <1>4, <2>1, <2>2, <2>3 DEF Good, Canonical, Value
  <2>5. (IF neg THEN -n ELSE n) = 0
    <3>1. \A f \in Nat : f <= 0 => -f = f
      OBVIOUS
    <3>2. n \in Nat /\ n <= 0
      BY <1>2, <1>9
    <3>3. -n = n
      BY Zenon, <3>1, <3>2
    <3> QED
      BY <1>9, <3>3
  <2> QED
    BY <1>5, <1>6, <1>7, <1>8, <2>1, <2>4, <2>5 DEF Gets, len
<1>10. CASE n # 0
  <2>1. n > 0 /\ len = 1 /\ b.neg = neg /\ b.len = 1 /\ 1 - 1 = 0 /\ len <= len
    BY <1>2, <1>8, <1>10, <1>20
  <2>2. CleanTail(b)
    BY <1>3, <1>8, <2>1, Sizes DEF CleanTail
  <2>3. Good(b)
    BY <1>3, <1>4, <1>8, <1>10, <2>1, <2>2 DEF Good, Canonical
  <2>4. Mag(b) = n
    BY <1>3, <1>8, <2>1, <2>3, WordMag
  <2>5. Value(b) = IF neg THEN -n ELSE n
    BY <2>1, <2>3, <2>4, SignedValue
  <2> QED
    BY <1>5, <1>6, <1>7, <1>8, <2>1, <2>3, <2>5 DEF Gets, len
<1> QED
  BY <1>9, <1>10

\* The quotient and the remainder are the only ones there are.
LEMMA OnlyQuotient ==
  ASSUME NEW X \in Nat, NEW V \in Nat, NEW q \in Nat, NEW r \in Nat, r < V, X = r + q * V
  PROVE  X \div V = q /\ X % V = r /\ V # 0 /\ (q # 0 => X # 0)
<1>1. V \in Nat \ {0} /\ r \in 0 .. V - 1
  OBVIOUS
<1>2. V * q = q * V /\ q * V \in Nat
  <2>1. \A i, j \in Nat : i * j = j * i /\ i * j \in Nat
    OBVIOUS
  <2> QED
    BY <2>1
<1>3. (V * q + r) \div V = q /\ (V * q + r) % V = r
  BY <1>1, Division
<1>4. X = V * q + r
  BY <1>2
<1>5. q # 0 => X # 0
  <2> SUFFICES ASSUME q # 0, X = 0 PROVE FALSE
    OBVIOUS
  <2>1. \A i, j \in Nat \ {0} : i * j # 0
    OBVIOUS
  <2>2. q * V # 0
    BY <1>1, <2>1
  <2> DEFINE p == q * V
  <2>3. p \in Nat /\ p # 0 /\ 0 = r + p
    BY <1>2, <2>2
  <2> HIDE DEF p
  <2> QED
    BY <2>3
<1> QED
  BY <1>1, <1>3, <1>4, <1>5

\* A number with words in use is not zero.
LEMMA NotZero ==
  ASSUME NEW b, Good(b)
  PROVE  b.len # 0 <=> Mag(b) # 0
<1>1. b \in Big /\ b.len \in 0 .. Ext /\ 0 \in Idx /\ BTo[0] = 1 /\ Mag(b) \in Nat
  BY SignedValue, BigIs, Sizes, BToIs DEF Good
<1>2. (b.len <= 0) <=> Mag(b) < BTo[0]
  BY <1>1, LengthTells DEF Mag
<1>3. b.len \in Nat
  BY <1>1, Sizes
<1> QED
  BY <1>1, <1>2, <1>3

\* The operands of a division: the magnitudes of the dividend in w0 and of y.
Dividing(m, x, y, z) ==
  /\ m \in Memories /\ x \in Names /\ y \in Names /\ z \in Names /\ "w0" \in Names /\ x # y /\ y # "w0" /\ z # "w0"
  /\ Operand(m.r["w0"]) /\ ~m.r["w0"].neg /\ Good(m.r[y]) /\ ~m.r[y].neg /\ m.r[y].len \in 1 .. nib
  /\ CleanTail(m.r[x]) /\ CleanTail(m.r[z])

\* What is left when y has not got its sign back.
NearlyLeft(m, n, x, y, z, sx, sy) ==
  LET X == Mag(m.r["w0"])  V == Mag(m.r[y])
  IN  /\ n \in Memories /\ n.check = m.check /\ n.ERNUM = m.ERNUM
      /\ \A k \in Names : k \notin {x, z, "w0"} \/ k = y => n.r[k] = m.r[k]
      /\ x # z => Good(n.r[x]) /\ Value(n.r[x]) = (IF sx THEN -(X % V) ELSE X % V) /\ n.r[x].len <= m.r[y].len
      /\ y # z => /\ Good(n.r[z]) /\ Value(n.r[z]) = (IF sx # sy THEN -(X \div V) ELSE X \div V)
                  /\ n.r[z].len <= m.r["w0"].len
LEMMA NearlyIs ==
  ASSUME NEW m, NEW x, NEW y, NEW z, Dividing(m, x, y, z), NEW sx \in BOOLEAN, NEW sy \in BOOLEAN,
         NEW n, NearlyLeft(m, n, x, y, z, sx, sy)
  PROVE  DivisionLeft(m, SetSign(n, y, sy), x, y, z, sx, sy)
<1> DEFINE q == SetSign(n, y, sy)
           Y == m.r[y]
           X == m.r["w0"]
<1>1. /\ m \in Memories /\ x \in Names /\ y \in Names /\ z \in Names /\ x # y /\ n \in Memories
      /\ Good(Y) /\ ~Y.neg /\ Y.len \in 1 .. nib /\ n.r[y] = Y
  BY DEF Dividing, NearlyLeft
<1>2. Y.len # 0 /\ Y.len <= Y.len
  BY <1>1, Sizes
<1>3. /\ Changed(n, q, y)
      /\ q.r[y].w = Y.w /\ q.r[y].len = Y.len /\ q.r[y].neg = sy
  BY <1>1, SetSignIs
<1> HIDE DEF q
<1>4. q \in Memories /\ q.check = m.check /\ q.ERNUM = m.ERNUM /\ \A k \in Names : k # y => q.r[k] = n.r[k]
  BY <1>3 DEF Changed, Others, NearlyLeft
<1>5. Good(q.r[y]) /\ Mag(q.r[y]) = Mag(Y)
  <2>1. SameWords(q.r[y], Y) /\ Y \in Big
    BY <1>1, <1>3, <1>4, MemoryIs DEF SameWords, Good
  <2>2. Mag(Y) # 0
    BY <1>1, <1>2, NotZero
  <2> QED
    BY <1>1, <2>1, <2>2, SameWordsIs
<1>6. Value(q.r[y]) = IF sy THEN -Mag(Y) ELSE Mag(Y)
  BY <1>3, <1>5, SignedValue
<1>7. \A k \in Names : k \notin {x, y, z, "w0"} => q.r[k] = m.r[k]
  BY <1>4 DEF NearlyLeft
<1>8. x # z => Good(q.r[x]) /\ Value(q.r[x]) = (IF sx THEN -(Mag(X) % Mag(Y)) ELSE Mag(X) % Mag(Y)) /\ q.r[x].len <= Y.len
  BY <1>1, <1>4 DEF NearlyLeft
<1>9. y # z => /\ Good(q.r[z]) /\ Value(q.r[z]) = (IF sx # sy THEN -(Mag(X) \div Mag(Y)) ELSE Mag(X) \div Mag(Y))
               /\ q.r[z].len <= X.len
  <2> SUFFICES ASSUME y # z
               PROVE  /\ Good(q.r[z]) /\ Value(q.r[z]) = (IF sx # sy THEN -(Mag(X) \div Mag(Y)) ELSE Mag(X) \div Mag(Y))
                      /\ q.r[z].len <= X.len
    OBVIOUS
  <2>1. q.r[z] = n.r[z]
    BY <1>1, <1>4
  <2>2. /\ Good(n.r[z]) /\ Value(n.r[z]) = (IF sx # sy THEN -(Mag(X) \div Mag(Y)) ELSE Mag(X) \div Mag(Y))
        /\ n.r[z].len <= X.len
    BY DEF NearlyLeft
  <2> QED
    BY <2>1, <2>2
<1> QED
  BY <1>2, <1>3, <1>4, <1>5, <1>6, <1>7, <1>8, <1>9 DEF DivisionLeft, q

\* Magnitudes of numbers that are below one another are no longer.
LEMMA NoLonger ==
  ASSUME NEW b, Good(b), NEW c, Good(c), c.len \in Idx, Mag(b) < Mag(c)
  PROVE  b.len <= c.len
<1>1. Mag(b) \in Nat /\ Mag(c) \in Nat /\ BTo[c.len] \in Nat
  BY SignedValue, BToIs
<1>2. Mag(c) < BTo[c.len]
  <2>1. c.len <= c.len
    BY Sizes
  <2> QED
    BY <2>1, LengthTells DEF Mag
<1>3. Mag(b) < BTo[c.len]
  BY <1>1, <1>2
<1> QED
  BY <1>3, LengthTells DEF Mag

\* The remainder in w0 and the quotient a word: both are put where they are asked for.
RemainderCopied(b, x, s) == LET c == copy(b, "w0", x) IN IF c.r[x].len = 0 THEN c ELSE SetSign(c, x, s)
SmallPut(b, x, y, z, d, sx, sy) ==
  LET b1 == IF x = z THEN b ELSE RemainderCopied(b, x, sx)
  IN  IF y = z THEN b1 ELSE Word1(b1, z, d, sx # sy)
LEMMA SmallPutIs ==
  ASSUME NEW m, NEW x, NEW y, NEW z, Dividing(m, x, y, z), NEW sx \in BOOLEAN, NEW sy \in BOOLEAN,
         NEW p, SmallDone(m, y, p), Mag(p.m.r["w0"]) < Mag(m.r[y])
  PROVE  NearlyLeft(m, SmallPut(p.m, x, y, z, p.d, sx, sy), x, y, z, sx, sy)
<1> DEFINE X == m.r["w0"]
           Y == m.r[y]
           b == p.m
           R == b.r["w0"]
           d == p.d
           b1 == IF x = z THEN b ELSE RemainderCopied(b, x, sx)
           n == IF y = z THEN b1 ELSE Word1(b1, z, d, sx # sy)
           Quo == Mag(X) \div Mag(Y)
           Rst == Mag(X) % Mag(Y)
<1>1. /\ m \in Memories /\ x \in Names /\ y \in Names /\ z \in Names /\ "w0" \in Names /\ x # y /\ y # "w0" /\ z # "w0"
      /\ Good(X) /\ ~X.neg /\ Good(Y) /\ ~Y.neg /\ Y.len \in 1 .. nib /\ CleanTail(m.r[x]) /\ CleanTail(m.r[z])
  BY DEF Dividing, Operand
<1>2. /\ Changed(m, b, "w0") /\ Good(R) /\ ~R.neg /\ d \in Nat /\ d \in Word /\ Mag(X) = Mag(R) + d * Mag(Y)
  BY Sizes DEF SmallDone, Lowered, Operand
<1>3. SmallPut(p.m, x, y, z, p.d, sx, sy) = n
  BY DEF SmallPut
<1> HIDE DEF X, Y, b, R, d
<1>4. Mag(X) \in Nat /\ Mag(Y) \in Nat /\ Mag(R) \in Nat /\ Value(R) = Mag(R) /\ Mag(R) < Mag(Y)
  BY <1>1, <1>2, SignedValue DEF R, Y, b
<1>5. Quo = d /\ Rst = Mag(R) /\ (d # 0 => Mag(X) # 0)
  BY <1>2, <1>4, OnlyQuotient
<1>6. R.len <= Y.len
  <2>1. Y.len \in Idx
    BY <1>1, Sizes
  <2> QED
    BY <1>1, <1>2, <1>4, <2>1, NoLonger
<1>7. b \in Memories /\ b.check = m.check /\ b.ERNUM = m.ERNUM /\ \A k \in Names : k # "w0" => b.r[k] = m.r[k]
  BY <1>2 DEF Changed, Others
<1> HIDE DEF Quo, Rst
<1>8. /\ b1 \in Memories /\ b1.check = m.check /\ b1.ERNUM = m.ERNUM
      /\ \A k \in Names : k \notin {x, "w0"} \/ (k # "w0" /\ x = z) => b1.r[k] = m.r[k]
      /\ x # z => Good(b1.r[x]) /\ Value(b1.r[x]) = (IF sx THEN -Rst ELSE Rst) /\ b1.r[x].len <= Y.len
  <2>1. CASE x = z
    BY <1>7, <2>1
  <2>2. CASE x # z
    <3> DEFINE c == copy(b, "w0", x)
               e == IF c.r[x].len = 0 THEN c ELSE SetSign(c, x, sx)
    <3>1. b1 = e
      BY <2>2 DEF RemainderCopied
    <3>2. Gets(b, c, x, Mag(R), R.len)
      <4>1. CleanTail(b.r[x])
        <5>1. CASE x = "w0"
          BY <1>2, <5>1 DEF R, Good
        <5>2. CASE x # "w0"
          BY <1>1, <1>7, <5>2
        <5> QED
          BY <5>1, <5>2
      <4> QED
        BY <1>1, <1>2, <1>4, <1>7, <4>1, CopyGets DEF R
    <3> HIDE DEF c
    <3>3. R.len \in Nat
      BY <1>2, GoodIs, Sizes
    <3>4. Gets(b, e, x, IF sx THEN -Mag(R) ELSE Mag(R), R.len)
      BY <1>1, <1>4, <1>7, <3>2, <3>3, SignPutIs
    <3> HIDE DEF e, b1
    <3>5. Changed(b, b1, x) /\ Good(b1.r[x]) /\ Value(b1.r[x]) = (IF sx THEN -Rst ELSE Rst) /\ b1.r[x].len <= R.len
      BY <1>5, <3>1, <3>4 DEF Gets
    <3>6. b1.r[x].len <= Y.len
      <4>1. b1.r[x].len \in Nat /\ Y.len \in Nat
        BY <1>1, <3>5, GoodIs, Sizes
      <4> QED
        BY <1>6, <3>3, <3>5, <4>1
    <3> QED
      BY <1>7, <2>2, <3>5, <3>6 DEF Changed, Others
  <2> QED
    BY <2>1, <2>2
<1> HIDE DEF b1
<1>9. /\ n \in Memories /\ n.check = m.check /\ n.ERNUM = m.ERNUM
      /\ \A k \in Names : k # z \/ y = z => n.r[k] = b1.r[k]
      /\ y # z => Good(n.r[z]) /\ Value(n.r[z]) = (IF sx # sy THEN -Quo ELSE Quo) /\ n.r[z].len <= X.len
  <2>1. CASE y = z
    BY <1>8, <2>1
  <2>2. CASE y # z
    <3> DEFINE t == sx # sy
    <3>1. n = Word1(b1, z, d, t) /\ t \in BOOLEAN
      BY <2>2
    <3> HIDE DEF n, t
    <3>2. CleanTail(b1.r[z])
      <4>1. b1.r[z] = m.r[z]
        BY <1>1, <1>8
      <4> QED
        BY <1>1, <4>1
    <3>3. Gets(b1, n, z, IF t THEN -d ELSE d, IF d > 0 THEN 1 ELSE 0)
      BY <1>1, <1>2, <1>8, <3>1, <3>2, Word1Is
    <3>4. Changed(b1, n, z) /\ Good(n.r[z]) /\ Value(n.r[z]) = (IF t THEN -d ELSE d) /\ n.r[z].len <= IF d > 0 THEN 1 ELSE 0
      BY <3>3 DEF Gets
    <3>5. n.r[z].len <= X.len
      <4>1. n.r[z].len \in Nat /\ X.len \in Nat
        BY <1>1, <3>4, GoodIs, Sizes
      <4>2. d # 0 => X.len # 0
        BY <1>1, <1>5, NotZero
      <4>3. CASE d = 0
        BY <1>2, <3>4, <4>1, <4>3
      <4>4. CASE d # 0
        BY <1>2, <3>4, <4>1, <4>2, <4>4
      <4> QED
        BY <4>3, <4>4
    <3> QED
      BY <1>5, <1>8, <2>2, <3>4, <3>5 DEF Changed, Others, t
  <2> QED
    BY <2>1, <2>2
<1> HIDE DEF n
<1>10. \A k \in Names : k \notin {x, z, "w0"} \/ k = y => n.r[k] = m.r[k]
  BY <1>1, <1>8, <1>9
<1>11. x # z => Good(n.r[x]) /\ Value(n.r[x]) = (IF sx THEN -Rst ELSE Rst) /\ n.r[x].len <= Y.len
  <2> SUFFICES ASSUME x # z PROVE Good(n.r[x]) /\ Value(n.r[x]) = (IF sx THEN -Rst ELSE Rst) /\ n.r[x].len <= Y.len
    OBVIOUS
  <2>1. n.r[x] = b1.r[x]
    BY <1>1, <1>9
  <2> QED
    BY <1>8, <2>1
<1>12. NearlyLeft(m, n, x, y, z, sx, sy)
  BY <1>9, <1>10, <1>11 DEF NearlyLeft, Quo, Rst, X, Y
<1> QED
  BY <1>3, <1>12

\* A divisor of one word: its quotient through w0 to z, its remainder a word.
WordPutOut(m, x, y, z, yw, sx, sy) ==
  LET q  == mr_sdiv(m, "w0", yw, "w0")
      q1 == IF y = z THEN q ELSE SetSign(copy(q, "w0", z), z, sx # sy)
  IN  IF x = z THEN q1 ELSE Word1(q1, x, sdiv_rem(m.r["w0"], yw), sx)
LEMMA WordPutOutIs ==
  ASSUME NEW m, NEW x, NEW y, NEW z, Dividing(m, x, y, z), NEW sx \in BOOLEAN, NEW sy \in BOOLEAN,
         m.r[y].len = 1, Mag(m.r[y]) <= Mag(m.r["w0"])
  PROVE  NearlyLeft(m, WordPutOut(m, x, y, z, m.r[y].w[0], sx, sy), x, y, z, sx, sy)
<1> DEFINE X == m.r["w0"]
           Y == m.r[y]
           yw == Y.w[0]
           q == mr_sdiv(m, "w0", yw, "w0")
           t == sx # sy
           q1 == IF y = z THEN q ELSE SetSign(copy(q, "w0", z), z, t)
           n == IF x = z THEN q1 ELSE Word1(q1, x, sdiv_rem(X, yw), sx)
           Quo == Mag(X) \div Mag(Y)
           Rst == Mag(X) % Mag(Y)
<1>1. /\ m \in Memories /\ x \in Names /\ y \in Names /\ z \in Names /\ "w0" \in Names /\ x # y /\ y # "w0" /\ z # "w0"
      /\ Operand(X) /\ Good(X) /\ ~X.neg /\ Good(Y) /\ ~Y.neg /\ CleanTail(m.r[x]) /\ CleanTail(m.r[z]) /\ CleanTail(X)
  BY DEF Dividing, Operand, Good
<1>2. Mag(Y) = yw /\ yw \in Word /\ yw # 0 /\ yw \in Nat
  BY <1>1, WordMag, Sizes
<1>3. WordPutOut(m, x, y, z, m.r[y].w[0], sx, sy) = n
  BY DEF WordPutOut
<1>4. Mag(X) \in Nat /\ X.len \in Nat /\ Y.len = 1
  BY <1>1, SignedValue, GoodIs, Sizes
<1>5. Quo \in Nat /\ Quo # 0 /\ Rst \in 0 .. yw - 1
  <2>1. yw <= Mag(X)
    BY <1>2
  <2>2. \A i \in Nat, j \in Nat \ {0} : j <= i => i \div j \in Nat /\ i \div j # 0 /\ i % j \in 0 .. j - 1
    <3>1. \A i \in Nat, j \in Nat \ {0} : j <= i => i \div j \in Nat /\ i \div j # 0
      <4> SUFFICES ASSUME NEW i \in Nat, NEW j \in Nat \ {0}, j <= i PROVE i \div j \in Nat /\ i \div j # 0
        OBVIOUS
      <4>1. i = j * (i \div j) + (i % j) /\ i \div j \in Nat /\ i % j \in 0 .. j - 1
        OBVIOUS
      <4>2. i \div j # 0
        <5> SUFFICES ASSUME i \div j = 0 PROVE FALSE
          OBVIOUS
        <5>1. j * (i \div j) = 0
          OBVIOUS
        <5> QED
          BY <4>1, <5>1
      <4> QED
        BY <4>1, <4>2
    <3>2. \A i \in Nat, j \in Nat \ {0} : i % j \in 0 .. j - 1
      OBVIOUS
    <3> QED
      BY Zenon, <3>1, <3>2
  <2> HIDE DEF yw, X
  <2> QED
    BY <1>2, <1>4, <2>1, <2>2
<1>6. Gets(m, q, "w0", Quo, X.len) /\ sdiv_rem(X, yw) = Rst
  BY <1>1, <1>2, SdivIs
<1> HIDE DEF q, X, Y, yw, Quo, Rst, t
<1>7. /\ q \in Memories /\ q.check = m.check /\ q.ERNUM = m.ERNUM /\ \A k \in Names : k # "w0" => q.r[k] = m.r[k]
      /\ Good(q.r["w0"]) /\ Value(q.r["w0"]) = Quo /\ q.r["w0"].len <= X.len /\ q.r["w0"].len \in Nat
  BY <1>6, GoodIs, Sizes DEF Gets, Changed, Others
<1>8. /\ q1 \in Memories /\ q1.check = m.check /\ q1.ERNUM = m.ERNUM
      /\ \A k \in Names : k \notin {z, "w0"} \/ (k # "w0" /\ y = z) => q1.r[k] = m.r[k]
      /\ q1.r["w0"] = q.r["w0"]
      /\ y # z => Good(q1.r[z]) /\ Value(q1.r[z]) = (IF t THEN -Quo ELSE Quo) /\ q1.r[z].len <= X.len
  <2>1. CASE y = z
    BY <1>7, <2>1
  <2>2. CASE y # z
    <3> DEFINE c == copy(q, "w0", z)
    <3>1. q1 = SetSign(c, z, t)
      BY <2>2
    <3>2. CleanTail(q.r[z])
      BY <1>1, <1>7
    <3>3. Gets(q, c, z, Quo, q.r["w0"].len)
      BY <1>1, <1>7, <3>2, CopyGets
    <3> HIDE DEF c
    <3>4. c.r[z].len # 0
      BY <1>1, <1>5, <1>7, <3>3, SignPutIs
    <3>5. t \in BOOLEAN
      BY DEF t
    <3>6. Gets(q, q1, z, IF t THEN -Quo ELSE Quo, q.r["w0"].len)
      BY <1>1, <1>5, <1>7, <3>1, <3>3, <3>4, <3>5, SignPutIs
    <3> HIDE DEF q1
    <3>7. Changed(q, q1, z) /\ Good(q1.r[z]) /\ Value(q1.r[z]) = (IF t THEN -Quo ELSE Quo) /\ q1.r[z].len <= q.r["w0"].len
      BY <3>6 DEF Gets
    <3>8. q1.r[z].len <= X.len
      <4>1. q1.r[z].len \in Nat
        BY <3>7, GoodIs, Sizes
      <4> QED
        BY <1>4, <1>7, <3>7, <4>1
    <3> QED
      BY <1>1, <1>7, <2>2, <3>7, <3>8 DEF Changed, Others
  <2> QED
    BY <2>1, <2>2
<1> HIDE DEF q1
<1>9. /\ n \in Memories /\ n.check = m.check /\ n.ERNUM = m.ERNUM
      /\ \A k \in Names : k # x \/ x = z => n.r[k] = q1.r[k]
      /\ x # z => Good(n.r[x]) /\ Value(n.r[x]) = (IF sx THEN -Rst ELSE Rst) /\ n.r[x].len <= Y.len
  <2>1. CASE x = z
    BY <1>8, <2>1
  <2>2. CASE x # z
    <3>1. n = Word1(q1, x, Rst, sx)
      BY <1>6, <2>2
    <3> HIDE DEF n
    <3>2. CleanTail(q1.r[x])
      <4>1. CASE x = "w0"
        BY <1>7, <1>8, <4>1 DEF Good
      <4>2. CASE x # "w0"
        BY <1>1, <1>8, <2>2, <4>2
      <4> QED
        BY <4>1, <4>2
    <3>3. Rst \in Word
      BY <1>2, <1>5, Sizes
    <3>4. Gets(q1, n, x, IF sx THEN -Rst ELSE Rst, IF Rst > 0 THEN 1 ELSE 0)
      BY <1>1, <1>8, <3>1, <3>2, <3>3, Word1Is
    <3>5. Changed(q1, n, x) /\ Good(n.r[x]) /\ Value(n.r[x]) = (IF sx THEN -Rst ELSE Rst)
          /\ n.r[x].len <= IF Rst > 0 THEN 1 ELSE 0
      BY <3>4 DEF Gets
    <3>6. n.r[x].len <= Y.len
      <4>1. n.r[x].len \in Nat
        BY <3>5, GoodIs, Sizes
      <4>2. CASE Rst > 0
        BY <1>4, <3>5, <4>1, <4>2
      <4>3. CASE ~(Rst > 0)
        BY <1>4, <3>5, <4>1, <4>3
      <4> QED
        BY <4>2, <4>3
    <3> QED
      BY <1>8, <2>2, <3>5, <3>6 DEF Changed, Others
  <2> QED
    BY <2>1, <2>2
<1> HIDE DEF n
<1>10. \A k \in Names : k \notin {x, z, "w0"} \/ k = y => n.r[k] = m.r[k]
  BY <1>1, <1>8, <1>9
<1>11. y # z => Good(n.r[z]) /\ Value(n.r[z]) = (IF t THEN -Quo ELSE Quo) /\ n.r[z].len <= X.len
  <2> SUFFICES ASSUME y # z PROVE Good(n.r[z]) /\ Value(n.r[z]) = (IF t THEN -Quo ELSE Quo) /\ n.r[z].len <= X.len
    OBVIOUS
  <2>1. n.r[z] = q1.r[z]
    BY <1>1, <1>9
  <2> QED
    BY <1>8, <2>1
<1>12. NearlyLeft(m, n, x, y, z, sx, sy)
  BY <1>9, <1>10, <1>11 DEF NearlyLeft, Quo, Rst, X, Y, t
<1> QED
  BY <1>3, <1>12

\* A division, its operands signed again: the quotient in z and the remainder in x,
\* where they are asked for, and y with the value it had.
DividesInto(m, n, x, y, z) ==
  LET X == m.r[x]  Y == m.r[y]
  IN  /\ n \in Memories /\ n.check = m.check /\ n.ERNUM = 0
      /\ \A k \in Names : k \notin {x, y, z, "w0"} => n.r[k] = m.r[k]
      /\ Good(n.r[y]) /\ Value(n.r[y]) = Value(Y) /\ n.r[y].len <= Y.len
      /\ x # z => Good(n.r[x]) /\ Value(n.r[x]) = Integer!Rem(Value(X), Value(Y)) /\ n.r[x].len <= Y.len
      /\ y # z => Good(n.r[z]) /\ Value(n.r[z]) = Integer!Quot(Value(X), Value(Y)) /\ n.r[z].len <= X.len
LEMMA SignsBack ==
  ASSUME NEW m \in Memories, NEW x \in Names, NEW y \in Names, NEW z \in Names, "w0" \in Names, x # y, y # "w0", z # "w0",
         m.ERNUM = 0, Good(m.r[x]), Good(m.r[y]), m.r[y].len # 0,
         NEW a \in Memories, a.check = m.check, a.ERNUM = 0, \A k \in Names : k \notin {x, y, "w0"} => a.r[k] = m.r[k],
         Mag(a.r["w0"]) = Mag(m.r[x]), a.r["w0"].len = m.r[x].len, Mag(a.r[y]) = Mag(m.r[y]), a.r[y].len = m.r[y].len,
         NEW n, DivisionLeft(a, n, x, y, z, m.r[x].neg, m.r[y].neg)
  PROVE  DividesInto(m, n, x, y, z)
<1> DEFINE X == m.r[x]
           Y == m.r[y]
           M == Mag(X)
           V == Mag(Y)
           sx == X.neg
           sy == Y.neg
<1>1. M \in Nat /\ V \in Nat /\ V # 0 /\ sx \in BOOLEAN /\ sy \in BOOLEAN /\ (sx => M # 0)
  BY SignedValue, NotZero, BigIs DEF Good
<1>2. Value(X) = (IF sx THEN -M ELSE M) /\ Value(Y) = (IF sy THEN -V ELSE V)
  BY SignedValue
<1>3. /\ n \in Memories /\ n.check = a.check /\ n.ERNUM = a.ERNUM
      /\ \A k \in Names : k \notin {x, y, z, "w0"} => n.r[k] = a.r[k]
      /\ Good(n.r[y]) /\ Value(n.r[y]) = (IF sy THEN -V ELSE V) /\ n.r[y].len <= Y.len
      /\ x # z => Good(n.r[x]) /\ Value(n.r[x]) = (IF sx THEN -(M % V) ELSE M % V) /\ n.r[x].len <= Y.len
      /\ y # z => Good(n.r[z]) /\ Value(n.r[z]) = (IF sx # sy THEN -(M \div V) ELSE M \div V) /\ n.r[z].len <= X.len
  BY DEF DivisionLeft
<1> DEFINE q == M \div V
           r == M % V
<1> HIDE DEF X, Y, M, V, sx, sy
<1>4. Signs(Value(X), Value(Y), sx, sy, q, r)
  BY <1>1, <1>2, TruncatedIs
<1> HIDE DEF q, r
<1>5. Integer!Rem(Value(X), Value(Y)) = (IF sx THEN -r ELSE r)
  BY <1>4 DEF Signs
<1>6. Integer!Quot(Value(X), Value(Y)) = (IF sx # sy THEN -q ELSE q)
  BY <1>1, <1>4 DEF Signs
<1>7. \A k \in Names : k \notin {x, y, z, "w0"} => n.r[k] = m.r[k]
  BY <1>3
<1> QED
  BY <1>2, <1>3, <1>5, <1>6, <1>7 DEF DividesInto, X, Y, q, r

\* Quotient and remainder of any two numbers, however they overlap, the divisor not
\* zero and not the dividend.
LEMMA DivideIs ==
  ASSUME NEW m \in Memories, m.ERNUM = 0, NEW x \in Names, NEW y \in Names, NEW z \in Names, "w0" \in Names,
         x # y, y # "w0", z # "w0", Operand(m.r[x]), Good(m.r[y]), m.r[y].len \in 1 .. nib,
         CleanTail(m.r[z]), CleanTail(m.r["w0"]), m.check => m.r[x].len <= nib
  PROVE  DividesInto(m, divide(m, x, y, z), x, y, z)
<1> DEFINE X == m.r[x]
           Y == m.r[y]
           sx == X.neg
           sy == Y.neg
           u == Unsigned(m, x, y)
           a == copy(u, x, "w0")
           small == SmallQuotient(a, y)
           n == divide(m, x, y, z)
<1>1. /\ Good(X) /\ CleanTail(X) /\ Good(Y) /\ X.len \in Nat /\ Y.len \in Nat /\ Y.len # 0 /\ sx \in BOOLEAN /\ sy \in BOOLEAN
      /\ X.len <= 2 * nib
  <2>1. Good(X) /\ CleanTail(X) /\ X \in Big /\ Y \in Big /\ X.len <= 2 * nib
    BY DEF Operand, Good
  <2>2. X.len \in 0 .. Ext /\ sx \in BOOLEAN /\ sy \in BOOLEAN
    BY <2>1, BigIs
  <2>3. Y.len \in 1 .. nib
    OBVIOUS
  <2> HIDE DEF X, Y
  <2>4. X.len \in Nat /\ Y.len \in Nat /\ Y.len # 0
    BY <2>2, <2>3, Sizes
  <2> QED
    BY <2>1, <2>2, <2>4 DEF Y
<1>2. /\ u \in Memories /\ u.check = m.check /\ u.ERNUM = m.ERNUM
      /\ SameWords(u.r[x], X) /\ SameWords(u.r[y], Y) /\ ~u.r[x].neg /\ ~u.r[y].neg
      /\ \A v \in Names : v # x /\ v # y => u.r[v] = m.r[v]
  BY UnsignedIs
<1> HIDE DEF u
<1>3. /\ Good(u.r[x]) /\ CleanTail(u.r[x]) /\ Mag(u.r[x]) = Mag(X) /\ u.r[x].len = X.len
      /\ Good(u.r[y]) /\ Mag(u.r[y]) = Mag(Y) /\ u.r[y].len = Y.len /\ u.r[y].w = Y.w
  <2>1. X \in Big /\ Y \in Big
    BY <1>1 DEF Good
  <2> QED
    BY <1>1, <1>2, <2>1, SameWordsIs DEF SameWords
<1>4. CleanTail(u.r["w0"])
  <2>1. CASE x = "w0"
    BY <1>3, <2>1
  <2>2. CASE x # "w0"
    BY <1>2, <2>2
  <2> QED
    BY <2>1, <2>2
<1>5. Changed(u, a, "w0") /\ a.r["w0"] = u.r[x]
  BY <1>2, <1>3, <1>4, CopyIs
<1> HIDE DEF a
<1>6. /\ a \in Memories /\ a.check = m.check /\ a.ERNUM = 0 /\ \A k \in Names : k # "w0" => a.r[k] = u.r[k]
      /\ \A k \in Names : k \notin {x, y, "w0"} => a.r[k] = m.r[k]
  BY <1>2, <1>5 DEF Changed, Others
<1>7. a.r[x] = u.r[x] /\ a.r[y] = u.r[y]
  BY <1>5, <1>6
<1>8. Dividing(a, x, y, z)
  <2>1. CleanTail(a.r[z])
    <3>1. CASE z = x
      BY <1>3, <1>7, <3>1
    <3>2. CASE z = y
      BY <1>3, <1>7, <3>2 DEF Good
    <3>3. CASE z # x /\ z # y
      BY <1>6, <3>3
    <3> QED
      BY <3>1, <3>2, <3>3
  <2>2. Operand(a.r["w0"])
    BY <1>1, <1>3, <1>5 DEF Operand
  <2> QED
    BY <1>2, <1>3, <1>5, <1>6, <1>7, <2>1, <2>2 DEF Dividing
<1>9. SmallDone(a, y, small)
  BY <1>8, SmallQuotientIs DEF Dividing
<1>10. n = IF mr_compare(small.m, "w0", y) < 0 THEN SetSign(SmallPut(small.m, x, y, z, small.d, sx, sy), y, sy)
           ELSE IF a.r[y].len = 1 THEN SetSign(WordPutOut(small.m, x, y, z, Y.w[0], sx, sy), y, sy)
           ELSE LongDivision(small.m, x, y, z, sx, sy)
  <2>1. ~(m.check /\ a.r["w0"].len - a.r[y].len + 1 > nib)
    <3>1. a.r["w0"].len = X.len /\ a.r[y].len = Y.len
      BY <1>3, <1>5, <1>7
    <3>2. m.check => X.len <= nib
      OBVIOUS
    <3> HIDE DEF X, Y
    <3> QED
      BY <1>1, <3>1, <3>2, Sizes
  <2> HIDE DEF small
  <2>2. m.ERNUM = 0 /\ m.r[y].len # 0 /\ x # y
    BY <1>1
  <2>3. a = copy(SetSign(SetSign(m, x, FALSE), y, FALSE), x, "w0")
    BY DEF a, u, Unsigned
  <2>4. n = LET b == small.m
                b1 == IF x = z THEN b
                      ELSE LET c == copy(b, "w0", x) IN IF c.r[x].len = 0 THEN c ELSE SetSign(c, x, sx)
                b2 == IF y = z THEN b1 ELSE Word1(b1, z, small.d, sx # sy)
                yw == m.r[y].w[0]
                q  == mr_sdiv(b, "w0", yw, "w0")
                q1 == IF y = z THEN q ELSE SetSign(copy(q, "w0", z), z, sx # sy)
                q2 == IF x = z THEN q1 ELSE Word1(q1, x, sdiv_rem(b.r["w0"], yw), sx)
            IN  IF mr_compare(b, "w0", y) < 0 THEN SetSign(b2, y, sy)
                ELSE IF a.r[y].len = 1 THEN SetSign(q2, y, sy)
                ELSE LongDivision(b, x, y, z, sx, sy)
    BY <2>1, <2>2, <2>3 DEF divide, small
  <2>5. SmallPut(small.m, x, y, z, small.d, sx, sy) =
          LET b == small.m
              b1 == IF x = z THEN b
                    ELSE LET c == copy(b, "w0", x) IN IF c.r[x].len = 0 THEN c ELSE SetSign(c, x, sx)
          IN  IF y = z THEN b1 ELSE Word1(b1, z, small.d, sx # sy)
    BY DEF SmallPut, RemainderCopied
  <2>6. WordPutOut(small.m, x, y, z, Y.w[0], sx, sy) =
          LET b == small.m
              yw == m.r[y].w[0]
              q  == mr_sdiv(b, "w0", yw, "w0")
              q1 == IF y = z THEN q ELSE SetSign(copy(q, "w0", z), z, sx # sy)
          IN  IF x = z THEN q1 ELSE Word1(q1, x, sdiv_rem(b.r["w0"], yw), sx)
    BY DEF WordPutOut
  <2> HIDE DEF n
  <2> QED
    BY <2>4, <2>5, <2>6
<1> HIDE DEF n, small
<1>11. mr_compare(small.m, "w0", y) = SignOf(Mag(small.m.r["w0"]) - Mag(a.r[y]))
  <2> DEFINE R == small.m.r["w0"]
             T == a.r[y]
  <2>1. Operand(R) /\ ~R.neg /\ small.m.r[y] = T /\ Good(T) /\ ~T.neg
    BY <1>2, <1>3, <1>7, <1>8, <1>9 DEF SmallDone, Lowered, Changed, Others, Dividing
  <2>2. mr_compare(small.m, "w0", y) = CompareBig(R, T)
    BY <2>1 DEF mr_compare
  <2> HIDE DEF R, T
  <2>3. R.len < Ext /\ T.len < Ext /\ Good(R)
    <3>1. Good(R) /\ R.len \in 0 .. Ext /\ R.len <= 2 * nib /\ T.len \in 1 .. nib
      BY <1>8, <2>1, BigIs DEF Operand, Good, Dividing, T
    <3> QED
      BY <3>1, Sizes
  <2>4. CompareBig(R, T) = SignOf(Value(R) - Value(T))
    BY <2>1, <2>3, CompareIs
  <2>5. Value(R) = Mag(R) /\ Value(T) = Mag(T)
    BY <2>1, <2>3, SignedValue
  <2> QED
    BY <2>2, <2>4, <2>5 DEF R, T
<1>12. Mag(small.m.r["w0"]) \in Nat /\ Mag(a.r[y]) \in Nat /\ Mag(a.r["w0"]) \in Nat
  BY <1>8, <1>9, SignedValue DEF SmallDone, Lowered, Operand, Dividing
<1>13. DivisionLeft(a, n, x, y, z, sx, sy)
  <2>1. CASE Mag(small.m.r["w0"]) < Mag(a.r[y])
    <3>1. mr_compare(small.m, "w0", y) < 0
      BY <1>11, <1>12, <2>1 DEF SignOf
    <3>2. n = SetSign(SmallPut(small.m, x, y, z, small.d, sx, sy), y, sy)
      BY <1>10, <3>1
    <3>3. NearlyLeft(a, SmallPut(small.m, x, y, z, small.d, sx, sy), x, y, z, sx, sy)
      BY <1>1, <1>8, <1>9, <2>1, SmallPutIs
    <3> HIDE DEF sx, sy
    <3> QED
      BY <1>1, <1>8, <3>2, <3>3, NearlyIs
  <2>2. CASE ~(Mag(small.m.r["w0"]) < Mag(a.r[y]))
    <3>1. ~(mr_compare(small.m, "w0", y) < 0)
      BY <1>11, <1>12, <2>2 DEF SignOf
    <3>2. small.m = a
      <4>1. small = [m |-> a, d |-> 0]
        BY <1>9, <2>2 DEF SmallDone
      <4> QED
        BY <4>1
    <3>3. Mag(a.r[y]) <= Mag(a.r["w0"])
      BY <1>12, <2>2, <3>2
    <3>4. CASE a.r[y].len = 1
      <4>1. n = SetSign(WordPutOut(a, x, y, z, a.r[y].w[0], sx, sy), y, sy)
        BY <1>3, <1>7, <1>10, <3>1, <3>2, <3>4
      <4>2. NearlyLeft(a, WordPutOut(a, x, y, z, a.r[y].w[0], sx, sy), x, y, z, sx, sy)
        BY <1>1, <1>8, <3>3, <3>4, WordPutOutIs
      <4> HIDE DEF sx, sy
      <4> QED
        BY <1>1, <1>8, <4>1, <4>2, NearlyIs
    <3>5. CASE a.r[y].len # 1
      <4>1. n = LongDivision(a, x, y, z, sx, sy)
        BY <1>10, <3>1, <3>2, <3>5
      <4>2. a.r[y].len \in 2 .. nib
        <5>1. a.r[y].len \in 1 .. nib
          BY <1>8 DEF Dividing
        <5> QED
          BY <3>5, <5>1, Sizes
      <4> HIDE DEF sx, sy
      <4> QED
        BY <1>1, <1>8, <3>3, <4>1, <4>2, LongDivisionIs DEF Dividing
    <3> QED
      BY <3>4, <3>5
  <2> QED
    BY <2>1, <2>2
<1>14. DividesInto(m, n, x, y, z)
  BY <1>1, <1>3, <1>5, <1>6, <1>7, <1>13, SignsBack
<1> QED
  BY <1>14 DEF n

\* Assigning two numbers, the second last.
LEMMA ApplyTwo ==
  ASSUME NEW x \in Reg, NEW u, NEW z \in Reg, NEW v
  PROVE  Integer!Apply(<< <<x, u>>, <<z, v>> >>, val) = [r \in Reg |-> IF r = z THEN v ELSE IF r = x THEN u ELSE val[r]]
<1> DEFINE p == << <<x, u>>, <<z, v>> >>
           at(r) == {i \in DOMAIN p : p[i][1] = r}
           last(r) == CHOOSE i \in at(r) : \A j \in at(r) : j <= i
<1>1. DOMAIN p = {1, 2} /\ p[1] = <<x, u>> /\ p[2] = <<z, v>>
  OBVIOUS
<1>2. p[1][1] = x /\ p[1][2] = u /\ p[2][1] = z /\ p[2][2] = v
  BY <1>1
<1> HIDE DEF p
<1>3. ASSUME NEW r PROVE at(r) = {i \in {1, 2} : (i = 1 /\ r = x) \/ (i = 2 /\ r = z)}
  BY <1>1, <1>2
<1>4. ASSUME NEW r
      PROVE  (IF at(r) = {} THEN val[r] ELSE p[last(r)][2]) = (IF r = z THEN v ELSE IF r = x THEN u ELSE val[r])
  <2> HIDE DEF at
  <2>1. CASE r = z
    <3>1. 2 \in at(r) /\ at(r) # {} /\ \A j \in at(r) : j \in {1, 2}
      BY <1>3, <2>1
    <3>2. last(r) \in at(r) /\ \A j \in at(r) : j <= last(r)
      <4>1. \E i \in at(r) : \A j \in at(r) : j <= i
        BY <3>1
      <4> QED
        BY <4>1
    <3> HIDE DEF last
    <3>3. last(r) \in {1, 2} /\ 2 <= last(r)
      BY <3>1, <3>2
    <3>4. last(r) = 2
      BY <3>3
    <3> QED
      BY <1>2, <2>1, <3>1, <3>4
  <2>2. CASE r # z /\ r = x
    <3>1. 1 \in at(r) /\ at(r) # {} /\ \A j \in at(r) : j = 1
      BY <1>3, <2>2
    <3>2. last(r) \in at(r)
      <4>1. \E i \in at(r) : \A j \in at(r) : j <= i
        BY <3>1
      <4> QED
        BY <4>1
    <3> HIDE DEF last
    <3> QED
      BY <1>2, <2>2, <3>1, <3>2
  <2>3. CASE r # z /\ r # x
    <3>1. at(r) = {}
      BY <1>3, <2>3
    <3> QED
      BY <2>3, <3>1
  <2> QED
    BY <2>1, <2>2, <2>3
<1>5. Integer!Apply(p, val) = [r \in Reg |-> IF at(r) = {} THEN val[r] ELSE p[last(r)][2]]
  BY DEF Integer!Apply
<1> HIDE DEF at, last
<1>6. Integer!Apply(p, val) = [r \in Reg |-> IF r = z THEN v ELSE IF r = x THEN u ELSE val[r]]
  BY <1>4, <1>5
<1> QED
  BY <1>6 DEF p

\* A call that cannot fail is right when every number of the program has, in the kept
\* form, the value that the integers assign.
Has(n, f) == /\ n.ERNUM = 0 /\ n.check
             /\ \A r \in Reg : Good(n.r[r]) /\ Value(n.r[r]) = f[r] /\ n.r[r].len <= nib
LEMMA ValuesRight ==
  ASSUME Inv, NEW c, NEW pairs, NEW ret,
         c.op \notin {"xgcd", "invmodp"}, Integer!Assigned(c, val) = pairs,
         \A i \in DOMAIN pairs : Integer!Fits(pairs[i][2]),
         ~Integer!Undefined(c, val), Integer!Answer(c, val) = ret,
         \A m : Ready(m) => Run(c, m).ret = ret /\ Has(Run(c, m).m, Integer!Apply(pairs, val))
  PROVE  Exactly(c) /\ KeptForm(c)
<1> DEFINE f == Integer!Apply(pairs, val)
<1>1. Integer!Outcomes(c, val) = {pairs}
  BY DEF Integer!Outcomes
<1>2. Integer!MayReturn(c, val, f, ret)
  BY <1>1 DEF Integer!MayReturn
<1>3. f = [r \in Reg |-> f[r]]
  BY DEF Integer!Apply
<1> HIDE DEF f
<1>4. ASSUME NEW junk \in {Zero, Full}, NEW n, n = Run(c, Memory(junk)).m
      PROVE  /\ Run(c, Memory(junk)).ret = ret /\ n.ERNUM = 0
             /\ [r \in Reg |-> Value(n.r[r])] = f
             /\ \A r \in Reg : /\ n.r[r] \in Big /\ n.check /\ n.r[r].len <= nib
                               /\ CleanTail(n.r[r]) /\ Canonical(n.r[r])
  <2> DEFINE m == Memory(junk)
  <2>1. Ready(m)
    BY MemoryReady
  <2> HIDE DEF m
  <2>2. Run(c, m).ret = ret /\ Has(n, f)
    BY <2>1, <1>4 DEF m, f
  <2>3. [r \in Reg |-> Value(n.r[r])] = f
    BY <1>3, <2>2 DEF Has
  <2> QED
    BY <2>2, <2>3 DEF Good, Has, m
<1>5. KeptForm(c)
  BY <1>4 DEF KeptForm
<1>6. Exactly(c)
  <2>1. ASSUME NEW junk \in {Zero, Full}, NEW ran, ran = Run(c, Memory(junk))
        PROVE  ran.m.ERNUM = 0 /\ \A w \in {[r \in Reg |-> Value(ran.m.r[r])]} : Integer!MayReturn(c, val, w, ran.ret)
    BY <1>2, <1>4, <2>1
  <2> QED
    BY <2>1 DEF Exactly
<1> QED
  BY <1>5, <1>6

\* A quotient and a remainder fit where the dividend does.
LEMMA DivisionFits ==
  ASSUME NEW x \in Numbers, NEW y \in Numbers, y # 0
  PROVE  Integer!Fits(Integer!Quot(x, y)) /\ Integer!Fits(Integer!Rem(x, y))
<1> DEFINE M == Abs(x)
           V == Abs(y)
           q == M \div V
           r == M % V
           sx == x < 0
           sy == y < 0
           L == BTo[nib]
<1>1. x \in Int /\ y \in Int /\ M < L /\ L \in Nat
  BY NumbersFit, Sizes, BToIs
<1>2. M \in Nat /\ V \in Nat \ {0} /\ (sx => M # 0) /\ x = (IF sx THEN -M ELSE M) /\ y = (IF sy THEN -V ELSE V)
  BY <1>1 DEF Abs
<1>3. sx \in BOOLEAN /\ sy \in BOOLEAN
  OBVIOUS
<1> HIDE DEF M, V, sx, sy
<1>4. q \in Nat /\ r \in Nat /\ q <= M /\ r <= M
  <2>1. \A i \in Nat, j \in Nat \ {0} : i \div j \in Nat /\ i % j \in Nat /\ i = j * (i \div j) + (i % j)
    OBVIOUS
  <2>2. M = V * q + r /\ q \in Nat /\ r \in Nat
    BY <1>2, <2>1
  <2> HIDE DEF q, r
  <2>3. \A i, j \in Nat \ {0} : i * j \in Nat
    OBVIOUS
  <2>4. \A j \in Nat, i \in Nat \ {0} : i * j \in Nat /\ j <= i * j
    OBVIOUS
  <2> DEFINE p == V * q
  <2>5. p \in Nat /\ q <= p
    BY <1>2, <2>2, <2>4
  <2>6. M = p + r
    BY <2>2
  <2> HIDE DEF p
  <2> QED
    BY <1>2, <2>2, <2>5, <2>6
<1>5. Signs(x, y, sx, sy, q, r)
  BY <1>2, <1>3, TruncatedIs
<1> HIDE DEF q, r, L
<1>6. Integer!Quot(x, y) \in {q, -q} /\ Integer!Rem(x, y) \in {r, -r}
  BY <1>5 DEF Signs
<1>7. \A e \in {q, -q, r, -r} : -L < e /\ e < L
  BY <1>1, <1>2, <1>4
<1> QED
  BY <1>6, <1>7 DEF Integer!Fits, L

\* A division by zero or by the dividend is refused.
LEMMA DivideRefuses ==
  ASSUME NEW m \in Memories, m.ERNUM = 0, NEW x, NEW y \in Names, NEW z, Good(m.r[y]), Value(m.r[y]) = 0 \/ x = y
  PROVE  divide(m, x, y, z) \in Memories /\ divide(m, x, y, z).ERNUM # 0
<1>1. Value(m.r[y]) = 0 => m.r[y].len = 0
  <2> SUFFICES ASSUME Value(m.r[y]) = 0 PROVE m.r[y].len = 0
    OBVIOUS
  <2>1. Mag(m.r[y]) \in Nat /\ Value(m.r[y]) = (IF m.r[y].neg THEN -Mag(m.r[y]) ELSE Mag(m.r[y])) /\ (m.r[y].neg => Mag(m.r[y]) # 0)
    BY SignedValue
  <2>2. \A f \in Nat : -f = 0 => f = 0
    OBVIOUS
  <2>3. Mag(m.r[y]) = 0
    BY <2>1, <2>2
  <2> QED
    BY <2>3, NotZero
<1>2. m.r[y].len = 0 \/ x = y
  BY <1>1
<1>3. divide(m, x, y, z) = mr_berror(m, ERR_DIV_BY_ZERO) \/ divide(m, x, y, z) = mr_berror(m, ERR_BAD_PARAMETERS)
  BY <1>2 DEF divide
<1> HIDE DEF divide
<1> QED
  BY <1>3, ErrorIs DEF ERR_DIV_BY_ZERO, ERR_BAD_PARAMETERS

LEMMA DivideCall ==
  ASSUME Inv, NEW x \in Reg, NEW y \in Reg, NEW z \in Reg
  PROVE  LET c == [op |-> "divide", a |-> <<x, y, z>>] IN Exactly(c) /\ KeptForm(c)
<1> DEFINE c == [op |-> "divide", a |-> <<x, y, z>>]
           q == Integer!Quot(val[x], val[y])
           e == Integer!Rem(val[x], val[y])
           pairs == IF y = z THEN << <<x, e>> >> ELSE << <<x, e>>, <<z, q>> >>
           f == Integer!Apply(pairs, val)
<1>1. ASSUME NEW m, Ready(m)
      PROVE  /\ Run(c, m).m = divide(m, x, y, z) /\ Run(c, m).ret = 0
             /\ m \in Memories /\ m.ERNUM = 0 /\ m.check /\ x \in Names /\ y \in Names /\ z \in Names /\ "w0" \in Names
             /\ CleanTail(m.r[z]) /\ CleanTail(m.r["w0"]) /\ y # "w0" /\ z # "w0"
             /\ Operand(m.r[x]) /\ Value(m.r[x]) = val[x] /\ m.r[x].len <= nib
             /\ Good(m.r[y]) /\ Value(m.r[y]) = val[y] /\ m.r[y].len <= nib
  <2>1. Run(c, m).m = divide(m, x, y, z) /\ Run(c, m).ret = 0
    BY DEF Run, Divide, Done, Ran
  <2> QED
    BY <1>1, <2>1, ReadyOperand DEF Ready, Good
<1>2. CASE val[y] = 0 \/ x = y
  <2>1. Integer!Undefined(c, val)
    BY <1>2 DEF Integer!Undefined
  <2>2. ASSUME NEW m, Ready(m) PROVE Run(c, m).m \in Memories /\ Run(c, m).m.ERNUM # 0
    <3> HIDE DEF c
    <3>1. Value(m.r[y]) = 0 \/ x = y
      BY <1>1, <1>2, <2>2
    <3>2. divide(m, x, y, z) \in Memories /\ divide(m, x, y, z).ERNUM # 0
      BY <1>1, <2>2, <3>1, DivideRefuses
    <3> QED
      BY <1>1, <2>2, <3>2
  <2> HIDE DEF c
  <2>3. Exactly(c) /\ KeptForm(c)
    BY <2>1, <2>2, FailsRight
  <2> QED
    BY <2>3 DEF c
<1>3. CASE val[y] # 0 /\ x # y
  <2>1. /\ Integer!Assigned(c, val) = pairs
        /\ ~Integer!Undefined(c, val) /\ Integer!Answer(c, val) = 0 /\ c.op \notin {"xgcd", "invmodp"}
    BY <1>3 DEF Integer!Assigned, Integer!Undefined, Integer!Answer
  <2>2. Integer!Fits(q) /\ Integer!Fits(e)
    BY <1>3, DivisionFits DEF Inv
  <2>3. \A i \in DOMAIN pairs : Integer!Fits(pairs[i][2])
    <3> HIDE DEF q, e
    <3>1. CASE y = z
      BY <2>2, <3>1
    <3>2. CASE y # z
      BY <2>2, <3>2
    <3> QED
      BY <3>1, <3>2
  <2>4. \A r \in Reg : f[r] = IF r = z /\ y # z THEN q ELSE IF r = x THEN e ELSE val[r]
    <3> HIDE DEF q, e
    <3>1. CASE y = z
      <4>1. f = [r \in Reg |-> IF r = x THEN e ELSE val[r]]
        BY <3>1, ApplyOne
      <4> HIDE DEF f
      <4> QED
        BY <3>1, <4>1
    <3>2. CASE y # z
      <4>1. f = [r \in Reg |-> IF r = z THEN q ELSE IF r = x THEN e ELSE val[r]]
        BY <3>2, ApplyTwo
      <4> HIDE DEF f
      <4> QED
        BY <3>2, <4>1
    <3> QED
      BY <3>1, <3>2
  <2>5. ASSUME NEW m, Ready(m) PROVE Run(c, m).ret = 0 /\ Has(Run(c, m).m, f)
    <3> DEFINE n == divide(m, x, y, z)
    <3>1. m.r[y].len \in 1 .. nib
      <4>1. Value(m.r[y]) # 0 /\ m.r[y].len \in Nat /\ m.r[y].len <= nib
        BY <1>1, <1>3, <2>5, GoodIs, Sizes
      <4>2. m.r[y].len # 0
        <5> SUFFICES ASSUME m.r[y].len = 0 PROVE FALSE
          OBVIOUS
        <5>1. Good(m.r[y]) /\ Mag(m.r[y]) = 0
          BY <1>1, <2>5, NotZero
        <5>2. Value(m.r[y]) = 0
          BY <5>1, SignedValue
        <5> QED
          BY <4>1, <5>2
      <4> QED
        BY <4>1, <4>2, Sizes
    <3>2. DividesInto(m, n, x, y, z)
      BY <1>1, <1>3, <2>5, <3>1, DivideIs
    <3>3. n.ERNUM = 0 /\ n.check
      BY <1>1, <2>5, <3>2 DEF DividesInto
    <3> HIDE DEF n, f
    <3>4. ASSUME NEW r \in Reg PROVE Good(n.r[r]) /\ Value(n.r[r]) = f[r] /\ n.r[r].len <= nib
      <4>1. r \in Names /\ r # "w0" /\ Good(m.r[r]) /\ Value(m.r[r]) = val[r] /\ m.r[r].len <= nib
        BY <2>5 DEF Ready
      <4>2. m.r[x].len \in Nat /\ m.r[y].len \in Nat /\ m.r[x].len <= nib /\ m.r[y].len <= nib
        BY <1>1, <2>5, GoodIs, Sizes DEF Operand
      <4>3. ASSUME NEW k \in {m.r[x].len, m.r[y].len}, Good(n.r[r]), n.r[r].len <= k PROVE n.r[r].len <= nib
        <5>1. n.r[r].len \in 0 .. Ext
          BY <4>3, BigIs DEF Good
        <5>2. n.r[r].len \in Nat /\ k \in Nat /\ k <= nib
          BY <4>2, <4>3, <5>1, Sizes
        <5> QED
          BY <4>3, <5>2, Sizes
      <4>4. CASE r = z /\ y # z
        <5>1. Good(n.r[r]) /\ Value(n.r[r]) = q /\ n.r[r].len <= m.r[x].len
          BY <1>1, <2>5, <3>2, <4>4 DEF DividesInto
        <5>2. f[r] = q
          BY <2>4, <4>4
        <5> QED
          BY <4>3, <5>1, <5>2
      <4>5. CASE r = x /\ x # z
        <5>1. Good(n.r[r]) /\ Value(n.r[r]) = e /\ n.r[r].len <= m.r[y].len
          BY <1>1, <2>5, <3>2, <4>5 DEF DividesInto
        <5>2. f[r] = e
          BY <2>4, <4>5
        <5> QED
          BY <4>3, <5>1, <5>2
      <4>6. CASE r = y /\ ~(r = z /\ y # z)
        <5>1. Good(n.r[r]) /\ Value(n.r[r]) = val[r] /\ n.r[r].len <= m.r[y].len
          BY <1>1, <2>5, <3>2, <4>6 DEF DividesInto
        <5>2. f[r] = val[r]
          BY <1>3, <2>4, <4>6
        <5> QED
          BY <4>3, <5>1, <5>2
      <4>7. CASE r # x /\ r # y /\ r # z
        <5>1. n.r[r] = m.r[r]
          BY <3>2, <4>1, <4>7 DEF DividesInto
        <5>2. f[r] = val[r]
          BY <2>4, <4>7
        <5> QED
          BY <4>1, <5>1, <5>2
      <4> QED
        BY <1>3, <4>4, <4>5, <4>6, <4>7
    <3>5. Has(n, f)
      BY <3>3, <3>4 DEF Has
    <3> QED
      BY <1>1, <2>5, <3>5 DEF n
  <2> HIDE DEF c, pairs
  <2>6. Exactly(c) /\ KeptForm(c)
    BY <2>1, <2>3, <2>5, ValuesRight
  <2> QED
    BY <2>6 DEF c
<1> QED
  BY <1>2, <1>3

\* A number is zero where its size is.
LEMMA SizeZero ==
  ASSUME NEW b, Good(b)
  PROVE  size(b) = 0 <=> Value(b) = 0
<1>1. /\ Mag(b) \in Nat /\ Value(b) = (IF b.neg THEN -Mag(b) ELSE Mag(b)) /\ (b.neg => Mag(b) # 0)
      /\ b.len # 0 <=> Mag(b) # 0
  BY SignedValue, NotZero
<1>2. Value(b) = 0 <=> b.len = 0
  <2>1. CASE b.neg
    <3>1. \A f \in Nat : f # 0 => -f # 0
      OBVIOUS
    <3> QED
      BY <1>1, <2>1, <3>1
  <2>2. CASE ~b.neg
    BY <1>1, <2>2
  <2> QED
    BY <2>1, <2>2
<1> DEFINE n == IF b.len = 0 THEN 0 ELSE IF b.len = 1 /\ b.w[0] < TooBig THEN b.w[0] ELSE TooBig
<1>3. n \in Nat /\ (n = 0 <=> b.len = 0)
  <2>1. CASE b.len = 0
    BY <2>1
  <2>2. CASE b.len = 1
    <3>1. b.w[0] \in Word /\ b.w[0] # 0
      BY <2>2, WordMag
    <3> QED
      BY <2>2, <3>1, Sizes
  <2>3. CASE b.len # 0 /\ b.len # 1
    BY <2>3, Sizes
  <2> QED
    BY <2>1, <2>2, <2>3
<1>4. size(b) = IF b.neg THEN -n ELSE n
  BY DEF size
<1> HIDE DEF n
<1>5. size(b) = 0 <=> n = 0
  <2>1. \A f \in Nat : -f = 0 <=> f = 0
    OBVIOUS
  <2> QED
    BY <1>3, <1>4, <2>1
<1> QED
  BY <1>2, <1>3, <1>5

LEMMA DivisibleCall ==
  ASSUME Inv, NEW x \in Reg, NEW y \in Reg
  PROVE  LET c == [op |-> "divisible", a |-> <<x, y>>] IN Exactly(c) /\ KeptForm(c)
<1> DEFINE c == [op |-> "divisible", a |-> <<x, y>>]
           e == Integer!Rem(val[x], val[y])
           f == Integer!Apply(<<>>, val)
           ret == IF e = 0 THEN 1 ELSE 0
<1>1. ASSUME NEW m, Ready(m), NEW a, a = copy(m, x, "w0")
      PROVE  /\ Run(c, m).m = divide(a, "w0", y, y)
             /\ Run(c, m).ret = IF size(divide(a, "w0", y, y).r["w0"]) = 0 THEN 1 ELSE 0
             /\ a \in Memories /\ a.ERNUM = 0 /\ a.check /\ y \in Names /\ "w0" \in Names /\ y # "w0"
             /\ Operand(a.r["w0"]) /\ Value(a.r["w0"]) = val[x] /\ a.r["w0"].len <= nib /\ CleanTail(a.r["w0"])
             /\ Good(a.r[y]) /\ Value(a.r[y]) = val[y] /\ a.r[y].len <= nib /\ CleanTail(a.r[y])
             /\ \A k \in Reg : a.r[k] = m.r[k]
  <2>1. /\ m \in Memories /\ m.ERNUM = 0 /\ m.check /\ x \in Names /\ y \in Names /\ "w0" \in Names /\ "w0" \notin Reg
        /\ Operand(m.r[x]) /\ Good(m.r[x]) /\ CleanTail(m.r[x]) /\ CleanTail(m.r["w0"])
        /\ Value(m.r[x]) = val[x] /\ m.r[x].len <= nib
        /\ Good(m.r[y]) /\ CleanTail(m.r[y]) /\ Value(m.r[y]) = val[y] /\ m.r[y].len <= nib
        /\ \A k \in Reg : k \in Names
    BY <1>1, ReadyOperand DEF Ready, Good
  <2>2. Run(c, m).m = divide(a, "w0", y, y) /\ Run(c, m).ret = IF size(divide(a, "w0", y, y).r["w0"]) = 0 THEN 1 ELSE 0
    <3>1. Run(c, m).m = divisible_mem(m, x, y) /\ Run(c, m).ret = IF divisible(m, x, y) THEN 1 ELSE 0
      BY DEF Run, Divisible, Ran
    <3> HIDE DEF c
    <3> QED
      BY <1>1, <2>1, <3>1 DEF divisible, divisible_mem
  <2>3. Changed(m, a, "w0") /\ a.r["w0"] = m.r[x]
    BY <1>1, <2>1, CopyIs
  <2>4. a \in Memories /\ a.ERNUM = 0 /\ a.check /\ \A k \in Reg : a.r[k] = m.r[k]
    BY <2>1, <2>3 DEF Changed, Others
  <2> HIDE DEF c
  <2> QED
    BY <2>1, <2>2, <2>3, <2>4
<1>2. CASE val[y] = 0
  <2>1. Integer!Undefined(c, val)
    BY <1>2 DEF Integer!Undefined
  <2>2. ASSUME NEW m, Ready(m) PROVE Run(c, m).m \in Memories /\ Run(c, m).m.ERNUM # 0
    <3> DEFINE a == copy(m, x, "w0")
    <3> HIDE DEF c, a
    <3>1. Run(c, m).m = divide(a, "w0", y, y) /\ a \in Memories /\ a.ERNUM = 0 /\ y \in Names /\ Good(a.r[y]) /\ Value(a.r[y]) = 0
      BY <1>1, <1>2, <2>2 DEF a
    <3> QED
      BY <3>1, DivideRefuses
  <2> HIDE DEF c
  <2>3. Exactly(c) /\ KeptForm(c)
    BY <2>1, <2>2, FailsRight
  <2> QED
    BY <2>3 DEF c
<1>3. CASE val[y] # 0
  <2>1. /\ Integer!Assigned(c, val) = <<>>
        /\ ~Integer!Undefined(c, val) /\ Integer!Answer(c, val) = ret /\ c.op \notin {"xgcd", "invmodp"}
    BY <1>3 DEF Integer!Assigned, Integer!Undefined, Integer!Answer
  <2>2. \A i \in DOMAIN <<>> : Integer!Fits(<<>>[i][2])
    OBVIOUS
  <2>3. f = [r \in Reg |-> val[r]]
    BY DEF Integer!Apply
  <2>4. ASSUME NEW m, Ready(m) PROVE Run(c, m).ret = ret /\ Has(Run(c, m).m, f)
    <3> DEFINE a == copy(m, x, "w0")
               n == divide(a, "w0", y, y)
    <3> HIDE DEF c, a, n, f, e
    <3>1. /\ Run(c, m).m = n
          /\ Run(c, m).ret = IF size(n.r["w0"]) = 0 THEN 1 ELSE 0
          /\ a \in Memories /\ a.ERNUM = 0 /\ a.check /\ y \in Names /\ "w0" \in Names /\ y # "w0"
          /\ Operand(a.r["w0"]) /\ Value(a.r["w0"]) = val[x] /\ a.r["w0"].len <= nib /\ CleanTail(a.r["w0"])
          /\ Good(a.r[y]) /\ Value(a.r[y]) = val[y] /\ a.r[y].len <= nib /\ CleanTail(a.r[y])
          /\ \A k \in Reg : a.r[k] = m.r[k]
      BY <1>1, <2>4 DEF a, n
    <3>2. a.r[y].len \in 1 .. nib /\ a.r[y].len \in Nat
      <4>1. a.r[y].len \in Nat
        BY <3>1, GoodIs, Sizes
      <4>2. a.r[y].len # 0
        <5> SUFFICES ASSUME a.r[y].len = 0 PROVE FALSE
          OBVIOUS
        <5>1. Mag(a.r[y]) = 0
          BY <3>1, NotZero
        <5>2. Value(a.r[y]) = 0
          BY <3>1, <5>1, SignedValue
        <5> QED
          BY <1>3, <3>1, <5>2
      <4> QED
        BY <3>1, <4>1, <4>2, Sizes
    <3>3. DividesInto(a, n, "w0", y, y)
      BY <3>1, <3>2, DivideIs DEF n
    <3>4. /\ n.ERNUM = 0 /\ n.check /\ Good(n.r["w0"]) /\ Value(n.r["w0"]) = e
          /\ Good(n.r[y]) /\ Value(n.r[y]) = val[y] /\ n.r[y].len <= a.r[y].len
          /\ \A k \in Names : k \notin {y, "w0"} => n.r[k] = a.r[k]
      BY <3>1, <3>3 DEF DividesInto, e
    <3>5. Run(c, m).ret = ret
      BY <3>1, <3>4, SizeZero
    <3>6. ASSUME NEW r \in Reg PROVE Good(n.r[r]) /\ Value(n.r[r]) = f[r] /\ n.r[r].len <= nib
      <4>1. r \in Names /\ r # "w0" /\ Good(m.r[r]) /\ Value(m.r[r]) = val[r] /\ m.r[r].len <= nib
        BY <2>4 DEF Ready
      <4>2. CASE r = y
        <5>1. n.r[y].len \in Nat /\ nib \in Nat
          BY <3>4, GoodIs, Sizes
        <5>2. n.r[y].len <= nib
          BY <3>1, <3>2, <3>4, <5>1
        <5> QED
          BY <2>3, <3>4, <4>2, <5>2
      <4>3. CASE r # y
        BY <2>3, <3>1, <3>4, <4>1, <4>3
      <4> QED
        BY <4>2, <4>3
    <3> QED
      BY <3>1, <3>4, <3>5, <3>6 DEF Has
  <2> HIDE DEF c, ret
  <2>5. Exactly(c) /\ KeptForm(c)
    BY <2>1, <2>2, <2>4, ValuesRight
  <2> QED
    BY <2>5 DEF c
<1> QED
  BY <1>2, <1>3

-----------------------------------------------------------------------------
(* Every call, and the program.                                              *)

\* Every such call, on any memory the program can be in.
LEMMA BasicsRight ==
  ASSUME Inv, NEW c, BasicCall(c)
  PROVE  Exactly(c) /\ KeptForm(c)
<1>1. CASE \E op \in {"copy", "negify", "absol", "compare", "divisible"}, x, z \in Reg : c = [op |-> op, a |-> <<x, z>>]
  BY <1>1, CopyCall, NegifyCall, AbsolCall, CompareCall, DivisibleCall
<1>2. CASE \E op \in {"add", "subtract", "multiply", "divide"}, x, y, z \in Reg : c = [op |-> op, a |-> <<x, y, z>>]
  BY <1>2, AddCall, SubtractCall, MultiplyCall, DivideCall
<1>3. CASE \E n \in -(B - 1) .. B - 1, z \in Reg : c = [op |-> "convert", a |-> <<n, z>>]
  BY <1>3, ConvertCall
<1>4. CASE \E op \in {"incr", "decr", "premult", "subdiv"}, x, z \in Reg, n \in -(B - 1) .. B - 1 :
             c = [op |-> op, a |-> <<x, n, z>>]
  BY <1>4, IncrCall, DecrCall, PremultCall, SubdivCall
<1>5. CASE \E x \in Reg, n \in -(B - 1) .. B - 1 : c = [op |-> "remain", a |-> <<x, n>>]
  BY <1>5, RemainCall
<1> QED
  BY <1>1, <1>2, <1>3, <1>4, <1>5 DEF BasicCall

\* The values of the program's numbers always fit.
LEMMA InvKept == Spec => []Inv
<1>1. Init => Inv
  <2> SUFFICES ASSUME Init PROVE Inv
    OBVIOUS
  <2>1. program \in Programs /\ val \in [Reg -> program.a \union program.rest]
    BY DEF Init
  <2>2. program.a \union program.rest \subseteq Numbers
    BY <2>1, ProgramsAssumption
  <2> QED
    BY <2>1, <2>2 DEF Inv
<1>2. Inv /\ [Next]_vars => Inv'
  <2> SUFFICES ASSUME Inv, [Next]_vars PROVE Inv'
    OBVIOUS
  <2>1. UNCHANGED <<program, val>>
    BY DEF vars, Next, Called, CallUnary, CallBinary, CallTernary, CallConvert, CallBySmall, CallRemain, CallShift,
      CallExpB2, CallTestBit, CallExpInt, CallPower, CallNRoot, CallBytesToBig, CallBigToBytes, CallMad, CallXGcd,
      CallIGcd, CallISqrt
  <2> QED
    BY <2>1 DEF Inv
<1> QED
  BY <1>1, <1>2, PTL DEF Spec

\* For every word size, every length of a number, every overlap of the operands and
\* whatever the scratch numbers held, a copy, a sum, a difference, a product, a
\* quotient and remainder by one word or by several, a test of divisibility, a
\* comparison or a conversion has the value the integers give it and leaves the kept
\* form, or fails because the value does not fit or the divisor is zero (mrarth0.c,
\* mrarth1.c, multiply, divide and divisible of mrarth2.c, mrcore.c).
THEOREM BasicsExactCorrect == Spec => BasicsExact
<1>1. Inv /\ [Next]_vars => [call'.op \in BasicOps => Exactly(call') /\ KeptForm(call')]_vars
  <2> SUFFICES ASSUME Inv, Next, call'.op \in BasicOps PROVE Exactly(call') /\ KeptForm(call')
    OBVIOUS
  <2> QED
    BY CallsAre, BasicsRight
<1> QED
  BY <1>1, InvKept, PTL DEF Spec, BasicsExact
=============================================================================
