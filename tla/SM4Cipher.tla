----------------------------- MODULE SM4Cipher -----------------------------
(* The block cipher of SM4.c: a key is expanded to round keys, a block is      *)
(* encrypted, and what comes out is decrypted, one round per step.            *)
EXTENDS Naturals

CONSTANTS Word,         \* the machine words
          XorW(_, _),
          Rounds,       \* rounds of the cipher (32)
          T(_), TKey(_), \* substitution and rotations of a round, of the key schedule
          FK, CK,       \* the constants of the key schedule
          Keys, Plains  \* keys and blocks of four words (a bound of the runs)

ASSUME RoundsAssumption == Rounds \in Nat /\ Rounds >= 4
ASSUME XorAssumption ==
  /\ \A a, b \in Word : XorW(a, b) \in Word /\ XorW(XorW(a, b), b) = a
  /\ \A a, b, c \in Word : XorW(XorW(a, b), c) = XorW(XorW(c, b), a)
ASSUME RoundAssumption == \A a \in Word : T(a) \in Word /\ TKey(a) \in Word
ASSUME ConstantAssumption ==
  /\ FK \in [0 .. 3 -> Word] /\ CK \in [0 .. Rounds - 1 -> Word]
  /\ Keys \subseteq [0 .. 3 -> Word] /\ Plains \subseteq [0 .. 3 -> Word]

VARIABLES stage,        \* the function at work, "done" after the last
          i,            \* its next round
          MK, PlainText, \* the arguments
          K, X, Y       \* the arrays of key schedule, encryption and decryption

vars == <<stage, i, MK, PlainText, K, X, Y>>

Array == [0 .. Rounds + 3 -> Word]
Mixed(A, n) == XorW(XorW(A[n+1], A[n+2]), A[n+3])
\* Mutant: decryption takes the round keys in the order of encryption.
InOrder(n) == n
Reversed(n) == Rounds - 1 - n
rk(n) == K[n + 4]

\* The words of an array that no round has set yet hold anything: here what is
\* in its first four.
Init == /\ stage = "schedule" /\ i = 0
        /\ MK \in Keys /\ PlainText \in Plains
        /\ K = [n \in 0 .. Rounds + 3 |-> XorW(FK[n % 4], MK[n % 4])]
        /\ X = [n \in 0 .. Rounds + 3 |-> PlainText[n % 4]]
        /\ Y = X

KeyRound == /\ stage = "schedule" /\ i < Rounds
            /\ K' = [K EXCEPT ![i+4] = XorW(K[i], TKey(XorW(Mixed(K, i), CK[i])))]
            /\ i' = i + 1 /\ UNCHANGED <<stage, MK, PlainText, X, Y>>

EncryptRound == /\ stage = "encrypt" /\ i < Rounds
                /\ X' = [X EXCEPT ![i+4] = XorW(X[i], T(XorW(Mixed(X, i), rk(i))))]
                /\ i' = i + 1 /\ UNCHANGED <<stage, MK, PlainText, K, Y>>

DecryptRound == /\ stage = "decrypt" /\ i < Rounds
                /\ Y' = [Y EXCEPT ![i+4] = XorW(Y[i], T(XorW(Mixed(Y, i), rk(Reversed(i)))))]
                /\ i' = i + 1 /\ UNCHANGED <<stage, MK, PlainText, K, X>>

\* The words leave in reverse order, and are taken up again as they come.
CipherText == [n \in 0 .. 3 |-> X[Rounds + 3 - n]]
Output     == [n \in 0 .. 3 |-> Y[Rounds + 3 - n]]

StartEncrypt == /\ stage = "schedule" /\ i = Rounds /\ stage' = "encrypt" /\ i' = 0
                /\ UNCHANGED <<MK, PlainText, K, X, Y>>
StartDecrypt == /\ stage = "encrypt" /\ i = Rounds /\ stage' = "decrypt" /\ i' = 0
                /\ Y' = [n \in 0 .. Rounds + 3 |-> CipherText[n % 4]]
                /\ UNCHANGED <<MK, PlainText, K, X>>
Finish       == /\ stage = "decrypt" /\ i = Rounds /\ stage' = "done"
                /\ UNCHANGED <<i, MK, PlainText, K, X, Y>>

Next == KeyRound \/ EncryptRound \/ DecryptRound \/ StartEncrypt \/ StartDecrypt \/ Finish
Spec == Init /\ [][Next]_vars

-----------------------------------------------------------------------------
(* Properties.                                                                *)

\* Decryption under the same key gives back the block, though both run the same
\* round function, whatever it computes.
Inverts == stage = "done" => Output = PlainText

\* Every round of decryption undoes the last round of encryption not yet undone.
Unwinding ==
  /\ stage \in {"encrypt", "decrypt", "done"} => \A n \in 0 .. 3 : X[n] = PlainText[n]
  /\ stage \in {"decrypt", "done"} => \A n \in 0 .. i + 3 : Y[n] = X[Rounds + 3 - n]
=============================================================================
