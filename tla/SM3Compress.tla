---------------------------- MODULE SM3Compress ----------------------------
(* The compression function of SM3.c, one round at a time, on the blocks of    *)
(* one message.                                                               *)
EXTENDS Words

CONSTANTS Messages      \* the messages hashed, each a sequence of blocks of bytes

VARIABLES V,            \* the chaining value, eight words
          reg,          \* A to H, empty between blocks
          roundT,       \* the round constant T
          j,            \* the next round
          W,            \* the expanded block
          left,         \* blocks still to come
          message

vars == <<V, reg, roundT, j, W, left, message>>

SM3_T1 == <<31180, 17689>>      \* 0x79CC4519
SM3_T2 == <<31367, 40330>>      \* 0x7A879D8A
IV == << <<29568, 5743>>, <<18708, 45753>>, <<5924, 17111>>, <<55946, 1536>>,
         <<43375, 12476>>, <<5681, 14506>>, <<58253, 61005>>, <<45307, 3662>> >>

SM3_p1(x) == Xor3(x, Rotl(x, 15), Rotl(x, 23))
SM3_p0(x) == Xor3(x, Rotl(x, 9), Rotl(x, 17))
\* Mutant: the parity of the first sixteen rounds goes on.
SM3_ff1Parity(a, b, c) == Xor3(a, b, c)
SM3_ff1(a, b, c) == LET or(x, y) == Complement(AndOf(Complement(x), Complement(y)))
                    IN  or(or(AndOf(a, b), AndOf(a, c)), AndOf(b, c))
SM3_gg1(e, f, g) == XorOf(AndOf(e, f), AndOf(Complement(e), g))

\* The 68 words of a block.
BiToW(bytes) ==
  LET first == [i \in 1 .. 16 |-> OfBytes(SubSeq(bytes, 4 * i - 3, 4 * i))]
      more(w, i) == Append(w, XorOf(XorOf(SM3_p1(Xor3(w[i-16], w[i-9], Rotl(w[i-3], 15))),
                                          Rotl(w[i-13], 7)), w[i-6]))
  IN  FoldLeft(more, first, [i \in 1 .. 52 |-> i + 16])

Init == /\ message \in Messages /\ left = message
        /\ V = IV /\ reg = <<>> /\ roundT = SM3_T1 /\ j = 0 /\ W = <<>>

\* SM3_compress takes up a block.
TakeBlock == /\ reg = <<>> /\ left # <<>>
             /\ W' = BiToW(Head(left)) /\ left' = Tail(left) /\ reg' = V /\ j' = 0
             /\ UNCHANGED <<V, roundT, message>>

\* One round of CF; W1 of WToW1 is W[j] ^ W[j + 4].
Round ==
  /\ reg # <<>> /\ j < 64
  /\ roundT' = IF j = 0 THEN SM3_T1 ELSE IF j = 16 THEN Rotl(SM3_T2, 16) ELSE Rotl(roundT, 1)
  /\ LET A == reg[1]  B == reg[2]  C == reg[3]  D == reg[4]
         E == reg[5]  F == reg[6]  G == reg[7]  H == reg[8]
         SS1 == Rotl(Plus(Plus(Rotl(A, 12), E), roundT'), 7)
         SS2 == XorOf(SS1, Rotl(A, 12))
         FF == IF j <= 15 THEN Xor3(A, B, C) ELSE SM3_ff1(A, B, C)
         GG == IF j <= 15 THEN Xor3(E, F, G) ELSE SM3_gg1(E, F, G)
         TT1 == Plus(Plus(Plus(FF, D), SS2), XorOf(W[j+1], W[j+5]))
         TT2 == Plus(Plus(Plus(GG, H), SS1), W[j+1])
     IN  reg' = <<TT1, A, Rotl(B, 9), C, SM3_p0(TT2), E, Rotl(F, 19), G>>
  /\ j' = j + 1
  /\ UNCHANGED <<V, W, left, message>>

\* The registers are added to the chaining value.
Update == /\ reg # <<>> /\ j = 64
          /\ V' = [k \in 1 .. 8 |-> XorOf(V[k], reg[k])] /\ reg' = <<>> /\ W' = <<>>
          /\ UNCHANGED <<roundT, j, left, message>>

Next == TakeBlock \/ Round \/ Update
Spec == Init /\ [][Next]_vars

-----------------------------------------------------------------------------
Finished == left = <<>> /\ reg = <<>>
hash == FlattenSeq([k \in 1 .. 8 |-> ToBytes(V[k])])
=============================================================================
