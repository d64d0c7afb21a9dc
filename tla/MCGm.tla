-------------------------------- MODULE MCGm --------------------------------
(* The hash, the block cipher, its modes and the signature of the library gm,  *)
(* each on small instances; a behaviour works one of them, the others rest.    *)
EXTENDS SM4Cipher, SM4Modes, SM3Stream, Sm2Signature, SequencesExt, Bitwise

VARIABLES part,                                          \* what is worked
          std_stage, std_i, std_MK, std_text, std_K, std_X, std_Y, \* SM4Cipher in SM4_SelfCheck
          chain, reg, roundT, j, expanded, left, message  \* SM3Compress

checkVars    == <<std_stage, std_i, std_MK, std_text, std_K, std_X, std_Y>>
compressVars == <<chain, reg, roundT, j, expanded, left, message>>

-----------------------------------------------------------------------------
(* The block cipher on words of two bits, with round functions that are no    *)
(* permutations, for every block; and on the data of SM4_SelfCheck.           *)
SmallWord == 0 .. 3
SmallXor(a, b) == a ^^ b
SmallT(a) == (a * a + 1) % 4
SmallTKey(a) == (3 * a + 2) % 4
SmallFK == [n \in 0 .. 3 |-> (2 * n + 1) % 4]
SmallCK == [n \in 0 .. Rounds - 1 |-> (3 * n) % 4]
FewKeys == [0 .. 3 -> {0, 3}]
AllBlocks == [0 .. 3 -> SmallWord]

Std == INSTANCE SM4Words
StdFK == [n \in 0 .. 3 |-> Std!SM4_FK[n + 1]]
StdCK == [n \in 0 .. 31 |-> Std!SM4_CK[n + 1]]
StdKey == [n \in 0 .. 3 |-> Std!OfBytes(<< <<1, 35, 69, 103>>, <<137, 171, 205, 239>>,
                                           <<254, 220, 186, 152>>, <<118, 84, 50, 16>> >>[n + 1])]
StdXor(a, b) == Std!XorOf(a, b)
StdT(a) == Std!Transform(a)
StdTKey(a) == Std!TransformKey(a)
StdCipher == <<104, 30, 223, 52, 210, 6, 150, 94, 134, 179, 233, 79, 83, 110, 66, 70>>
SelfCheck == INSTANCE SM4Cipher WITH Word <- {}, XorW <- StdXor, T <- StdT, TKey <- StdTKey, Rounds <- 32,
               FK <- StdFK, CK <- StdCK, Keys <- {StdKey}, Plains <- {StdKey},
               stage <- std_stage, i <- std_i, MK <- std_MK, PlainText <- std_text,
               K <- std_K, X <- std_X, Y <- std_Y

-----------------------------------------------------------------------------
(* The hash: blocks of six bytes of three bits and chaining values that        *)
(* remember every block, so that two different inputs never meet; and the      *)
(* compression function on the two messages of SM3_SelfTest.                   *)
Remember(c, block) == Append(c, block)
AsIs(c) == c
Empty == <<>>
FewPieces == {<<>>, <<1>>, <<4, 0>>, <<0, 4, 4, 0, 0>>, <<1, 4, 0, 0, 4, 0, 1>>}
Padding == INSTANCE SM3Stream WITH BlockLen <- 64, Field <- 8, LenBytes <- 4, WordBytes <- 4,
             ByteBits <- 8, ByteValues <- 256, FirstValue <- <<>>, Compress <- Remember, BytesOf <- AsIs, Pieces <- {}, MaxLen <- 64
Msg1 == <<97, 98, 99>>
Msg2 == [n \in 1 .. 64 |-> 97 + ((n - 1) % 4)]
StdHash1 == <<102, 199, 240, 244, 98, 238, 237, 217, 209, 242, 212, 107, 220, 16, 228, 226,
              65, 103, 196, 135, 92, 242, 247, 162, 41, 125, 160, 43, 143, 75, 168, 224>>
StdHash2 == <<222, 190, 159, 249, 34, 117, 184, 161, 56, 96, 72, 137, 193, 142, 90, 77,
              111, 219, 112, 229, 56, 126, 87, 101, 41, 61, 203, 163, 156, 12, 87, 50>>
SelfTest == {Padding!Digest(Msg1), Padding!Digest(Msg2)}
Compression == INSTANCE SM3Compress WITH Messages <- SelfTest, V <- chain, W <- expanded

-----------------------------------------------------------------------------
(* The modes: blocks of four bytes of two bits under a permutation of 256      *)
(* blocks, messages of up to four blocks, whole and with a rest, nonces that   *)
(* give every shift of the offset.                                            *)
Number(b) == b[1] * 64 + b[2] * 16 + b[3] * 4 + b[4]
AsBlock(n) == <<n \div 64, (n \div 16) % 4, (n \div 4) % 4, n % 4>>
Table == [n \in 0 .. 255 |-> (n * 37 + 2 * n * n + 91) % 256]
Back  == [n \in 0 .. 255 |-> CHOOSE k \in 0 .. 255 : Table[k] = n]
SmallE(b) == AsBlock(Table[Number(b)])
SmallD(b) == AsBlock(Back[Number(b)])
Text(seed, n) == FoldLeft(LAMBDA s, k : Append(s, (k * k + seed * k + seed) % 4), <<>>, [k \in 1 .. n |-> k])
FewTexts == {Text(1, n) : n \in {4, 8, 11, 16}} \union {Text(2, n) : n \in {0, 3, 7, 12}}
FewData  == {Text(3, n) : n \in {0, 3, 4, 9}}
FewIVs   == {<<>>, <<2>>, <<1, 3>>, <<0, 2, 1>>, <<3, 1, 0>>, <<1, 0, 2, 3>>}

-----------------------------------------------------------------------------
(* The signature on a curve of prime order 11 modulo 17, so that coordinates   *)
(* and digests exceed the order; key files hold numbers in and out of range.   *)
SmallHash(P, m) == (7 * m + 3 * P[1] + 5 * P[2]) % 32
SmallCurve == [p |-> 17, a |-> 8, b |-> 3]

-----------------------------------------------------------------------------
Parts == {"cipher", "self-check", "stream", "self-test", "modes", "signature"}

CipherRests == stage = "schedule" /\ i = 0 /\ MK = <<>> /\ PlainText = <<>> /\ K = <<>> /\ X = <<>> /\ Y = <<>>
CheckRests  == /\ std_stage = "schedule" /\ std_i = 0 /\ std_MK = <<>> /\ std_text = <<>>
               /\ std_K = <<>> /\ std_X = <<>> /\ std_Y = <<>>
CompressionRests == /\ message = <<>> /\ left = <<>> /\ chain = <<>> /\ reg = <<0>>
                    /\ roundT = <<>> /\ j = 0 /\ expanded = <<>>
GmInit ==
  /\ part \in Parts
  /\ StreamInit /\ ModesInit /\ SignatureInit
  /\ \/ part = "cipher" /\ Init
     \/ part # "cipher" /\ CipherRests
  /\ \/ part = "self-check" /\ SelfCheck!Init
     \/ part # "self-check" /\ CheckRests
  /\ \/ part = "self-test" /\ Compression!Init
     \/ part # "self-test" /\ CompressionRests
GmNext ==
  /\ UNCHANGED part
  /\ part # "cipher"     => UNCHANGED vars
  /\ part # "self-check" => UNCHANGED checkVars
  /\ part # "stream"     => UNCHANGED streamVars
  /\ part # "self-test"  => UNCHANGED compressVars
  /\ part # "modes"      => UNCHANGED modesVars
  /\ part # "signature"  => UNCHANGED signatureVars
  /\ \/ part = "cipher"     /\ Next
     \/ part = "self-check" /\ SelfCheck!Next
     \/ part = "stream"     /\ StreamNext
     \/ part = "self-test"  /\ Compression!Next
     \/ part = "modes"      /\ ModesNext
     \/ part = "signature"  /\ SignatureNext
GmSpec == GmInit /\ [][GmNext]_<<part, vars, checkVars, streamVars, compressVars, modesVars, signatureVars>>

-----------------------------------------------------------------------------
(* Properties; the ones of the modules above are checked as they stand.        *)

\* SM4_SelfCheck passes: the block of the standard encrypts to the ciphertext
\* of the standard and decrypts to itself (SM4.c:195-217).
SelfCheckPasses ==
  part = "self-check" /\ std_stage = "done" =>
    /\ FlattenSeq([n \in 1 .. 4 |-> Std!ToBytes(SelfCheck!CipherText[n-1])]) = StdCipher
    /\ SelfCheck!Output = std_text

\* SM3_SelfTest passes: the digests of "abc" and of sixteen times "abcd" are
\* the ones of the standard (SM3.c:374-395).
SelfTestPasses ==
  part = "self-test" /\ Compression!Finished =>
    Compression!hash = IF message = Padding!Digest(Msg1) THEN StdHash1 ELSE StdHash2
=============================================================================
