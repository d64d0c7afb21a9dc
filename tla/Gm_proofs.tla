----------------------------- MODULE Gm_proofs -----------------------------
(***************************************************************************)
(* The hash, the signature, the block cipher and its modes of the library  *)
(* gm.  What SM3_done gives is the digest of the bytes, for every layout   *)
(* of a block, every compression function and every cut of a message into  *)
(* calls.  SM2_sv.c on every curve that is a group and every base point of *)
(* prime order: whatever nonces are drawn, what SM2_Sign makes SM2_Verify  *)
(* takes, and it takes nothing else.  Decryption inverts encryption for    *)
(* every word size, number of rounds, key, block and round function; and   *)
(* over any permutation of blocks CBC gives back what was sent and OCB     *)
(* accepts only what its own encryption gives.                             *)
(***************************************************************************)
EXTENDS SM3Stream, Sm2Signature, SM4Cipher, SM4Modes, NumberLemmas, SequenceTheorems

-----------------------------------------------------------------------------
(* The hash.                                                                  *)

LEMMA Layout ==
  /\ BlockLen \in Nat \ {0} /\ Field \in 0 .. BlockLen - 1 /\ LenBytes \in 0 .. Field
  /\ ByteBits \in Nat /\ ByteValues \in Nat \ {0}
BY LayoutAssumption

\* The powers that one byte after the other gives.
LEMMA PowersExist ==
  ASSUME NEW M \in Nat
  PROVE  \E g : g = [k \in 0 .. M |-> IF k = 0 THEN 1 ELSE ByteValues * g[k-1]]
<1> DEFINE S == {n \in Nat : \E g : g = [k \in 0 .. n |-> IF k = 0 THEN 1 ELSE ByteValues * g[k-1]]}
<1>1. 0 \in S
  <2>1. [k \in 0 .. 0 |-> 1] = [k \in 0 .. 0 |-> IF k = 0 THEN 1 ELSE ByteValues * [j \in 0 .. 0 |-> 1][k-1]]
    OBVIOUS
  <2> QED
    BY <2>1
<1>2. ASSUME NEW n \in Nat, n \in S PROVE n + 1 \in S
  <2>1. PICK g : g = [k \in 0 .. n |-> IF k = 0 THEN 1 ELSE ByteValues * g[k-1]]
    BY <1>2
  <2> DEFINE h == [k \in 0 .. n + 1 |-> IF k = n + 1 THEN ByteValues * g[n] ELSE g[k]]
  <2>2. h = [k \in 0 .. n + 1 |-> IF k = 0 THEN 1 ELSE ByteValues * h[k-1]]
    BY <2>1
  <2> HIDE DEF h
  <2> QED
    BY <2>2
<1>3. Nat \subseteq S
  <2> HIDE DEF S
  <2> QED
    BY <1>1, <1>2, SetInduction
<1> QED
  BY <1>3

LEMMA PowersAre ==
  /\ Powers[0] = 1
  /\ \A k \in 1 .. LenBytes : Powers[k] = ByteValues * Powers[k-1]
<1> DEFINE c == CHOOSE g : g = [k \in 0 .. LenBytes |-> IF k = 0 THEN 1 ELSE ByteValues * g[k-1]]
<1>0. LenBytes \in Nat
  BY Layout
<1>1. Powers = c
  BY Zenon DEF Powers
<1>2. \E g : g = [k \in 0 .. LenBytes |-> IF k = 0 THEN 1 ELSE ByteValues * g[k-1]]
  BY <1>0, PowersExist, Zenon
<1>3. c = [k \in 0 .. LenBytes |-> IF k = 0 THEN 1 ELSE ByteValues * c[k-1]]
  BY <1>2, Zenon
<1> HIDE DEF c
<1>4. c[0] = 1
  BY <1>0, <1>3
<1>5. \A k \in 1 .. LenBytes : c[k] = ByteValues * c[k-1]
  BY <1>0, <1>3
<1> QED
  BY <1>1, <1>4, <1>5

LEMMA PowersPositive == \A k \in 0 .. LenBytes : Powers[k] \in Nat \ {0}
<1> DEFINE S == {k \in Nat : k <= LenBytes => Powers[k] \in Nat \ {0}}
<1>1. 0 \in S
  BY PowersAre
<1>2. ASSUME NEW k \in Nat, k \in S PROVE k + 1 \in S
  <2> SUFFICES ASSUME k + 1 <= LenBytes PROVE Powers[k + 1] \in Nat \ {0}
    OBVIOUS
  <2>1. k + 1 \in 1 .. LenBytes /\ (k + 1) - 1 = k /\ Powers[k] \in Nat \ {0}
    BY <1>2, Layout
  <2>2. Powers[k + 1] = ByteValues * Powers[k]
    BY <2>1, PowersAre
  <2> QED
    BY <2>1, <2>2, Layout
<1>3. Nat \subseteq S
  <2> HIDE DEF S
  <2> QED
    BY <1>1, <1>2, SetInduction
<1> QED
  BY <1>3, Layout

\* The size of a length is a multiple of what its digits are worth.
LEMMA PowersDivide ==
  ASSUME NEW k \in 0 .. LenBytes - 1
  PROVE  \E c \in Nat \ {0} : LenSize = Powers[k] * (ByteValues * c)
<1> DEFINE S == {j \in Nat : k + 1 + j <= LenBytes =>
                   \E c \in Nat \ {0} : Powers[k + 1 + j] = Powers[k] * (ByteValues * c)}
<1>1. k \in Nat /\ LenBytes \in Nat /\ Powers[k] \in Nat \ {0} /\ ByteValues \in Nat \ {0}
  BY Layout, PowersPositive
<1>2. 0 \in S
  <2>1. k + 1 \in 1 .. LenBytes /\ (k + 1) - 1 = k /\ k + 1 + 0 = k + 1
    BY <1>1
  <2>2. Powers[k + 1] = ByteValues * Powers[k]
    BY <2>1, PowersAre
  <2>3. Powers[k + 1 + 0] = Powers[k] * (ByteValues * 1)
    BY <1>1, <2>1, <2>2
  <2> QED
    BY <2>3
<1>3. ASSUME NEW j \in Nat, j \in S PROVE j + 1 \in S
  <2> SUFFICES ASSUME k + 1 + (j + 1) <= LenBytes
               PROVE  \E c \in Nat \ {0} : Powers[k + 1 + (j + 1)] = Powers[k] * (ByteValues * c)
    OBVIOUS
  <2>1. PICK c \in Nat \ {0} : Powers[k + 1 + j] = Powers[k] * (ByteValues * c)
    BY <1>1, <1>3
  <2>2. k + 1 + (j + 1) \in 1 .. LenBytes /\ (k + 1 + (j + 1)) - 1 = k + 1 + j
    BY <1>1
  <2>3. Powers[k + 1 + (j + 1)] = ByteValues * Powers[k + 1 + j]
    BY <2>2, PowersAre
  <2>4. ByteValues * (Powers[k] * (ByteValues * c)) = Powers[k] * (ByteValues * (ByteValues * c))
    BY <1>1
  <2>5. ByteValues * c \in Nat \ {0}
    BY <1>1
  <2> QED
    BY <2>1, <2>3, <2>4, <2>5
<1>4. Nat \subseteq S
  <2> HIDE DEF S
  <2> QED
    BY <1>2, <1>3, SetInduction
<1> DEFINE e == LenBytes - k - 1
<1>5. e \in Nat /\ k + 1 + e = LenBytes
  BY <1>1
<1> HIDE DEF e
<1>6. \E c \in Nat \ {0} : Powers[k + 1 + e] = Powers[k] * (ByteValues * c)
  <2>1. e \in S /\ k + 1 + e <= LenBytes
    <3> HIDE DEF S
    <3> QED
      BY <1>1, <1>4, <1>5
  <2> QED
    BY <2>1
<1> HIDE DEF S
<1> QED
  BY <1>5, <1>6, Zenon DEF LenSize

-----------------------------------------------------------------------------
(* Contexts.                                                                  *)

BlockAt(msg, k) == [ix \in 1 .. BlockLen |-> msg[BlockLen * (k - 1) + ix]]

\* v comes out of the first k blocks of a message.
Chained(msg, k, v) == \E c : /\ c[0] = FirstValue /\ c[k] = v
                             /\ \A j \in 1 .. k : c[j] = Compress(c[j-1], BlockAt(msg, j))

IsContext(m) == /\ DOMAIN m = {"state", "length", "curlen", "buf"}
                /\ DOMAIN m.buf = 0 .. BlockLen - 1

\* A context has taken in the first n bytes of a message: k blocks, and a rest
\* that its buffer holds.
Split(m, msg, n, k) ==
  /\ m.curlen \in 0 .. BlockLen - 1 /\ n = BlockLen * k + m.curlen
  /\ m.length = (ByteBits * (BlockLen * k)) % LenSize
  /\ \A ix \in 0 .. m.curlen - 1 : m.buf[ix] = msg[BlockLen * k + ix + 1]
  /\ Chained(msg, k, m.state)
Holds(m, msg, n) == IsContext(m) /\ \E k \in Nat : Split(m, msg, n, k)

LEMMA OneMoreBlock ==
  ASSUME NEW msg, NEW k \in Nat, NEW v, Chained(msg, k, v)
  PROVE  Chained(msg, k + 1, Compress(v, BlockAt(msg, k + 1)))
<1>1. PICK c : c[0] = FirstValue /\ c[k] = v /\ \A j \in 1 .. k : c[j] = Compress(c[j-1], BlockAt(msg, j))
  BY DEF Chained
<1> DEFINE x == Compress(v, BlockAt(msg, k + 1))
           d == [j \in 0 .. k + 1 |-> IF j = k + 1 THEN x ELSE c[j]]
<1>2. d[0] = FirstValue /\ d[k + 1] = x /\ d[k] = v /\ \A j \in 0 .. k : d[j] = c[j]
  BY <1>1
<1>3. \A j \in 1 .. k + 1 : d[j] = Compress(d[j-1], BlockAt(msg, j))
  <2> SUFFICES ASSUME NEW j \in 1 .. k + 1 PROVE d[j] = Compress(d[j-1], BlockAt(msg, j))
    OBVIOUS
  <2>1. CASE j = k + 1
    <3>1. j - 1 = k
      BY <2>1
    <3> HIDE DEF d
    <3> QED
      BY <1>2, <2>1, <3>1
  <2>2. CASE j # k + 1
    <3>1. j \in 1 .. k /\ j - 1 \in 0 .. k /\ j \in 0 .. k
      BY <2>2
    <3> HIDE DEF d
    <3> QED
      BY <1>1, <1>2, <3>1
  <2> QED
    BY <2>1, <2>2
<1> HIDE DEF d
<1> QED
  BY <1>2, <1>3 DEF Chained

LEMMA NoBlock == ASSUME NEW msg PROVE Chained(msg, 0, FirstValue)
<1> DEFINE c == [j \in 0 .. 0 |-> FirstValue]
<1>1. c[0] = FirstValue /\ \A j \in 1 .. 0 : c[j] = Compress(c[j-1], BlockAt(msg, j))
  OBVIOUS
<1> HIDE DEF c
<1> QED
  BY <1>1 DEF Chained

\* A full buffer is compressed, and the next block begins.
LEMMA CompressTakesBlock ==
  ASSUME NEW m, NEW msg, NEW k \in Nat, IsContext(m), Chained(msg, k, m.state),
         \A ix \in 0 .. BlockLen - 1 : m.buf[ix] = msg[BlockLen * k + ix + 1]
  PROVE  /\ Chained(msg, k + 1, SM3_compress(m).state) /\ IsContext(SM3_compress(m))
         /\ SM3_compress(m).length = m.length /\ SM3_compress(m).curlen = m.curlen
<1> DEFINE z == SM3_compress(m)
<1>1. /\ z.state = Compress(m.state, Block(m.buf)) /\ z.buf = BigEndian(m.buf)
      /\ z.length = m.length /\ z.curlen = m.curlen /\ DOMAIN z = DOMAIN m
  BY DEF SM3_compress, IsContext
<1>2. DOMAIN z.buf = 0 .. BlockLen - 1
  BY <1>1 DEF BigEndian, IsContext
<1>3. Block(m.buf) = BlockAt(msg, k + 1)
  <2>1. ASSUME NEW ix \in 1 .. BlockLen PROVE m.buf[ix - 1] = msg[BlockLen * ((k + 1) - 1) + ix]
    <3>1. ix - 1 \in 0 .. BlockLen - 1 /\ (k + 1) - 1 = k
      BY Layout
    <3>2. m.buf[ix - 1] = msg[BlockLen * k + (ix - 1) + 1]
      BY <3>1
    <3>3. BlockLen * k + (ix - 1) + 1 = BlockLen * k + ix
      BY Layout
    <3> QED
      BY <3>1, <3>2, <3>3
  <2> QED
    BY <2>1 DEF Block, BlockAt
<1> HIDE DEF z
<1>4. Chained(msg, k + 1, z.state)
  BY <1>1, <1>3, OneMoreBlock
<1>5. IsContext(z)
  BY <1>1, <1>2 DEF IsContext
<1> QED
  BY <1>1, <1>4, <1>5 DEF z

\* What SM3_process does with one byte.
LEMMA AppendByteHolds ==
  ASSUME NEW m, NEW msg, NEW n \in Nat, Holds(m, msg, n)
  PROVE  Holds(AppendByte(m, msg[n + 1]), msg, n + 1)
<1>1. PICK k \in Nat : Split(m, msg, n, k)
  BY DEF Holds
<1>2. m.curlen \in 0 .. BlockLen - 1 /\ BlockLen \in Nat \ {0} /\ ByteBits \in Nat /\ LenSize \in Nat \ {0}
  BY <1>1, Layout, PowersPositive DEF Split, LenSize
<1> DEFINE a == [m EXCEPT !.buf[m.curlen] = msg[n + 1], !.curlen = @ + 1]
<1>3. /\ a.buf = [m.buf EXCEPT ![m.curlen] = msg[n + 1]] /\ a.curlen = m.curlen + 1
      /\ a.state = m.state /\ a.length = m.length /\ DOMAIN a = DOMAIN m
  BY DEF Holds, IsContext
<1> HIDE DEF a
<1>4. \A ix \in 0 .. m.curlen : a.buf[ix] = msg[BlockLen * k + ix + 1]
  <2> SUFFICES ASSUME NEW ix \in 0 .. m.curlen PROVE a.buf[ix] = msg[BlockLen * k + ix + 1]
    OBVIOUS
  <2>1. DOMAIN m.buf = 0 .. BlockLen - 1 /\ n + 1 = BlockLen * k + m.curlen + 1
    BY <1>1, <1>2 DEF Split, Holds, IsContext
  <2>2. CASE ix = m.curlen
    <3>1. a.buf[ix] = msg[n + 1]
      BY <1>2, <1>3, <2>1, <2>2
    <3> QED
      BY <2>1, <2>2, <3>1
  <2>3. CASE ix # m.curlen
    <3>1. ix \in 0 .. m.curlen - 1 /\ ix \in DOMAIN m.buf
      BY <1>2, <2>1, <2>3
    <3>2. m.buf[ix] = msg[BlockLen * k + ix + 1]
      BY <1>1, <3>1 DEF Split
    <3> QED
      BY <1>3, <2>3, <3>1, <3>2
  <2> QED
    BY <2>2, <2>3
<1>5. IsContext(a)
  BY <1>3 DEF Holds, IsContext
<1>6. CASE a.curlen = BlockLen
  <2> DEFINE s == SM3_compress(a)
             z == [s EXCEPT !.length = (@ + ByteBits * BlockLen) % LenSize, !.curlen = 0]
  <2>1. AppendByte(m, msg[n + 1]) = z
    BY <1>6 DEF AppendByte, a
  <2>2. 0 .. m.curlen = 0 .. BlockLen - 1
    BY <1>2, <1>3, <1>6
  <2>3. Chained(msg, k + 1, s.state) /\ IsContext(s) /\ s.length = a.length
    BY <1>1, <1>3, <1>4, <1>5, <2>2, CompressTakesBlock DEF Split
  <2> HIDE DEF s
  <2>4. /\ z.state = s.state /\ z.length = (s.length + ByteBits * BlockLen) % LenSize /\ z.curlen = 0
        /\ z.buf = s.buf /\ DOMAIN z = DOMAIN s
    BY <2>3 DEF IsContext
  <2> HIDE DEF z
  <2>5. z.length = (ByteBits * (BlockLen * (k + 1))) % LenSize
    <3> DEFINE x == ByteBits * (BlockLen * k)
               y == ByteBits * BlockLen
    <3>1. x \in Nat /\ y \in Nat
      BY <1>2
    <3>2. ByteBits * (BlockLen * (k + 1)) = x + y
      BY <1>2
    <3>3. s.length = x % LenSize
      BY <1>1, <1>3, <2>3 DEF Split
    <3>4. z.length = (s.length + y) % LenSize
      BY <2>4
    <3> HIDE DEF x, y
    <3>5. ((x % LenSize) + y) % LenSize = (x + y) % LenSize
      BY <1>2, <3>1, RestOfSum
    <3> QED
      BY <3>2, <3>3, <3>4, <3>5
  <2>6. n + 1 = BlockLen * (k + 1) + 0
    BY <1>1, <1>2, <1>3, <1>6 DEF Split
  <2>7. Split(z, msg, n + 1, k + 1)
    BY <1>2, <2>3, <2>4, <2>5, <2>6 DEF Split
  <2>8. IsContext(z)
    BY <2>3, <2>4 DEF IsContext
  <2> QED
    BY <2>1, <2>7, <2>8 DEF Holds
<1>7. CASE a.curlen # BlockLen
  <2>1. AppendByte(m, msg[n + 1]) = a
    BY <1>7 DEF AppendByte, a
  <2>2. a.curlen \in 0 .. BlockLen - 1 /\ 0 .. a.curlen - 1 = 0 .. m.curlen
    BY <1>2, <1>3, <1>7
  <2>3. n + 1 = BlockLen * k + a.curlen
    BY <1>1, <1>2, <1>3 DEF Split
  <2>4. Split(a, msg, n + 1, k)
    BY <1>1, <1>3, <1>4, <2>2, <2>3 DEF Split
  <2> QED
    BY <1>5, <2>1, <2>4 DEF Holds
<1> QED
  BY <1>6, <1>7

\* SM3_process is one byte after the other.
ByteByByte(m, buf, M, g) == g = [ix \in 0 .. M |-> IF ix = 0 THEN m ELSE AppendByte(g[ix-1], buf[ix])]

LEMMA ProcessExists ==
  ASSUME NEW m, NEW buf, NEW M \in Nat
  PROVE  \E g : ByteByByte(m, buf, M, g)
<1> DEFINE S == {h \in Nat : \E g : ByteByByte(m, buf, h, g)}
<1>1. 0 \in S
  <2>1. [ix \in 0 .. 0 |-> m]
        = [ix \in 0 .. 0 |-> IF ix = 0 THEN m ELSE AppendByte([j \in 0 .. 0 |-> m][ix-1], buf[ix])]
    OBVIOUS
  <2> QED
    BY <2>1 DEF ByteByByte
<1>2. ASSUME NEW h \in Nat, h \in S PROVE h + 1 \in S
  <2>1. PICK g : g = [ix \in 0 .. h |-> IF ix = 0 THEN m ELSE AppendByte(g[ix-1], buf[ix])]
    BY <1>2 DEF ByteByByte
  <2> DEFINE f == [ix \in 0 .. h + 1 |-> IF ix = h + 1 THEN AppendByte(g[h], buf[h + 1]) ELSE g[ix]]
  <2>2. f = [ix \in 0 .. h + 1 |-> IF ix = 0 THEN m ELSE AppendByte(f[ix-1], buf[ix])]
    BY <2>1
  <2> HIDE DEF f
  <2> QED
    BY <2>2 DEF ByteByByte
<1>3. Nat \subseteq S
  <2> HIDE DEF S
  <2> QED
    BY <1>1, <1>2, SetInduction
<1> QED
  BY <1>3

LEMMA ProcessHolds ==
  ASSUME NEW m, NEW msg, NEW n \in Nat, Holds(m, msg, n), NEW buf, Len(buf) \in Nat,
         \A ix \in 1 .. Len(buf) : buf[ix] = msg[n + ix]
  PROVE  Holds(SM3_process(m, buf), msg, n + Len(buf))
<1> DEFINE c == CHOOSE g : ByteByByte(m, buf, Len(buf), g)
<1>1. SM3_process(m, buf) = c[Len(buf)]
  BY Zenon DEF SM3_process, ByteByByte
<1>2. \E g : ByteByByte(m, buf, Len(buf), g)
  <2>1. Len(buf) \in Nat
    OBVIOUS
  <2> QED
    BY <2>1, ProcessExists, Zenon
<1>3. c = [ix \in 0 .. Len(buf) |-> IF ix = 0 THEN m ELSE AppendByte(c[ix-1], buf[ix])]
  BY <1>2, Zenon DEF ByteByByte
<1> HIDE DEF c
<1>4. c[0] = m /\ \A ix \in 1 .. Len(buf) : c[ix] = AppendByte(c[ix-1], buf[ix])
  BY <1>3
<1> DEFINE S == {ix \in Nat : ix <= Len(buf) => Holds(c[ix], msg, n + ix)}
<1>5. 0 \in S
  <2>1. n + 0 = n
    OBVIOUS
  <2> QED
    BY <1>4, <2>1
<1>6. ASSUME NEW ix \in Nat, ix \in S PROVE ix + 1 \in S
  <2> SUFFICES ASSUME ix + 1 <= Len(buf) PROVE Holds(c[ix + 1], msg, n + (ix + 1))
    OBVIOUS
  <2>1. ix + 1 \in 1 .. Len(buf) /\ (ix + 1) - 1 = ix /\ n + (ix + 1) = (n + ix) + 1 /\ n + ix \in Nat
    OBVIOUS
  <2>2. Holds(c[ix], msg, n + ix)
    BY <1>6
  <2>3. c[ix + 1] = AppendByte(c[ix], msg[(n + ix) + 1])
    BY <1>4, <2>1
  <2> QED
    BY <2>1, <2>2, <2>3, AppendByteHolds
<1>7. Nat \subseteq S
  <2> HIDE DEF S
  <2> QED
    BY <1>5, <1>6, SetInduction
<1>8. Holds(c[Len(buf)], msg, n + Len(buf))
  BY <1>7
<1> QED
  BY <1>1, <1>8

-----------------------------------------------------------------------------
(* The padding.                                                               *)

\* The blocks from the one with the mark on: the length has its place behind the
\* mark, or in another block.
LastBlocks(c) == IF c + 1 > BlockLen - Field THEN 2 ELSE 1

LEMMA ZerosAre ==
  ASSUME NEW k \in Nat, NEW c \in 0 .. BlockLen - 1, NEW n, n = BlockLen * k + c
  PROVE  (CHOOSE zz \in 0 .. BlockLen - 1 : (n + 1 + zz + Field) % BlockLen = 0)
         = BlockLen * LastBlocks(c) - c - 1 - Field
<1> DEFINE B == BlockLen
           h == k + LastBlocks(c)
           z0 == B * LastBlocks(c) - c - 1 - Field
           z == CHOOSE zz \in 0 .. B - 1 : (n + 1 + zz + Field) % B = 0
<1>1. B \in Nat \ {0} /\ Field \in 0 .. B - 1 /\ n \in Nat /\ c \in 0 .. B - 1
  BY Layout
<1>2. z0 \in 0 .. B - 1 /\ B * LastBlocks(c) = c + 1 + Field + z0 /\ h \in Nat
  BY <1>1 DEF LastBlocks
<1>3. B * h = B * k + B * LastBlocks(c)
  BY <1>1 DEF LastBlocks
<1> HIDE DEF B, z0, h
<1>4. n + 1 + z0 + Field = B * h /\ B * h \in Nat
  BY <1>1, <1>2, <1>3 DEF B
<1>5. (n + 1 + z0 + Field) % B = 0
  BY <1>1, <1>2, <1>4, RestOfMultiple
<1>6. z \in 0 .. B - 1 /\ (n + 1 + z + Field) % B = 0
  BY <1>2, <1>5
<1> HIDE DEF z
<1>7. z = z0
  <2> DEFINE x == n + 1 + z + Field
             q == x \div B
  <2>1. x \in Nat /\ x % B = 0
    BY <1>1, <1>6
  <2>2. x = n + 1 + z + Field
    OBVIOUS
  <2> HIDE DEF x
  <2>3. q \in Nat /\ x = B * q
    BY <1>1, <2>1
  <2> HIDE DEF q
  <2>4. CASE z >= z0
    <3>1. x = B * h + (z - z0) /\ z - z0 \in 0 .. B - 1
      BY <1>1, <1>2, <1>4, <1>6, <2>2, <2>4
    <3>2. x % B = z - z0
      BY <1>1, <1>2, <3>1, Division
    <3> QED
      BY <1>2, <1>6, <2>1, <3>2
  <2>5. CASE z < z0
    <3> DEFINE e == z0 - z
    <3>1. B * h = B * q + e /\ e \in 0 .. B - 1 /\ e > 0
      BY <1>1, <1>2, <1>4, <1>6, <2>2, <2>3, <2>5
    <3> HIDE DEF e
    <3>2. (B * q + e) % B = e
      BY <1>1, <2>3, <3>1, Division
    <3>3. (B * h) % B = 0
      BY <1>1, <1>2, RestOfMultiple
    <3> QED
      BY <3>1, <3>2, <3>3
  <2> QED
    BY <1>2, <1>6, <2>4, <2>5
<1> QED
  BY <1>7 DEF z, z0, B

LEMMA PaddedIs ==
  ASSUME NEW msg \in Seq(Byte), NEW k \in Nat, NEW c \in 0 .. BlockLen - 1, Len(msg) = BlockLen * k + c,
         NEW h, h = k + LastBlocks(c)
  PROVE  /\ Padded(msg) \in Seq(Nat) /\ Len(Padded(msg)) = BlockLen * h
         /\ \A ix \in 1 .. Len(msg) : Padded(msg)[ix] = msg[ix]
         /\ Padded(msg)[Len(msg) + 1] = One
         /\ \A ix \in Len(msg) + 2 .. BlockLen * h - LenBytes : Padded(msg)[ix] = 0
         /\ \A ix \in 1 .. LenBytes : Padded(msg)[BlockLen * h - LenBytes + ix]
                                     = ((ByteBits * Len(msg)) \div Powers[LenBytes - ix]) % ByteValues
<1> DEFINE n == Len(msg)
           z == CHOOSE zz \in 0 .. BlockLen - 1 : (n + 1 + zz + Field) % BlockLen = 0
           Z == z + Field - LenBytes
           zs == [ix \in 1 .. Z |-> 0]
           ls == [ix \in 1 .. LenBytes |-> ((ByteBits * n) \div Powers[LenBytes - ix]) % ByteValues]
           p == Padded(msg)
<1>1. /\ BlockLen \in Nat \ {0} /\ Field \in 0 .. BlockLen - 1 /\ LenBytes \in 0 .. Field /\ n \in Nat
      /\ ByteBits \in Nat /\ ByteValues \in Nat \ {0}
  BY Layout
<1>2. p = ((msg \o <<One>>) \o zs) \o ls
  BY DEF Padded
<1>3. z = BlockLen * LastBlocks(c) - c - 1 - Field
  BY ZerosAre
<1>4. z \in 0 .. BlockLen - 1
  <2> HIDE DEF z
  <2>1. CASE c + 1 > BlockLen - Field
    <3>1. BlockLen * LastBlocks(c) = BlockLen + BlockLen
      BY <1>1, <2>1 DEF LastBlocks
    <3> QED
      BY <1>1, <1>3, <2>1, <3>1
  <2>2. CASE ~(c + 1 > BlockLen - Field)
    <3>1. BlockLen * LastBlocks(c) = BlockLen
      BY <1>1, <2>2 DEF LastBlocks
    <3> QED
      BY <1>1, <1>3, <2>2, <3>1
  <2> QED
    BY <2>1, <2>2
<1>5. BlockLen * h = BlockLen * k + BlockLen * LastBlocks(c)
  BY <1>1 DEF LastBlocks
<1> HIDE DEF z
<1>6. Z \in Nat /\ n + 1 + Z + LenBytes = BlockLen * h /\ LenBytes \in Nat
  BY <1>1, <1>3, <1>4, <1>5 DEF LastBlocks
<1> HIDE DEF Z
<1>7. msg \in Seq(Nat) /\ One \in Nat
  BY <1>1 DEF Byte, One
<1>8. zs \in Seq(Nat) /\ Len(zs) = Z /\ \A ix \in 1 .. Z : zs[ix] = 0
  BY <1>6
<1>9. ls \in Seq(Nat) /\ Len(ls) = LenBytes
  <2>1. \A ix \in 1 .. LenBytes : ((ByteBits * n) \div Powers[LenBytes - ix]) % ByteValues \in Nat
    <3> SUFFICES ASSUME NEW ix \in 1 .. LenBytes
                 PROVE  ((ByteBits * n) \div Powers[LenBytes - ix]) % ByteValues \in Nat
      OBVIOUS
    <3>1. Powers[LenBytes - ix] \in Nat \ {0} /\ ByteBits * n \in Nat
      BY <1>1, PowersPositive
    <3>2. (ByteBits * n) \div Powers[LenBytes - ix] \in Nat
      BY <3>1
    <3> QED
      BY <1>1, <3>2
  <2> QED
    BY <1>6, <2>1
<1>10. \A ix \in 1 .. LenBytes : ls[ix] = ((ByteBits * n) \div Powers[LenBytes - ix]) % ByteValues
  OBVIOUS
<1> HIDE DEF zs, ls, p
<1> DEFINE a == msg \o <<One>>
           b == a \o zs
<1>11. /\ a \in Seq(Nat) /\ Len(a) = n + 1 /\ a[n + 1] = One
       /\ \A ix \in 1 .. n : a[ix] = msg[ix]
  BY <1>7
<1> HIDE DEF a
<1>12. /\ b \in Seq(Nat) /\ Len(b) = n + 1 + Z
       /\ \A ix \in 1 .. n + 1 : b[ix] = a[ix]
       /\ \A ix \in 1 .. Z : b[n + 1 + ix] = 0
  <2>1. b \in Seq(Nat) /\ Len(b) = Len(a) + Len(zs)
    BY <1>8, <1>11, ConcatProperties
  <2>2. \A ix \in 1 .. Len(a) + Len(zs) : b[ix] = IF ix <= Len(a) THEN a[ix] ELSE zs[ix - Len(a)]
    BY <1>8, <1>11, ConcatProperties
  <2> HIDE DEF b
  <2>3. \A ix \in 1 .. n + 1 : b[ix] = a[ix]
    BY <1>1, <1>6, <1>8, <1>11, <2>2
  <2>4. \A ix \in 1 .. Z : b[n + 1 + ix] = 0
    <3> SUFFICES ASSUME NEW ix \in 1 .. Z PROVE b[n + 1 + ix] = 0
      OBVIOUS
    <3>1. n + 1 + ix \in 1 .. Len(a) + Len(zs) /\ ~(n + 1 + ix <= Len(a)) /\ (n + 1 + ix) - Len(a) = ix
      BY <1>1, <1>6, <1>8, <1>11
    <3>2. b[n + 1 + ix] = zs[ix]
      BY <2>2, <3>1
    <3> QED
      BY <1>8, <3>2
  <2> QED
    BY <1>1, <1>6, <1>8, <1>11, <2>1, <2>3, <2>4
<1>13. p = b \o ls
  BY <1>2 DEF a
<1> HIDE DEF b
<1>14. /\ p \in Seq(Nat) /\ Len(p) = BlockLen * h
       /\ \A ix \in 1 .. n + 1 + Z : p[ix] = b[ix]
       /\ \A ix \in 1 .. LenBytes : p[n + 1 + Z + ix] = ls[ix]
  <2>1. p \in Seq(Nat) /\ Len(p) = Len(b) + Len(ls)
    BY <1>9, <1>12, <1>13, ConcatProperties
  <2>2. \A ix \in 1 .. Len(b) + Len(ls) : p[ix] = IF ix <= Len(b) THEN b[ix] ELSE ls[ix - Len(b)]
    BY <1>9, <1>12, <1>13, ConcatProperties
  <2>3. \A ix \in 1 .. n + 1 + Z : p[ix] = b[ix]
    BY <1>1, <1>6, <1>9, <1>12, <2>2
  <2>4. \A ix \in 1 .. LenBytes : p[n + 1 + Z + ix] = ls[ix]
    <3> SUFFICES ASSUME NEW ix \in 1 .. LenBytes PROVE p[n + 1 + Z + ix] = ls[ix]
      OBVIOUS
    <3>1. n + 1 + Z + ix \in 1 .. Len(b) + Len(ls) /\ ~(n + 1 + Z + ix <= Len(b)) /\ (n + 1 + Z + ix) - Len(b) = ix
      BY <1>1, <1>6, <1>9, <1>12
    <3> QED
      BY <2>2, <3>1
  <2> QED
    BY <1>1, <1>6, <1>9, <1>12, <2>1, <2>3, <2>4
<1>15. \A ix \in 1 .. n : p[ix] = msg[ix]
  BY <1>1, <1>6, <1>11, <1>12, <1>14
<1>16. p[n + 1] = One
  <2>1. n + 1 \in 1 .. n + 1 /\ n + 1 \in 1 .. n + 1 + Z
    BY <1>1, <1>6
  <2> QED
    BY <1>11, <1>12, <1>14, <2>1
<1>17. \A ix \in n + 2 .. BlockLen * h - LenBytes : p[ix] = 0
  <2> SUFFICES ASSUME NEW ix \in n + 2 .. BlockLen * h - LenBytes PROVE p[ix] = 0
    OBVIOUS
  <2>1. ix - (n + 1) \in 1 .. Z /\ n + 1 + (ix - (n + 1)) = ix /\ ix \in 1 .. n + 1 + Z
    BY <1>1, <1>6
  <2>2. b[n + 1 + (ix - (n + 1))] = 0
    BY <1>12, <2>1
  <2> QED
    BY <1>14, <2>1, <2>2
<1>18. \A ix \in 1 .. LenBytes : p[BlockLen * h - LenBytes + ix] = ls[ix]
  <2>1. n + 1 + Z = BlockLen * h - LenBytes
    BY <1>1, <1>6
  <2> QED
    BY <1>14, <2>1
<1>19. \A ix \in 1 .. LenBytes : p[BlockLen * h - LenBytes + ix] = ((ByteBits * n) \div Powers[LenBytes - ix]) % ByteValues
  BY <1>10, <1>18
<1> QED
  BY <1>14, <1>15, <1>16, <1>17, <1>19 DEF p

-----------------------------------------------------------------------------
(* SM3_done.                                                                  *)

\* Messages that begin alike give the same chaining values.
LEMMA SamePrefix ==
  ASSUME NEW msg, NEW p, NEW k \in Nat, NEW v, Chained(msg, k, v),
         \A ix \in 1 .. BlockLen * k : p[ix] = msg[ix]
  PROVE  Chained(p, k, v)
<1>1. PICK c : c[0] = FirstValue /\ c[k] = v /\ \A j \in 1 .. k : c[j] = Compress(c[j-1], BlockAt(msg, j))
  BY DEF Chained
<1>2. ASSUME NEW j \in 1 .. k PROVE BlockAt(p, j) = BlockAt(msg, j)
  <2> SUFFICES ASSUME NEW ix \in 1 .. BlockLen
               PROVE  p[BlockLen * (j - 1) + ix] = msg[BlockLen * (j - 1) + ix]
    BY DEF BlockAt
  <2> DEFINE d == k - j
  <2>1. d \in Nat /\ j - 1 \in Nat /\ k = (j - 1) + 1 + d /\ BlockLen \in Nat \ {0}
    BY Layout
  <2> HIDE DEF d
  <2>2. BlockLen * k = BlockLen * (j - 1) + BlockLen + BlockLen * d
    BY <2>1
  <2>3. BlockLen * d \in Nat /\ BlockLen * (j - 1) \in Nat
    BY <2>1
  <2>4. BlockLen * (j - 1) + ix \in 1 .. BlockLen * k
    BY <2>1, <2>2, <2>3
  <2> QED
    BY <2>4
<1>3. \A j \in 1 .. k : c[j] = Compress(c[j-1], BlockAt(p, j))
  BY <1>1, <1>2
<1> QED
  BY <1>1, <1>3 DEF Chained

LEMMA ZeroToIs ==
  ASSUME NEW m, IsContext(m), NEW e
  PROVE  /\ IsContext(ZeroTo(m, e))
         /\ ZeroTo(m, e).state = m.state /\ ZeroTo(m, e).length = m.length
         /\ ZeroTo(m, e).curlen = IF m.curlen < e THEN e ELSE m.curlen
         /\ \A ix \in 0 .. BlockLen - 1 :
              ZeroTo(m, e).buf[ix] = IF m.curlen <= ix /\ ix < e THEN 0 ELSE m.buf[ix]
<1> DEFINE z == ZeroTo(m, e)
<1>1. /\ DOMAIN z = DOMAIN m /\ z.state = m.state /\ z.length = m.length
      /\ z.curlen = IF m.curlen < e THEN e ELSE m.curlen
      /\ z.buf = [ix \in DOMAIN m.buf |-> IF m.curlen <= ix /\ ix < e THEN 0 ELSE m.buf[ix]]
  BY DEF ZeroTo, IsContext
<1> HIDE DEF z
<1>2. DOMAIN z.buf = 0 .. BlockLen - 1
  BY <1>1 DEF IsContext
<1>3. \A ix \in 0 .. BlockLen - 1 : z.buf[ix] = IF m.curlen <= ix /\ ix < e THEN 0 ELSE m.buf[ix]
  BY <1>1 DEF IsContext
<1> QED
  BY <1>1, <1>2, <1>3 DEF IsContext, z

\* A byte of the length.
LEMMA LengthByte ==
  ASSUME NEW x \in Nat, NEW j \in 0 .. LenBytes - 1
  PROVE  ((x % LenSize) \div Powers[j]) % ByteValues = (x \div Powers[j]) % ByteValues
<1>1. PICK c \in Nat \ {0} : LenSize = Powers[j] * (ByteValues * c)
  BY PowersDivide
<1>2. Powers[j] \in Nat \ {0} /\ ByteValues \in Nat \ {0}
  BY Layout, PowersPositive
<1>3. KeepsDigit(x, LenSize, Powers[j], ByteValues)
  BY <1>1, <1>2, DigitOfRest
<1> QED
  BY <1>3 DEF KeepsDigit

\* Up to the length field: h whole blocks of the padded message are compressed,
\* and the buffer holds what comes next, the mark with it.
MarkedOf(s, p, n, h) ==
  /\ IsContext(s) /\ Chained(p, h, s.state) /\ s.curlen \in 0 .. BlockLen - Field
  /\ \A ix \in 0 .. s.curlen - 1 : s.buf[ix] = p[BlockLen * h + ix + 1]
  /\ n + 1 <= BlockLen * h + s.curlen

MarkPut(m) == [m EXCEPT !.buf[m.curlen] = One, !.curlen = @ + 1]
SplitOff(m) == IF Splits(m) THEN [SM3_compress(ZeroTo(m, BlockLen)) EXCEPT !.curlen = 0] ELSE m

LEMMA MarkedIs ==
  ASSUME NEW m, NEW msg \in Seq(Byte), IsContext(m),
         NEW k \in Nat, Split(m, msg, Len(msg), k), NEW len
  PROVE  MarkedOf(SplitOff(MarkPut([m EXCEPT !.length = len])), Padded(msg), Len(msg), k + LastBlocks(m.curlen) - 1)
<1> DEFINE lx == [m EXCEPT !.length = len]
           o == MarkPut(lx)
           s == SplitOff(o)
           p == Padded(msg)
           n == Len(msg)
           c == m.curlen
           at == BlockLen * k
           Kx == LastBlocks(c)
           end == BlockLen * (k + Kx)
<1>1. /\ BlockLen \in Nat \ {0} /\ Field \in 0 .. BlockLen - 1 /\ LenBytes \in 0 .. Field /\ n \in Nat
      /\ c \in 0 .. BlockLen - 1 /\ n = BlockLen * k + c
  BY Layout DEF Split
<1>2. /\ \A ix \in 1 .. n : p[ix] = msg[ix]
      /\ p[n + 1] = One
      /\ \A ix \in n + 2 .. end - LenBytes : p[ix] = 0
  BY <1>1, PaddedIs
<1> HIDE DEF lx, o, s, p, n, c
<1>0. n = at + c /\ at \in Nat /\ at = BlockLen * k
  BY <1>1
<1> HIDE DEF at, Kx, end
<1>4. Chained(p, k, m.state)
  <2>1. \A ix \in 1 .. at : p[ix] = msg[ix]
    BY <1>0, <1>1, <1>2
  <2> QED
    BY <1>0, <2>1, SamePrefix DEF Split
<1>5. /\ o.buf = [m.buf EXCEPT ![c] = One] /\ o.curlen = c + 1 /\ o.state = m.state
      /\ DOMAIN o = DOMAIN m
  <2>1. DOMAIN lx = DOMAIN m /\ lx.buf = m.buf /\ lx.curlen = c /\ lx.state = m.state
    BY DEF IsContext, c, lx
  <2> QED
    BY <2>1 DEF o, MarkPut, IsContext
<1>6. IsContext(o)
  BY <1>5 DEF IsContext
<1>7. \A ix \in 0 .. c : o.buf[ix] = p[at + ix + 1]
  <2> SUFFICES ASSUME NEW ix \in 0 .. c PROVE o.buf[ix] = p[at + ix + 1]
    OBVIOUS
  <2>1. DOMAIN m.buf = 0 .. BlockLen - 1 /\ ix \in 0 .. BlockLen - 1
    BY <1>1 DEF IsContext
  <2>2. CASE ix = c
    <3>1. at + ix + 1 = n + 1
      BY <1>0, <1>1, <2>2
    <3>2. o.buf[c] = One
      BY <1>5, <2>1, <2>2
    <3> QED
      BY <1>2, <2>2, <3>1, <3>2
  <2>3. CASE ix # c
    <3>1. ix \in 0 .. c - 1 /\ at + ix + 1 \in 1 .. n
      BY <1>0, <1>1, <2>3
    <3>2. m.buf[ix] = msg[at + ix + 1]
      BY <1>0, <3>1 DEF Split, c
    <3> QED
      BY <1>2, <1>5, <2>1, <2>3, <3>1, <3>2
  <2> QED
    BY <2>2, <2>3
<1>8. CASE Splits(o)
  <2> DEFINE t == ZeroTo(o, BlockLen)
             u == SM3_compress(t)
  <2>1. c + 1 > BlockLen - Field /\ Kx = 2
    BY <1>5, <1>8 DEF Splits, LastBlocks, Kx
  <2>2. end = at + BlockLen + BlockLen /\ BlockLen * (k + 1) = at + BlockLen
    <3>1. end = BlockLen * (k + 2)
      BY <2>1 DEF end
    <3>2. BlockLen * (k + 2) = BlockLen * k + BlockLen + BlockLen /\ BlockLen * (k + 1) = BlockLen * k + BlockLen
      BY <1>1
    <3> QED
      BY <1>0, <3>1, <3>2
  <2>3. /\ IsContext(t) /\ t.state = o.state
        /\ \A ix \in 0 .. BlockLen - 1 : t.buf[ix] = IF o.curlen <= ix /\ ix < BlockLen THEN 0 ELSE o.buf[ix]
    BY <1>6, ZeroToIs
  <2> HIDE DEF t
  <2>4. \A ix \in 0 .. BlockLen - 1 : t.buf[ix] = p[at + ix + 1]
    <3> SUFFICES ASSUME NEW ix \in 0 .. BlockLen - 1 PROVE t.buf[ix] = p[at + ix + 1]
      OBVIOUS
    <3>1. CASE c + 1 <= ix
      <4>1. at + ix + 1 \in n + 2 .. end - LenBytes
        BY <1>1, <1>0, <2>2, <3>1
      <4>2. t.buf[ix] = 0
        BY <1>1, <1>5, <2>3, <3>1
      <4> QED
        BY <1>2, <4>1, <4>2
    <3>2. CASE ~(c + 1 <= ix)
      <4>1. ix \in 0 .. c /\ ~(o.curlen <= ix)
        BY <1>1, <1>5, <3>2
      <4> QED
        BY <1>7, <2>3, <4>1
    <3> QED
      BY <3>1, <3>2
  <2>5. Chained(p, k + 1, u.state) /\ IsContext(u)
    BY <1>0, <1>4, <1>5, <2>3, <2>4, CompressTakesBlock
  <2> HIDE DEF u
  <2>6. s = [u EXCEPT !.curlen = 0]
    BY <1>8 DEF s, SplitOff, t, u
  <2>7. s.state = u.state /\ s.curlen = 0 /\ s.buf = u.buf /\ DOMAIN s = DOMAIN u
    BY <2>5, <2>6 DEF IsContext
  <2>8. IsContext(s)
    BY <2>5, <2>7 DEF IsContext
  <2>9. n + 1 <= BlockLen * (k + 1) + 0
    BY <1>1, <1>0, <2>2
  <2>10. k + Kx - 1 = k + 1
    BY <2>1
  <2>11. s.curlen \in 0 .. BlockLen - Field
    BY <1>1, <2>7
  <2>12. MarkedOf(s, p, n, k + 1)
    BY <2>5, <2>7, <2>8, <2>9, <2>11 DEF MarkedOf
  <2> QED
    BY <2>10, <2>12 DEF p, n, c, Kx, s, o, lx
<1>9. CASE ~Splits(o)
  <2>1. c + 1 <= BlockLen - Field /\ Kx = 1
    BY <1>1, <1>5, <1>9 DEF Splits, LastBlocks, Kx
  <2>2. s = o
    BY <1>9 DEF s, SplitOff
  <2>3. k + Kx - 1 = k
    BY <2>1
  <2>4. s.curlen \in 0 .. BlockLen - Field /\ n + 1 <= at + s.curlen /\ 0 .. s.curlen - 1 = 0 .. c
    <3>1. s.curlen = c + 1 /\ (c + 1) - 1 = c
      BY <1>1, <1>5, <2>2
    <3>2. c + 1 \in 0 .. BlockLen - Field /\ n + 1 <= at + (c + 1)
      BY <1>0, <1>1, <2>1
    <3> QED
      BY <3>1, <3>2
  <2>5. MarkedOf(s, p, n, k)
    BY <1>0, <1>4, <1>5, <1>6, <1>7, <2>2, <2>4 DEF MarkedOf
  <2> QED
    BY <2>3, <2>5 DEF p, n, c, Kx, s, o, lx
<1> QED
  BY <1>8, <1>9

\* The last block: zeros up to the length field, and the length in it.
LengthPut(m, x) ==
  [m EXCEPT !.buf = [ix \in DOMAIN @ |->
     IF ix < BlockLen - Field THEN @[ix]
     ELSE IF ix < BlockLen - LenBytes THEN 0
     ELSE (x \div Powers[BlockLen - 1 - ix]) % ByteValues]]

LEMMA DoneHolds ==
  ASSUME NEW m, NEW msg \in Seq(Byte), Holds(m, msg, Len(msg))
  PROVE  /\ IsContext(SM3_done(m))
         /\ \E h \in Nat : /\ Len(Padded(msg)) = BlockLen * h /\ Padded(msg) \in Seq(Nat)
                           /\ Chained(Padded(msg), h, SM3_done(m).state)
<1>1. IsContext(m)
  BY DEF Holds
<1>2. PICK k \in Nat : Split(m, msg, Len(msg), k)
  BY DEF Holds
<1> DEFINE p == Padded(msg)
           n == Len(msg)
           c == m.curlen
           len == (m.length + ByteBits * m.curlen) % LenSize
           lx == [m EXCEPT !.length = len]
           s == SplitOff(MarkPut(lx))
           z == ZeroTo(s, BlockLen - Field)
           f == LengthPut(z, lx.length)
           Kx == LastBlocks(c)
           h == k + Kx - 1
           at == BlockLen * h
<1>3. /\ BlockLen \in Nat \ {0} /\ Field \in 0 .. BlockLen - 1 /\ LenBytes \in 0 .. Field /\ n \in Nat
      /\ c \in 0 .. BlockLen - 1 /\ n = BlockLen * k + c /\ LenSize \in Nat \ {0} /\ ByteBits \in Nat
  BY <1>2, Layout, PowersPositive DEF Split, LenSize
<1>4. SM3_done(m) = SM3_compress(f)
  BY Zenon DEF SM3_done, LengthPut, MarkPut, SplitOff
<1>5. MarkedOf(s, p, n, h)
  BY <1>1, <1>2, MarkedIs
<1>6. h \in Nat /\ h + 1 = k + Kx
  BY <1>3 DEF LastBlocks
<1>7. /\ p \in Seq(Nat) /\ Len(p) = BlockLen * (h + 1)
      /\ \A ix \in n + 2 .. BlockLen * (h + 1) - LenBytes : p[ix] = 0
      /\ \A ix \in 1 .. LenBytes : p[BlockLen * (h + 1) - LenBytes + ix]
                                  = ((ByteBits * n) \div Powers[LenBytes - ix]) % ByteValues
  <2> DEFINE e == k + Kx
  <2>1. e = k + LastBlocks(m.curlen)
    OBVIOUS
  <2>2. m.curlen \in 0 .. BlockLen - 1 /\ Len(msg) = BlockLen * k + m.curlen
    BY <1>3
  <2> HIDE DEF e
  <2>3. /\ p \in Seq(Nat) /\ Len(p) = BlockLen * e
        /\ \A ix \in n + 2 .. BlockLen * e - LenBytes : p[ix] = 0
        /\ \A ix \in 1 .. LenBytes : p[BlockLen * e - LenBytes + ix]
                                    = ((ByteBits * n) \div Powers[LenBytes - ix]) % ByteValues
    BY <2>1, <2>2, PaddedIs
  <2>4. e = h + 1
    BY <1>6 DEF e
  <2> QED
    BY <2>3, <2>4
<1>8. lx.length = (ByteBits * n) % LenSize
  <2> DEFINE x == ByteBits * (BlockLen * k)
             y == ByteBits * c
  <2>1. x \in Nat /\ y \in Nat /\ ByteBits * n = x + y
    <3>1. BlockLen * k \in Nat /\ ByteBits * (BlockLen * k + c) = ByteBits * (BlockLen * k) + ByteBits * c
      BY <1>3
    <3>2. ByteBits * (BlockLen * k) \in Nat /\ ByteBits * c \in Nat
      BY <1>3, <3>1
    <3> HIDE DEF n, c
    <3> QED
      BY <1>3, <3>1, <3>2
  <2>2. m.length = x % LenSize
    BY <1>2 DEF Split
  <2>3. lx.length = (m.length + y) % LenSize
    BY <1>1 DEF IsContext
  <2> HIDE DEF x, y, lx
  <2>4. ((x % LenSize) + y) % LenSize = (x + y) % LenSize
    BY <1>3, <2>1, RestOfSum
  <2> QED
    BY <2>1, <2>2, <2>3, <2>4
<1> HIDE DEF p, n, c, len, lx, s, Kx, h
<1>9. /\ IsContext(s) /\ Chained(p, h, s.state) /\ s.curlen \in 0 .. BlockLen - Field
      /\ \A ix \in 0 .. s.curlen - 1 : s.buf[ix] = p[at + ix + 1]
      /\ n + 1 <= at + s.curlen
  BY <1>5 DEF MarkedOf
<1>10. at \in Nat /\ BlockLen * (h + 1) = at + BlockLen
  BY <1>3, <1>6
<1> HIDE DEF at
<1>11. /\ IsContext(z) /\ z.state = s.state
       /\ \A ix \in 0 .. BlockLen - 1 :
            z.buf[ix] = IF s.curlen <= ix /\ ix < BlockLen - Field THEN 0 ELSE s.buf[ix]
  BY <1>9, ZeroToIs
<1> HIDE DEF z
<1>12. \A ix \in 0 .. BlockLen - Field - 1 : z.buf[ix] = p[at + ix + 1]
  <2> SUFFICES ASSUME NEW ix \in 0 .. BlockLen - Field - 1 PROVE z.buf[ix] = p[at + ix + 1]
    OBVIOUS
  <2>1. ix \in 0 .. BlockLen - 1 /\ ix < BlockLen - Field
    BY <1>3
  <2>2. CASE s.curlen <= ix
    <3>1. at + ix + 1 \in n + 2 .. BlockLen * (h + 1) - LenBytes
      <4>1. /\ n \in Nat /\ LenBytes \in Nat /\ BlockLen \in Nat /\ Field \in Nat /\ LenBytes <= Field
            /\ ix \in Nat /\ s.curlen \in Nat /\ n + 1 <= at + s.curlen /\ at \in Nat
        BY <1>3, <1>9, <1>10, <2>1, LayoutAssumption
      <4>2. ix + 1 <= BlockLen - LenBytes /\ n + 2 <= at + ix + 1
        BY <2>1, <2>2, <4>1
      <4>3. n + 2 <= at + ix + 1 /\ at + ix + 1 <= at + BlockLen - LenBytes
        BY <4>1, <4>2
      <4> QED
        BY <1>10, <4>1, <4>3
    <3> QED
      BY <1>7, <1>11, <2>1, <2>2, <3>1
  <2>3. CASE ~(s.curlen <= ix)
    <3>1. ix \in 0 .. s.curlen - 1
      BY <1>9, <2>1, <2>3
    <3> QED
      BY <1>9, <1>11, <2>1, <2>3, <3>1
  <2> QED
    BY <2>2, <2>3
<1>13. /\ DOMAIN f = DOMAIN z /\ f.state = z.state
       /\ f.buf = [ix \in DOMAIN z.buf |->
            IF ix < BlockLen - Field THEN z.buf[ix]
            ELSE IF ix < BlockLen - LenBytes THEN 0
            ELSE (lx.length \div Powers[BlockLen - 1 - ix]) % ByteValues]
  BY <1>11 DEF LengthPut, IsContext
<1> HIDE DEF f
<1>14. IsContext(f)
  BY <1>11, <1>13 DEF IsContext
<1>15. \A ix \in 0 .. BlockLen - 1 : f.buf[ix] = p[at + ix + 1]
  <2> SUFFICES ASSUME NEW ix \in 0 .. BlockLen - 1 PROVE f.buf[ix] = p[at + ix + 1]
    OBVIOUS
  <2>1. ix \in DOMAIN z.buf
    BY <1>11 DEF IsContext
  <2>2. CASE ix < BlockLen - Field
    <3>1. ix \in 0 .. BlockLen - Field - 1
      BY <1>3, <2>2
    <3>2. f.buf[ix] = z.buf[ix]
      BY <1>13, <2>1, <2>2
    <3> QED
      BY <1>12, <3>1, <3>2
  <2>3. CASE ix >= BlockLen - Field /\ ix < BlockLen - LenBytes
    <3>1. at + ix + 1 \in n + 2 .. BlockLen * (h + 1) - LenBytes
      BY <1>3, <1>9, <1>10, <2>3
    <3>2. ~(ix < BlockLen - Field)
      BY <1>3, <2>3
    <3>3. f.buf[ix] = 0
      BY <1>13, <2>1, <2>3, <3>2
    <3> QED
      BY <1>7, <3>1, <3>3
  <2>4. CASE ix >= BlockLen - LenBytes
    <3> DEFINE j == BlockLen - 1 - ix
               x == ByteBits * n
    <3>1. j \in 0 .. LenBytes - 1 /\ x \in Nat
      BY <1>3, <2>4
    <3>2. ~(ix < BlockLen - Field) /\ ~(ix < BlockLen - LenBytes)
      BY <1>3, <2>4
    <3>3. f.buf[ix] = (lx.length \div Powers[j]) % ByteValues
      BY <1>13, <2>1, <3>2
    <3>4. /\ LenBytes - j \in 1 .. LenBytes /\ LenBytes - (LenBytes - j) = j
          /\ BlockLen * (h + 1) - LenBytes + (LenBytes - j) = at + ix + 1
      BY <1>3, <1>10, <2>4
    <3> HIDE DEF j, x
    <3>5. p[at + ix + 1] = (x \div Powers[j]) % ByteValues
      BY <1>7, <3>4 DEF x
    <3>6. lx.length = x % LenSize
      BY <1>8 DEF x
    <3> QED
      BY <3>1, <3>3, <3>5, <3>6, LengthByte
  <2> QED
    BY <1>3, <2>2, <2>3, <2>4
<1>16. Chained(p, h + 1, SM3_compress(f).state) /\ IsContext(SM3_compress(f))
  <2>1. Chained(p, h, f.state)
    BY <1>9, <1>11, <1>13
  <2>2. \A ix \in 0 .. BlockLen - 1 : f.buf[ix] = p[BlockLen * h + ix + 1]
    BY <1>15 DEF at
  <2> QED
    BY <1>6, <1>14, <2>1, <2>2, CompressTakesBlock
<1>17. h + 1 \in Nat
  BY <1>6
<1> QED
  BY <1>4, <1>7, <1>16, <1>17 DEF p

-----------------------------------------------------------------------------
(* The digest.                                                                *)

ChainOver(p, M, g) == g = [k \in 0 .. M |-> IF k = 0 THEN FirstValue
                                        ELSE Compress(g[k-1], SubSeq(p, (k-1) * BlockLen + 1, k * BlockLen))]

LEMMA ChainExists ==
  ASSUME NEW p, NEW M \in Nat
  PROVE  \E g : ChainOver(p, M, g)
<1> DEFINE S == {n \in Nat : \E g : ChainOver(p, n, g)}
           block(k) == SubSeq(p, (k-1) * BlockLen + 1, k * BlockLen)
<1>1. 0 \in S
  <2>1. [k \in 0 .. 0 |-> FirstValue]
        = [k \in 0 .. 0 |-> IF k = 0 THEN FirstValue ELSE Compress([j \in 0 .. 0 |-> FirstValue][k-1], block(k))]
    OBVIOUS
  <2> QED
    BY <2>1 DEF ChainOver
<1>2. ASSUME NEW n \in Nat, n \in S PROVE n + 1 \in S
  <2>1. PICK g : g = [k \in 0 .. n |-> IF k = 0 THEN FirstValue ELSE Compress(g[k-1], block(k))]
    BY <1>2 DEF ChainOver
  <2> HIDE DEF block
  <2> DEFINE h == [k \in 0 .. n + 1 |-> IF k = n + 1 THEN Compress(g[n], block(n + 1)) ELSE g[k]]
  <2>2. h = [k \in 0 .. n + 1 |-> IF k = 0 THEN FirstValue ELSE Compress(h[k-1], block(k))]
    BY <2>1
  <2> HIDE DEF h
  <2> QED
    BY <2>2 DEF ChainOver, block
<1>3. Nat \subseteq S
  <2> HIDE DEF S
  <2> QED
    BY <1>1, <1>2, SetInduction
<1> QED
  BY <1>3

LEMMA BlockIs ==
  ASSUME NEW p \in Seq(Nat), NEW Kx \in Nat, Len(p) = BlockLen * Kx, NEW j \in 1 .. Kx
  PROVE  SubSeq(p, (j-1) * BlockLen + 1, j * BlockLen) = BlockAt(p, j)
<1> DEFINE at == BlockLen * (j - 1)
           d == Kx - j
<1>1. d \in Nat /\ j - 1 \in Nat /\ Kx = (j - 1) + 1 + d /\ BlockLen \in Nat \ {0}
  BY Layout
<1> HIDE DEF d
<1>2. at \in Nat /\ BlockLen * d \in Nat /\ BlockLen * Kx = at + BlockLen + BlockLen * d
  BY <1>1
<1>3. (j-1) * BlockLen + 1 = at + 1 /\ j * BlockLen = at + BlockLen
  BY <1>1
<1>4. Len(p) >= at + BlockLen
  BY <1>1, <1>2
<1> HIDE DEF at
<1>5. SubSeq(p, at + 1, at + BlockLen) = [ix \in 1 .. BlockLen |-> p[at + ix]]
  <2> DEFINE q == SubSeq(p, at + 1, at + BlockLen)
  <2>1. at + 1 \in Int /\ at + BlockLen \in Int /\ at + 1 <= at + BlockLen /\ (at + BlockLen) - (at + 1) + 1 = BlockLen
    BY <1>1, <1>2
  <2>2. \A ix \in at + 1 .. at + BlockLen : p[ix] \in Nat
    BY <1>1, <1>2, <1>4
  <2>3. /\ q \in Seq(Nat) /\ Len(q) = BlockLen
        /\ \A ix \in 1 .. BlockLen : q[ix] = p[(at + 1) + ix - 1]
    BY <2>1, <2>2, SubSeqProperties
  <2> HIDE DEF q
  <2>4. \A ix \in 1 .. BlockLen : q[ix] = p[at + ix]
    <3> SUFFICES ASSUME NEW ix \in 1 .. BlockLen PROVE q[ix] = p[at + ix]
      OBVIOUS
    <3>1. (at + 1) + ix - 1 = at + ix
      BY <1>1, <1>2
    <3> QED
      BY <2>3, <3>1
  <2>5. q \in [1 .. BlockLen -> Nat]
    BY <2>3
  <2>6. q = [ix \in 1 .. BlockLen |-> p[at + ix]]
    BY <2>4, <2>5
  <2> QED
    BY <2>6 DEF q
<1> QED
  BY <1>3, <1>5 DEF BlockAt, at

LEMMA DigestIs ==
  ASSUME NEW msg, NEW v, NEW Kx \in Nat, Padded(msg) \in Seq(Nat), Len(Padded(msg)) = BlockLen * Kx,
         Chained(Padded(msg), Kx, v)
  PROVE  Digest(msg) = BytesOf(v)
<1> DEFINE p == Padded(msg)
           M == Len(p) \div BlockLen
           c == CHOOSE g : ChainOver(p, M, g)
<1>1. Digest(msg) = BytesOf(c[M])
  BY Zenon DEF Digest, ChainOver
<1>2. M = Kx
  BY RestOfMultiple, Layout
<1>3. PICK e : e[0] = FirstValue /\ e[Kx] = v /\ \A j \in 1 .. Kx : e[j] = Compress(e[j-1], BlockAt(p, j))
  BY DEF Chained
<1> HIDE DEF M
<1>4. ChainOver(p, Kx, c)
  BY <1>2, ChainExists, Zenon
<1> HIDE DEF c
<1>5. c[0] = FirstValue /\ \A j \in 1 .. Kx : c[j] = Compress(c[j-1], SubSeq(p, (j-1) * BlockLen + 1, j * BlockLen))
  <2>1. c = [k \in 0 .. Kx |-> IF k = 0 THEN FirstValue ELSE Compress(c[k-1], SubSeq(p, (k-1) * BlockLen + 1, k * BlockLen))]
    BY <1>4, Zenon DEF ChainOver
  <2> HIDE DEF p
  <2> DEFINE block(k) == SubSeq(p, (k-1) * BlockLen + 1, k * BlockLen)
  <2>2. c = [k \in 0 .. Kx |-> IF k = 0 THEN FirstValue ELSE Compress(c[k-1], block(k))]
    BY <2>1
  <2> HIDE DEF block
  <2>3. c[0] = FirstValue /\ \A j \in 1 .. Kx : c[j] = Compress(c[j-1], block(j))
    BY <2>2
  <2> QED
    BY <2>3 DEF block
<1>6. \A j \in 1 .. Kx : c[j] = Compress(c[j-1], BlockAt(p, j))
  BY <1>5, BlockIs
<1> HIDE DEF p
<1> DEFINE S == {j \in Nat : j <= Kx => c[j] = e[j]}
<1>7. 0 \in S
  BY <1>3, <1>5
<1>8. ASSUME NEW j \in Nat, j \in S PROVE j + 1 \in S
  <2> SUFFICES ASSUME j + 1 <= Kx PROVE c[j + 1] = e[j + 1]
    OBVIOUS
  <2>1. j + 1 \in 1 .. Kx /\ (j + 1) - 1 = j /\ c[j] = e[j]
    BY <1>8
  <2> QED
    BY <1>3, <1>6, <2>1
<1>9. Nat \subseteq S
  <2> HIDE DEF S
  <2> QED
    BY <1>7, <1>8, SetInduction
<1>10. c[Kx] = e[Kx]
  BY <1>9
<1> QED
  BY <1>1, <1>2, <1>3, <1>10

-----------------------------------------------------------------------------
\* A context that is open holds what its caller has put in.
StreamInv == /\ absorbed \in Seq(Byte) /\ IsContext(md)
             /\ open => Holds(md, absorbed, Len(absorbed))

LEMMA StartHolds == ASSUME NEW m, IsContext(m) PROVE IsContext(SM3_init(m)) /\ Holds(SM3_init(m), <<>>, 0)
<1> DEFINE z == SM3_init(m)
<1>1. DOMAIN z = DOMAIN m /\ z.state = FirstValue /\ z.length = 0 /\ z.curlen = 0 /\ z.buf = m.buf
  BY DEF SM3_init, IsContext
<1> HIDE DEF z
<1>2. IsContext(z)
  BY <1>1 DEF IsContext
<1>3. LenSize \in Nat \ {0} /\ BlockLen \in Nat \ {0} /\ ByteBits \in Nat
  BY Layout, PowersPositive DEF LenSize
<1>4. (ByteBits * (BlockLen * 0)) % LenSize = 0
  <2>1. ByteBits * (BlockLen * 0) = LenSize * 0
    BY <1>3
  <2> QED
    BY <1>3, <2>1, RestOfMultiple
<1>5. 0 = BlockLen * 0 + 0
  BY <1>3
<1>6. Split(z, <<>>, 0, 0)
  BY <1>1, <1>3, <1>4, <1>5, NoBlock DEF Split
<1> QED
  BY <1>2, <1>6 DEF Holds, z

\* A longer message keeps what was taken in of it.
LEMMA LongerMessage ==
  ASSUME NEW m, NEW msg, NEW p, NEW n \in Nat, Holds(m, msg, n), \A ix \in 1 .. n : p[ix] = msg[ix]
  PROVE  Holds(m, p, n)
<1>1. PICK k \in Nat : Split(m, msg, n, k)
  BY DEF Holds
<1> DEFINE at == BlockLen * k
<1>2. at \in Nat /\ m.curlen \in Nat /\ n = at + m.curlen
  BY <1>1, Layout DEF Split
<1> HIDE DEF at
<1>3. \A ix \in 1 .. BlockLen * k : p[ix] = msg[ix]
  BY <1>2 DEF at
<1>4. Chained(p, k, m.state)
  BY <1>1, <1>3, SamePrefix DEF Split
<1>5. \A ix \in 0 .. m.curlen - 1 : m.buf[ix] = p[BlockLen * k + ix + 1]
  <2> SUFFICES ASSUME NEW ix \in 0 .. m.curlen - 1 PROVE m.buf[ix] = p[at + ix + 1]
    BY DEF at
  <2>1. m.buf[ix] = msg[at + ix + 1]
    BY <1>1 DEF Split, at
  <2>2. at + ix + 1 \in 1 .. n
    BY <1>2
  <2> QED
    BY <2>1, <2>2
<1>6. Split(m, p, n, k)
  BY <1>1, <1>4, <1>5 DEF Split
<1> QED
  BY <1>6 DEF Holds

LEMMA StreamInitInv == StreamInit => StreamInv
<1> SUFFICES ASSUME StreamInit PROVE StreamInv
  OBVIOUS
<1>1. absorbed = <<>> /\ open = FALSE
  BY DEF StreamInit
<1>2. IsContext(md)
  BY DEF StreamInit, IsContext
<1> QED
  BY <1>1, <1>2 DEF StreamInv

\* Every step is one of the abstract hash, and keeps the invariant.
LEMMA StartImplements == StreamInv /\ Start => StreamInv' /\ Hashing!Start
<1> SUFFICES ASSUME StreamInv, Start PROVE StreamInv' /\ Hashing!Start
  OBVIOUS
<1>1. md' = SM3_init(md) /\ absorbed' = <<>> /\ open' = TRUE
  BY DEF Start
<1>2. IsContext(md') /\ Holds(md', <<>>, 0)
  BY <1>1, StartHolds DEF StreamInv
<1>3. absorbed' \in Seq(Byte) /\ Len(absorbed') = 0
  BY <1>1
<1>4. StreamInv'
  BY <1>1, <1>2, <1>3 DEF StreamInv
<1> QED
  BY <1>4 DEF Start, Hashing!Start

LEMMA ProcessImplements ==
  ASSUME StreamInv, NEW buf \in Pieces, Process(buf)
  PROVE  StreamInv' /\ Hashing!Absorb
<1>1. /\ open /\ md' = SM3_process(md, buf) /\ absorbed' = absorbed \o buf /\ UNCHANGED <<open, hash>>
  BY DEF Process
<1>2. absorbed \in Seq(Byte) /\ buf \in Seq(Byte) /\ Holds(md, absorbed, Len(absorbed))
  BY <1>1, PiecesAssumption DEF StreamInv
<1>3. /\ absorbed' \in Seq(Byte) /\ Len(absorbed') = Len(absorbed) + Len(buf)
      /\ Len(absorbed) \in Nat /\ Len(buf) \in Nat
      /\ \A ix \in 1 .. Len(absorbed) : absorbed'[ix] = absorbed[ix]
      /\ \A ix \in 1 .. Len(buf) : buf[ix] = absorbed'[Len(absorbed) + ix]
  BY <1>1, <1>2
<1>4. Holds(md, absorbed', Len(absorbed))
  BY <1>2, <1>3, LongerMessage
<1>5. Holds(md', absorbed', Len(absorbed) + Len(buf))
  BY <1>1, <1>3, <1>4, ProcessHolds
<1>6. StreamInv'
  BY <1>3, <1>5 DEF StreamInv, Holds
<1>7. SubSeq(absorbed', 1, Len(absorbed)) = absorbed
  BY <1>2, <1>3
<1>8. Len(absorbed') >= Len(absorbed)
  BY <1>3
<1> QED
  BY <1>1, <1>3, <1>6, <1>7, <1>8 DEF Hashing!Absorb

LEMMA DoneImplements == StreamInv /\ Done => StreamInv' /\ Hashing!Finish
<1> SUFFICES ASSUME StreamInv, Done PROVE StreamInv' /\ Hashing!Finish
  OBVIOUS
<1>1. open /\ md' = SM3_done(md) /\ hash' = BytesOf(md'.state) /\ open' = FALSE /\ UNCHANGED absorbed
  BY DEF Done
<1>2. absorbed \in Seq(Byte) /\ Holds(md, absorbed, Len(absorbed))
  BY <1>1 DEF StreamInv
<1>3. IsContext(md')
  BY <1>1, <1>2, DoneHolds
<1>4. PICK h \in Nat : /\ Len(Padded(absorbed)) = BlockLen * h /\ Padded(absorbed) \in Seq(Nat)
                       /\ Chained(Padded(absorbed), h, md'.state)
  BY <1>1, <1>2, DoneHolds
<1>5. Digest(absorbed) = BytesOf(md'.state)
  BY <1>4, DigestIs
<1>6. StreamInv'
  BY <1>1, <1>2, <1>3 DEF StreamInv
<1> QED
  BY <1>1, <1>5, <1>6 DEF Hashing!Finish

LEMMA StreamStep == StreamInv /\ [StreamNext]_streamVars => StreamInv' /\ [Hashing!Next]_<<absorbed, open, hash>>
<1> SUFFICES ASSUME StreamInv, [StreamNext]_streamVars
             PROVE  StreamInv' /\ [Hashing!Next]_<<absorbed, open, hash>>
  OBVIOUS
<1>1. CASE Start
  BY <1>1, StartImplements DEF Hashing!Next
<1>2. ASSUME NEW buf \in Pieces, Process(buf) PROVE StreamInv' /\ Hashing!Next
  BY <1>2, ProcessImplements DEF Hashing!Next
<1>3. CASE Done
  BY <1>3, DoneImplements DEF Hashing!Next
<1>4. CASE UNCHANGED streamVars
  BY <1>4 DEF streamVars, StreamInv, Holds, Split, IsContext, Chained
<1> QED
  BY <1>1, <1>2, <1>3, <1>4 DEF StreamNext

\* SM3.c: for every message and every cut of it into calls of SM3_process, what
\* SM3_done gives is the digest of the padded message, block after block.
THEOREM ImplementsDigestCorrect == StreamSpec => ImplementsDigest
<1>1. StreamInit => Hashing!Init
  BY DEF StreamInit, Hashing!Init
<1> QED
  BY <1>1, StreamInitInv, StreamStep, PTL DEF StreamSpec, ImplementsDigest, Hashing!Spec

-----------------------------------------------------------------------------
(* Multiples of a point.                                                      *)

IsRow(m, n, P) == m = [ix \in 0 .. n |-> IF ix = 0 THEN Group!O ELSE Group!Sum(m[ix-1], P)]

\* The row of multiples of a point exists for every length.
LEMMA RowExists ==
  ASSUME NEW P, NEW n \in Nat
  PROVE  \E m : IsRow(m, n, P)
<1> DEFINE S == {k \in Nat : \E m : IsRow(m, k, P)}
<1>1. 0 \in S
  <2>1. IsRow([ix \in 0 .. 0 |-> Group!O], 0, P)
    BY DEF IsRow
  <2> QED
    BY <2>1
<1>2. ASSUME NEW k \in Nat, k \in S PROVE k + 1 \in S
  <2>1. PICK m : IsRow(m, k, P)
    BY <1>2
  <2> DEFINE lx == [ix \in 0 .. k + 1 |-> IF ix = k + 1 THEN Group!Sum(m[k], P) ELSE m[ix]]
  <2>2. IsRow(lx, k + 1, P)
    BY <2>1 DEF IsRow
  <2> HIDE DEF lx
  <2> QED
    BY <2>2
<1>3. Nat \subseteq S
  <2> HIDE DEF S
  <2> QED
    BY <1>1, <1>2, SetInduction
<1> QED
  BY <1>3

\* Rows of different lengths agree.
LEMMA RowsAgree ==
  ASSUME NEW P, NEW n \in Nat, NEW m, NEW lx, IsRow(m, n, P), IsRow(lx, n + 1, P)
  PROVE  m[n] = lx[n]
<1> DEFINE S == {k \in Nat : k <= n => m[k] = lx[k]}
<1>1. 0 \in S
  BY DEF IsRow
<1>2. ASSUME NEW k \in Nat, k \in S PROVE k + 1 \in S
  <2> SUFFICES ASSUME k + 1 <= n PROVE m[k+1] = lx[k+1]
    OBVIOUS
  <2>1. m[k] = lx[k]
    BY <1>2
  <2>2. m[k+1] = Group!Sum(m[k], P) /\ lx[k+1] = Group!Sum(lx[k], P)
    BY DEF IsRow
  <2> QED
    BY <2>1, <2>2
<1>3. Nat \subseteq S
  <2> HIDE DEF S
  <2> QED
    BY <1>1, <1>2, SetInduction
<1> QED
  BY <1>3

LEMMA RepeatedIs ==
  ASSUME NEW P, NEW n \in Nat
  PROVE  \E m : IsRow(m, n, P) /\ Group!Repeated(n, P) = m[n]
<1> DEFINE c == CHOOSE m : IsRow(m, n, P)
<1>1. Group!Repeated(n, P) = c[n]
  BY Zenon DEF Group!Repeated, IsRow
<1>2. IsRow(c, n, P)
  BY RowExists, Zenon
<1> QED
  BY <1>1, <1>2

\* A multiple is one point more than the one before.
LEMMA MultipleIs ==
  ASSUME NEW P, NEW k \in Nat
  PROVE  /\ Group!Multiple(0, P) = Group!O
         /\ Group!Multiple(k + 1, P) = Group!Sum(Group!Multiple(k, P), P)
<1>1. \A n \in Nat : Group!Multiple(n, P) = Group!Repeated(n, P)
  BY DEF Group!Multiple
<1>2. PICK o : IsRow(o, 0, P) /\ Group!Repeated(0, P) = o[0]
  BY RepeatedIs
<1>3. PICK m : IsRow(m, k, P) /\ Group!Repeated(k, P) = m[k]
  BY RepeatedIs
<1>4. PICK lx : IsRow(lx, k + 1, P) /\ Group!Repeated(k + 1, P) = lx[k + 1]
  BY RepeatedIs
<1>5. o[0] = Group!O
  BY <1>2 DEF IsRow
<1>6. m[k] = lx[k]
  BY <1>3, <1>4, RowsAgree
<1>7. lx[k + 1] = Group!Sum(lx[k], P)
  BY <1>4 DEF IsRow
<1> QED
  BY <1>1, <1>2, <1>3, <1>4, <1>5, <1>6, <1>7

\* Infinity is the neutral point.
LEMMA Neutral ==
  ASSUME NEW P
  PROVE  Group!Sum(P, Group!O) = P /\ Group!Sum(Group!O, P) = P
BY DEF Group!Sum

LEMMA InfinityIsPoint == Group!O \in Group!Points
BY DEF Group!Points

LEMMA MultipleIsPoint ==
  ASSUME NEW P \in Group!Points, NEW n \in Nat
  PROVE  Group!Multiple(n, P) \in Group!Points
<1> DEFINE S == {k \in Nat : Group!Multiple(k, P) \in Group!Points}
<1>1. 0 \in S
  BY MultipleIs, InfinityIsPoint
<1>2. ASSUME NEW k \in Nat, k \in S PROVE k + 1 \in S
  BY <1>2, MultipleIs, GroupAssumption
<1>3. Nat \subseteq S
  <2> HIDE DEF S
  <2> QED
    BY <1>1, <1>2, SetInduction
<1> QED
  BY <1>3

\* Multiples of one point add like their numbers.
LEMMA MultiplesAdd ==
  ASSUME NEW P \in Group!Points, NEW k \in Nat, NEW n \in Nat
  PROVE  Group!Sum(Group!Multiple(k, P), Group!Multiple(n, P)) = Group!Multiple(k + n, P)
<1> DEFINE S == {j \in Nat : Group!Sum(Group!Multiple(k, P), Group!Multiple(j, P)) = Group!Multiple(k + j, P)}
<1>1. 0 \in S
  BY MultipleIs, Neutral
<1>2. ASSUME NEW j \in Nat, j \in S PROVE j + 1 \in S
  <2>1. Group!Multiple(j + 1, P) = Group!Sum(Group!Multiple(j, P), P)
    BY MultipleIs
  <2>2. Group!Multiple(k + (j + 1), P) = Group!Sum(Group!Multiple(k + j, P), P)
    <3>1. k + j \in Nat /\ k + (j + 1) = (k + j) + 1
      OBVIOUS
    <3> QED
      BY <3>1, MultipleIs
  <2>3. Group!Multiple(k, P) \in Group!Points /\ Group!Multiple(j, P) \in Group!Points
    BY MultipleIsPoint
  <2>4. Group!Sum(Group!Multiple(k, P), Group!Sum(Group!Multiple(j, P), P))
          = Group!Sum(Group!Sum(Group!Multiple(k, P), Group!Multiple(j, P)), P)
    BY <2>3, GroupAssumption
  <2> QED
    BY <1>2, <2>1, <2>2, <2>4
<1>3. Nat \subseteq S
  <2> HIDE DEF S
  <2> QED
    BY <1>1, <1>2, SetInduction
<1> QED
  BY <1>3

LEMMA MultipleOfMultiple ==
  ASSUME NEW P \in Group!Points, NEW k \in Nat, NEW n \in Nat
  PROVE  Group!Multiple(n, Group!Multiple(k, P)) = Group!Multiple(n * k, P)
<1> DEFINE S == {j \in Nat : Group!Multiple(j, Group!Multiple(k, P)) = Group!Multiple(j * k, P)}
<1>1. 0 \in S
  BY MultipleIs
<1>2. ASSUME NEW j \in Nat, j \in S PROVE j + 1 \in S
  <2>1. Group!Multiple(j + 1, Group!Multiple(k, P))
          = Group!Sum(Group!Multiple(j, Group!Multiple(k, P)), Group!Multiple(k, P))
    BY MultipleIs
  <2>2. j * k \in Nat /\ (j + 1) * k = j * k + k
    OBVIOUS
  <2>3. Group!Sum(Group!Multiple(j * k, P), Group!Multiple(k, P)) = Group!Multiple(j * k + k, P)
    BY <2>2, MultiplesAdd
  <2> QED
    BY <1>2, <2>1, <2>2, <2>3
<1>3. Nat \subseteq S
  <2> HIDE DEF S
  <2> QED
    BY <1>1, <1>2, SetInduction
<1> QED
  BY <1>3

LEMMA InfinityMultiplied ==
  ASSUME NEW n \in Nat
  PROVE  Group!Multiple(n, Group!O) = Group!O
<1> DEFINE S == {j \in Nat : Group!Multiple(j, Group!O) = Group!O}
<1>1. 0 \in S
  BY MultipleIs
<1>2. ASSUME NEW j \in Nat, j \in S PROVE j + 1 \in S
  BY <1>2, MultipleIs, Neutral
<1>3. Nat \subseteq S
  <2> HIDE DEF S
  <2> QED
    BY <1>1, <1>2, SetInduction
<1> QED
  BY <1>3

-----------------------------------------------------------------------------
(* The base point.                                                            *)

LEMMA Numbers ==
  /\ Curve.p \in Nat \ {0} /\ Gx \in 0 .. Curve.p - 1 /\ Gy \in 0 .. Curve.p - 1
  /\ N \in Nat \ {0} /\ KeyFiles \subseteq Nat
BY NumbersAssumption

\* What SM2_Init has tested.
LEMMA BasePoint ==
  ASSUME SM2_Init = 0
  PROVE  G \in Group!Points /\ G # Group!O /\ Group!Multiple(N, G) = Group!O
<1>1. Group!On(Gx, Gy) /\ Group!Multiple(N, G) = Group!O
  BY DEF SM2_Init, ERR_ECURVE_INIT, ERR_ORDER
<1>2. G \in Group!Residues \X Group!Residues /\ G[1] = Gx /\ G[2] = Gy
  BY Numbers DEF G, Group!Residues
<1>3. G \in Group!Points
  BY <1>1, <1>2 DEF Group!Points
<1>4. G # Group!O
  BY DEF G, Group!O
<1> QED
  BY <1>1, <1>3, <1>4

\* Multiples of the base point depend on the number modulo the order.
LEMMA MultipleOfRest ==
  ASSUME SM2_Init = 0, NEW a \in Nat
  PROVE  Group!Multiple(a, G) = Group!Multiple(a % N, G)
<1> DEFINE q == a \div N
           r == a % N
<1>1. q \in Nat /\ r \in Nat /\ a = N * q + r
  BY Numbers
<1> HIDE DEF q, r
<1>2. q * N \in Nat /\ q * N = N * q
  BY <1>1, Numbers
<1>3. Group!Multiple(q * N, G) = Group!Multiple(q, Group!Multiple(N, G))
  BY <1>1, BasePoint, Numbers, MultipleOfMultiple
<1>4. Group!Multiple(q * N, G) = Group!O
  BY <1>1, <1>3, BasePoint, InfinityMultiplied
<1>5. Group!Multiple(q * N + r, G) = Group!Sum(Group!O, Group!Multiple(r, G))
  BY <1>1, <1>2, <1>4, BasePoint, MultiplesAdd
<1>6. Group!Multiple(a, G) = Group!Multiple(r, G)
  BY <1>1, <1>2, <1>5, Neutral
<1> QED
  BY <1>6 DEF r

LEMMA SameMultiple ==
  ASSUME SM2_Init = 0, NEW a \in Nat, NEW b \in Nat, Same(a, b, N)
  PROVE  Group!Multiple(a, G) = Group!Multiple(b, G)
<1>0. a \in Int /\ b \in Int /\ N \in Nat \ {0}
  BY Numbers
<1>1. a % N = b % N
  BY <1>0, SameRests, Zenon
<1> QED
  BY <1>1, MultipleOfRest

LEMMA OnceIs ==
  ASSUME NEW P
  PROVE  Group!Multiple(1, P) = P
<1>1. 0 \in Nat /\ 0 + 1 = 1
  OBVIOUS
<1>2. Group!Multiple(0 + 1, P) = Group!Sum(Group!Multiple(0, P), P) /\ Group!Multiple(0, P) = Group!O
  BY <1>1, MultipleIs
<1> QED
  BY <1>1, <1>2, Neutral

\* The order is prime, so that no smaller multiple is the point at infinity.
LEMMA KeyIsPoint ==
  ASSUME SM2_Init = 0, NEW d \in 1 .. N - 1
  PROVE  Group!Multiple(d, G) \in Group!Points \ {Group!O}
<1>1. d \in Nat
  BY Numbers
<1>2. Group!Multiple(d, G) \in Group!Points
  BY <1>1, BasePoint, MultipleIsPoint
<1>3. PICK ix \in 1 .. N - 1 : (d * ix) % N = 1
  BY NumbersAssumption
<1>4. ix \in Nat /\ ix * d \in Nat /\ ix * d = d * ix
  BY <1>1, <1>3, Numbers
<1>5. Group!Multiple(ix, Group!Multiple(d, G)) = Group!Multiple(ix * d, G)
  BY <1>1, <1>4, BasePoint, MultipleOfMultiple
<1>6. Group!Multiple(ix * d, G) = Group!Multiple(1, G)
  BY <1>3, <1>4, MultipleOfRest
<1>7. Group!Multiple(ix, Group!Multiple(d, G)) = G
  BY <1>5, <1>6, OnceIs
<1>8. Group!Multiple(d, G) # Group!O
  BY <1>4, <1>7, BasePoint, InfinityMultiplied
<1> QED
  BY <1>2, <1>8

\* The coordinates of a finite point are its own, reduced, and on the curve.
LEMMA FinitePoint ==
  ASSUME NEW P \in Group!Points \ {Group!O}
  PROVE  /\ P[1] \in Nat /\ P[2] \in Nat /\ Coordinates(P) = P /\ Group!On(P[1], P[2])
         /\ <<P[1] % Curve.p, P[2] % Curve.p>> = P
<1>1. P \in Group!Residues \X Group!Residues /\ Group!On(P[1], P[2])
  BY DEF Group!Points
<1>2. P[1] \in 0 .. Curve.p - 1 /\ P[2] \in 0 .. Curve.p - 1 /\ P = <<P[1], P[2]>>
  BY <1>1 DEF Group!Residues
<1>3. P[1] % Curve.p = P[1] /\ P[2] % Curve.p = P[2]
  BY <1>2, Numbers, SmallRest
<1> QED
  BY <1>1, <1>2, <1>3, Numbers DEF Coordinates

LEMMA CoordinatesAre ==
  ASSUME NEW P \in Group!Points
  PROVE  Coordinates(P)[1] \in Nat
<1>1. CASE P = Group!O
  BY <1>1 DEF Coordinates
<1>2. CASE P # Group!O
  BY <1>2, FinitePoint
<1> QED
  BY <1>1, <1>2

-----------------------------------------------------------------------------
(* The equations of signing and verifying, modulo any order.                  *)

\* What SM2_Sign computes for s.
Made(z, k, r, d, M) == (z * (k - ((r * d) % M) + M)) % M

\* The multiple of the base point that SM2_Verify arrives at under the key of d.
Back(r, s, d, M) == s + ((r + s) % M) * d

\* The parts of a signature, or one and the nonce, cancel.
PartsAreZero(r, s, M) == (r + s) % M = 0
AddUp(r, k, M) == r + k = M

\* The number that a signature is made with comes out of its verification.
LEMMA NonceComesOut ==
  ASSUME NEW M \in Nat \ {0}, NEW d \in Int, NEW k \in Int, NEW z \in Int, NEW r \in Int,
         Same(z * (d + 1), 1, M), NEW s \in Int, s = Made(z, k, r, d, M)
  PROVE  Same(Back(r, s, d, M), k, M)
<1> DEFINE rd == (r * d) % M
           t == (r + s) % M
           x == k - rd + M
<1>1. rd \in Int /\ t \in Int /\ Same(rd, r * d, M) /\ Same(t, r + s, M) /\ r * d \in Int /\ r + s \in Int
  <2>1. r * d \in Int /\ r + s \in Int
    OBVIOUS
  <2>2. (r * d) % M \in 0 .. M - 1 /\ Same((r * d) % M, r * d, M)
    BY <2>1, SameAsRest, Zenon
  <2>3. (r + s) % M \in 0 .. M - 1 /\ Same((r + s) % M, r + s, M)
    BY <2>1, SameAsRest, Zenon
  <2>4. rd \in 0 .. M - 1 /\ t \in 0 .. M - 1
    BY <2>2, <2>3, Zenon
  <2>5. rd \in Int /\ t \in Int
    <3> HIDE DEF rd, t
    <3> QED
      BY <2>4
  <2> QED
    BY <2>1, <2>2, <2>3, <2>5, Zenon
<1>2. x = k - rd + M /\ s = (z * x) % M
  BY DEF Made
<1> HIDE DEF rd, t, x
<1>3. x \in Int /\ z * x \in Int
  <2>1. x \in Int
    BY <1>1, <1>2
  <2> QED
    BY <2>1
<1>4. Same(s, z * x, M)
  BY <1>2, <1>3, SameAsRest
<1>5. Same(x, k - r * d, M)
  <2>1. Same(k, k, M) /\ Same(M, 0, M)
    BY <1>1, SameSelf
  <2>2. Same(k - rd, k - r * d, M)
    BY <1>1, <2>1, SameSum
  <2>3. k - rd \in Int /\ k - r * d \in Int /\ (k - r * d) + 0 = k - r * d
    BY <1>1
  <2>4. Same((k - rd) + M, (k - r * d) + 0, M)
    BY <2>1, <2>2, <2>3, SameSum
  <2> QED
    BY <1>2, <2>3, <2>4
<1> DEFINE w == k - r * d
<1>6. w \in Int /\ Same(x, w, M)
  BY <1>1, <1>5
<1>w. w = k - r * d
  OBVIOUS
<1> HIDE DEF w
<1>7. Same(s * (d + 1), w, M)
  <2>1. d + 1 \in Int /\ z * w \in Int /\ s * (d + 1) \in Int
    BY <1>6
  <2>2. Same(z * x, z * w, M)
    BY <1>3, <1>6, SameTimes
  <2>3. Same(s, z * w, M)
    BY <1>3, <1>4, <2>1, <2>2, SameChain
  <2>4. Same(s * (d + 1), (z * w) * (d + 1), M)
    BY <2>1, <2>3, SameTimes
  <2>5. (z * w) * (d + 1) = (z * (d + 1)) * w /\ z * (d + 1) \in Int /\ (z * (d + 1)) * w \in Int /\ 1 \in Int
    BY <1>6
  <2>6. Same((z * (d + 1)) * w, 1 * w, M)
    BY <1>6, <2>5, SameTimes
  <2>7. 1 * w = w
    BY <1>6
  <2> QED
    BY <1>6, <2>1, <2>4, <2>5, <2>6, <2>7, SameChain
<1>8. Same(s + t * d, s + (r + s) * d, M)
  <2>1. Same(t * d, (r + s) * d, M)
    BY <1>1, SameTimes
  <2>2. Same(s, s, M)
    BY <1>1, SameSelf
  <2>3. t * d \in Int /\ (r + s) * d \in Int
    BY <1>1
  <2> QED
    BY <2>1, <2>2, <2>3, SameSum
<1>9. s + (r + s) * d = s * (d + 1) + r * d /\ s * (d + 1) \in Int /\ r * d \in Int /\ w + r * d = k
  BY <1>1, <1>w
<1>10. Same(s * (d + 1) + r * d, w + r * d, M)
  <2>1. Same(r * d, r * d, M)
    BY <1>1, SameSelf
  <2> QED
    BY <1>6, <1>7, <1>9, <2>1, SameSum
<1>11. Same(s + (r + s) * d, k, M)
  BY <1>9, <1>10
<1>12. s + t * d \in Int /\ s + (r + s) * d \in Int
  BY <1>1
<1>13. Same(s + t * d, k, M)
  BY <1>8, <1>11, <1>12, SameChain
<1> QED
  BY <1>13 DEF t, Back

\* And every signature in range is made with the number that comes out.
LEMMA SignatureComesBack ==
  ASSUME NEW M \in Nat \ {0}, NEW d \in Int, NEW k \in Int, NEW z \in Int, NEW r \in Int,
         Same(z * (d + 1), 1, M), NEW s \in 0 .. M - 1, Same(Back(r, s, d, M), k, M)
  PROVE  s = Made(z, k, r, d, M)
<1> DEFINE g == Made(z, k, r, d, M)
           rd == (r * d) % M
           x == k - rd + M
           t == (r + s) % M
           w == k - r * d
<1>1. rd \in Int /\ t \in Int /\ Same(rd, r * d, M) /\ Same(t, r + s, M) /\ r * d \in Int /\ r + s \in Int
  <2>1. r * d \in Int /\ r + s \in Int
    OBVIOUS
  <2>2. (r * d) % M \in 0 .. M - 1 /\ Same((r * d) % M, r * d, M)
    BY <2>1, SameAsRest, Zenon
  <2>3. (r + s) % M \in 0 .. M - 1 /\ Same((r + s) % M, r + s, M)
    BY <2>1, SameAsRest, Zenon
  <2>4. rd \in 0 .. M - 1 /\ t \in 0 .. M - 1
    BY <2>2, <2>3, Zenon
  <2>5. rd \in Int /\ t \in Int
    <3> HIDE DEF rd, t
    <3> QED
      BY <2>4
  <2> QED
    BY <2>1, <2>2, <2>3, <2>5, Zenon
<1>2. x = k - rd + M /\ g = (z * x) % M /\ w = k - r * d /\ Same(s + t * d, k, M) /\ s \in Int /\ 1 \in Int
  BY DEF Made, Back
<1> HIDE DEF rd, t, x, g, w
<1>3. x \in Int /\ z * x \in Int /\ w \in Int
  <2>1. x \in Int /\ w \in Int
    BY <1>1, <1>2
  <2> QED
    BY <2>1
<1>4. Same(x, w, M)
  <2>1. Same(k, k, M) /\ Same(M, 0, M)
    BY <1>1, SameSelf
  <2>2. Same(k - rd, k - r * d, M)
    BY <1>1, <2>1, SameSum
  <2>3. k - rd \in Int /\ k - r * d \in Int /\ (k - r * d) + 0 = k - r * d
    BY <1>1
  <2>4. Same((k - rd) + M, (k - r * d) + 0, M)
    BY <2>1, <2>2, <2>3, SameSum
  <2> QED
    BY <1>2, <2>3, <2>4
<1>5. Same(w, s * (d + 1), M)
  <2>1. Same(t * d, (r + s) * d, M)
    BY <1>1, SameTimes
  <2>2. Same(s, s, M) /\ Same(r * d, r * d, M)
    BY <1>1, SameSelf
  <2>3. t * d \in Int /\ (r + s) * d \in Int /\ s * (d + 1) \in Int
    BY <1>1
  <2>4. Same(s + t * d, s + (r + s) * d, M)
    BY <2>1, <2>2, <2>3, SameSum
  <2>5. s + t * d \in Int /\ s + (r + s) * d \in Int
    BY <2>3
  <2>6. Same(k, s + t * d, M)
    BY <1>2, <2>5, SameBack
  <2>7. Same(k, s + (r + s) * d, M)
    BY <2>4, <2>5, <2>6, SameChain
  <2>8. Same(k - r * d, (s + (r + s) * d) - r * d, M)
    BY <1>1, <2>2, <2>5, <2>7, SameSum
  <2>9. (s + (r + s) * d) - r * d = s * (d + 1)
    BY <1>1
  <2> QED
    BY <1>2, <2>8, <2>9
<1>6. Same(z * x, s, M)
  <2>1. s * (d + 1) \in Int /\ z * w \in Int /\ z * (s * (d + 1)) \in Int /\ z * (d + 1) \in Int /\ 1 \in Int
    BY <1>3
  <2>2. Same(z * x, z * w, M)
    BY <1>3, <1>4, SameTimes
  <2>3. Same(z * w, z * (s * (d + 1)), M)
    BY <1>3, <1>5, <2>1, SameTimes
  <2>4. Same((z * (d + 1)) * s, 1 * s, M)
    BY <1>2, <2>1, SameTimes
  <2>5. z * (s * (d + 1)) = (z * (d + 1)) * s /\ 1 * s = s
    OBVIOUS
  <2>6. Same(z * (s * (d + 1)), s, M)
    BY <2>4, <2>5
  <2>7. Same(z * x, z * (s * (d + 1)), M)
    BY <1>3, <2>1, <2>2, <2>3, SameChain
  <2> QED
    BY <1>3, <2>1, <2>6, <2>7, SameChain
<1>7. (z * x) % M = s % M
  BY <1>2, <1>3, <1>6, SameRests
<1>8. s % M = s
  BY SmallRest
<1> QED
  BY <1>2, <1>7, <1>8 DEF g

\* A signature whose parts cancel is made with the nonce that cancels r.
LEMMA PartsCancel ==
  ASSUME NEW M \in Nat \ {0}, NEW d \in Int, NEW k \in 0 .. M - 1,
         NEW r \in 1 .. M - 1, NEW s \in 0 .. M - 1,
         PartsAreZero(r, s, M), Same(Back(r, s, d, M), k, M)
  PROVE  AddUp(r, k, M)
<1>0. (r + s) % M = 0
  BY DEF PartsAreZero
<1>1. Same(s, k, M)
  <2>1. Back(r, s, d, M) = s
    BY <1>0 DEF Back
  <2> QED
    BY <2>1
<1>2. s = k
  <2>0. s \in Int /\ k \in Int
    OBVIOUS
  <2>1. s % M = k % M
    BY <1>1, <2>0, SameRests, Zenon
  <2>2. s % M = s /\ k % M = k
    BY SmallRest
  <2> QED
    BY <2>1, <2>2
<1>3. PICK q \in Int : r + s = M * q
  <2>1. r + s \in Int
    OBVIOUS
  <2> DEFINE q == (r + s) \div M
  <2>2. q \in Int /\ r + s = M * q + 0
    BY <1>0, <2>1
  <2> HIDE DEF q
  <2>3. M * q \in Int
    BY <2>2
  <2>4. r + s = M * q
    BY <2>2, <2>3
  <2> QED
    BY <2>2, <2>4
<1>4. q = 1
  <2>1. q >= 2 => M * q >= 2 * M
    OBVIOUS
  <2>2. q <= 0 => M * q <= 0
    OBVIOUS
  <2> QED
    BY <1>3, <2>1, <2>2
<1> QED
  BY <1>2, <1>3, <1>4 DEF AddUp

\* A nonce that cancels r belongs to parts that cancel.
LEMMA NonceCancels ==
  ASSUME NEW M \in Nat \ {0}, NEW d \in Int, NEW z \in Int, Same(z * (d + 1), 1, M),
         NEW r \in Int, NEW s \in Int, NEW k \in Int, Same(Back(r, s, d, M), k, M), AddUp(r, k, M)
  PROVE  PartsAreZero(r, s, M)
<1> DEFINE t == (r + s) % M
           u == r + s
<1>1. t \in Int /\ u \in Int /\ Same(t, u, M) /\ Same(u, t, M)
  <2>1. u \in Int
    OBVIOUS
  <2> HIDE DEF u
  <2>2. u % M \in 0 .. M - 1 /\ Same(u % M, u, M) /\ Same(u, u % M, M)
    BY <2>1, SameAsRest, Zenon
  <2>3. t = u % M
    BY Zenon DEF u
  <2> HIDE DEF t
  <2>4. t \in 0 .. M - 1 /\ Same(t, u, M) /\ Same(u, t, M)
    BY <2>2, <2>3, Zenon
  <2> QED
    BY <2>1, <2>4
<1>2. Same(s + t * d, k, M) /\ u = r + s /\ r + k = M
  BY DEF Back, AddUp
<1> HIDE DEF t, u
<1>3. Same(u * (d + 1), 0, M)
  <2>1. Same(r, r, M) /\ Same(M, 0, M)
    BY <1>1, SameSelf
  <2>2. t * d \in Int /\ u * d \in Int /\ u * (d + 1) \in Int
    BY <1>1
  <2>3. Same(r + (s + t * d), r + k, M)
    BY <1>2, <2>1, <2>2, SameSum
  <2>4. r + (s + t * d) = u + t * d
    BY <1>2, <2>2
  <2>5. Same(u + t * d, 0, M)
    <3>1. u + t * d \in Int /\ M \in Int /\ 0 \in Int
      BY <1>1, <2>2
    <3>2. Same(u + t * d, M, M)
      BY <1>2, <2>3, <2>4
    <3> QED
      BY <2>1, <3>1, <3>2, SameChain
  <2>6. Same(u * d, t * d, M)
    BY <1>1, SameTimes
  <2>7. Same(u, u, M)
    BY <1>1, SameSelf
  <2>8. Same(u + u * d, u + t * d, M)
    BY <1>1, <2>2, <2>6, <2>7, SameSum
  <2>9. u + u * d = u * (d + 1) /\ u + t * d \in Int /\ 0 \in Int
    BY <1>1, <2>2
  <2>10. Same(u * (d + 1), u + t * d, M)
    BY <2>8, <2>9
  <2> QED
    BY <2>2, <2>5, <2>9, <2>10, SameChain
<1>4. Same(u, 0, M)
  <2>1. u * (d + 1) \in Int /\ z * (d + 1) \in Int /\ z * (u * (d + 1)) \in Int /\ 0 \in Int /\ 1 \in Int
    BY <1>1
  <2>2. Same(z * (u * (d + 1)), z * 0, M)
    BY <1>3, <2>1, SameTimes
  <2>3. Same((z * (d + 1)) * u, 1 * u, M)
    BY <1>1, <2>1, SameTimes
  <2>4. (z * (d + 1)) * u = z * (u * (d + 1)) /\ 1 * u = u /\ z * 0 = 0
    BY <1>1
  <2>5. Same(z * (u * (d + 1)), u, M) /\ Same(z * (u * (d + 1)), 0, M)
    BY <2>2, <2>3, <2>4
  <2>6. Same(u, z * (u * (d + 1)), M)
    BY <1>1, <2>1, <2>5, SameBack
  <2> QED
    BY <1>1, <2>1, <2>5, <2>6, SameChain
<1>5. u % M = 0 % M
  <2>1. 0 \in Int
    OBVIOUS
  <2> QED
    BY <1>1, <1>4, <2>1, SameRests
<1>6. 0 % M = 0
  BY SmallRest
<1> QED
  BY <1>5, <1>6 DEF u, PartsAreZero

-----------------------------------------------------------------------------
(* The tests of SM2_Sign and SM2_Verify.                                      *)

LEMMA LeastExists ==
  ASSUME NEW e \in SUBSET Nat, e # {}
  PROVE  \E k \in e : \A m \in e : k <= m
<1> DEFINE R == {ss \in Nat \X Nat : ss[1] < ss[2]}
<1>1. PICK k \in e : \A m \in e : ~ (<<m, k>> \in R)
  <2>1. IsWellFoundedOn(R, Nat)
    BY LessWF
  <2> HIDE DEF R
  <2> QED
    BY <2>1, WFMin
<1>2. ASSUME NEW m \in e PROVE k <= m
  <2>1. k \in Nat /\ m \in Nat /\ <<m, k>> \in Nat \X Nat
    OBVIOUS
  <2>2. ~ (<<m, k>> \in R)
    BY <1>1
  <2>3. ~ (m < k)
    BY <2>1, <2>2
  <2> QED
    BY <2>1, <2>3
<1> QED
  BY <1>2

\* No error comes first exactly when there is none.
LEMMA NoFirstError ==
  ASSUME NEW errors \in Seq(Nat)
  PROVE  FirstError(errors) = 0 <=> \A k \in 1 .. Len(errors) : errors[k] = 0
<1> DEFINE e == {k \in DOMAIN errors : errors[k] # 0}
           least == CHOOSE k \in e : \A m \in e : k <= m
<1>1. FirstError(errors) = IF e = {} THEN 0 ELSE errors[least]
  BY DEF FirstError
<1>2. e \in SUBSET Nat /\ DOMAIN errors = 1 .. Len(errors)
  OBVIOUS
<1>3. CASE e = {}
  BY <1>1, <1>2, <1>3
<1>4. CASE e # {}
  <2>1. \E k \in e : \A m \in e : k <= m
    <3> HIDE DEF e
    <3> QED
      BY <1>2, <1>4, LeastExists
  <2>2. least \in e
    <3> HIDE DEF e
    <3> QED
      BY <2>1
  <2> HIDE DEF least
  <2> QED
    BY <1>1, <1>2, <1>4, <2>2
<1> QED
  BY <1>3, <1>4

LEMMA ErrorIs ==
  ASSUME NEW condition \in BOOLEAN, NEW code \in Nat \ {0}
  PROVE  Error(condition, code) \in Nat /\ (Error(condition, code) = 0 <=> ~condition)
BY DEF Error

LEMMA InitIs == SM2_Init \in Nat
BY DEF SM2_Init, ERR_ECURVE_INIT, ERR_ORDER

\* What SM2_Verify returns 0 for.
Passes(message, P, r, s) ==
  /\ SM2_Init = 0 /\ r \in 1 .. N - 1 /\ s \in 1 .. N - 1 /\ (r + s) % N # 0
  /\ (Hash(P, message)
      + Coordinates(Group!Sum(Group!Multiple(s % N, G), Group!Multiple((r + s) % N, P)))[1]) % N = r
Accepted(message, P, r, s) == SM2_Verify(message, P, r, s) = 0

LEMMA Verifying ==
  ASSUME NEW message \in Messages, NEW P \in Group!Points \ {Group!O}, NEW r \in Int, NEW s \in Int
  PROVE  Accepted(message, P, r, s) <=> Passes(message, P, r, s)
<1> DEFINE t == (r + s) % N
           e1 == Error(~Group!On(P[1], P[2]), ERR_PUBKEY_INIT)
           e2 == Error(Test_Range(r), ERR_OUTRANGE_R)
           e3 == Error(Test_Range(s), ERR_OUTRANGE_S)
           e4 == Error(Test_Zero(t), ERR_GENERATE_T)
           errors == <<SM2_Init, e1, e2, e3, e4>>
           before == FirstError(errors)
           x1 == Coordinates(Group!Sum(Group!Multiple(s % N, G), Group!Multiple(t, P)))[1]
           last == Error((Hash(P, message) + x1) % N # r, ERR_DATA_MEMCMP)
<1>1. SM2_Verify(message, P, r, s) = IF before # 0 THEN before ELSE last
  BY FinitePoint, Zenon DEF SM2_Verify
<1>2. e1 \in Nat /\ (e1 = 0 <=> Group!On(P[1], P[2]))
  BY DEF Error, ERR_PUBKEY_INIT
<1>3. e2 \in Nat /\ (e2 = 0 <=> r \in 1 .. N - 1)
  BY Numbers DEF Error, ERR_OUTRANGE_R, Test_Range
<1>4. e3 \in Nat /\ (e3 = 0 <=> s \in 1 .. N - 1)
  BY Numbers DEF Error, ERR_OUTRANGE_S, Test_Range
<1>5. e4 \in Nat /\ (e4 = 0 <=> t # 0)
  BY DEF Error, ERR_GENERATE_T, Test_Zero
<1>6. last = 0 <=> (Hash(P, message) + x1) % N = r
  BY DEF Error, ERR_DATA_MEMCMP
<1>7. e1 = 0
  BY <1>2, FinitePoint
<1>8. before = 0 <=> SM2_Init = 0 /\ e1 = 0 /\ e2 = 0 /\ e3 = 0 /\ e4 = 0
  <2> HIDE DEF e1, e2, e3, e4
  <2>1. errors \in Seq(Nat) /\ Len(errors) = 5
    BY <1>2, <1>3, <1>4, <1>5, InitIs
  <2>2. before = 0 <=> \A k \in 1 .. 5 : errors[k] = 0
    <3> HIDE DEF errors
    <3> QED
      BY <2>1, NoFirstError
  <2>3. (\A k \in 1 .. 5 : errors[k] = 0) <=>
          errors[1] = 0 /\ errors[2] = 0 /\ errors[3] = 0 /\ errors[4] = 0 /\ errors[5] = 0
    <3> HIDE DEF errors
    <3> QED
      OBVIOUS
  <2> HIDE DEF before
  <2> QED
    BY <2>2, <2>3
<1>9. SM2_Verify(message, P, r, s) = 0 <=> before = 0 /\ last = 0
  <2> HIDE DEF before, last
  <2> QED
    BY <1>1
<1> HIDE DEF before, last, e1, e2, e3, e4
<1> QED
  BY <1>3, <1>4, <1>5, <1>6, <1>7, <1>8, <1>9, Zenon DEF Passes, Accepted

\* What SM2_Sign returns 0 for, and with what.
Signs(message, d, k, z, r, s) ==
  /\ SM2_Init = 0
  /\ r = (Hash(SM2_make_pubkey(d).P, message) + Coordinates(Group!Multiple(k, G))[1]) % N
  /\ s = Made(z, k, r, d, N)
  /\ r # 0 /\ r + k # N /\ s # 0
Gives(message, d, k, z, r, s) == SM2_Sign(message, d, k, z) = [ret |-> 0, r |-> r, s |-> s]

LEMMA Signing ==
  ASSUME NEW message, NEW d \in Nat, NEW k \in Nat, NEW z \in Nat, NEW r, NEW s
  PROVE  Gives(message, d, k, z, r, s) <=> Signs(message, d, k, z, r, s)
<1> DEFINE r0 == (Hash(SM2_make_pubkey(d).P, message) + Coordinates(Group!Multiple(k, G))[1]) % N
           s0 == Made(z, k, r0, d, N)
           e1 == Error(TestR(r0, k), ERR_GENERATE_R)
           e2 == Error(s0 = 0, ERR_GENERATE_S)
           errors == <<SM2_Init, e1, e2>>
           ret == FirstError(errors)
<1>1. SM2_Sign(message, d, k, z) = [ret |-> ret, r |-> r0, s |-> s0]
  BY Zenon DEF SM2_Sign, Made
<1>2. e1 \in Nat /\ (e1 = 0 <=> r0 # 0 /\ r0 + k # N)
  <2> HIDE DEF r0
  <2> QED
    BY DEF Error, ERR_GENERATE_R, TestR
<1>3. e2 \in Nat /\ (e2 = 0 <=> s0 # 0)
  <2> HIDE DEF s0
  <2> QED
    BY DEF Error, ERR_GENERATE_S
<1>4. ret = 0 <=> SM2_Init = 0 /\ e1 = 0 /\ e2 = 0
  <2> HIDE DEF e1, e2
  <2>1. errors \in Seq(Nat) /\ Len(errors) = 3
    BY <1>2, <1>3, InitIs
  <2>2. ret = 0 <=> \A n \in 1 .. 3 : errors[n] = 0
    <3> HIDE DEF errors
    <3> QED
      BY <2>1, NoFirstError
  <2>3. (\A n \in 1 .. 3 : errors[n] = 0) <=> errors[1] = 0 /\ errors[2] = 0 /\ errors[3] = 0
    <3> HIDE DEF errors
    <3> QED
      OBVIOUS
  <2> HIDE DEF ret
  <2> QED
    BY <2>2, <2>3
<1>5. SM2_Sign(message, d, k, z) = [ret |-> 0, r |-> r, s |-> s] <=> ret = 0 /\ r = r0 /\ s = s0
  <2> HIDE DEF ret, r0, s0
  <2> QED
    BY <1>1
<1>6. r = r0 => s0 = Made(z, k, r, d, N)
  <2> HIDE DEF r0
  <2> QED
    OBVIOUS
<1> HIDE DEF ret, e1, e2, s0
<1> QED
  BY <1>2, <1>3, <1>4, <1>5, <1>6, Zenon DEF Signs, Gives

\* Without a curve nothing passes.
LEMMA VerifyingNeedsTheCurve ==
  ASSUME NEW message, NEW P, NEW r \in Int, NEW s \in Int, SM2_Verify(message, P, r, s) = 0
  PROVE  SM2_Init = 0
<1> DEFINE t == (r + s) % N
           point == <<P[1] % Curve.p, P[2] % Curve.p>>
           e1 == Error(~Group!On(P[1], P[2]), ERR_PUBKEY_INIT)
           e2 == Error(Test_Range(r), ERR_OUTRANGE_R)
           e3 == Error(Test_Range(s), ERR_OUTRANGE_S)
           e4 == Error(Test_Zero(t), ERR_GENERATE_T)
           errors == <<SM2_Init, e1, e2, e3, e4>>
           before == FirstError(errors)
           x1 == Coordinates(Group!Sum(Group!Multiple(s % N, G), Group!Multiple(t, point)))[1]
           last == Error((Hash(P, message) + x1) % N # r, ERR_DATA_MEMCMP)
<1>1. SM2_Verify(message, P, r, s) = IF before # 0 THEN before ELSE last
  BY Zenon DEF SM2_Verify
<1>2. e1 \in Nat /\ e2 \in Nat /\ e3 \in Nat /\ e4 \in Nat
  BY DEF Error, ERR_PUBKEY_INIT, ERR_OUTRANGE_R, ERR_OUTRANGE_S, ERR_GENERATE_T
<1>3. before = 0
  <2> HIDE DEF before, last
  <2> QED
    BY <1>1
<1> HIDE DEF e1, e2, e3, e4
<1>4. errors \in Seq(Nat) /\ Len(errors) = 5 /\ errors[1] = SM2_Init
  BY <1>2, InitIs
<1>5. FirstError(errors) = 0
  BY <1>3
<1> HIDE DEF errors
<1>6. \A k \in 1 .. Len(errors) : errors[k] = 0
  BY <1>4, <1>5, NoFirstError, Zenon
<1>7. 1 \in 1 .. Len(errors)
  BY <1>4
<1> QED
  BY <1>4, <1>6, <1>7, Zenon

-----------------------------------------------------------------------------
(* A key in range.                                                            *)

LEMMA PublicKey ==
  ASSUME SM2_Init = 0, NEW d \in 1 .. N - 2
  PROVE  SM2_make_pubkey(d).P = Group!Multiple(d, G) /\ Group!Multiple(d, G) \in Group!Points \ {Group!O}
<1>1. d \in 0 .. N - 1 /\ d \in 1 .. N - 1
  BY Numbers
<1>2. d % N = d
  BY <1>1, Numbers, SmallRest
<1>3. Group!Multiple(d, G) \in Group!Points \ {Group!O}
  BY <1>1, KeyIsPoint
<1>4. SM2_make_pubkey(d).P = Coordinates(Group!Multiple(d, G))
  BY <1>2 DEF SM2_make_pubkey
<1> QED
  BY <1>3, <1>4, FinitePoint

\* Inverses of d + 1, which is below the order.
LEMMA InverseIs ==
  ASSUME NEW d \in 1 .. N - 2
  PROVE  /\ \A z \in InversesOf(d + 1) : z \in Nat /\ Same(z * (d + 1), 1, N)
         /\ \E z : z \in InversesOf(d + 1)
<1>0. N \in Nat \ {0} /\ d + 1 \in 1 .. N - 1 /\ d + 1 \in Int /\ 0 \in 0 .. N - 1 /\ 1 \in 0 .. N - 1 /\ 1 \in Int
  BY Numbers
<1>1. (d + 1) % N = d + 1
  <2>1. d + 1 \in 0 .. N - 1
    BY <1>0
  <2> QED
    BY <1>0, <2>1, SmallRest
<1>2. InversesOf(d + 1) = {ix \in 0 .. N : ((d + 1) * ix - 1) % N = 0}
  <2>1. (d + 1) % N # 0
    BY <1>0, <1>1
  <2> QED
    BY <2>1, Zenon DEF InversesOf
<1> DEFINE c == d + 1
<1>c. c \in Int /\ c \in 1 .. N - 1 /\ c = d + 1
  BY <1>0
<1> HIDE DEF c
<1>3. ASSUME NEW z \in InversesOf(d + 1) PROVE z \in Nat /\ Same(z * (d + 1), 1, N)
  <2>1. z \in 0 .. N /\ (c * z - 1) % N = 0
    BY <1>2, <1>c
  <2>2. z \in Nat /\ c * z \in Int /\ c * z - 1 \in Int /\ z * c = c * z
    BY <1>0, <1>c, <2>1
  <2>3. Same(c * z - 1, (c * z - 1) % N, N)
    BY <1>0, <2>2, SameAsRest
  <2>4. PICK q \in Int : c * z - 1 = 0 + N * q
    BY <2>1, <2>3 DEF Same
  <2>5. N * q \in Int
    BY <1>0
  <2>6. c * z = 1 + N * q
    BY <2>2, <2>4, <2>5
  <2>7. Same(z * c, 1, N)
    BY <2>2, <2>6 DEF Same
  <2> QED
    BY <1>c, <2>2, <2>7
<1>4. PICK ix \in 1 .. N - 1 : (c * ix) % N = 1
  BY <1>c, NumbersAssumption
<1>5. ix \in 0 .. N /\ c * ix \in Int /\ c * ix - 1 \in Int
  BY <1>0, <1>c, <1>4
<1>6. (c * ix - 1) % N = 0
  <2>1. Same(c * ix, (c * ix) % N, N)
    BY <1>0, <1>5, SameAsRest
  <2>2. PICK q \in Int : c * ix = 1 + N * q
    BY <1>4, <2>1 DEF Same
  <2>3. N * q \in Int
    BY <1>0
  <2>4. c * ix - 1 = 0 + N * q /\ 0 \in Int
    BY <1>5, <2>2, <2>3
  <2>5. Same(c * ix - 1, 0, N)
    BY <2>4 DEF Same
  <2>6. (c * ix - 1) % N = 0 % N
    BY <1>0, <1>5, <2>4, <2>5, SameRests
  <2> QED
    BY <1>0, <2>6, SmallRest
<1>7. ix \in InversesOf(d + 1)
  BY <1>2, <1>5, <1>6, <1>c
<1> QED
  BY <1>3, <1>7

\* The point that is verified is the one the nonce was drawn for.
Arrival(r, s, P) == Group!Sum(Group!Multiple(s % N, G), Group!Multiple((r + s) % N, P))

LEMMA PointComesOut ==
  ASSUME SM2_Init = 0, NEW d \in 1 .. N - 2, NEW r \in Nat, NEW s \in 0 .. N - 1, NEW k \in Nat,
         Same(Back(r, s, d, N), k, N)
  PROVE  Arrival(r, s, Group!Multiple(d, G)) = Group!Multiple(k, G)
<1> DEFINE t == (r + s) % N
<1>0. N \in Nat \ {0} /\ s \in Nat /\ d \in Nat
  BY Numbers
<1>1. N \in Nat \ {0} /\ s \in Nat /\ d \in Nat /\ s % N = s
  BY <1>0, SmallRest, Zenon
<1>2. t \in Nat /\ Same(s + t * d, k, N)
  <2>1. r + s \in Int
    BY <1>1
  <2>2. t \in 0 .. N - 1
    BY <1>1, <2>1, SameAsRest, Zenon
  <2>3. t \in Nat
    <3> HIDE DEF t
    <3> QED
      BY <2>2
  <2> QED
    BY <2>3 DEF Back
<1> HIDE DEF t
<1>3. t * d \in Nat /\ s + t * d \in Nat
  BY <1>1, <1>2
<1>4. Group!Multiple(t, Group!Multiple(d, G)) = Group!Multiple(t * d, G)
  BY <1>1, <1>2, BasePoint, MultipleOfMultiple
<1>5. Group!Sum(Group!Multiple(s, G), Group!Multiple(t * d, G)) = Group!Multiple(s + t * d, G)
  BY <1>1, <1>3, BasePoint, MultiplesAdd
<1>6. Group!Multiple(s + t * d, G) = Group!Multiple(k, G)
  BY <1>2, <1>3, SameMultiple
<1>7. Group!Sum(Group!Multiple(s % N, G), Group!Multiple(t, Group!Multiple(d, G))) = Group!Multiple(k, G)
  BY <1>1, <1>4, <1>5, <1>6
<1> QED
  BY <1>7, Zenon DEF t, Arrival

\* What SM2_Sign makes with a key in range is reduced.
LEMMA MadeInRange ==
  ASSUME NEW d \in 1 .. N - 2, NEW m \in Messages, NEW r, NEW s,
         NEW k \in 0 .. N - 1, NEW z \in InversesOf(d + 1), Gives(m, d, k, z, r, s)
  PROVE  r \in Int /\ s \in Int /\ r \in 0 .. N - 1 /\ s \in 0 .. N - 1
<1> DEFINE P == SM2_make_pubkey(d).P
<1>0. N \in Nat \ {0} /\ d \in Nat /\ d \in Int
  BY Numbers
<1>1. k \in Nat /\ k \in Int
  BY <1>0
<1>2. z \in Nat /\ z \in Int
  <2>1. z \in Nat
    BY InverseIs, Zenon
  <2> QED
    BY <2>1
<1>3. /\ SM2_Init = 0
      /\ r = (Hash(P, m) + Coordinates(Group!Multiple(k, G))[1]) % N
      /\ s = Made(z, k, r, d, N)
  <2>1. Signs(m, d, k, z, r, s)
    BY <1>0, <1>1, <1>2, Signing, Zenon
  <2> QED
    BY <2>1, Zenon DEF Signs
<1>4. P \in Group!Points \ {Group!O}
  BY <1>3, PublicKey, Zenon
<1> HIDE DEF P
<1>5. r \in 0 .. N - 1 /\ r \in Int
  <2>1. Group!Multiple(k, G) \in Group!Points
    BY <1>1, <1>3, BasePoint, MultipleIsPoint, Zenon
  <2>2. Coordinates(Group!Multiple(k, G))[1] \in Nat
    BY <2>1, CoordinatesAre, Zenon
  <2>3. Hash(P, m) \in Nat
    BY <1>4, HashAssumption, Zenon
  <2> DEFINE e == Hash(P, m)
             x == Coordinates(Group!Multiple(k, G))[1]
  <2>4. e \in Nat /\ x \in Nat /\ r = (e + x) % N
    BY <1>3, <2>2, <2>3
  <2> HIDE DEF e, x
  <2>5. e + x \in Int
    BY <2>4
  <2>6. (e + x) % N \in 0 .. N - 1
    BY <1>0, <2>5, SameAsRest, Zenon
  <2>7. r \in 0 .. N - 1
    BY <2>4, <2>6, Zenon
  <2> QED
    BY <1>0, <2>7
<1>6. s \in 0 .. N - 1 /\ s \in Int
  <2> DEFINE rd == (r * d) % N
             y == z * (k - rd + N)
  <2>1. r * d \in Int
    BY <1>0, <1>5
  <2>2. rd \in 0 .. N - 1
    BY <1>0, <2>1, SameAsRest, Zenon
  <2>3. y \in Int
    <3> HIDE DEF rd
    <3> QED
      BY <1>0, <1>1, <1>2, <2>2
  <2>4. s = y % N
    BY <1>3, Zenon DEF Made
  <2> HIDE DEF y
  <2>5. y % N \in 0 .. N - 1
    BY <1>0, <2>3, SameAsRest, Zenon
  <2>6. s \in 0 .. N - 1
    BY <2>4, <2>5, Zenon
  <2> QED
    BY <1>0, <2>6
<1> QED
  BY <1>5, <1>6

\* SM2_Verify takes exactly what the owner of a key in range can make.
LEMMA VerifiesWhatIsMade ==
  ASSUME NEW d \in 1 .. N - 2, NEW m \in Messages, NEW r \in Int, NEW s \in Int
  PROVE  Accepted(m, SM2_make_pubkey(d).P, r, s) <=>
           \E k \in 0 .. N - 1, z \in InversesOf(d + 1) : Gives(m, d, k, z, r, s)
<1> DEFINE P == SM2_make_pubkey(d).P
           t == (r + s) % N
<1>0. N \in Nat \ {0} /\ d \in Nat /\ d \in Int
  BY Numbers
<1>1. ASSUME Accepted(m, P, r, s)
      PROVE  \E k \in 0 .. N - 1, z \in InversesOf(d + 1) : Gives(m, d, k, z, r, s)
  <2>1. SM2_Init = 0
    BY <1>1, VerifyingNeedsTheCurve, Zenon DEF Accepted
  <2>2. P = Group!Multiple(d, G) /\ P \in Group!Points \ {Group!O}
    BY <2>1, PublicKey, Zenon
  <2> HIDE DEF P
  <2> DEFINE x1 == Coordinates(Group!Sum(Group!Multiple(s % N, G), Group!Multiple(t, P)))[1]
  <2>3. /\ r \in 1 .. N - 1 /\ s \in 1 .. N - 1 /\ t # 0
        /\ (Hash(P, m) + x1) % N = r
    <3>1. Passes(m, P, r, s)
      BY <1>1, <2>2, Verifying, Zenon DEF P
    <3> QED
      BY <3>1, Zenon DEF Passes
  <2>4. t \in 0 .. N - 1 /\ t \in Int
    <3>1. r + s \in Int
      OBVIOUS
    <3>2. t \in 0 .. N - 1
      BY <1>0, <3>1, SameAsRest, Zenon
    <3> HIDE DEF t
    <3> QED
      BY <1>0, <3>2
  <2> DEFINE k == (s + t * d) % N
  <2>5. k \in 0 .. N - 1 /\ Same(s + t * d, k, N)
    <3>1. s + t * d \in Int
      <4> HIDE DEF t
      <4> QED
        BY <1>0, <2>4
    <3> QED
      BY <1>0, <3>1, SameAsRest, Zenon
  <2> HIDE DEF k
  <2>6. PICK z : z \in InversesOf(d + 1) /\ z \in Nat /\ Same(z * (d + 1), 1, N)
    BY InverseIs, Zenon
  <2>7. k \in Nat /\ k \in Int /\ z \in Int /\ s \in 0 .. N - 1 /\ r \in Nat /\ s \in Nat
    <3>1. k \in Nat /\ k \in Int
      BY <1>0, <2>5
    <3>2. s \in 0 .. N - 1 /\ r \in Nat /\ s \in Nat
      <4> HIDE DEF t
      <4> QED
        BY <1>0, <2>3
    <3> QED
      BY <2>6, <3>1, <3>2
  <2>8. Same(Back(r, s, d, N), k, N)
    BY <2>5, Zenon DEF Back
  <2>9. s = Made(z, k, r, d, N)
    BY <1>0, <2>6, <2>7, <2>8, SignatureComesBack, Zenon
  <2>10. r + k # N
    <3>1. ASSUME r + k = N PROVE FALSE
      <4>1. AddUp(r, k, N)
        BY <3>1, Zenon DEF AddUp
      <4>2. PartsAreZero(r, s, N)
        BY <1>0, <2>6, <2>7, <2>8, <4>1, NonceCancels, Zenon
      <4> QED
        BY <2>3, <4>2, Zenon DEF PartsAreZero
    <3> QED
      BY <3>1
  <2>11. x1 = Coordinates(Group!Multiple(k, G))[1]
    <3>1. Arrival(r, s, Group!Multiple(d, G)) = Group!Multiple(k, G)
      BY <2>1, <2>7, <2>8, PointComesOut, Zenon
    <3> QED
      BY <2>2, <3>1, Zenon DEF Arrival
  <2>12. r # 0 /\ s # 0
    <3> HIDE DEF t, x1
    <3> QED
      BY <1>0, <2>3
  <2>13. r = (Hash(P, m) + Coordinates(Group!Multiple(k, G))[1]) % N
    BY <2>3, <2>11, Zenon
  <2>14. Gives(m, d, k, z, r, s)
    <3>1. Signs(m, d, k, z, r, s)
      BY <2>1, <2>9, <2>10, <2>12, <2>13, Zenon DEF Signs, P
    <3> QED
      BY <1>0, <2>6, <2>7, <3>1, Signing, Zenon
  <2> QED
    BY <2>5, <2>6, <2>14, Zenon
<1>2. ASSUME NEW k \in 0 .. N - 1, NEW z \in InversesOf(d + 1), Gives(m, d, k, z, r, s)
      PROVE  Accepted(m, P, r, s)
  <2>1. k \in Nat /\ k \in Int
    BY <1>0
  <2>2. z \in Nat /\ z \in Int /\ Same(z * (d + 1), 1, N)
    <3>1. z \in Nat /\ Same(z * (d + 1), 1, N)
      BY InverseIs, Zenon
    <3> QED
      BY <3>1
  <2>3. /\ SM2_Init = 0
        /\ r = (Hash(P, m) + Coordinates(Group!Multiple(k, G))[1]) % N
        /\ s = Made(z, k, r, d, N)
        /\ r # 0 /\ r + k # N /\ s # 0
    <3>1. Signs(m, d, k, z, r, s)
      BY <1>0, <1>2, <2>1, <2>2, Signing, Zenon
    <3> QED
      BY <3>1, Zenon DEF Signs
  <2>4. P = Group!Multiple(d, G) /\ P \in Group!Points \ {Group!O}
    BY <2>3, PublicKey, Zenon
  <2> HIDE DEF P
  <2>5. r \in 0 .. N - 1
    BY <1>2, MadeInRange, Zenon
  <2>6. s \in 0 .. N - 1
    BY <1>2, MadeInRange, Zenon
  <2>7. r \in 1 .. N - 1 /\ s \in 1 .. N - 1 /\ r \in Nat /\ s \in Nat
    <3>1. r # 0 /\ s # 0
      BY <2>3, Zenon
    <3> QED
      BY <1>0, <2>5, <2>6, <3>1
  <2>8. Same(Back(r, s, d, N), k, N)
    BY <1>0, <2>1, <2>2, <2>3, NonceComesOut, Zenon
  <2>9. t # 0
    <3>1. ASSUME t = 0 PROVE FALSE
      <4>1. PartsAreZero(r, s, N)
        BY <3>1, Zenon DEF PartsAreZero
      <4>2. AddUp(r, k, N)
        BY <1>0, <2>6, <2>7, <2>8, <4>1, PartsCancel, Zenon
      <4> QED
        BY <2>3, <4>2, Zenon DEF AddUp
    <3> QED
      BY <3>1
  <2>10. Group!Sum(Group!Multiple(s % N, G), Group!Multiple(t, P)) = Group!Multiple(k, G)
    <3>1. Arrival(r, s, Group!Multiple(d, G)) = Group!Multiple(k, G)
      BY <2>1, <2>3, <2>6, <2>7, <2>8, PointComesOut, Zenon
    <3> QED
      BY <2>4, <3>1, Zenon DEF Arrival
  <2>11. (Hash(P, m) + Coordinates(Group!Sum(Group!Multiple(s % N, G), Group!Multiple(t, P)))[1]) % N = r
    BY <2>3, <2>10, Zenon
  <2>12. Passes(m, P, r, s)
    BY <2>3, <2>7, <2>9, <2>11, Zenon DEF Passes
  <2> QED
    BY <2>4, <2>12, Verifying, Zenon DEF P
<1> QED
  BY <1>1, <1>2, Zenon

-----------------------------------------------------------------------------
(* The programs.                                                              *)

\* What a program holds: its key pair, and a signature made with it.
SignatureInv ==
  /\ dA \in Nat \union {-1} /\ generated \in BOOLEAN
  /\ dA # -1 => PA = SM2_make_pubkey(dA).P
  /\ generated => Lawful(dA)
  /\ signed.ret = 0 => /\ dA # -1 /\ signed.message \in Messages
                       /\ \E k \in 0 .. N - 1, z \in InversesOf(dA + 1) :
                            Gives(signed.message, dA, k, z, signed.r, signed.s)

LEMMA InitSignatureInv == SignatureInit => SignatureInv
<1> SUFFICES ASSUME SignatureInit PROVE SignatureInv
  OBVIOUS
<1>1. dA = -1 /\ generated = FALSE /\ signed = [message |-> 0, ret |-> -1, r |-> 0, s |-> 0]
  BY DEF SignatureInit
<1>2. signed.ret # 0
  BY <1>1
<1> QED
  BY <1>1, <1>2 DEF SignatureInv

LEMMA SignRecord ==
  ASSUME NEW m, NEW d, NEW k, NEW z
  PROVE  \E ret, r, s : SM2_Sign(m, d, k, z) = [ret |-> ret, r |-> r, s |-> s]
BY Zenon DEF SM2_Sign

LEMMA KeyGenerationInv == SignatureInv /\ SM2_KeyGeneration => SignatureInv'
<1> SUFFICES ASSUME SignatureInv, SM2_KeyGeneration PROVE SignatureInv'
  OBVIOUS
<1>1. PICK d \in PrivateKeys(N - 2) : dA' = d /\ PA' = SM2_make_pubkey(d).P
  BY DEF SM2_KeyGeneration
<1>2. dA = -1 /\ generated' = TRUE /\ UNCHANGED signed
  BY DEF SM2_KeyGeneration
<1>3. dA' \in 1 .. N - 2 /\ dA' \in Nat
  BY <1>1, Numbers DEF PrivateKeys
<1>4. signed.ret # 0
  BY <1>2 DEF SignatureInv
<1>5. PA' = SM2_make_pubkey(dA').P
  BY <1>1, Zenon
<1> QED
  BY <1>2, <1>3, <1>4, <1>5 DEF SignatureInv, Lawful

LEMMA LoadKeyInv == SignatureInv /\ LoadKey => SignatureInv'
<1> SUFFICES ASSUME SignatureInv, LoadKey PROVE SignatureInv'
  OBVIOUS
<1>1. PICK d \in KeyFiles : dA' = d /\ PA' = SM2_make_pubkey(d).P
  BY DEF LoadKey
<1>2. dA = -1 /\ UNCHANGED <<generated, signed>>
  BY DEF LoadKey
<1>3. dA' \in Nat
  BY <1>1, Numbers
<1>4. signed.ret # 0 /\ generated = FALSE
  <2>1. ~ (-1 \in 1 .. N - 2)
    BY Numbers
  <2> QED
    BY <1>2, <2>1 DEF SignatureInv, Lawful
<1>5. PA' = SM2_make_pubkey(dA').P
  BY <1>1, Zenon
<1> QED
  BY <1>2, <1>3, <1>4, <1>5 DEF SignatureInv

LEMMA SignInv == SignatureInv /\ Sign => SignatureInv'
<1> SUFFICES ASSUME SignatureInv, Sign PROVE SignatureInv'
  OBVIOUS
<1>1. dA # -1 /\ UNCHANGED <<dA, PA, generated>>
  BY DEF Sign
<1>2. PICK m \in Messages, k \in Nonces, z \in InversesOf(dA + 1) :
        signed' = [message |-> m, ret |-> SM2_Sign(m, dA, k, z).ret,
                   r |-> SM2_Sign(m, dA, k, z).r, s |-> SM2_Sign(m, dA, k, z).s]
  BY Zenon DEF Sign
<1>3. PICK ret, r, s : SM2_Sign(m, dA, k, z) = [ret |-> ret, r |-> r, s |-> s]
  BY SignRecord, Zenon
<1>4. signed' = [message |-> m, ret |-> ret, r |-> r, s |-> s]
  BY <1>2, <1>3
<1>5. signed'.message = m /\ signed'.ret = ret /\ signed'.r = r /\ signed'.s = s
  BY <1>4
<1>6. k \in 0 .. N - 1
  BY Numbers DEF Nonces
<1>7. ret = 0 => Gives(m, dA, k, z, r, s)
  BY <1>3 DEF Gives
<1>8. dA' = dA
  BY <1>1
<1>9. signed'.ret = 0 =>
        /\ signed'.message \in Messages
        /\ \E kk \in 0 .. N - 1, zz \in InversesOf(dA' + 1) :
             Gives(signed'.message, dA', kk, zz, signed'.r, signed'.s)
  BY <1>2, <1>5, <1>6, <1>7, <1>8, Zenon
<1>10. dA' # -1 /\ dA' \in Nat \union {-1} /\ generated' \in BOOLEAN /\ PA' = SM2_make_pubkey(dA').P
       /\ (generated' => Lawful(dA'))
  BY <1>1 DEF SignatureInv
<1> QED
  BY <1>9, <1>10, Zenon DEF SignatureInv, Gives

LEMMA VerifyInv == SignatureInv /\ (VerifySigned \/ VerifyAny) => SignatureInv'
<1> SUFFICES ASSUME SignatureInv, VerifySigned \/ VerifyAny PROVE SignatureInv'
  OBVIOUS
<1>1. CASE VerifySigned
  BY <1>1 DEF VerifySigned, SignatureInv, Gives
<1>2. CASE VerifyAny
  <2>1. UNCHANGED <<dA, PA, generated>>
    BY <1>2 DEF VerifyAny
  <2>2. PICK m, r, s : signed' = [message |-> m, ret |-> -1, r |-> r, s |-> s]
    BY <1>2, Zenon DEF VerifyAny
  <2>3. signed'.ret # 0
    BY <2>2
  <2> QED
    BY <2>1, <2>3 DEF SignatureInv
<1> QED
  BY <1>1, <1>2

LEMMA SignatureInvHolds == SignatureSpec => []SignatureInv
<1>1. SignatureInv /\ [SignatureNext]_signatureVars => SignatureInv'
  <2> SUFFICES ASSUME SignatureInv, [SignatureNext]_signatureVars PROVE SignatureInv'
    OBVIOUS
  <2>1. CASE UNCHANGED signatureVars
    BY <2>1 DEF SignatureInv, signatureVars, Gives
  <2> QED
    BY <2>1, KeyGenerationInv, LoadKeyInv, SignInv, VerifyInv DEF SignatureNext
<1> QED
  BY <1>1, InitSignatureInv, PTL DEF SignatureSpec

\* SignedVerifies: a signature that SM2_Sign made with a generated key or one in
\* range is accepted by SM2_Verify, on every curve, for every nonce.
THEOREM SignedVerifiesCorrect == SignatureSpec => SignedVerifies
<1>1. ASSUME SignatureInv, [SignatureNext]_signatureVars
      PROVE  [verdict' # verdict /\ signed.ret = 0 /\ (generated \/ Lawful(dA)) => verdict' = 0]_signatureVars
  <2> SUFFICES ASSUME SignatureNext, verdict' # verdict, signed.ret = 0, generated \/ Lawful(dA)
               PROVE  verdict' = 0
    BY <1>1
  <2>1. Lawful(dA) /\ dA # -1
    BY <1>1 DEF SignatureInv
  <2>2. VerifySigned
    <3>1. ~SM2_KeyGeneration /\ ~LoadKey
      BY <2>1 DEF SM2_KeyGeneration, LoadKey
    <3>2. ~Sign
      BY DEF Sign
    <3>3. ~VerifyAny
      BY DEF VerifyAny
    <3> QED
      BY <3>1, <3>2, <3>3 DEF SignatureNext
  <2>3. verdict' = SM2_Verify(signed.message, PA, signed.r, signed.s) /\ PA = SM2_make_pubkey(dA).P
    BY <1>1, <2>1, <2>2 DEF VerifySigned, SignatureInv
  <2>4. /\ signed.message \in Messages
        /\ \E k \in 0 .. N - 1, z \in InversesOf(dA + 1) :
             Gives(signed.message, dA, k, z, signed.r, signed.s)
    BY <1>1 DEF SignatureInv
  <2>5. dA \in 1 .. N - 2
    BY <2>1 DEF Lawful
  <2>6. signed.r \in Int /\ signed.s \in Int
    BY <2>4, <2>5, MadeInRange, Zenon
  <2>7. Accepted(signed.message, SM2_make_pubkey(dA).P, signed.r, signed.s)
    BY <2>4, <2>5, <2>6, VerifiesWhatIsMade, Zenon
  <2> QED
    BY <2>3, <2>7, Zenon DEF Accepted
<1> QED
  BY <1>1, SignatureInvHolds, PTL DEF SignatureSpec, SignedVerifies

\* AcceptsOnlySignatures: what SM2_Verify accepts under a key in range is what its
\* owner can make by the equation of SM2_Sign, and all of that.
THEOREM AcceptsOnlySignaturesCorrect == SignatureSpec => AcceptsOnlySignatures
<1> DEFINE Makes == \E k \in 0 .. N - 1, z1 \in InversesOf(dA + 1) :
                      SM2_Sign(signed'.message, dA, k, z1) = [ret |-> 0, r |-> signed'.r, s |-> signed'.s]
<1>1. ASSUME SignatureInv, [SignatureNext]_signatureVars
      PROVE  [verdict' # verdict /\ Lawful(dA) => (verdict' = 0 <=> Makes)]_signatureVars
  <2> SUFFICES ASSUME SignatureNext, verdict' # verdict, Lawful(dA)
               PROVE  verdict' = 0 <=> Makes
    BY <1>1
  <2>1. dA \in 1 .. N - 2 /\ dA # -1
    BY Numbers DEF Lawful
  <2>2. PA = SM2_make_pubkey(dA).P
    BY <1>1, <2>1 DEF SignatureInv
  <2>3. /\ verdict' = SM2_Verify(signed'.message, PA, signed'.r, signed'.s)
        /\ signed'.message \in Messages /\ signed'.r \in Int /\ signed'.s \in Int
    <3>1. CASE VerifySigned
      <4>1. signed.ret = 0 /\ signed' = signed /\ verdict' = SM2_Verify(signed.message, PA, signed.r, signed.s)
        BY <3>1 DEF VerifySigned
      <4>2. /\ signed.message \in Messages
            /\ \E k \in 0 .. N - 1, z \in InversesOf(dA + 1) :
                 Gives(signed.message, dA, k, z, signed.r, signed.s)
        BY <1>1, <4>1 DEF SignatureInv
      <4>3. signed.r \in Int /\ signed.s \in Int
        BY <2>1, <4>2, MadeInRange, Zenon
      <4> QED
        BY <4>1, <4>2, <4>3
    <3>2. CASE VerifyAny
      <4>1. PICK m \in Messages, r \in 0 .. N + 1, s \in 0 .. N + 1 :
              /\ signed' = [message |-> m, ret |-> -1, r |-> r, s |-> s]
              /\ verdict' = SM2_Verify(m, PA, r, s)
        BY <3>2, Zenon DEF VerifyAny
      <4>2. signed'.message = m /\ signed'.r = r /\ signed'.s = s
        BY <4>1
      <4>3. r \in Int /\ s \in Int
        BY Numbers
      <4> QED
        BY <4>1, <4>2, <4>3, Zenon
    <3>3. ~SM2_KeyGeneration /\ ~LoadKey
      BY <2>1 DEF SM2_KeyGeneration, LoadKey
    <3>4. ~Sign
      BY DEF Sign
    <3> QED
      BY <3>1, <3>2, <3>3, <3>4 DEF SignatureNext
  <2>4. Accepted(signed'.message, SM2_make_pubkey(dA).P, signed'.r, signed'.s) <=>
          \E k \in 0 .. N - 1, z \in InversesOf(dA + 1) :
            Gives(signed'.message, dA, k, z, signed'.r, signed'.s)
    BY <2>1, <2>3, VerifiesWhatIsMade, Zenon
  <2> QED
    BY <2>2, <2>3, <2>4, Zenon DEF Accepted, Gives
<1> QED
  BY <1>1, SignatureInvHolds, PTL DEF SignatureSpec, AcceptsOnlySignatures

-----------------------------------------------------------------------------
(* The block cipher.                                                          *)

Stages == {"schedule", "encrypt", "decrypt", "done"}
TypeOK == /\ stage \in Stages /\ i \in 0 .. Rounds
          /\ MK \in [0 .. 3 -> Word] /\ PlainText \in [0 .. 3 -> Word]
          /\ K \in Array /\ X \in Array /\ Y \in Array

\* One round of encryption took word n of X to word n + 4.
Encrypted(n) == X[n+4] = XorW(X[n], T(XorW(Mixed(X, n), rk(n))))
\* The rounds of encryption done so far.
RoundsDone == /\ stage = "encrypt" => \A n \in 0 .. Rounds - 1 : n < i => Encrypted(n)
              /\ stage \in {"decrypt", "done"} => \A n \in 0 .. Rounds - 1 : Encrypted(n)
              /\ stage = "schedule" => \A n \in 0 .. 3 : X[n] = PlainText[n]
              /\ stage = "done" => i = Rounds
IInv == TypeOK /\ RoundsDone /\ Unwinding

USE RoundsAssumption

\* A round function applied to words gives a word.
LEMMA RoundWord ==
  ASSUME NEW A \in Array, NEW k \in Word, NEW n \in 0 .. Rounds - 1
  PROVE  /\ XorW(A[n], T(XorW(Mixed(A, n), k))) \in Word
         /\ XorW(A[n], TKey(XorW(Mixed(A, n), k))) \in Word
<1>1. A[n] \in Word /\ A[n+1] \in Word /\ A[n+2] \in Word /\ A[n+3] \in Word
  BY DEF Array
<1>2. Mixed(A, n) \in Word
  BY <1>1, XorAssumption DEF Mixed
<1>3. XorW(Mixed(A, n), k) \in Word
  BY <1>2, XorAssumption
<1> QED BY <1>1, <1>3, XorAssumption, RoundAssumption

\* The initial state has the right types and a block in the array.
LEMMA InitIInv == Init => IInv
<1> SUFFICES ASSUME Init PROVE IInv
  OBVIOUS
<1>1. MK \in [0 .. 3 -> Word] /\ PlainText \in [0 .. 3 -> Word]
  BY ConstantAssumption DEF Init
<1>2. \A n \in 0 .. Rounds + 3 : n % 4 \in 0 .. 3
  OBVIOUS
<1>3. X \in Array /\ Y \in Array
  BY <1>1, <1>2 DEF Init, Array
<1>4. \A n \in 0 .. Rounds + 3 : XorW(FK[n % 4], MK[n % 4]) \in Word
  BY <1>1, <1>2, ConstantAssumption, XorAssumption
<1>5. K \in Array
  BY <1>4 DEF Init, Array
<1>6. \A n \in 0 .. 3 : X[n] = PlainText[n]
  <2> TAKE n \in 0 .. 3
  <2>1. n % 4 = n /\ n \in 0 .. Rounds + 3
    OBVIOUS
  <2> QED BY <2>1 DEF Init
<1> QED BY <1>1, <1>3, <1>5, <1>6 DEF Init, IInv, TypeOK, RoundsDone, Unwinding, Stages

\* A step of encryption adds one word; the earlier rounds read what they read.
LEMMA EncryptStep == IInv /\ EncryptRound => IInv'
<1> SUFFICES ASSUME IInv, EncryptRound PROVE IInv'
  OBVIOUS
<1> USE DEF IInv, TypeOK
<1>1. i \in 0 .. Rounds - 1 /\ rk(i) \in Word
  BY DEF EncryptRound, rk, Array
<1>2. X' \in Array
  BY <1>1, RoundWord DEF EncryptRound, Array
<1>3. TypeOK'
  BY <1>1, <1>2 DEF EncryptRound
<1>4. \A n \in 0 .. i + 3 : X'[n] = X[n]
  BY <1>1 DEF EncryptRound, Array
<1>5. ASSUME NEW n \in 0 .. Rounds - 1, n < i' PROVE Encrypted(n)'
  <2>1. X'[n] = X[n] /\ X'[n+1] = X[n+1] /\ X'[n+2] = X[n+2] /\ X'[n+3] = X[n+3]
    BY <1>1, <1>4, <1>5 DEF EncryptRound
  <2>2. Mixed(X, n)' = Mixed(X, n) /\ rk(n)' = rk(n)
    BY <2>1 DEF Mixed, rk, EncryptRound
  <2>3. CASE n = i
    <3>1. X'[n+4] = XorW(X[n], T(XorW(Mixed(X, n), rk(n))))
      BY <1>1, <2>3 DEF EncryptRound, Array
    <3> QED BY <3>1, <2>1, <2>2 DEF Encrypted
  <2>4. CASE n < i
    <3>1. Encrypted(n)
      BY <2>4 DEF RoundsDone, EncryptRound
    <3>2. X'[n+4] = X[n+4]
      BY <1>1, <1>4, <2>4
    <3> QED BY <3>1, <3>2, <2>1, <2>2 DEF Encrypted
  <2> QED BY <1>1, <1>5, <2>3, <2>4 DEF EncryptRound
<1>6. RoundsDone'
  BY <1>5 DEF RoundsDone, EncryptRound
<1>7. Unwinding'
  BY <1>1, <1>4 DEF Unwinding, EncryptRound
<1> QED BY <1>3, <1>6, <1>7

\* A step of decryption takes the last round not yet undone back.
LEMMA DecryptStep == IInv /\ DecryptRound => IInv'
<1> SUFFICES ASSUME IInv, DecryptRound PROVE IInv'
  OBVIOUS
<1> USE DEF IInv, TypeOK
<1> DEFINE r == Rounds - 1 - i
<1>1. i \in 0 .. Rounds - 1 /\ r \in 0 .. Rounds - 1 /\ rk(r) \in Word
  BY DEF DecryptRound, rk, Array
<1>2. Y' \in Array
  BY <1>1, RoundWord DEF DecryptRound, Array, Reversed
<1>3. TypeOK'
  BY <1>1, <1>2 DEF DecryptRound
<1>4. Y[i] = X[r+4] /\ Y[i+1] = X[r+3] /\ Y[i+2] = X[r+2] /\ Y[i+3] = X[r+1]
  BY <1>1 DEF Unwinding, DecryptRound
<1>5. X[r] \in Word /\ X[r+1] \in Word /\ X[r+2] \in Word /\ X[r+3] \in Word
  BY <1>1 DEF Array
<1>6. Mixed(Y, i) = Mixed(X, r)
  <2>1. Mixed(Y, i) = XorW(XorW(X[r+3], X[r+2]), X[r+1])
    BY <1>4, Zenon DEF Mixed
  <2> HIDE DEF r
  <2>2. XorW(XorW(X[r+3], X[r+2]), X[r+1]) = XorW(XorW(X[r+1], X[r+2]), X[r+3])
    BY <1>5, XorAssumption, Zenon
  <2> QED BY <2>1, <2>2, Zenon DEF Mixed
<1>7. X[r+4] = XorW(X[r], T(XorW(Mixed(X, r), rk(r))))
  BY <1>1 DEF RoundsDone, DecryptRound, Encrypted
<1>8. T(XorW(Mixed(X, r), rk(r))) \in Word
  BY <1>1, <1>5, XorAssumption, RoundAssumption DEF Mixed
<1>9. Y'[i+4] = X[r]
  <2>1. Y'[i+4] = XorW(Y[i], T(XorW(Mixed(Y, i), rk(r))))
    BY <1>1 DEF DecryptRound, Array, Reversed
  <2> HIDE DEF r
  <2> DEFINE t == T(XorW(Mixed(X, r), rk(r)))
  <2>2. Y'[i+4] = XorW(X[r+4], t)
    BY <2>1, <1>4, <1>6, Zenon
  <2>3. Y'[i+4] = XorW(XorW(X[r], t), t)
    BY <2>2, <1>7, Zenon
  <2> QED BY <2>3, <1>5, <1>8, XorAssumption, Zenon
<1>10. \A n \in 0 .. i + 3 : Y'[n] = Y[n]
  BY <1>1 DEF DecryptRound, Array
<1>11. \A n \in 0 .. i' + 3 : Y'[n] = X'[Rounds + 3 - n]
  <2> SUFFICES ASSUME NEW n \in 0 .. i + 4 PROVE Y'[n] = X[Rounds + 3 - n]
    BY <1>1 DEF DecryptRound
  <2>1. CASE n = i + 4
    BY <2>1, <1>1, <1>9
  <2>2. CASE n \in 0 .. i + 3
    BY <2>2, <1>10 DEF Unwinding, DecryptRound
  <2> QED BY <2>1, <2>2, <1>1
<1>12. RoundsDone'
  BY DEF RoundsDone, DecryptRound, Encrypted, Mixed, rk
<1>13. Unwinding'
  BY <1>11 DEF Unwinding, DecryptRound
<1> QED BY <1>3, <1>12, <1>13

\* The key schedule touches no block.
LEMMA KeyStep == IInv /\ KeyRound => IInv'
<1> SUFFICES ASSUME IInv, KeyRound PROVE IInv'
  OBVIOUS
<1> USE DEF IInv, TypeOK
<1>1. i \in 0 .. Rounds - 1 /\ CK[i] \in Word
  BY ConstantAssumption DEF KeyRound
<1>2. K' \in Array
  BY <1>1, RoundWord DEF KeyRound, Array
<1> QED BY <1>1, <1>2 DEF KeyRound, RoundsDone, Unwinding

\* Between the functions the arrays are handed over.
LEMMA TurnStep == IInv /\ (StartEncrypt \/ StartDecrypt \/ Finish) => IInv'
<1> SUFFICES ASSUME IInv, StartEncrypt \/ StartDecrypt \/ Finish PROVE IInv'
  OBVIOUS
<1> USE DEF IInv, TypeOK
<1>1. CASE StartEncrypt
  BY <1>1 DEF StartEncrypt, RoundsDone, Unwinding, Stages
<1>2. CASE StartDecrypt
  <2>1. \A n \in 0 .. Rounds + 3 : n % 4 \in 0 .. 3
    OBVIOUS
  <2>2. Y' \in Array
    BY <1>2, <2>1 DEF StartDecrypt, Array, CipherText
  <2>3. \A n \in 0 .. 3 : n % 4 = n /\ n \in 0 .. Rounds + 3
    OBVIOUS
  <2>4. \A n \in 0 .. 3 : Y'[n] = X[Rounds + 3 - n]
    BY <1>2, <2>3 DEF StartDecrypt, CipherText
  <2>5. RoundsDone'
    BY <1>2 DEF StartDecrypt, RoundsDone, Encrypted, Mixed, rk
  <2> QED BY <1>2, <2>2, <2>4, <2>5 DEF StartDecrypt, Unwinding, Stages
<1>3. CASE Finish
  BY <1>3 DEF Finish, RoundsDone, Unwinding, Encrypted, Mixed, rk, Stages
<1> QED BY <1>1, <1>2, <1>3

\* Every step keeps the invariant.
LEMMA NextIInv == IInv /\ [Next]_vars => IInv'
<1> SUFFICES ASSUME IInv, [Next]_vars PROVE IInv'
  OBVIOUS
<1>1. CASE UNCHANGED vars
  BY <1>1 DEF vars, IInv, TypeOK, RoundsDone, Unwinding, Encrypted, Mixed, rk
<1> QED BY <1>1, KeyStep, EncryptStep, DecryptStep, TurnStep DEF Next

\* While decryption runs, its array mirrors that of encryption (SM4.c:147-177).
THEOREM UnwindingHolds == Spec => []Unwinding
<1>1. IInv => Unwinding
  BY DEF IInv
<1> QED BY InitIInv, NextIInv, <1>1, PTL DEF Spec

\* SM4_Decrypt gives back what SM4_Encrypt was given, for every key and block.
THEOREM DecryptInverts == Spec => []Inverts
<1>1. IInv => Inverts
  <2> SUFFICES ASSUME IInv, stage = "done" PROVE Output = PlainText
    BY DEF Inverts
  <2>1. \A n \in 0 .. 3 : Y[Rounds + 3 - n] = X[n]
    <3> TAKE n \in 0 .. 3
    <3>1. Rounds + 3 - n \in 0 .. i + 3 /\ Rounds + 3 - (Rounds + 3 - n) = n
      BY DEF IInv, RoundsDone
    <3> QED BY <3>1 DEF IInv, Unwinding
  <2>2. \A n \in 0 .. 3 : Output[n] = PlainText[n]
    BY <2>1 DEF IInv, Unwinding, Output
  <2> QED BY <2>2 DEF IInv, TypeOK, Output
<1> QED BY InitIInv, NextIInv, <1>1, PTL DEF Spec

-----------------------------------------------------------------------------
(* Powers of two, and the rows of the table of offsets.                        *)

IsPowers(p, n) == p = [k \in 0 .. n |-> IF k = 0 THEN 1 ELSE 2 * p[k-1]]

LEMMA WidthPowersExist ==
  ASSUME NEW n \in Nat
  PROVE  \E p : IsPowers(p, n) /\ TwoTo(n) = p[n]
<1> DEFINE step == [q \in Nat \X Nat |-> 2 * q[1]]
           c == CHOOSE p : IsPowers(p, n)
<1>1. step \in [Nat \X Nat -> Nat]
  OBVIOUS
<1>2. PICK f \in [0 .. n -> Nat] : IsSteps(f, n, 1, step)
  <2>1. 1 \in Nat
    OBVIOUS
  <2> HIDE DEF step
  <2> QED
    BY <1>1, <2>1, RowOfSteps
<1>3. IsPowers(f, n)
  <2>1. \A k \in 1 .. n : k \in Nat /\ f[k-1] \in Nat /\ step[<<f[k-1], k>>] = 2 * f[k-1]
    BY <1>2
  <2> HIDE DEF step
  <2> QED
    BY <1>2, <2>1 DEF IsPowers, IsSteps
<1>4. IsPowers(c, n)
  BY <1>3, Zenon
<1>5. TwoTo(n) = c[n]
  BY Zenon DEF TwoTo, IsPowers
<1> QED
  BY <1>4, <1>5

LEMMA PowersAgree ==
  ASSUME NEW n \in Nat, NEW p, NEW q, IsPowers(p, n), IsPowers(q, n + 1)
  PROVE  p[n] = q[n]
<1> DEFINE S == {k \in Nat : k <= n => p[k] = q[k]}
<1>1. 0 \in S
  BY DEF IsPowers
<1>2. ASSUME NEW k \in Nat, k \in S PROVE k + 1 \in S
  <2> SUFFICES ASSUME k + 1 <= n PROVE p[k+1] = q[k+1]
    OBVIOUS
  <2>1. p[k] = q[k]
    BY <1>2
  <2>2. p[k+1] = 2 * p[k] /\ q[k+1] = 2 * q[k]
    BY DEF IsPowers
  <2> QED
    BY <2>1, <2>2
<1>3. Nat \subseteq S
  <2> HIDE DEF S
  <2> QED
    BY <1>1, <1>2, SetInduction
<1> QED
  BY <1>3

LEMMA TwoToIs ==
  TwoTo(0) = 1 /\ \A n \in Nat : TwoTo(n + 1) = 2 * TwoTo(n)
<1>1. TwoTo(0) = 1
  <2>1. PICK p : IsPowers(p, 0) /\ TwoTo(0) = p[0]
    BY WidthPowersExist
  <2> QED
    BY <2>1 DEF IsPowers
<1>2. ASSUME NEW n \in Nat PROVE TwoTo(n + 1) = 2 * TwoTo(n)
  <2>1. PICK p : IsPowers(p, n) /\ TwoTo(n) = p[n]
    BY WidthPowersExist
  <2>2. PICK q : IsPowers(q, n + 1) /\ TwoTo(n + 1) = q[n + 1]
    BY WidthPowersExist
  <2>3. p[n] = q[n]
    BY <2>1, <2>2, PowersAgree
  <2>4. q[n + 1] = 2 * q[n]
    BY <2>2 DEF IsPowers
  <2> QED
    BY <2>1, <2>2, <2>3, <2>4
<1> QED
  BY <1>1, <1>2

LEMMA TwoToPositive == \A n \in Nat : TwoTo(n) \in Nat \ {0}
<1> DEFINE S == {n \in Nat : TwoTo(n) \in Nat \ {0}}
<1>1. 0 \in S
  BY TwoToIs
<1>2. ASSUME NEW n \in Nat, n \in S PROVE n + 1 \in S
  BY <1>2, TwoToIs
<1> HIDE DEF S
<1>3. Nat \subseteq S
  BY <1>1, <1>2, SetInduction
<1> QED
  BY <1>3 DEF S

LEMMA TwoToGrows ==
  ASSUME NEW n \in Nat, NEW m \in Nat, n <= m
  PROVE  TwoTo(n) <= TwoTo(m)
<1> DEFINE S == {d \in Nat : TwoTo(n) <= TwoTo(n + d)}
<1>1. 0 \in S
  BY TwoToPositive
<1>2. ASSUME NEW d \in Nat, d \in S PROVE d + 1 \in S
  <2>1. TwoTo(n + (d + 1)) = 2 * TwoTo(n + d)
    BY TwoToIs
  <2>2. TwoTo(n + d) \in Nat /\ TwoTo(n) \in Nat
    BY TwoToPositive
  <2> QED
    BY <1>2, <2>1, <2>2
<1>3. Nat \subseteq S
  <2> HIDE DEF S
  <2> QED
    BY <1>1, <1>2, SetInduction
<1>4. m - n \in S
  <2> HIDE DEF S
  <2> QED
    BY <1>3
<1> QED
  BY <1>4

\* Every number but 0 is an odd multiple of a power of two.
IsNtz(a, k) == k \in 0 .. a /\ a % TwoTo(k) = 0 /\ (a \div TwoTo(k)) % 2 = 1

LEMMA NtzExists ==
  ASSUME NEW a \in Nat \ {0}
  PROVE  \E k : IsNtz(a, k)
<1> DEFINE S == {n \in Nat : \A b \in 1 .. n : \E k : IsNtz(b, k)}
<1>1. 0 \in S
  OBVIOUS
<1>2. ASSUME NEW n \in Nat, n \in S PROVE n + 1 \in S
  <2> SUFFICES \E k : IsNtz(n + 1, k)
    <3>1. ASSUME NEW b \in 1 .. n + 1, b # n + 1 PROVE \E k : IsNtz(b, k)
      BY <1>2, <3>1
    <3> QED
      BY <3>1
  <2>1. CASE (n + 1) % 2 = 1
    <3>1. IsNtz(n + 1, 0)
      BY <2>1, TwoToIs DEF IsNtz
    <3> QED
      BY <3>1
  <2>2. CASE (n + 1) % 2 # 1
    <3> DEFINE b == (n + 1) \div 2
    <3>1. n + 1 = 2 * b /\ b \in 1 .. n
      BY <2>2
    <3> HIDE DEF b
    <3>2. PICK k : IsNtz(b, k)
      BY <1>2, <3>1
    <3> DEFINE t == TwoTo(k)
               q == b \div t
    <3>3. k \in 0 .. b /\ t \in Nat \ {0} /\ TwoTo(k + 1) = 2 * t
      BY <3>1, <3>2, TwoToIs, TwoToPositive DEF IsNtz
    <3>4. b % t = 0 /\ q % 2 = 1
      BY <3>2 DEF IsNtz
    <3> HIDE DEF t
    <3>5. b = t * q /\ q \in Nat
      BY <3>1, <3>3, <3>4
    <3> HIDE DEF q
    <3>6. n + 1 = (2 * t) * q /\ 2 * t \in Nat \ {0}
      <4>1. (2 * t) * q = 2 * (t * q)
        BY <3>3, <3>5
      <4> QED
        BY <3>1, <3>3, <3>5, <4>1
    <3>7. ((2 * t) * q) \div (2 * t) = q /\ ((2 * t) * q) % (2 * t) = 0
      BY <3>5, <3>6, RestOfMultiple
    <3>8. k + 1 \in 0 .. n + 1
      BY <3>1, <3>3
    <3>9. IsNtz(n + 1, k + 1)
      BY <3>3, <3>4, <3>6, <3>7, <3>8, Zenon DEF IsNtz
    <3> QED
      BY <3>9
  <2> QED
    BY <2>1, <2>2
<1>3. Nat \subseteq S
  <2> HIDE DEF S
  <2> QED
    BY <1>1, <1>2, SetInduction
<1> QED
  BY <1>3

LEMMA NtzIs ==
  ASSUME NEW a \in Nat \ {0}
  PROVE  ocb_ntz(a) \in Nat /\ TwoTo(ocb_ntz(a)) <= a
<1> DEFINE c == ocb_ntz(a)
           t == TwoTo(c)
<1>1. IsNtz(a, c)
  <2>1. c = CHOOSE k : IsNtz(a, k)
    BY Zenon DEF ocb_ntz, IsNtz
  <2> HIDE DEF c
  <2> QED
    BY <2>1, NtzExists, Zenon
<1> HIDE DEF c
<1>2. c \in Nat /\ t \in Nat \ {0} /\ a % t = 0
  BY <1>1, TwoToPositive DEF IsNtz
<1> HIDE DEF t
<1>3. t <= a
  BY <1>2
<1> QED
  BY <1>2, <1>3 DEF c, t

IsLog(a, k) == k \in 1 .. a /\ TwoTo(k - 1) <= a /\ a < TwoTo(k)

LEMMA LogExists ==
  ASSUME NEW a \in Nat \ {0}
  PROVE  \E k : IsLog(a, k)
<1> DEFINE S == {n \in Nat : \E k : IsLog(n + 1, k)}
<1>1. 0 \in S
  <2>1. IsLog(0 + 1, 1)
    <3>1. TwoTo(0) = 1 /\ TwoTo(0 + 1) = 2
      BY TwoToIs
    <3> QED
      BY <3>1 DEF IsLog
  <2> QED
    BY <2>1
<1>2. ASSUME NEW n \in Nat, n \in S PROVE n + 1 \in S
  <2>1. PICK k : IsLog(n + 1, k)
    BY <1>2
  <2> DEFINE t == TwoTo(k)
  <2>2. k \in 1 .. n + 1 /\ t \in Nat /\ TwoTo(k + 1) = 2 * t /\ TwoTo(k - 1) \in Nat
    BY <2>1, TwoToIs, TwoToPositive DEF IsLog
  <2>3. TwoTo(k - 1) <= n + 1 /\ n + 1 < t
    BY <2>1 DEF IsLog
  <2> HIDE DEF t
  <2>4. IsLog(n + 1 + 1, k) \/ IsLog(n + 1 + 1, k + 1)
    <3>1. CASE n + 1 + 1 < t
      BY <2>2, <2>3, <3>1 DEF IsLog, t
    <3>2. CASE ~(n + 1 + 1 < t)
      <4>1. (k + 1) - 1 = k /\ k + 1 \in 1 .. n + 1 + 1 /\ t <= n + 1 + 1 /\ n + 1 + 1 < 2 * t
        BY <2>2, <2>3, <3>2
      <4>2. IsLog(n + 1 + 1, k + 1)
        BY <2>2, <4>1, Zenon DEF IsLog, t
      <4> QED
        BY <4>2
    <3> QED
      BY <3>1, <3>2
  <2> QED
    BY <2>4
<1>3. Nat \subseteq S
  <2> HIDE DEF S
  <2> QED
    BY <1>1, <1>2, SetInduction
<1>4. a - 1 \in S
  <2> HIDE DEF S
  <2> QED
    BY <1>3
<1> QED
  BY <1>4

\* The table has a row for every block of a text it was made for.
LEMMA RowThere ==
  ASSUME NEW a \in Nat, NEW j \in 1 .. a
  PROVE  ocb_ntz(j) \in 0 .. ntz_round_plus_1(a) - 1
<1> DEFINE c == ntz_round_plus_1(a)
           k == ocb_ntz(j)
<1>1. IsLog(a, c)
  <2>1. c = CHOOSE r : IsLog(a, r)
    <3>1. a # 0
      OBVIOUS
    <3> QED
      BY <3>1, Zenon DEF ntz_round_plus_1, IsLog
  <2>2. \E r : IsLog(a, r)
    BY LogExists
  <2> HIDE DEF c
  <2> QED
    BY <2>1, <2>2, Zenon
<1>2. k \in Nat /\ TwoTo(k) <= j
  BY NtzIs
<1> HIDE DEF c, k
<1>3. c \in Nat /\ a < TwoTo(c)
  BY <1>1 DEF IsLog
<1>4. TwoTo(c) \in Nat /\ TwoTo(k) \in Nat
  BY <1>2, <1>3, TwoToPositive
<1>5. c <= k => TwoTo(c) <= TwoTo(k)
  BY <1>2, <1>3, TwoToGrows
<1>6. k \in 0 .. c - 1
  BY <1>2, <1>3, <1>4, <1>5
<1> QED
  BY <1>6 DEF c, k

LEMMA RoundIsNat ==
  ASSUME NEW a \in Nat
  PROVE  ntz_round_plus_1(a) \in Nat
<1>1. CASE a = 0
  BY <1>1 DEF ntz_round_plus_1
<1>2. CASE a # 0
  <2> DEFINE c == ntz_round_plus_1(a)
  <2>1. c = CHOOSE r : IsLog(a, r)
    BY <1>2, Zenon DEF ntz_round_plus_1, IsLog
  <2>2. \E r : IsLog(a, r)
    BY <1>2, LogExists
  <2> HIDE DEF c
  <2>3. IsLog(a, c)
    BY <2>1, <2>2, Zenon
  <2> QED
    BY <2>3 DEF IsLog, c
<1> QED
  BY <1>1, <1>2

-----------------------------------------------------------------------------
(* Bytes, blocks and texts.                                                    *)

LEMMA Sizes ==
  /\ L \in Nat \ {0} /\ L % 2 = 0 /\ Width \in Nat \ {0} /\ Top \in Nat \ {0}
  /\ ByteSize \in Nat \ {0} /\ ByteSize = 2 * Top /\ Poly \in Octet /\ 0 \in Octet
<1>1. L \in Nat \ {0} /\ L % 2 = 0 /\ Width \in Nat \ {0} /\ Poly \in Octet
  BY ModesAssumption, Zenon
<1>2. Width - 1 \in Nat /\ (Width - 1) + 1 = Width
  BY <1>1
<1>3. Top \in Nat \ {0} /\ ByteSize = 2 * Top
  BY <1>2, TwoToIs, TwoToPositive DEF Top, ByteSize
<1> QED
  BY <1>1, <1>3 DEF Octet

LEMMA TwoToSum ==
  ASSUME NEW a \in Nat, NEW b \in Nat
  PROVE  TwoTo(a + b) = TwoTo(a) * TwoTo(b)
<1> DEFINE S == {n \in Nat : TwoTo(a + n) = TwoTo(a) * TwoTo(n)}
<1>1. 0 \in S
  <2>1. TwoTo(a) * 1 = TwoTo(a) /\ a + 0 = a
    BY TwoToPositive
  <2> QED
    BY <2>1, TwoToIs
<1>2. ASSUME NEW n \in Nat, n \in S PROVE n + 1 \in S
  <2>1. TwoTo(a + (n + 1)) = 2 * TwoTo(a + n) /\ TwoTo(n + 1) = 2 * TwoTo(n)
    BY TwoToIs
  <2>2. TwoTo(a + n) = TwoTo(a) * TwoTo(n) /\ TwoTo(a) \in Nat /\ TwoTo(n) \in Nat
    BY <1>2, TwoToPositive
  <2>3. \A x, y \in Nat : 2 * (x * y) = x * (2 * y)
    OBVIOUS
  <2> QED
    BY <2>1, <2>2, <2>3
<1>3. Nat \subseteq S
  <2> HIDE DEF S
  <2> QED
    BY <1>1, <1>2, SetInduction
<1> QED
  BY <1>3

LEMMA DivisionTwice ==
  ASSUME NEW x \in Nat, NEW P \in Nat \ {0}, NEW Q \in Nat \ {0}
  PROVE  (x \div P) \div Q = x \div (P * Q)
<1> DEFINE a == x \div P
           r == x % P
           c == a \div Q
           s == a % Q
<1>1. a \in Nat /\ r \in 0 .. P - 1 /\ x = P * a + r
  OBVIOUS
<1> HIDE DEF a, r
<1>2. c \in Nat /\ s \in 0 .. Q - 1 /\ a = Q * c + s
  BY <1>1
<1> HIDE DEF c, s
<1>3. P * Q \in Nat \ {0} /\ P * s \in Nat
  BY <1>2
<1>4. P * s + r \in 0 .. P * Q - 1
  <2>1. P * Q = P * s + P + P * (Q - 1 - s) /\ Q - 1 - s \in Nat /\ P * (Q - 1 - s) \in Nat
    BY <1>2
  <2> QED
    BY <1>1, <1>3, <2>1
<1>5. x = (P * Q) * c + (P * s + r)
  <2>1. P * a = (P * Q) * c + P * s
    BY <1>2
  <2> DEFINE w == (P * Q) * c
             u == P * s
             z == P * a
  <2>2. w \in Nat /\ u \in Nat /\ z = w + u /\ x = z + r
    <3>1. w \in Nat
      BY <1>2
    <3> QED
      BY <1>1, <1>3, <2>1, <3>1
  <2> HIDE DEF w, u, z
  <2>3. x = w + (u + r)
    BY <1>1, <2>2
  <2> QED
    BY <2>3 DEF w, u
<1> DEFINE M == P * Q
           t == P * s + r
<1>6. M \in Nat \ {0} /\ t \in 0 .. M - 1 /\ x = M * c + t
  BY <1>3, <1>4, <1>5
<1> HIDE DEF M, t
<1>7. x \div M = c
  BY <1>2, <1>6, Division
<1> QED
  BY <1>7 DEF M, a, c

LEMMA BitType == ASSUME NEW x \in Nat, NEW e \in Nat PROVE Bit(x, e) \in {0, 1}
<1>1. TwoTo(e) \in Nat \ {0}
  BY TwoToPositive
<1>2. x \div TwoTo(e) \in Nat
  BY <1>1
<1> QED
  BY <1>2 DEF Bit

LEMMA BitOfShift ==
  ASSUME NEW x \in Nat, NEW s \in Nat, NEW e \in Nat
  PROVE  Bit(x \div TwoTo(s), e) = Bit(x, s + e)
<1>1. (x \div TwoTo(s)) \div TwoTo(e) = x \div (TwoTo(s) * TwoTo(e))
  BY TwoToPositive, DivisionTwice
<1> QED
  BY <1>1, TwoToSum DEF Bit

LEMMA BitOfRest ==
  ASSUME NEW x \in Nat, NEW w \in Nat, NEW e \in Nat, e < w
  PROVE  Bit(x % TwoTo(w), e) = Bit(x, e)
<1> DEFINE P == TwoTo(e)
           c == TwoTo(w - e - 1)
<1>1. w - e - 1 \in Nat /\ (w - e - 1) + 1 = w - e /\ w - e \in Nat /\ e + (w - e) = w
  OBVIOUS
<1>2. P \in Nat \ {0} /\ c \in Nat \ {0}
  BY <1>1, TwoToPositive
<1>3. TwoTo(w - e) = 2 * c
  BY <1>1, TwoToIs
<1>4. TwoTo(w) = P * (2 * c)
  BY <1>1, <1>3, TwoToSum
<1> HIDE DEF P, c
<1>5. ((x % (P * (2 * c))) \div P) % 2 = (x \div P) % 2
  <2> DEFINE B == 2
           M == P * (B * c)
  <2>1. B \in Nat \ {0}
    OBVIOUS
  <2> HIDE DEF B
  <2>2. M = P * (B * c)
    OBVIOUS
  <2> HIDE DEF M
  <2>3. KeepsDigit(x, M, P, B)
    BY <1>2, <2>1, <2>2, DigitOfRest
  <2> QED
    BY <2>3 DEF B, M, KeepsDigit
<1> QED
  BY <1>4, <1>5 DEF Bit, P

\* A number above another one of s bits.
LEMMA BitOfSum ==
  ASSUME NEW a \in Nat, NEW s \in Nat, NEW r \in 0 .. TwoTo(s) - 1, NEW e \in Nat
  PROVE  Bit(TwoTo(s) * a + r, e) = IF e >= s THEN Bit(a, e - s) ELSE Bit(r, e)
<1> DEFINE P == TwoTo(s)
           x == P * a + r
<1>1. P \in Nat \ {0}
  BY TwoToPositive
<1> HIDE DEF P
<1>2. x \div P = a /\ x % P = r
  BY <1>1, Division DEF P
<1>3. x \in Nat
  BY <1>1 DEF P
<1> HIDE DEF x
<1>4. CASE e >= s
  <2>1. e - s \in Nat /\ s + (e - s) = e
    BY <1>4
  <2>2. Bit(x \div P, e - s) = Bit(x, e)
    BY <1>3, <2>1, BitOfShift DEF P
  <2> QED
    BY <1>2, <1>4, <2>2 DEF x, P
<1>5. CASE ~(e >= s)
  <2>1. Bit(x % P, e) = Bit(x, e)
    BY <1>3, <1>5, BitOfRest DEF P
  <2> QED
    BY <1>2, <1>5, <2>1 DEF x, P
<1> QED
  BY <1>4, <1>5

\* Numbers with the same bits are the same.
LEMMA SameBits ==
  ASSUME NEW n \in Nat, NEW x \in 0 .. TwoTo(n) - 1, NEW y \in 0 .. TwoTo(n) - 1,
         \A e \in 0 .. n - 1 : Bit(x, e) = Bit(y, e)
  PROVE  x = y
<1> DEFINE Agree(k, a, b) == \A e \in 0 .. k - 1 : Bit(a, e) = Bit(b, e)
           S == {k \in Nat : \A a, b \in 0 .. TwoTo(k) - 1 : Agree(k, a, b) => a = b}
<1>1. 0 \in S
  BY TwoToIs
<1>2. ASSUME NEW k \in Nat, k \in S PROVE k + 1 \in S
  <2> SUFFICES ASSUME NEW a \in 0 .. TwoTo(k + 1) - 1, NEW b \in 0 .. TwoTo(k + 1) - 1, Agree(k + 1, a, b)
               PROVE  a = b
    OBVIOUS
  <2>1. TwoTo(k + 1) = 2 * TwoTo(k) /\ TwoTo(k) \in Nat /\ TwoTo(1) = 2 /\ TwoTo(0) = 1
    <3>1. TwoTo(0 + 1) = 2 * TwoTo(0)
      BY TwoToIs
    <3> QED
      BY <3>1, TwoToIs, TwoToPositive
  <2>2. a \in Nat /\ b \in Nat /\ a \div 2 \in 0 .. TwoTo(k) - 1 /\ b \div 2 \in 0 .. TwoTo(k) - 1
    BY <2>1
  <2>3. ASSUME NEW e \in 0 .. k - 1 PROVE Bit(a \div 2, e) = Bit(b \div 2, e)
    <3>1. Bit(a, 1 + e) = Bit(b, 1 + e)
      <4>1. 1 + e \in 0 .. (k + 1) - 1
        OBVIOUS
      <4> QED
        BY <4>1
    <3>2. Bit(a \div TwoTo(1), e) = Bit(a, 1 + e) /\ Bit(b \div TwoTo(1), e) = Bit(b, 1 + e)
      <4>1. 1 \in Nat /\ e \in Nat
        OBVIOUS
      <4> QED
        BY <2>2, <4>1, BitOfShift
    <3> QED
      BY <2>1, <3>1, <3>2
  <2>4. a \div 2 = b \div 2
    BY <1>2, <2>2, <2>3
  <2>5. a % 2 = b % 2
    <3>1. Bit(a, 0) = Bit(b, 0)
      OBVIOUS
    <3>2. a \div 1 = a /\ b \div 1 = b
      BY <2>2
    <3> QED
      BY <2>1, <3>1, <3>2 DEF Bit
  <2> QED
    BY <2>2, <2>4, <2>5
<1>3. Nat \subseteq S
  <2> HIDE DEF S
  <2> QED
    BY <1>1, <1>2, SetInduction
<1>4. n \in S
  <2> HIDE DEF S
  <2> QED
    BY <1>3
<1> QED
  BY <1>4

LEMMA XorBits ==
  ASSUME NEW a \in Octet, NEW b \in Octet
  PROVE  /\ XorB(a, b) \in Octet
         /\ \A e \in 0 .. Width - 1 : Bit(XorB(a, b), e) = (Bit(a, e) + Bit(b, e)) % 2
BY ModesXorAssumption, Zenon

LEMMA SameOctet ==
  ASSUME NEW a \in Octet, NEW b \in Octet, \A e \in 0 .. Width - 1 : Bit(a, e) = Bit(b, e)
  PROVE  a = b
<1>1. Width \in Nat
  BY Sizes
<1> QED
  BY <1>1, SameBits DEF Octet, ByteSize

LEMMA XorByte ==
  ASSUME NEW a \in Octet, NEW b \in Octet
  PROVE  XorB(a, b) \in Octet /\ XorB(a, b) = XorB(b, a) /\ XorB(XorB(a, b), b) = a
<1> DEFINE x == XorB(a, b)
           y == XorB(b, a)
           z == XorB(x, b)
<1>1. x \in Octet /\ y \in Octet
  BY XorBits
<1>2. z \in Octet /\ \A e \in 0 .. Width - 1 : Bit(z, e) = (Bit(x, e) + Bit(b, e)) % 2
  BY <1>1, XorBits
<1>3. ASSUME NEW e \in 0 .. Width - 1
      PROVE  Bit(x, e) = Bit(y, e) /\ Bit(z, e) = Bit(a, e)
  <2>1. e \in Nat /\ a \in Nat /\ b \in Nat
    BY Sizes DEF Octet
  <2>2. Bit(a, e) \in {0, 1} /\ Bit(b, e) \in {0, 1}
    BY <2>1, BitType
  <2>3. Bit(x, e) = (Bit(a, e) + Bit(b, e)) % 2 /\ Bit(y, e) = (Bit(b, e) + Bit(a, e)) % 2
    BY XorBits
  <2>4. Bit(z, e) = (Bit(x, e) + Bit(b, e)) % 2
    BY <1>2
  <2> HIDE DEF x, y, z
  <2> QED
    BY <2>2, <2>3, <2>4
<1> HIDE DEF x, y, z
<1>4. x = y /\ z = a
  BY <1>1, <1>2, <1>3, SameOctet
<1> QED
  BY <1>1, <1>4 DEF x, y, z

\* Different bytes make different bytes.
LEMMA XorTells ==
  ASSUME NEW a \in Octet, NEW b \in Octet, NEW c \in Octet, b # c
  PROVE  XorB(XorB(a, b), c) # a
<1> DEFINE z == XorB(a, b)
<1>1. z \in Octet /\ XorB(z, b) = a
  BY XorByte
<1> HIDE DEF z
<1>2. XorB(XorB(b, z), z) = b /\ XorB(XorB(c, z), z) = c /\ XorB(z, b) = XorB(b, z) /\ XorB(z, c) = XorB(c, z)
  BY <1>1, XorByte
<1>3. ASSUME XorB(z, c) = a PROVE FALSE
  BY <1>1, <1>2, <1>3
<1> QED
  BY <1>3 DEF z

LEMMA XorBlock ==
  ASSUME NEW a \in Blocks, NEW b \in Blocks
  PROVE  Xor16(a, b) \in Blocks /\ Xor16(Xor16(a, b), b) = a
<1>1. \A k \in 1 .. L : a[k] \in Octet /\ b[k] \in Octet
  BY DEF Blocks
<1>2. \A k \in 1 .. L : XorB(a[k], b[k]) \in Octet /\ XorB(XorB(a[k], b[k]), b[k]) = a[k]
  BY <1>1, XorByte
<1>3. Xor16(a, b) \in Blocks
  BY <1>2 DEF Xor16, Blocks
<1>4. Xor16(Xor16(a, b), b) = [k \in 1 .. L |-> a[k]]
  BY <1>2 DEF Xor16
<1>5. a = [k \in 1 .. L |-> a[k]]
  BY DEF Blocks
<1> QED
  BY <1>3, <1>4, <1>5

LEMMA Ciphered ==
  ASSUME NEW b \in Blocks
  PROVE  Enc(b) \in Blocks /\ Dec(b) \in Blocks /\ Dec(Enc(b)) = b /\ Enc(Dec(b)) = b
BY PermutationAssumption, Zenon

LEMMA RowIsSeq ==
  ASSUME NEW n \in Nat, NEW S, NEW f \in [1 .. n -> S]
  PROVE  f \in Seq(S) /\ Len(f) = n
<1>1. f \in Seq(S)
  BY SeqDef
<1>2. Len(f) \in Nat /\ DOMAIN f = 1 .. Len(f) /\ DOMAIN f = 1 .. n
  BY <1>1, LenProperties
<1>3. \A k \in Int : k \in 1 .. Len(f) <=> k \in 1 .. n
  BY <1>2
<1>4. Len(f) = n
  BY <1>2, <1>3
<1> QED
  BY <1>1, <1>4

\* The places of a text in its blocks.
LEMMA Places ==
  ASSUME NEW j \in Nat, NEW p \in 1 .. L
  PROVE  /\ L * j + p \in Nat \ {0} /\ BlockOf(L * j + p) = j /\ PlaceOf(L * j + p) = p
<1>1. L \in Nat \ {0} /\ p - 1 \in 0 .. L - 1
  BY Sizes
<1>2. (L * j + (p - 1)) \div L = j /\ (L * j + (p - 1)) % L = p - 1
  BY <1>1, Division
<1> DEFINE q == L * j
<1>3. q \in Nat
  BY <1>1
<1> HIDE DEF q
<1>4. (q + p) - 1 = q + (p - 1) /\ q + p \in Nat \ {0} /\ (p - 1) + 1 = p
  BY <1>1, <1>3
<1> QED
  BY <1>2, <1>4 DEF q, BlockOf, PlaceOf

LEMMA PlacesOf ==
  ASSUME NEW k \in Nat \ {0}
  PROVE  BlockOf(k) \in Nat /\ PlaceOf(k) \in 1 .. L /\ k = L * BlockOf(k) + PlaceOf(k)
<1>1. L \in Nat \ {0} /\ k - 1 \in Nat
  BY Sizes
<1>2. (k - 1) \div L \in Nat /\ (k - 1) % L \in 0 .. L - 1 /\ k - 1 = L * ((k - 1) \div L) + ((k - 1) % L)
  BY <1>1
<1> DEFINE q == (k - 1) \div L
           r == (k - 1) % L
           m == L * q
<1>3. m \in Int
  BY <1>1, <1>2
<1> HIDE DEF m
<1>4. k - 1 = m + r /\ q \in Nat /\ r \in 0 .. L - 1
  BY <1>2 DEF m
<1> HIDE DEF q, r
<1>5. r + 1 \in 1 .. L /\ k = m + (r + 1)
  BY <1>1, <1>3, <1>4
<1> QED
  BY <1>4, <1>5 DEF m, q, r, BlockOf, PlaceOf

\* The n first blocks are the first bytes.
LEMMA BlocksBelow ==
  ASSUME NEW n \in Nat, NEW j \in Nat, NEW p \in 1 .. L
  PROVE  L * j + p <= L * n <=> j < n
<1>1. L \in Nat \ {0} /\ L * j \in Nat /\ L * n \in Nat
  BY Sizes
<1>2. CASE j < n
  <2>1. L * n = L * j + L * (n - j) /\ n - j \in Nat \ {0} /\ L * (n - j) >= L
    BY <1>1, <1>2
  <2> QED
    BY <1>1, <1>2, <2>1
<1>3. CASE n <= j
  <2>1. L * j = L * n + L * (j - n) /\ j - n \in Nat /\ L * (j - n) \in Nat
    BY <1>1, <1>3
  <2> QED
    BY <1>1, <1>3, <2>1
<1> QED
  BY <1>2, <1>3

\* What a text has in its first n blocks.
IsText(s, n) == \A k \in 1 .. L * n : s[k] \in Octet

LEMMA PartIsBlock ==
  ASSUME NEW n \in Nat, NEW s, IsText(s, n), NEW j \in 0 .. n - 1
  PROVE  PartOf(s, j) \in Blocks
<1>1. ASSUME NEW p \in 1 .. L PROVE s[L * j + p] \in Octet
  <2>1. L * j + p \in Nat \ {0} /\ L * j + p <= L * n /\ L * n \in Nat
    BY Places, BlocksBelow, Sizes
  <2>2. L * j + p \in 1 .. L * n
    BY <2>1
  <2> QED
    BY <2>2 DEF IsText
<1> QED
  BY <1>1 DEF PartOf, Blocks

-----------------------------------------------------------------------------
(* Cipher block chaining.                                                     *)

IsChain(c, IV, s, n) == c = [j \in 0 .. n |-> IF j = 0 THEN IV ELSE Enc(Xor16(PartOf(s, j - 1), c[j-1]))]
Chains(c, IV, s, n) ==
  /\ c[0] = IV /\ \A j \in 0 .. n : c[j] \in Blocks
  /\ \A j \in 1 .. n : c[j] = Enc(Xor16(PartOf(s, j - 1), c[j-1]))

LEMMA ChainIs ==
  ASSUME NEW n \in Nat, NEW s, IsText(s, n), NEW IV \in Blocks
  PROVE  Chains(Chain(IV, s, n), IV, s, n)
<1> DEFINE next(b, j) == Enc(Xor16(PartOf(s, j - 1), b))
           step == [q \in Blocks \X Nat |-> IF q[2] \in 1 .. n THEN next(q[1], q[2]) ELSE q[1]]
           c == CHOOSE f : IsChain(f, IV, s, n)
<1>1. \A b \in Blocks, j \in 1 .. n : next(b, j) \in Blocks
  <2> TAKE b \in Blocks, j \in 1 .. n
  <2>1. PartOf(s, j - 1) \in Blocks
    BY PartIsBlock
  <2> QED
    BY <2>1, XorBlock, Ciphered
<1>2. step \in [Blocks \X Nat -> Blocks]
  <2> HIDE DEF next
  <2> QED
    BY <1>1
<1>3. PICK f \in [0 .. n -> Blocks] : IsSteps(f, n, IV, step)
  <2> HIDE DEF step
  <2> QED
    BY <1>2, RowOfSteps
<1>4. IsChain(f, IV, s, n)
  <2>1. \A j \in 1 .. n : j \in Nat /\ f[j-1] \in Blocks /\ step[<<f[j-1], j>>] = next(f[j-1], j)
    <3> HIDE DEF next
    <3> QED
      BY <1>3
  <2> HIDE DEF step
  <2>2. f = [j \in 0 .. n |-> IF j = 0 THEN IV ELSE next(f[j-1], j)]
    <3> DEFINE g == [j \in 0 .. n |-> IF j = 0 THEN IV ELSE step[<<f[j-1], j>>]]
               h == [j \in 0 .. n |-> IF j = 0 THEN IV ELSE next(f[j-1], j)]
    <3> HIDE DEF next
    <3>1. f = g
      BY <1>3, Zenon DEF IsSteps
    <3>2. ASSUME NEW j \in 0 .. n, j # 0 PROVE step[<<f[j-1], j>>] = next(f[j-1], j)
      <4>1. j \in 1 .. n
        BY <3>2
      <4> QED
        BY <2>1, <4>1
    <3>3. g = h
      <4> SUFFICES ASSUME NEW j \in 0 .. n
                   PROVE  (IF j = 0 THEN IV ELSE step[<<f[j-1], j>>]) = IF j = 0 THEN IV ELSE next(f[j-1], j)
        BY Zenon
      <4> QED
        BY <3>2
    <3> QED
      BY <3>1, <3>3
  <2> QED
    BY <2>2, Zenon DEF IsChain
<1>5. IsChain(c, IV, s, n)
  BY <1>4, Zenon
<1>6. Chain(IV, s, n) = c
  BY Zenon DEF Chain, IsChain
<1> HIDE DEF c
<1>7. c[0] = IV /\ \A j \in 1 .. n : c[j] = next(c[j-1], j)
  <2>1. c = [j \in 0 .. n |-> IF j = 0 THEN IV ELSE next(c[j-1], j)]
    BY <1>5, Zenon DEF IsChain
  <2> HIDE DEF next
  <2> QED
    BY <2>1
<1>8. \A j \in 0 .. n : c[j] \in Blocks
  <2>1. \A j \in 1 .. n : c[j-1] \in Blocks => c[j] \in Blocks
    <3> HIDE DEF next
    <3> QED
      BY <1>1, <1>7
  <2> HIDE DEF next
  <2> QED
    BY <1>7, <2>1, StepsKeep
<1> QED
  BY <1>6, <1>7, <1>8, Zenon DEF Chains

LEMMA FullLength ==
  ASSUME NEW m \in Nat
  PROVE  \E n \in Nat : CBC_CipherText_Len(m) = L * n /\ CBC_CipherText_Len(m) \div L = n
<1> DEFINE n == (m + L - 1) \div L
<1>1. L \in Nat \ {0} /\ n \in Nat
  BY Sizes
<1> HIDE DEF n
<1>2. n * L = L * n /\ (L * n) \div L = n
  BY <1>1, RestOfMultiple
<1>3. CBC_CipherText_Len(m) = n * L
  BY Zenon DEF CBC_CipherText_Len, n
<1> QED
  BY <1>1, <1>2, <1>3

LEMMA FilledIsText ==
  ASSUME NEW msg \in Seq(Octet), NEW n \in Nat
  PROVE  IsText(Filled(msg, L * n), n)
<1>1. \A k \in 1 .. L * n : k <= Len(msg) => msg[k] \in Octet
  <2>1. L * n \in Nat /\ Len(msg) \in Nat
    BY Sizes, LenProperties
  <2> QED
    BY <2>1, ElementOfSeq
<1> QED
  BY <1>1, Sizes DEF IsText, Filled

\* The blocks of a text are those of a chain.
Carries(s, n, c) == /\ s \in [1 .. L * n -> Octet]
                    /\ \A j \in 0 .. n - 1, p \in 1 .. L : s[L * j + p] = c[j+1][p]

LEMMA EncryptIs ==
  ASSUME NEW IV \in Blocks, NEW msg \in Seq(Octet), NEW room \in Nat,
         CBC_CipherText_Len(Len(msg)) <= room
  PROVE  \E n \in Nat : \E c :
                           /\ CBC_CipherText_Len(Len(msg)) = L * n
                           /\ Chains(c, IV, Filled(msg, L * n), n)
                           /\ Carries(SM4_CBC_Encrypt(IV, msg, room), n, c)
<1> DEFINE len == CBC_CipherText_Len(Len(msg))
<1>1. PICK n \in Nat : len = L * n /\ len \div L = n
  BY FullLength, LenProperties
<1> DEFINE c == Chain(IV, Filled(msg, L * n), n)
           s == SM4_CBC_Encrypt(IV, msg, room)
<1>2. Chains(c, IV, Filled(msg, L * n), n)
  BY ChainIs, FilledIsText
<1>3. s = [k \in 1 .. L * n |-> c[BlockOf(k) + 1][PlaceOf(k)]]
  <2>1. L * n \in Nat
    BY Sizes
  <2>2. ~(room < len)
    BY <1>1, <2>1
  <2>3. s = [k \in 1 .. len |-> c[BlockOf(k) + 1][PlaceOf(k)]]
    BY <1>1, <2>2, Zenon DEF SM4_CBC_Encrypt
  <2> QED
    BY <1>1, <2>3
<1> HIDE DEF len, c, s
<1>4. ASSUME NEW k \in 1 .. L * n PROVE c[BlockOf(k) + 1][PlaceOf(k)] \in Octet
  <2>1. k \in Nat \ {0} /\ L * n \in Nat
    BY Sizes
  <2>2. BlockOf(k) \in Nat /\ PlaceOf(k) \in 1 .. L /\ k = L * BlockOf(k) + PlaceOf(k)
    BY <2>1, PlacesOf
  <2>3. L * BlockOf(k) + PlaceOf(k) <= L * n <=> BlockOf(k) < n
    BY <2>2, BlocksBelow
  <2>4. BlockOf(k) + 1 \in 0 .. n
    BY <2>1, <2>2, <2>3
  <2>5. c[BlockOf(k) + 1] \in Blocks
    BY <1>2, <2>4 DEF Chains
  <2> QED
    BY <2>2, <2>5 DEF Blocks
<1>5. ASSUME NEW j \in 0 .. n - 1, NEW p \in 1 .. L PROVE s[L * j + p] = c[j+1][p]
  <2>1. BlockOf(L * j + p) = j /\ PlaceOf(L * j + p) = p /\ L * j + p \in Nat \ {0}
    BY Places
  <2>2. L * j + p <= L * n /\ L * n \in Nat
    BY BlocksBelow, Sizes
  <2>3. L * j + p \in 1 .. L * n
    BY <2>1, <2>2
  <2> QED
    BY <1>3, <2>1, <2>3
<1>6. Carries(s, n, c)
  BY <1>3, <1>4, <1>5 DEF Carries
<1> QED
  BY <1>1, <1>2, <1>6 DEF len, s

\* What arrives of a text s: its first m bytes, but for one of them, if any (0 for none).
Arrives(s, n, t, m, bad) ==
  /\ m \in 0 .. L * n /\ t \in [1 .. m -> Octet] /\ bad \in Nat
  /\ \A k \in 1 .. m : k # bad <=> t[k] = s[k]

Plain(s, n, m, bad, room, got) ==
  /\ got \in [1 .. (IF m % L = 0 THEN Lesser(room, m) ELSE 0) -> Octet]
  /\ \A k \in DOMAIN got : bad = 0 \/ (BlockOf(k) # BlockOf(bad) /\ k # bad + L) => got[k] = s[k]
  /\ bad # 0 /\ bad + L \in DOMAIN got => got[bad + L] # s[bad + L]

\* One byte comes back, as long as its block arrived; and it depends on the byte
\* one block before it.
LEMMA ByteComesBack ==
  ASSUME NEW n \in Nat, NEW IV \in Blocks, NEW s, NEW c, Chains(c, IV, s, n), IsText(s, n),
         NEW x, Carries(x, n, c), NEW j \in 0 .. n - 1, NEW p \in 1 .. L
  PROVE  /\ Dec(PartOf(x, j))[p] = XorB(s[L * j + p], c[j][p])
         /\ s[L * j + p] \in Octet /\ c[j][p] \in Octet
         /\ j > 0 => c[j][p] = x[L * (j - 1) + p]
<1>1. PartOf(x, j) = c[j+1]
  <2>1. c[j+1] \in [1 .. L -> Octet]
    BY DEF Chains, Blocks
  <2> QED
    BY <2>1 DEF PartOf, Carries
<1>2. c[j+1] = Enc(Xor16(PartOf(s, j), c[j]))
  <2>1. j + 1 \in 1 .. n /\ (j + 1) - 1 = j
    OBVIOUS
  <2> QED
    BY <2>1 DEF Chains
<1>3. PartOf(s, j) \in Blocks /\ c[j] \in Blocks
  BY PartIsBlock DEF Chains
<1>4. Dec(PartOf(x, j)) = Xor16(PartOf(s, j), c[j])
  BY <1>1, <1>2, <1>3, XorBlock, Ciphered
<1>5. PartOf(s, j)[p] = s[L * j + p]
  BY DEF PartOf
<1>6. Xor16(PartOf(s, j), c[j])[p] = XorB(s[L * j + p], c[j][p])
  BY <1>5 DEF Xor16
<1>7. s[L * j + p] \in Octet /\ c[j][p] \in Octet
  BY <1>3, <1>5 DEF Blocks
<1>8. j > 0 => c[j][p] = x[L * (j - 1) + p]
  <2> SUFFICES ASSUME j > 0 PROVE c[j][p] = x[L * (j - 1) + p]
    OBVIOUS
  <2>1. j - 1 \in 0 .. n - 1 /\ (j - 1) + 1 = j
    OBVIOUS
  <2> QED
    BY <2>1 DEF Carries
<1> QED
  BY <1>4, <1>6, <1>7, <1>8

\* A block of what arrives is one of the chain, unless the changed byte is in it.
LEMMA PartArrives ==
  ASSUME NEW n \in Nat, NEW x, NEW t, NEW m \in Nat, NEW bad, Arrives(x, n, t, m, bad),
         NEW j \in Nat, L * j + L <= m, bad = 0 \/ BlockOf(bad) # j
  PROVE  PartOf(t, j) = PartOf(x, j)
<1>1. ASSUME NEW p \in 1 .. L PROVE t[L * j + p] = x[L * j + p]
  <2>1. L * j + p \in Nat \ {0} /\ BlockOf(L * j + p) = j
    BY Places
  <2>2. L * j + p \in 1 .. m
    <3>1. L * j \in Nat /\ L \in Nat
      BY Sizes
    <3> QED
      BY <2>1, <3>1
  <2>3. L * j + p # bad
    BY <2>1
  <2> QED
    BY <2>2, <2>3 DEF Arrives
<1> QED
  BY <1>1 DEF PartOf

LEMMA DecryptIs ==
  ASSUME NEW n \in Nat, NEW IV \in Blocks, NEW s, NEW c, Chains(c, IV, s, n), IsText(s, n),
         NEW x, Carries(x, n, c), NEW t, NEW m, NEW bad, Arrives(x, n, t, m, bad),
         NEW room \in Nat
  PROVE  Plain(s, n, m, bad, room, SM4_CBC_Decrypt(IV, t, room))
<1> DEFINE got == SM4_CBC_Decrypt(IV, t, room)
           o(j) == Dec(PartOf(t, j))
           input(j) == IF j = 0 THEN IV ELSE PartOf(t, j - 1)
<1>1. m \in Nat /\ m <= L * n /\ L * n \in Nat /\ t \in [1 .. m -> Octet] /\ Len(t) = m /\ bad \in Nat
  <2>1. m \in Nat /\ m <= L * n /\ L * n \in Nat /\ t \in [1 .. m -> Octet] /\ bad \in Nat
    BY Sizes DEF Arrives
  <2> QED
    BY <2>1, RowIsSeq
<1>2. CASE m % L # 0
  <2>1. got = <<>>
    BY <1>1, <1>2, Zenon DEF SM4_CBC_Decrypt
  <2>2. got \in [1 .. 0 -> Octet] /\ DOMAIN got = {}
    BY <2>1
  <2> HIDE DEF got
  <2>3. Plain(s, n, m, bad, room, got)
    BY <1>2, <2>2 DEF Plain
  <2> QED
    BY <2>3 DEF got
<1>3. CASE m % L = 0
  <2> DEFINE q == Lesser(room, m)
  <2>1. q \in Nat /\ q <= m
    BY <1>1 DEF Lesser
  <2>2. got = [k \in 1 .. q |-> XorB(o(BlockOf(k))[PlaceOf(k)], input(BlockOf(k))[PlaceOf(k)])]
    BY <1>1, <1>3, Zenon DEF SM4_CBC_Decrypt, ChainNext
  <2> HIDE DEF got, q, o, input
  <2>3. ASSUME NEW k \in 1 .. q
        PROVE  \E j \in 0 .. n - 1, p \in 1 .. L :
                 BlockOf(k) = j /\ PlaceOf(k) = p /\ k = L * j + p /\ L * j + L <= m /\ k \in 1 .. m
    <3> DEFINE j == BlockOf(k)
               p == PlaceOf(k)
    <3>1. k \in Nat \ {0} /\ k <= m /\ k \in 1 .. m
      BY <1>1, <2>1
    <3>2. j \in Nat /\ p \in 1 .. L /\ k = L * j + p
      BY <3>1, PlacesOf
    <3> HIDE DEF j, p
    <3>3. PICK r \in Nat : m = L * r
      <4>1. m = L * (m \div L) /\ m \div L \in Nat
        BY <1>1, <1>3, Sizes
      <4> QED
        BY <4>1
    <3>4. r <= n
      <4>1. L * r = L * (r - 1) + L /\ L * n \in Nat /\ L \in 1 .. L
        BY <3>3, Sizes
      <4>2. CASE r = 0
        BY <4>2
      <4>3. CASE r > 0
        <5>1. r - 1 \in Nat /\ L * (r - 1) + L <= L * n
          BY <1>1, <3>3, <4>1, <4>3
        <5>2. r - 1 < n
          BY <4>1, <5>1, BlocksBelow
        <5> QED
          BY <5>1, <5>2
      <4> QED
        BY <4>2, <4>3
    <3>5. j < r
      BY <3>1, <3>2, <3>3, BlocksBelow
    <3>6. L * j + L <= m
      <4>1. L \in 1 .. L
        BY Sizes
      <4> QED
        BY <3>2, <3>3, <3>5, <4>1, BlocksBelow
    <3>7. j \in 0 .. n - 1
      BY <3>2, <3>4, <3>5
    <3> QED
      BY <3>1, <3>2, <3>6, <3>7 DEF j, p
  <2>4. ASSUME NEW k \in 1 .. q
        PROVE  /\ got[k] \in Octet
               /\ bad = 0 \/ (BlockOf(k) # BlockOf(bad) /\ k # bad + L) => got[k] = s[k]
               /\ bad # 0 /\ k = bad + L => got[k] # s[k]
    <3>1. PICK j \in 0 .. n - 1, p \in 1 .. L :
            BlockOf(k) = j /\ PlaceOf(k) = p /\ k = L * j + p /\ L * j + L <= m /\ k \in 1 .. m
      BY <2>3
    <3>2. got[k] = XorB(o(j)[p], input(j)[p])
      BY <2>2, <3>1
    <3>3. L \in Nat \ {0} /\ j \in Nat /\ L * j \in Nat
      BY Sizes
    <3>4. /\ s[k] \in Octet /\ c[j][p] \in Octet
          /\ j > 0 => c[j][p] = x[L * (j - 1) + p]
      BY <3>1, ByteComesBack
    <3>5. /\ input(j)[p] \in Octet
          /\ j = 0 => input(j)[p] = c[j][p]
          /\ j > 0 => input(j)[p] = t[k - L] /\ c[j][p] = x[k - L] /\ k - L \in 1 .. m
      <4>1. CASE j = 0
        <5>1. input(j) = IV /\ c[j] = IV
          BY <4>1 DEF input, Chains
        <5>2. IV[p] \in Octet
          BY DEF Blocks
        <5> QED
          BY <4>1, <5>1, <5>2
      <4>2. CASE j > 0
        <5>1. input(j)[p] = t[L * (j - 1) + p]
          BY <4>2 DEF input, PartOf
        <5>2. L * (j - 1) + p = k - L
          BY <3>1, <3>3
        <5>3. k - L \in 1 .. m
          <6>1. L * (j - 1) \in Nat
            BY <3>3, <4>2
          <6> QED
            BY <1>1, <3>1, <3>3, <5>2, <6>1
        <5>4. t[k - L] \in Octet
          BY <1>1, <5>3
        <5> QED
          BY <3>4, <4>2, <5>1, <5>2, <5>3, <5>4
      <4> QED
        BY <3>3, <4>1, <4>2
    <3>6. o(j)[p] \in Octet
      <4>1. PartOf(t, j) \in Blocks
        <5>1. \A r \in 1 .. L : t[L * j + r] \in Octet
          <6> TAKE r \in 1 .. L
          <6>1. L * j + r \in 1 .. m
            BY <1>1, <3>1, <3>3
          <6> QED
            BY <1>1, <6>1
        <5> QED
          BY <5>1 DEF PartOf, Blocks
      <4>2. Dec(PartOf(t, j)) \in Blocks
        BY <4>1, Ciphered
      <4> QED
        BY <4>2 DEF o, Blocks
    <3>7. got[k] \in Octet
      BY <3>2, <3>5, <3>6, XorByte
    <3>8. ASSUME bad = 0 \/ BlockOf(bad) # j PROVE o(j)[p] = XorB(s[k], c[j][p])
      <4>1. PartOf(t, j) = PartOf(x, j)
        BY <1>1, <3>1, <3>3, <3>8, PartArrives
      <4>2. Dec(PartOf(x, j))[p] = XorB(s[k], c[j][p])
        BY <3>1, ByteComesBack
      <4> QED
        BY <4>1, <4>2 DEF o
    <3>9. ASSUME bad = 0 \/ (BlockOf(k) # BlockOf(bad) /\ k # bad + L) PROVE got[k] = s[k]
      <4>1. o(j)[p] = XorB(s[k], c[j][p])
        BY <3>1, <3>8, <3>9
      <4>2. j > 0 => t[k - L] = x[k - L]
        <5>1. j > 0 => k - L \in 1 .. m /\ k - L # bad
          BY <1>1, <3>3, <3>5, <3>9
        <5> QED
          BY <5>1 DEF Arrives
      <4>3. input(j)[p] = c[j][p]
        BY <3>3, <3>5, <4>2
      <4> QED
        BY <3>2, <3>4, <4>1, <4>3, XorByte
    <3>10. ASSUME bad # 0, k = bad + L PROVE got[k] # s[k]
      <4>1. BlockOf(bad) # j /\ j > 0
        <5> DEFINE b == BlockOf(bad)
                   e == PlaceOf(bad)
        <5>1. b \in Nat /\ e \in 1 .. L /\ bad = L * b + e
          BY <1>1, <3>10, PlacesOf
        <5> HIDE DEF b, e
        <5>2. L * (b + 1) + e = L * b + L + e /\ L * b \in Nat
          BY <3>3, <5>1
        <5>3. k = L * (b + 1) + e
          BY <3>3, <3>10, <5>1, <5>2
        <5>4. BlockOf(k) = b + 1
          BY <5>1, <5>3, Places
        <5> QED
          BY <3>1, <5>1, <5>4 DEF b
      <4>2. o(j)[p] = XorB(s[k], c[j][p])
        BY <3>8, <4>1
      <4>3. k - L = bad /\ bad \in 1 .. m /\ t[bad] # x[bad]
        <5>1. k - L = bad
          BY <1>1, <3>3, <3>10
        <5> QED
          BY <3>5, <4>1, <5>1 DEF Arrives
      <4>4. input(j)[p] # c[j][p]
        BY <3>5, <4>1, <4>3
      <4> QED
        BY <3>2, <3>4, <3>5, <4>2, <4>4, XorTells
    <3> QED
      BY <3>7, <3>9, <3>10
  <2>5. got \in [1 .. q -> Octet]
    <3>1. \A k \in 1 .. q : got[k] \in Octet
      BY <2>4
    <3>2. got = [k \in 1 .. q |-> got[k]]
      BY <2>2
    <3> QED
      BY <3>1, <3>2
  <2>6. Plain(s, n, m, bad, room, got)
    <3>1. q = IF m % L = 0 THEN Lesser(room, m) ELSE 0
      BY <1>3 DEF q
    <3>2. DOMAIN got = 1 .. q
      BY <2>5
    <3> QED
      BY <2>4, <2>5, <3>1, <3>2 DEF Plain
  <2> QED
    BY <2>6 DEF got
<1> QED
  BY <1>2, <1>3

-----------------------------------------------------------------------------
(* The exchange.                                                              *)

CBCSent == /\ sent.nonce \in Blocks /\ sent.text \in Seq(Octet) /\ sent.room \in Nat
           /\ CBC_CipherText_Len(Len(sent.text)) <= sent.room
OCBSent == /\ sent.nonce \in Seq(Octet) /\ Len(sent.nonce) < L
           /\ sent.text \in Seq(Octet) /\ sent.data \in Seq(Octet)
Changed == /\ change.of \in {"text", "tag", "end"} /\ change.at \in 1 .. WireLen
           /\ sent.mode = "cbc" => change.of # "tag"
\* What the two ends have put into their calls, and what the channel may do.
ModesInv == /\ sent.mode \in {"none", "cbc", "ocb"} /\ sent.mode = "none" => sent = None /\ change = NoChange
            /\ sent.mode = "cbc" => CBCSent
            /\ sent.mode = "ocb" => OCBSent
            /\ change = NoChange \/ Changed

LEMMA BlockFromSeq ==
  ASSUME NEW iv \in Seq(Octet), Len(iv) = L
  PROVE  iv \in Blocks
BY LenProperties DEF Blocks

LEMMA Given ==
  /\ \A s \in Texts \union Data \union IVs : s \in Seq(Octet)
  /\ \A r \in Rooms : r \in Nat
BY ModesAssumption, Zenon

LEMMA ModesInvHolds == ModesSpec => []ModesInv
<1>1. ModesInit => ModesInv
  BY DEF ModesInit, ModesInv, None
<1>2. ModesInv /\ [ModesNext]_modesVars => ModesInv'
  <2> SUFFICES ASSUME ModesInv, [ModesNext]_modesVars PROVE ModesInv'
    OBVIOUS
  <2>1. ASSUME NEW m \in Texts, NEW iv \in IVs, NEW len \in Rooms, SendCBC(m, iv, len) PROVE ModesInv'
    <3>1. sent.mode = "none" /\ change' = NoChange
      BY <2>1 DEF SendCBC, None, ModesInv
    <3>2. /\ sent'.mode = "cbc" /\ sent'.nonce = iv /\ sent'.text = m /\ sent'.room = len
          /\ Len(iv) = L /\ CBC_CipherText_Len(Len(m)) <= len
      BY <2>1 DEF SendCBC
    <3>3. iv \in Blocks /\ m \in Seq(Octet) /\ len \in Nat
      BY <3>2, Given, BlockFromSeq
    <3>4. CBCSent'
      BY <3>2, <3>3 DEF CBCSent
    <3> QED
      BY <3>1, <3>2, <3>4 DEF ModesInv
  <2>2. ASSUME NEW m \in Texts, NEW a \in Data, NEW iv \in IVs, SendOCB(m, a, iv) PROVE ModesInv'
    <3>1. sent.mode = "none" /\ change' = NoChange
      BY <2>2 DEF SendOCB, None, ModesInv
    <3>2. /\ sent'.mode = "ocb" /\ sent'.nonce = iv /\ sent'.text = m /\ sent'.data = a
          /\ Len(iv) < L
      BY <2>2 DEF SendOCB
    <3>3. OCBSent'
      BY <3>2, Given DEF OCBSent
    <3> QED
      BY <3>1, <3>2, <3>3 DEF ModesInv
  <2>3. CASE Change
    <3>1. /\ sent' = sent /\ sent # None
          /\ \E at \in 1 .. WireLen, of \in {"text", "tag", "end"} :
               (of = "tag" => sent.mode = "ocb") /\ change' = [of |-> of, at |-> at]
      BY <2>3 DEF Change
    <3>2. PICK at \in 1 .. WireLen, of \in {"text", "tag", "end"} :
            (of = "tag" => sent.mode = "ocb") /\ change' = [of |-> of, at |-> at]
      BY <3>1
    <3>3. change'.of = of /\ change'.at = at /\ WireLen' = WireLen
      BY <3>1, <3>2 DEF WireLen
    <3>4. Changed'
      BY <3>1, <3>2, <3>3 DEF Changed
    <3>5. CBCSent' = CBCSent /\ OCBSent' = OCBSent
      BY <3>1 DEF CBCSent, OCBSent
    <3>6. sent.mode # "none"
      BY <3>1 DEF ModesInv
    <3> QED
      BY <3>1, <3>4, <3>5, <3>6 DEF ModesInv
  <2>4. ASSUME NEW len \in Rooms, ReceiveCBC(len) PROVE ModesInv'
    BY <2>4 DEF ReceiveCBC, ModesInv, CBCSent, OCBSent, Changed, WireLen
  <2>5. CASE ReceiveOCB
    BY <2>5 DEF ReceiveOCB, ModesInv, CBCSent, OCBSent, Changed, WireLen
  <2>6. CASE UNCHANGED modesVars
    BY <2>6 DEF modesVars, ModesInv, CBCSent, OCBSent, Changed, WireLen
  <2> QED
    BY <2>1, <2>2, <2>3, <2>4, <2>5, <2>6 DEF ModesNext
<1> QED
  BY <1>1, <1>2, PTL DEF ModesSpec

\* What arrives of a chain.
LEMMA ChainArrives ==
  ASSUME NEW n \in Nat, NEW x \in [1 .. L * n -> Octet], change = NoChange \/ Changed,
         sent.mode = "cbc", WireLen = L * n, NEW g
  PROVE  \E m : /\ Arrives(x, n, Arrived([text |-> x, tag |-> g]).text, m,
                           IF change.of = "text" THEN change.at ELSE 0)
                /\ Len(Arrived([text |-> x, tag |-> g]).text) = m
<1> DEFINE wire == [text |-> x, tag |-> g]
           t == Arrived(wire).text
           bad == IF change.of = "text" THEN change.at ELSE 0
<1>1. L * n \in Nat
  BY Sizes
<1>2. CASE change.of \notin {"text", "tag", "end"}
  <2>1. t = x /\ bad = 0
    BY <1>2 DEF Arrived
  <2>2. Arrives(x, n, x, L * n, 0) /\ Len(x) = L * n
    BY <1>1, RowIsSeq DEF Arrives
  <2> HIDE DEF t, bad
  <2>3. Arrives(x, n, t, L * n, bad) /\ Len(t) = L * n
    BY <2>1, <2>2
  <2> QED
    BY <2>3 DEF t, bad
<1>3. CASE Changed /\ change.of = "text"
  <2>1. bad = change.at /\ bad \in 1 .. L * n
    BY <1>3 DEF Changed
  <2>2. t = [x EXCEPT ![bad] = (x[bad] + 1) % ByteSize]
    BY <1>3, <2>1 DEF Arrived, Differently
  <2> HIDE DEF t, bad
  <2>3. x[bad] \in 0 .. ByteSize - 1 /\ ByteSize \in Nat \ {0} /\ ByteSize > 1
    BY <2>1, Sizes DEF Octet
  <2>4. (x[bad] + 1) % ByteSize \in 0 .. ByteSize - 1 /\ (x[bad] + 1) % ByteSize # x[bad]
    <3>1. ASSUME NEW v \in Nat, NEW B \in Nat, B > 1, v < B PROVE (v + 1) % B \in 0 .. B - 1 /\ (v + 1) % B # v
      <4>1. CASE v + 1 < B
        BY <3>1, <4>1, SmallRest
      <4>2. CASE v + 1 = B
        BY <3>1, <4>2
      <4> QED
        BY <3>1, <4>1, <4>2
    <3> QED
      BY <2>3, <3>1
  <2>5. (x[bad] + 1) % ByteSize \in Octet
    BY <2>4, Zenon DEF Octet
  <2> DEFINE y == (x[bad] + 1) % ByteSize
  <2> HIDE DEF y
  <2>6. t = [x EXCEPT ![bad] = y] /\ y \in Octet /\ y # x[bad]
    BY <2>2, <2>4, <2>5 DEF y
  <2>7. t \in [1 .. L * n -> Octet] /\ \A k \in 1 .. L * n : k # bad <=> t[k] = x[k]
    BY <2>1, <2>6
  <2>8. Arrives(x, n, t, L * n, bad) /\ Len(t) = L * n
    BY <1>1, <2>1, <2>7, RowIsSeq DEF Arrives
  <2> QED
    BY <2>8 DEF t, bad
<1>4. CASE Changed /\ change.of = "end"
  <2> DEFINE m == change.at - 1
  <2>1. bad = 0 /\ m \in 0 .. L * n /\ t = SubSeq(x, 1, m)
    BY <1>1, <1>4 DEF Changed, Arrived
  <2> HIDE DEF t, bad, m
  <2>2. \A k \in 1 .. m : x[k] \in Octet
    BY <1>1, <2>1
  <2>3. t \in Seq(Octet) /\ Len(t) = m /\ \A k \in 1 .. m : t[k] = x[k]
    <3>1. /\ SubSeq(x, 1, m) \in Seq(Octet) /\ Len(SubSeq(x, 1, m)) = IF 1 <= m THEN m - 1 + 1 ELSE 0
          /\ \A k \in 1 .. m - 1 + 1 : SubSeq(x, 1, m)[k] = x[1 + k - 1]
      BY <2>1, <2>2, SubSeqProperties
    <3> QED
      BY <1>1, <2>1, <3>1
  <2>4. t \in [1 .. m -> Octet]
    BY <2>3, LenProperties
  <2>5. Arrives(x, n, t, m, bad)
    BY <1>1, <2>1, <2>3, <2>4 DEF Arrives
  <2> QED
    BY <2>3, <2>5 DEF t, bad
<1>5. change = NoChange => change.of \notin {"text", "tag", "end"}
  BY DEF NoChange
<1>6. Changed => change.of \in {"text", "end"}
  BY DEF Changed
<1> QED
  BY <1>2, <1>3, <1>4, <1>5, <1>6

LEMMA CBCStep ==
  ASSUME ModesInv, [ModesNext]_modesVars, Receives("cbc"),
         NEW x, x = SM4_CBC_Encrypt(sent.nonce, sent.text, sent.room)
  PROVE  ComesBack([text |-> x, tag |-> <<>>], Filled(sent.text, WireLen),
                   SM4_CBC_Decrypt(sent.nonce, Arrived([text |-> x, tag |-> <<>>]).text, buffer'), buffer')
<1> DEFINE wire == [text |-> x, tag |-> <<>>]
           whole == Filled(sent.text, WireLen)
           got == SM4_CBC_Decrypt(sent.nonce, Arrived(wire).text, buffer')
<1>1. sent.mode = "cbc" /\ CBCSent /\ (change = NoChange \/ Changed) /\ buffer' # buffer
  BY DEF Receives, ModesInv
<1>2. buffer' \in Nat
  <2>1. \E len \in Rooms : buffer' = len
    BY <1>1 DEF ModesNext, modesVars, SendCBC, SendOCB, Change, ReceiveOCB, ReceiveCBC
  <2> QED
    BY <2>1, Given
<1>3. PICK n, c : /\ n \in Nat /\ CBC_CipherText_Len(Len(sent.text)) = L * n
                  /\ Chains(c, sent.nonce, Filled(sent.text, L * n), n)
                  /\ Carries(x, n, c)
  BY <1>1, EncryptIs DEF CBCSent
<1> n \in Nat
  BY <1>3
<1>4. WireLen = L * n /\ whole = Filled(sent.text, L * n)
  BY <1>1, <1>3 DEF WireLen
<1>5. IsText(whole, n) /\ sent.nonce \in Blocks
  BY <1>1, <1>4, FilledIsText DEF CBCSent
<1> DEFINE t == Arrived(wire).text
           bad == IF change.of = "text" THEN change.at ELSE 0
<1>6. PICK m : Arrives(x, n, t, m, bad) /\ Len(t) = m
  BY <1>1, <1>3, <1>4, ChainArrives DEF Carries
<1>7. Chains(c, sent.nonce, whole, n) /\ Carries(x, n, c)
  BY <1>3, <1>4
<1>8. Plain(whole, n, m, bad, buffer', got)
  <2> HIDE DEF whole, bad
  <2>1. Plain(whole, n, m, bad, buffer', SM4_CBC_Decrypt(sent.nonce, t, buffer'))
    <3> HIDE DEF t
    <3> QED
      BY <1>2, <1>5, <1>6, <1>7, DecryptIs
  <2> QED
    BY <2>1
<1>9. whole = [k \in 1 .. L * n |-> whole[k]] /\ DOMAIN whole = 1 .. L * n /\ L * n \in Nat
  BY <1>4, Sizes DEF Filled
<1> DEFINE size == IF m % L = 0 THEN Lesser(buffer', m) ELSE 0
<1>10. m \in 0 .. L * n
  BY <1>6 DEF Arrives
<1>11. size \in Nat /\ size <= L * n
  BY <1>2, <1>9, <1>10 DEF Lesser
<1>12. got \in [1 .. size -> Octet]
  BY <1>8 DEF Plain
<1> HIDE DEF size, got, whole
<1>13. Len(got) = size /\ DOMAIN got = 1 .. size
  BY <1>11, <1>12, RowIsSeq
<1> DEFINE spoiled == IF change.of # "text" THEN {}
                      ELSE {k \in DOMAIN whole : BlockOf(k) = BlockOf(change.at)} \union {change.at + L}
<1>14. ASSUME NEW k \in DOMAIN got \ spoiled PROVE got[k] = whole[k]
  <2>1. k \in DOMAIN whole
    BY <1>9, <1>11, <1>13
  <2>2. bad = 0 \/ (BlockOf(k) # BlockOf(bad) /\ k # bad + L)
    BY <2>1
  <2> QED
    BY <1>8, <2>2 DEF Plain
<1>15. ASSUME change.at + L \in DOMAIN got, change.at + L \in spoiled
       PROVE  got[change.at + L] # whole[change.at + L]
  <2>1. change.of = "text"
    BY <1>15
  <2>2. bad # 0 /\ bad = change.at
    BY <1>1, <2>1 DEF Changed, NoChange
  <2> HIDE DEF bad
  <2> QED
    BY <1>8, <1>15, <2>2 DEF Plain
<1>16. Len(got) = IF m % L = 0 THEN Lesser(buffer', m) ELSE 0
  BY <1>13 DEF size
<1> HIDE DEF spoiled
<1>17. ComesBack(wire, whole, got, buffer')
  BY <1>6, <1>14, <1>15, <1>16 DEF ComesBack, spoiled
<1> QED
  BY <1>17 DEF whole, got

\* CBC gives back what was sent, for every block cipher, message and buffer, and
\* contains what happened on the way.
THEOREM CBCReturnsCorrect == ModesSpec => CBCReturns
<1>1. ModesInv /\ [ModesNext]_modesVars => [CBCExchange]_modesVars
  <2> SUFFICES ASSUME ModesInv, [ModesNext]_modesVars PROVE CBCExchange
    OBVIOUS
  <2> QED
    BY CBCStep, Zenon DEF CBCExchange
<1> QED
  BY <1>1, ModesInvHolds, PTL DEF ModesSpec, CBCReturns

-----------------------------------------------------------------------------
(* Offset codebook: every offset is a block.                                  *)

LEMMA Halves ==
  ASSUME NEW t \in Nat \ {0}, NEW v \in 0 .. 2 * t - 1
  PROVE  v \div t \in 0 .. 1 /\ v % t \in 0 .. t - 1
<1> DEFINE q == v \div t
           r == v % t
<1>1. q \in Nat /\ r \in 0 .. t - 1 /\ v = t * q + r
  OBVIOUS
<1> HIDE DEF q, r
<1>2. q \in 0 .. 1
  <2> SUFFICES ASSUME q >= 2 PROVE FALSE
    BY <1>1
  <2>1. t * q = 2 * t + t * (q - 2) /\ q - 2 \in Nat /\ t * (q - 2) \in Nat
    BY <1>1
  <2> QED
    BY <1>1, <2>1
<1> QED
  BY <1>1, <1>2 DEF q, r

LEMMA QuotientBelow ==
  ASSUME NEW w \in Nat \ {0}, NEW h \in Nat \ {0}, NEW b \in 0 .. w * h - 1
  PROVE  b \div w \in 0 .. h - 1 /\ b % w \in 0 .. w - 1
<1> DEFINE q == b \div w
           r == b % w
<1>1. q \in Nat /\ r \in 0 .. w - 1 /\ b = w * q + r
  OBVIOUS
<1> HIDE DEF q, r
<1>2. q < h
  <2> SUFFICES ASSUME q >= h PROVE FALSE
    BY <1>1
  <2>1. w * q = w * h + w * (q - h) /\ q - h \in Nat /\ w * (q - h) \in Nat /\ w * h \in Nat
    BY <1>1
  <2> QED
    BY <1>1, <2>1
<1> QED
  BY <1>1, <1>2 DEF q, r

LEMMA RestBelow ==
  ASSUME NEW v \in Nat, NEW h \in Nat \ {0}
  PROVE  v % h \in 0 .. h - 1 /\ v % h <= v
<1> DEFINE q == v \div h
           r == v % h
<1>1. q \in Nat /\ r \in 0 .. h - 1 /\ v = h * q + r /\ h * q \in Nat
  OBVIOUS
<1> HIDE DEF q, r
<1> QED
  BY <1>1 DEF r

LEMMA ZerosIsBlock == Zeros \in Blocks
BY Sizes DEF Zeros, Blocks

LEMMA DoubleIsBlock ==
  ASSUME NEW s \in Blocks
  PROVE  double_arr(s) \in Blocks
<1> DEFINE b(k) == (s[k] % Top) * 2 + (IF k < L THEN s[k+1] \div Top ELSE 0)
<1>1. \A k \in 1 .. L : s[k] \in 0 .. 2 * Top - 1
  BY Sizes DEF Blocks, Octet
<1>2. \A k \in 1 .. L : b(k) \in Octet
  <2> TAKE k \in 1 .. L
  <2>1. s[k] % Top \in 0 .. Top - 1
    BY <1>1, Sizes, Halves
  <2>2. k < L => s[k+1] \div Top \in 0 .. 1
    <3>1. k < L => k + 1 \in 1 .. L
      BY Sizes
    <3> QED
      BY <1>1, <3>1, Sizes, Halves
  <2> DEFINE x == s[k] % Top
             y == s[k+1] \div Top
  <2> HIDE DEF x, y
  <2>3. x * 2 + (IF k < L THEN y ELSE 0) \in 0 .. 2 * Top - 1
    BY <2>1, <2>2, Sizes DEF x, y
  <2> QED
    BY <2>3, Sizes DEF x, y, Octet
<1> HIDE DEF b
<1>3. \A k \in 1 .. L : XorB(b(k), Poly) \in Octet
  BY <1>2, Sizes, XorByte
<1>4. double_arr(s) = [k \in 1 .. L |-> IF k = L /\ s[1] \div Top # 0 THEN XorB(b(k), Poly) ELSE b(k)]
  BY DEF double_arr, b
<1> QED
  BY <1>2, <1>3, <1>4 DEF Blocks

LEMMA AsteriskAndDollar == l_asterisk \in Blocks /\ l_dollar \in Blocks
BY ZerosIsBlock, Ciphered, DoubleIsBlock DEF l_asterisk, l_dollar

IsTable(t, rows) == t = [k \in 0 .. rows - 1 |-> double_arr(IF k = 0 THEN l_dollar ELSE t[k-1])]

LEMMA TableIs ==
  ASSUME NEW rows \in Nat \ {0}, NEW k \in 0 .. rows - 1
  PROVE  l(rows)[k] \in Blocks
<1> DEFINE first == double_arr(l_dollar)
           step == [q \in Blocks \X Nat |-> double_arr(q[1])]
           n == rows - 1
           c == CHOOSE t : IsTable(t, rows)
<1>0. n \in Nat /\ first \in Blocks
  BY AsteriskAndDollar, DoubleIsBlock
<1>1. step \in [Blocks \X Nat -> Blocks]
  BY DoubleIsBlock
<1>2. PICK f \in [0 .. n -> Blocks] : IsSteps(f, n, first, step)
  <2> HIDE DEF step, n, first
  <2> QED
    BY <1>0, <1>1, RowOfSteps
<1>3. IsTable(f, rows)
  <2>1. \A j \in 1 .. n : j \in Nat /\ f[j-1] \in Blocks /\ step[<<f[j-1], j>>] = double_arr(f[j-1])
    BY <1>2
  <2> HIDE DEF step
  <2>2. f = [j \in 0 .. n |-> IF j = 0 THEN double_arr(l_dollar) ELSE double_arr(f[j-1])]
    BY <1>2, <2>1 DEF IsSteps
  <2> QED
    BY <2>2 DEF IsTable
<1>4. IsTable(c, rows)
  BY <1>3, Zenon
<1>5. l(rows) = c
  BY Zenon DEF l, IsTable
<1> HIDE DEF c, step
<1>6. c[0] = first /\ \A j \in 1 .. n : c[j] = double_arr(c[j-1])
  BY <1>0, <1>4 DEF IsTable
<1>7. \A j \in 1 .. n : c[j-1] \in Blocks => c[j] \in Blocks
  BY <1>6, DoubleIsBlock
<1>8. \A j \in 0 .. n : c[j] \in Blocks
  <2> HIDE DEF n, first
  <2> QED
    BY <1>0, <1>6, <1>7, StepsKeep
<1> QED
  BY <1>5, <1>8

\* The encrypted nonce and its stretch, as bytes and as bits.
Stretched(top, k) == IF k <= L THEN top[k] ELSE XorB(top[k-L], top[k-L+1])
StretchedBits(bits) == bits \o [k \in 1 .. (L * Width) \div 2 |-> (bits[k] + bits[k + Width]) % 2]

\* What the first offset is taken from.
RawNonce(nonce) ==
  [k \in 1 .. L |-> IF k < L - Len(nonce) THEN 0 ELSE IF k = L - Len(nonce) THEN 1
                    ELSE nonce[k - (L - Len(nonce))]]
BottomOf(nonce) == RawNonce(nonce)[L] % (Width * (L \div 2))
KtopOf(nonce) == Enc([RawNonce(nonce) EXCEPT ![L] = XorB(@, BottomOf(nonce))])
Joined(top, k, s) == (Stretched(top, k) * TwoTo(s) + Stretched(top, k + 1) \div TwoTo(Width - s)) % ByteSize

LEMMA NonceParts ==
  ASSUME NEW nonce \in Seq(Octet), Len(nonce) < L
  PROVE  /\ RawNonce(nonce) \in Blocks /\ BottomOf(nonce) \in 0 .. Width * (L \div 2) - 1
         /\ BottomOf(nonce) \div Width \in 0 .. L \div 2 - 1 /\ BottomOf(nonce) % Width \in 0 .. Width - 1
         /\ KtopOf(nonce) \in Blocks
<1> DEFINE one == L - Len(nonce)
           raw == RawNonce(nonce)
           h == L \div 2
           bottom == raw[L] % (Width * h)
           ktop == Enc([raw EXCEPT ![L] = XorB(@, bottom)])
<1>1. L = 2 * h /\ h \in Nat \ {0} /\ L \in Nat \ {0} /\ Width \in Nat \ {0} /\ Width * h \in Nat \ {0}
  BY Sizes
<1>2. one \in 1 .. L /\ \A k \in 1 .. L : k > one => nonce[k - one] \in Octet
  <2>1. Len(nonce) \in Nat /\ one \in 1 .. L
    BY <1>1, LenProperties
  <2>2. ASSUME NEW k \in 1 .. L, k > one PROVE nonce[k - one] \in Octet
    <3>1. k - one \in 1 .. Len(nonce)
      BY <1>1, <2>1, <2>2
    <3> QED
      BY <3>1, ElementOfSeq
  <2> QED
    BY <2>1, <2>2
<1>3. 0 \in Octet /\ 1 \in Octet
  BY Sizes DEF Octet
<1>4. raw \in Blocks
  <2>1. raw = [k \in 1 .. L |-> IF k < one THEN 0 ELSE IF k = one THEN 1 ELSE nonce[k - one]]
    BY DEF RawNonce
  <2> HIDE DEF one, raw
  <2> QED
    BY <1>2, <1>3, <2>1 DEF Blocks
<1> HIDE DEF one, raw, h
<1>5. raw[L] \in Octet /\ raw[L] \in Nat
  BY <1>1, <1>4 DEF Blocks, Octet
<1>6. bottom \in 0 .. Width * h - 1 /\ bottom <= raw[L]
  BY <1>1, <1>5, RestBelow
<1>7. bottom \in Octet
  BY <1>1, <1>5, <1>6, Sizes DEF Octet
<1> HIDE DEF bottom
<1>8. ktop \in Blocks
  <2>1. XorB(raw[L], bottom) \in Octet
    BY <1>5, <1>7, XorByte
  <2>2. [raw EXCEPT ![L] = XorB(@, bottom)] \in Blocks
    BY <1>4, <2>1 DEF Blocks
  <2> QED
    BY <2>2, Ciphered
<1> HIDE DEF ktop
<1>9. bottom \div Width \in 0 .. h - 1 /\ bottom % Width \in 0 .. Width - 1
  BY <1>1, <1>6, QuotientBelow
<1>10. bottom = BottomOf(nonce)
  BY DEF bottom, h, raw, BottomOf
<1>11. ktop = KtopOf(nonce)
  BY <1>10 DEF ktop, raw, KtopOf
<1> QED
  BY <1>4, <1>6, <1>8, <1>9, <1>10, <1>11 DEF raw, h

LEMMA StretchedIsByte ==
  ASSUME NEW top \in Blocks, NEW k \in 1 .. L + L \div 2
  PROVE  Stretched(top, k) \in Octet
<1>1. L \in Nat \ {0} /\ L \div 2 \in Nat /\ L = 2 * (L \div 2)
  BY Sizes
<1>2. \A j \in 1 .. L : top[j] \in Octet
  BY DEF Blocks
<1>3. ~(k <= L) => k - L \in 1 .. L /\ k - L + 1 \in 1 .. L
  BY <1>1
<1>4. ~(k <= L) => XorB(top[k-L], top[k-L+1]) \in Octet
  BY <1>2, <1>3, XorBits
<1>5. k <= L => top[k] \in Octet
  BY <1>1, <1>2
<1> QED
  BY <1>4, <1>5 DEF Stretched

LEMMA StartIs ==
  ASSUME NEW nonce \in Seq(Octet), Len(nonce) < L
  PROVE  StartOffset(nonce)
         = [k \in 1 .. L |-> Joined(KtopOf(nonce), k + BottomOf(nonce) \div Width, BottomOf(nonce) % Width)]
<1> DEFINE one == L - Len(nonce)
           raw == [k \in 1 .. L |-> IF k < one THEN 0 ELSE IF k = one THEN 1 ELSE nonce[k - one]]
           h == L \div 2
           bottom == raw[L] % (Width * h)
           ktop == Enc([raw EXCEPT ![L] = XorB(@, bottom)])
           stretch == [k \in 1 .. L + h |-> IF k <= L THEN ktop[k] ELSE XorB(ktop[k-L], ktop[k-L+1])]
           shift == bottom \div Width
           bs == BitShift(bottom)
           v(k) == (stretch[k + shift] * TwoTo(bs) + stretch[k + shift + 1] \div TwoTo(Width - bs)) % ByteSize
<1>1. StartOffset(nonce) = [k \in 1 .. L |-> v(k)]
  BY Zenon DEF StartOffset
<1>2. raw = RawNonce(nonce)
  BY DEF RawNonce
<1> HIDE DEF raw
<1>3. bottom = BottomOf(nonce)
  BY <1>2 DEF BottomOf
<1> HIDE DEF bottom
<1>4. ktop = KtopOf(nonce)
  BY <1>2, <1>3 DEF KtopOf
<1> HIDE DEF ktop
<1>5. bs = bottom % Width
  BY DEF BitShift
<1> HIDE DEF bs
<1>6. shift \in 0 .. h - 1 /\ h \in Nat \ {0} /\ L \in Nat \ {0}
  BY <1>3, NonceParts, Sizes
<1>7. \A k \in 1 .. L + h : stretch[k] = Stretched(ktop, k)
  BY DEF Stretched
<1> HIDE DEF stretch
<1>8. ASSUME NEW k \in 1 .. L PROVE v(k) = Joined(ktop, k + shift, bs)
  <2>1. k + shift \in 1 .. L + h /\ k + shift + 1 \in 1 .. L + h
    <3> HIDE DEF shift, h
    <3> QED
      BY <1>6
  <2>2. stretch[k + shift] = Stretched(ktop, k + shift) /\ stretch[k + shift + 1] = Stretched(ktop, k + shift + 1)
    BY <1>7, <2>1
  <2> QED
    BY <2>2, Zenon DEF Joined
<1> HIDE DEF v
<1>9. StartOffset(nonce) = [k \in 1 .. L |-> Joined(ktop, k + shift, bs)]
  BY <1>1, <1>8, Zenon
<1> QED
  BY <1>3, <1>4, <1>5, <1>9, Zenon DEF shift

LEMMA StartIsBlock ==
  ASSUME NEW nonce \in Seq(Octet), Len(nonce) < L
  PROVE  StartOffset(nonce) \in Blocks
<1> DEFINE top == KtopOf(nonce)
           c == BottomOf(nonce) \div Width
           s == BottomOf(nonce) % Width
<1>1. top \in Blocks /\ c \in 0 .. L \div 2 - 1 /\ s \in 0 .. Width - 1
  BY NonceParts
<1>2. StartOffset(nonce) = [k \in 1 .. L |-> Joined(top, k + c, s)]
  BY StartIs
<1> HIDE DEF top, c, s
<1>3. ASSUME NEW k \in 1 .. L PROVE Joined(top, k + c, s) \in Octet
  <2> DEFINE x == Stretched(top, k + c)
             y == Stretched(top, k + c + 1)
             up == TwoTo(s)
             down == TwoTo(Width - s)
             v == x * up + y \div down
  <2>1. k + c \in 1 .. L + L \div 2 /\ k + c + 1 \in 1 .. L + L \div 2
    BY <1>1, Sizes
  <2>2. x \in Nat /\ y \in Nat
    BY <1>1, <2>1, StretchedIsByte, Sizes DEF Octet
  <2>3. up \in Nat \ {0} /\ down \in Nat \ {0}
    <3>1. s \in Nat /\ Width - s \in Nat
      BY <1>1, Sizes
    <3> QED
      BY <3>1, TwoToPositive
  <2> HIDE DEF x, y, up, down
  <2>4. v \in Nat
    <3>1. x * up \in Nat /\ y \div down \in Nat
      BY <2>2, <2>3
    <3> QED
      BY <3>1
  <2>5. Joined(top, k + c, s) = v % ByteSize
    BY Zenon DEF Joined, v, x, y, up, down
  <2> HIDE DEF v
  <2>6. v % ByteSize \in 0 .. ByteSize - 1
    BY <2>4, Sizes, RestBelow
  <2> QED
    BY <2>5, <2>6 DEF Octet
<1> QED
  BY <1>2, <1>3 DEF Blocks

IsOffsets(o, start, table, m) ==
  o = [j \in 0 .. m |-> IF j = 0 THEN start ELSE Xor16(o[j-1], table[ocb_ntz(j)])]

LEMMA OffsetsAre ==
  ASSUME NEW m \in Nat, NEW start \in Blocks, NEW table,
         \A j \in 1 .. m : table[ocb_ntz(j)] \in Blocks
  PROVE  \A j \in 0 .. m : Offsets(start, table, m)[j] \in Blocks
<1> DEFINE next(b, j) == Xor16(b, table[ocb_ntz(j)])
           step == [q \in Blocks \X Nat |-> IF q[2] \in 1 .. m THEN next(q[1], q[2]) ELSE q[1]]
           c == CHOOSE o : IsOffsets(o, start, table, m)
<1>1. \A b \in Blocks, j \in 1 .. m : next(b, j) \in Blocks
  BY XorBlock
<1>2. step \in [Blocks \X Nat -> Blocks]
  <2> HIDE DEF next
  <2> QED
    BY <1>1
<1>3. PICK f \in [0 .. m -> Blocks] : IsSteps(f, m, start, step)
  <2> HIDE DEF step
  <2> QED
    BY <1>2, RowOfSteps
<1>4. IsOffsets(f, start, table, m)
  <2>1. \A j \in 1 .. m : j \in Nat /\ f[j-1] \in Blocks /\ step[<<f[j-1], j>>] = next(f[j-1], j)
    <3> HIDE DEF next
    <3> QED
      BY <1>3
  <2> HIDE DEF step
  <2>2. f = [j \in 0 .. m |-> IF j = 0 THEN start ELSE next(f[j-1], j)]
    <3> HIDE DEF next
    <3>1. f = [j \in 0 .. m |-> IF j = 0 THEN start ELSE step[<<f[j-1], j>>]]
      BY <1>3, Zenon DEF IsSteps
    <3>2. \A j \in 0 .. m :
             (IF j = 0 THEN start ELSE step[<<f[j-1], j>>]) = (IF j = 0 THEN start ELSE next(f[j-1], j))
      BY <2>1
    <3> QED
      BY <3>1, <3>2, Zenon
  <2> QED
    BY <2>2, Zenon DEF IsOffsets
<1>5. IsOffsets(c, start, table, m)
  BY <1>4, Zenon
<1>6. Offsets(start, table, m) = c
  BY Zenon DEF Offsets, IsOffsets
<1> HIDE DEF c
<1>7. c[0] = start /\ \A j \in 1 .. m : c[j] = next(c[j-1], j)
  <2>1. c = [j \in 0 .. m |-> IF j = 0 THEN start ELSE next(c[j-1], j)]
    BY <1>5, Zenon DEF IsOffsets
  <2> HIDE DEF next
  <2> QED
    BY <2>1
<1>8. \A j \in 1 .. m : c[j-1] \in Blocks => c[j] \in Blocks
  <2> HIDE DEF next
  <2> QED
    BY <1>1, <1>7
<1>9. \A j \in 0 .. m : c[j] \in Blocks
  BY <1>7, <1>8, StepsKeep
<1> QED
  BY <1>6, <1>9

\* The table that is sized by the longer of message and data has a row for every
\* full block of both.
THEOREM TableSuffices ==
  ASSUME NEW n \in Nat, NEW d \in Nat, NEW j \in Nat \ {0}, j <= n \div L \/ j <= d \div L
  PROVE  ocb_ntz(j) \in 0 .. l_length(n, d) - 1
<1>1. L \in Nat \ {0} /\ n \div L \in Nat /\ d \div L \in Nat
  BY Sizes
<1>2. ASSUME NEW x \in Nat, NEW y \in Nat, x <= y PROVE x \div L <= y \div L
  <2> DEFINE a == x \div L
             b == y \div L
             r == x % L
             e == y % L
  <2>1. a \in Nat /\ b \in Nat /\ x = L * a + r /\ y = L * b + e /\ r \in 0 .. L - 1 /\ e \in 0 .. L - 1
    BY <1>1
  <2> HIDE DEF a, b, r, e
  <2>2. ASSUME b < a PROVE FALSE
    <3>1. L * a = L * b + L + L * (a - b - 1) /\ a - b - 1 \in Nat /\ L * (a - b - 1) \in Nat /\ L * b \in Nat
      BY <1>1, <2>1, <2>2
    <3> QED
      BY <1>1, <1>2, <2>1, <3>1
  <2> QED
    BY <2>1, <2>2 DEF a, b
<1>3. CASE n > d
  <2>1. d \div L <= n \div L
    BY <1>2, <1>3
  <2>2. j \in 1 .. n \div L
    BY <1>1, <2>1
  <2> QED
    BY <1>1, <1>3, <2>2, RowThere DEF l_length
<1>4. CASE ~(n > d)
  <2>1. n \div L <= d \div L
    BY <1>2, <1>4
  <2>2. j \in 1 .. d \div L
    BY <1>1, <2>1
  <2> QED
    BY <1>1, <1>4, <2>2, RowThere DEF l_length
<1> QED
  BY <1>3, <1>4

\* The offsets of a text.
AreOffsets(o, n) == \A j \in 0 .. n \div L : o[j] \in Blocks

LEMMA OffsetsOfText ==
  ASSUME NEW nonce \in Seq(Octet), Len(nonce) < L, NEW text, Len(text) \in Nat,
         NEW data, Len(data) \in Nat
  PROVE  AreOffsets(OffsetsOf(nonce, text, data), Len(text))
<1> DEFINE m == Len(text) \div L
           rows == l_length(Len(text), Len(data))
           start == StartOffset(nonce)
<1>1. m \in Nat /\ start \in Blocks
  BY Sizes, StartIsBlock
<1>2. \A j \in 1 .. m : l(rows)[ocb_ntz(j)] \in Blocks
  <2> TAKE j \in 1 .. m
  <2>1. ocb_ntz(j) \in 0 .. rows - 1
    BY <1>1, TableSuffices
  <2>2. rows \in Nat \ {0}
    <3>1. rows \in Nat
      <4>1. Len(text) \div L \in Nat /\ Len(data) \div L \in Nat
        BY Sizes
      <4> QED
        BY <4>1, RoundIsNat DEF l_length
    <3> HIDE DEF rows
    <3> QED
      BY <2>1, <3>1
  <2> HIDE DEF rows
  <2> QED
    BY <2>1, <2>2, TableIs
<1>3. \A j \in 0 .. m : Offsets(start, l(rows), m)[j] \in Blocks
  <2> HIDE DEF m, rows, start
  <2> QED
    BY <1>1, <1>2, OffsetsAre
<1>4. OffsetsOf(nonce, text, data) = Offsets(start, l(rows), m)
  BY Zenon DEF OffsetsOf, TableFor
<1> QED
  BY <1>3, <1>4 DEF AreOffsets

-----------------------------------------------------------------------------
(* Offset codebook: both directions undo each other.                          *)

\* Crypt, block by block.
Full(n) == L * (n \div L)
Covered(f, o, text, j) == Between(f, PartOf(text, j), o[j+1])
Crypted(f, o, text) ==
  [k \in 1 .. Len(text) |->
     IF k <= Full(Len(text)) THEN Covered(f, o, text, BlockOf(k))[PlaceOf(k)]
     ELSE XorB(text[k], Enc(LastOffset(o, text))[k - Full(Len(text))])]

LEMMA CryptIs == ASSUME NEW f, NEW o, NEW text PROVE Crypt(f, o, text) = Crypted(f, o, text)
BY Zenon DEF Crypt, Crypted, Covered, Full

LEMMA LastIsBlock ==
  ASSUME NEW text, Len(text) \in Nat, NEW o, AreOffsets(o, Len(text))
  PROVE  LastOffset(o, text) \in Blocks
<1> DEFINE m == Len(text) \div L
<1>1. m \in Nat
  BY Sizes
<1>2. o[m] \in Blocks
  <2> HIDE DEF m
  <2>1. m \in 0 .. m
    BY <1>1
  <2> QED
    BY <2>1 DEF AreOffsets, m
<1>3. Xor16(o[m], l_asterisk) \in Blocks
  BY <1>2, AsteriskAndDollar, XorBlock
<1> QED
  BY <1>2, <1>3 DEF LastOffset

\* A byte is in a full block, or in the rest, which is shorter than one.
LEMMA ByteInText ==
  ASSUME NEW n \in Nat, NEW k \in 1 .. n
  PROVE  /\ Full(n) \in Nat /\ Full(n) <= n
         /\ k <= Full(n) => \E j \in Nat, p \in 1 .. L :
              /\ j < n \div L /\ k = L * j + p /\ BlockOf(k) = j /\ PlaceOf(k) = p
              /\ \A r \in 1 .. L : L * j + r \in 1 .. n /\ L * j + r <= Full(n)
         /\ ~(k <= Full(n)) => k - Full(n) \in 1 .. L
<1> DEFINE m == n \div L
           e == n % L
<1>1. m \in Nat /\ e \in 0 .. L - 1 /\ n = L * m + e /\ L \in Nat \ {0} /\ L * m \in Nat
  BY Sizes
<1>2. Full(n) = L * m
  BY DEF Full
<1> HIDE DEF m, e
<1>3. ASSUME k <= L * m
      PROVE  \E j \in Nat, p \in 1 .. L :
               /\ j < m /\ k = L * j + p /\ BlockOf(k) = j /\ PlaceOf(k) = p
               /\ \A r \in 1 .. L : L * j + r \in 1 .. n /\ L * j + r <= L * m
  <2> DEFINE j == BlockOf(k)
             p == PlaceOf(k)
  <2>1. j \in Nat /\ p \in 1 .. L /\ k = L * j + p
    BY <1>1, PlacesOf
  <2> HIDE DEF j, p
  <2>2. j < m
    BY <1>1, <1>3, <2>1, BlocksBelow
  <2>3. ASSUME NEW r \in 1 .. L PROVE L * j + r \in 1 .. n /\ L * j + r <= L * m
    <3>1. L * j + r <= L * m
      BY <1>1, <2>1, <2>2, BlocksBelow
    <3>2. L * j \in Nat
      BY <1>1, <2>1
    <3> QED
      BY <1>1, <3>1, <3>2
  <2> QED
    BY <2>1, <2>2, <2>3 DEF j, p
<1>4. ~(k <= L * m) => k - L * m \in 1 .. L
  BY <1>1
<1> QED
  BY <1>1, <1>2, <1>3, <1>4 DEF m

LEMMA CoveredIs ==
  ASSUME NEW f \in [Blocks -> Blocks], NEW n \in Nat, NEW text \in [1 .. n -> Octet], Len(text) = n,
         NEW o, AreOffsets(o, n), NEW j \in Nat, j < n \div L,
         \A r \in 1 .. L : L * j + r \in 1 .. n
  PROVE  /\ PartOf(text, j) \in Blocks /\ o[j+1] \in Blocks
         /\ Xor16(PartOf(text, j), o[j+1]) \in Blocks /\ Covered(f, o, text, j) \in Blocks
<1>1. PartOf(text, j) \in Blocks
  BY DEF PartOf, Blocks
<1>2. o[j+1] \in Blocks
  <2>1. n \div L \in Nat
    BY Sizes
  <2>2. j + 1 \in 0 .. n \div L
    BY <2>1
  <2> QED
    BY <2>2 DEF AreOffsets
<1>3. Xor16(PartOf(text, j), o[j+1]) \in Blocks
  BY <1>1, <1>2, XorBlock
<1>4. f[Xor16(PartOf(text, j), o[j+1])] \in Blocks
  BY <1>3
<1> QED
  BY <1>1, <1>2, <1>3, <1>4, XorBlock DEF Covered, Between

LEMMA CryptedIsText ==
  ASSUME NEW f \in [Blocks -> Blocks], NEW n \in Nat, NEW text \in [1 .. n -> Octet], Len(text) = n,
         NEW o, AreOffsets(o, n)
  PROVE  Crypted(f, o, text) \in [1 .. n -> Octet] /\ Len(Crypted(f, o, text)) = n
<1>1. ASSUME NEW k \in 1 .. n, k <= Full(n) PROVE Covered(f, o, text, BlockOf(k))[PlaceOf(k)] \in Octet
  <2>1. PICK j \in Nat, p \in 1 .. L :
          /\ j < n \div L /\ k = L * j + p /\ BlockOf(k) = j /\ PlaceOf(k) = p
          /\ \A r \in 1 .. L : L * j + r \in 1 .. n /\ L * j + r <= Full(n)
    BY <1>1, ByteInText
  <2>2. Covered(f, o, text, j) \in Blocks
    BY <2>1, CoveredIs
  <2> QED
    BY <2>1, <2>2 DEF Blocks
<1>2. ASSUME NEW k \in 1 .. n, ~(k <= Full(n))
      PROVE  XorB(text[k], Enc(LastOffset(o, text))[k - Full(n)]) \in Octet
  <2>1. k - Full(n) \in 1 .. L
    BY <1>2, ByteInText
  <2>2. Enc(LastOffset(o, text)) \in Blocks
    BY LastIsBlock, Ciphered
  <2>3. Enc(LastOffset(o, text))[k - Full(n)] \in Octet
    BY <2>1, <2>2 DEF Blocks
  <2> QED
    BY <2>3, XorByte
<1>3. Crypted(f, o, text) \in [1 .. n -> Octet]
  BY <1>1, <1>2 DEF Crypted
<1> QED
  BY <1>3, RowIsSeq

LEMMA CryptedBack ==
  ASSUME NEW f \in [Blocks -> Blocks], NEW g \in [Blocks -> Blocks], \A b \in Blocks : g[f[b]] = b,
         NEW n \in Nat, NEW text \in [1 .. n -> Octet], Len(text) = n, NEW o, AreOffsets(o, n)
  PROVE  Crypted(g, o, Crypted(f, o, text)) = text
<1> DEFINE out == Crypted(f, o, text)
<1>1. out \in [1 .. n -> Octet] /\ Len(out) = n
  BY CryptedIsText
<1>2. LastOffset(o, out) = LastOffset(o, text)
  BY <1>1, Zenon DEF LastOffset, Whole
<1>3. ASSUME NEW k \in 1 .. n, k <= Full(n)
      PROVE  out[k] = Covered(f, o, text, BlockOf(k))[PlaceOf(k)]
  BY <1>3 DEF Crypted
<1>4. ASSUME NEW k \in 1 .. n, ~(k <= Full(n))
      PROVE  out[k] = XorB(text[k], Enc(LastOffset(o, text))[k - Full(n)])
  BY <1>4 DEF Crypted
<1> HIDE DEF out
<1>5. ASSUME NEW k \in 1 .. n, k <= Full(n)
      PROVE  Covered(g, o, out, BlockOf(k))[PlaceOf(k)] = text[k]
  <2>1. PICK j \in Nat, p \in 1 .. L :
          /\ j < n \div L /\ k = L * j + p /\ BlockOf(k) = j /\ PlaceOf(k) = p
          /\ \A r \in 1 .. L : L * j + r \in 1 .. n /\ L * j + r <= Full(n)
    BY <1>5, ByteInText
  <2> DEFINE x == PartOf(text, j)
             y == o[j+1]
             c == Covered(f, o, text, j)
  <2>2. x \in Blocks /\ y \in Blocks /\ Xor16(x, y) \in Blocks /\ c \in Blocks
    BY <2>1, CoveredIs
  <2>3. PartOf(out, j) = c
    <3>1. ASSUME NEW r \in 1 .. L PROVE out[L * j + r] = c[r]
      <4>1. L * j + r \in 1 .. n /\ L * j + r <= Full(n)
        BY <2>1
      <4>2. BlockOf(L * j + r) = j /\ PlaceOf(L * j + r) = r
        BY Places
      <4> QED
        BY <1>3, <4>1, <4>2
    <3> HIDE DEF c
    <3> QED
      BY <2>2, <3>1 DEF PartOf, Blocks
  <2>4. c = Xor16(f[Xor16(x, y)], y) /\ f[Xor16(x, y)] \in Blocks
    BY <2>2 DEF Covered, Between
  <2> HIDE DEF c, x, y
  <2>5. Xor16(c, y) = f[Xor16(x, y)]
    BY <2>2, <2>4, XorBlock
  <2>6. Covered(g, o, out, j) = Xor16(g[Xor16(c, y)], y)
    BY <2>3 DEF Covered, Between, y
  <2>7. Covered(g, o, out, j) = x
    BY <2>2, <2>5, <2>6, XorBlock
  <2>8. x[p] = text[k]
    BY <2>1 DEF x, PartOf
  <2> QED
    BY <2>1, <2>7, <2>8
<1>6. ASSUME NEW k \in 1 .. n, ~(k <= Full(n))
      PROVE  XorB(out[k], Enc(LastOffset(o, out))[k - Full(n)]) = text[k]
  <2>1. k - Full(n) \in 1 .. L
    BY <1>6, ByteInText
  <2>2. Enc(LastOffset(o, text)) \in Blocks
    BY LastIsBlock, Ciphered
  <2>3. Enc(LastOffset(o, text))[k - Full(n)] \in Octet /\ text[k] \in Octet
    BY <2>1, <2>2 DEF Blocks
  <2> QED
    BY <1>2, <1>4, <1>6, <2>3, XorByte
<1>7. Crypted(g, o, out) = [k \in 1 .. n |-> text[k]]
  BY <1>1, <1>5, <1>6 DEF Crypted
<1>8. text = [k \in 1 .. n |-> text[k]]
  OBVIOUS
<1> QED
  BY <1>7, <1>8 DEF out

\* Both directions keep the length and undo each other.
LEMMA BothWays ==
  ASSUME NEW n \in Nat, NEW text \in [1 .. n -> Octet], Len(text) = n, NEW o, AreOffsets(o, n)
  PROVE  /\ Crypt(Encryption, o, text) \in [1 .. n -> Octet] /\ Len(Crypt(Encryption, o, text)) = n
         /\ Crypt(Decryption, o, text) \in [1 .. n -> Octet] /\ Len(Crypt(Decryption, o, text)) = n
         /\ Crypt(Decryption, o, Crypt(Encryption, o, text)) = text /\ Crypt(Encryption, o, Crypt(Decryption, o, text)) = text
<1>1. Encryption \in [Blocks -> Blocks] /\ Decryption \in [Blocks -> Blocks]
  BY Ciphered DEF Encryption, Decryption
<1>2. /\ \A b \in Blocks : Decryption[Encryption[b]] = b
      /\ \A b \in Blocks : Encryption[Decryption[b]] = b
  BY Ciphered DEF Encryption, Decryption
<1> DEFINE e == Crypted(Encryption, o, text)
           d == Crypted(Decryption, o, text)
<1>3. Crypt(Encryption, o, text) = e /\ Crypt(Decryption, o, text) = d
  BY CryptIs
<1>4. e \in [1 .. n -> Octet] /\ Len(e) = n /\ d \in [1 .. n -> Octet] /\ Len(d) = n
  BY <1>1, CryptedIsText
<1>5. Crypted(Decryption, o, e) = text /\ Crypted(Encryption, o, d) = text
  BY <1>1, <1>2, CryptedBack
<1> HIDE DEF e, d
<1>6. Crypt(Decryption, o, e) = text /\ Crypt(Encryption, o, d) = text
  BY <1>4, <1>5, CryptIs
<1> QED
  BY <1>3, <1>4, <1>6

LEMMA SameLength ==
  ASSUME NEW s, NEW t, Len(s) = Len(t), NEW nonce, NEW data
  PROVE  /\ OffsetsOf(nonce, s, data) = OffsetsOf(nonce, t, data)
         /\ TableFor(s, data) = TableFor(t, data)
         /\ \A o : LastOffset(o, s) = LastOffset(o, t)
BY Zenon DEF OffsetsOf, TableFor, LastOffset, Whole

\* A message in OCB mode arrives as a text and a tag.
LEMMA TextArrives ==
  ASSUME NEW text \in Seq(Octet), NEW tag, change = NoChange \/ Changed, sent.mode = "ocb",
         WireLen = Len(text)
  PROVE  \E t \in Seq(Octet) : \E u : Arrived([text |-> text, tag |-> tag]) = [text |-> t, tag |-> u]
<1> DEFINE wire == [text |-> text, tag |-> tag]
<1>1. CASE change.of \notin {"text", "tag", "end"}
  <2>1. Arrived(wire) = wire
    BY <1>1 DEF Arrived
  <2> QED
    BY <2>1
<1>2. CASE Changed /\ change.of = "text"
  <2>1. change.at \in 1 .. Len(text)
    BY <1>2 DEF Changed
  <2>2. text[change.at] \in 0 .. ByteSize - 1 /\ ByteSize \in Nat \ {0}
    BY <2>1, Sizes, ElementOfSeq DEF Octet
  <2>3. (text[change.at] + 1) % ByteSize \in 0 .. ByteSize - 1
    <3>1. text[change.at] + 1 \in Nat
      BY <2>2
    <3> QED
      BY <2>2, <3>1, RestBelow
  <2> DEFINE y == (text[change.at] + 1) % ByteSize
  <2>4. y \in Octet
    BY <2>3 DEF Octet
  <2>5. Arrived(wire) = [text |-> [text EXCEPT ![change.at] = y], tag |-> tag]
    BY <1>2, <2>1 DEF Arrived, Differently
  <2> HIDE DEF y
  <2>6. [text EXCEPT ![change.at] = y] \in Seq(Octet)
    BY <2>1, <2>4, ExceptSeq
  <2> QED
    BY <2>5, <2>6
<1>3. CASE Changed /\ change.of = "tag"
  <2>1. Arrived(wire) = [text |-> text, tag |-> Differently(tag, change.at)]
    BY <1>3 DEF Arrived
  <2> QED
    BY <2>1
<1>4. CASE Changed /\ change.of = "end"
  <2>1. change.at \in 1 .. Len(text) /\ Len(text) \in Nat
    BY <1>4, LenProperties DEF Changed
  <2>2. Arrived(wire) = [text |-> SubSeq(text, 1, change.at - 1), tag |-> tag]
    BY <1>4 DEF Arrived
  <2>3. \A k \in 1 .. change.at - 1 : text[k] \in Octet
    BY <2>1, ElementOfSeq
  <2>4. SubSeq(text, 1, change.at - 1) \in Seq(Octet)
    BY <2>1, <2>3, SubSeqProperties
  <2> QED
    BY <2>2, <2>4
<1>5. change = NoChange => change.of \notin {"text", "tag", "end"}
  BY DEF NoChange
<1>6. Changed => change.of \in {"text", "tag", "end"}
  BY DEF Changed
<1> QED
  BY <1>1, <1>2, <1>3, <1>4, <1>5, <1>6

\* A receiver takes a text and a tag just when encrypting what comes out gives both.
LEMMA TakesTheTag ==
  ASSUME NEW nonce \in Seq(Octet), Len(nonce) < L, NEW data \in Seq(Octet),
         NEW t \in Seq(Octet), NEW u
  PROVE  LET got == SM4_OCB_Decrypt(nonce, [text |-> t, tag |-> u], data)
         IN  got.ret = 0 <=> SM4_OCB_Encrypt(nonce, got.out, data) = [text |-> t, tag |-> u]
<1> DEFINE n == Len(t)
           o == OffsetsOf(nonce, t, data)
           p == Crypt(Decryption, o, t)
           tag == Tag(p, LastOffset(o, p), data, TableFor(t, data))
           got == SM4_OCB_Decrypt(nonce, [text |-> t, tag |-> u], data)
<1>1. n \in Nat /\ t \in [1 .. n -> Octet] /\ Len(data) \in Nat
  BY LenProperties
<1>2. AreOffsets(o, n)
  BY <1>1, OffsetsOfText
<1>3. Len(p) = n /\ Crypt(Encryption, o, p) = t
  <2> HIDE DEF n, o
  <2>1. Len(t) = n
    BY DEF n
  <2> QED
    BY <1>1, <1>2, <2>1, BothWays
<1>4. got = [out |-> p, ret |-> IF tag # u THEN 1 ELSE 0]
  BY DEF SM4_OCB_Decrypt, Differ
<1>5. SM4_OCB_Encrypt(nonce, p, data) = [text |-> t, tag |-> tag]
  <2>1. OffsetsOf(nonce, p, data) = o /\ TableFor(p, data) = TableFor(t, data)
    <3>1. Len(p) = Len(t)
      BY <1>3
    <3> HIDE DEF p
    <3> QED
      BY <3>1, SameLength
  <2> HIDE DEF p, o
  <2> QED
    BY <1>3, <2>1 DEF SM4_OCB_Encrypt
<1>6. got.out = p /\ (got.ret = 0 <=> tag = u)
  BY <1>4
<1>7. [text |-> t, tag |-> tag] = [text |-> t, tag |-> u] <=> tag = u
  OBVIOUS
<1> HIDE DEF got, p, tag
<1>8. got.ret = 0 <=> SM4_OCB_Encrypt(nonce, got.out, data) = [text |-> t, tag |-> u]
  BY <1>5, <1>6, <1>7
<1> QED
  BY <1>8 DEF got

\* What nobody changed comes back and is taken.
LEMMA ComesOutAgain ==
  ASSUME NEW nonce \in Seq(Octet), Len(nonce) < L, NEW data \in Seq(Octet), NEW text \in Seq(Octet)
  PROVE  /\ SM4_OCB_Decrypt(nonce, SM4_OCB_Encrypt(nonce, text, data), data).out = text
         /\ SM4_OCB_Encrypt(nonce, text, data).text \in Seq(Octet)
         /\ Len(SM4_OCB_Encrypt(nonce, text, data).text) = Len(text)
<1> DEFINE n == Len(text)
           o == OffsetsOf(nonce, text, data)
           c == Crypt(Encryption, o, text)
<1>1. n \in Nat /\ text \in [1 .. n -> Octet] /\ Len(data) \in Nat
  BY LenProperties
<1>2. AreOffsets(o, n)
  BY <1>1, OffsetsOfText
<1>3. c \in [1 .. n -> Octet] /\ Len(c) = n /\ Crypt(Decryption, o, c) = text
  <2> HIDE DEF n, o
  <2>1. Len(text) = n
    BY DEF n
  <2> QED
    BY <1>1, <1>2, <2>1, BothWays
<1>4. SM4_OCB_Encrypt(nonce, text, data).text = c
  BY DEF SM4_OCB_Encrypt
<1>5. SM4_OCB_Decrypt(nonce, SM4_OCB_Encrypt(nonce, text, data), data).out
        = Crypt(Decryption, OffsetsOf(nonce, c, data), c)
  BY <1>4 DEF SM4_OCB_Decrypt, Differ
<1>6. OffsetsOf(nonce, c, data) = o
  <2>1. Len(c) = Len(text)
    BY <1>3
  <2> HIDE DEF c
  <2> QED
    BY <2>1, SameLength
<1>7. c \in Seq(Octet)
  BY <1>1, <1>3, RowIsSeq
<1> QED
  BY <1>3, <1>4, <1>5, <1>6, <1>7

LEMMA OCBStep ==
  ASSUME ModesInv, Receives("ocb"),
         NEW wire, wire = SM4_OCB_Encrypt(sent.nonce, sent.text, sent.data),
         NEW got, got = SM4_OCB_Decrypt(sent.nonce, Arrived(wire), sent.data)
  PROVE  /\ change = NoChange => got.out = sent.text /\ got.ret = 0
         /\ got.ret = 0 <=> SM4_OCB_Encrypt(sent.nonce, got.out, sent.data) = Arrived(wire)
<1>1. sent.mode = "ocb" /\ OCBSent /\ (change = NoChange \/ Changed)
  BY DEF Receives, ModesInv
<1>2. WireLen = Len(sent.text)
  BY <1>1 DEF WireLen
<1>3. wire = [text |-> wire.text, tag |-> wire.tag]
  BY DEF SM4_OCB_Encrypt
<1>4. wire.text \in Seq(Octet) /\ Len(wire.text) = Len(sent.text)
  BY <1>1, ComesOutAgain DEF OCBSent
<1>5. PICK t, u : t \in Seq(Octet) /\ Arrived(wire) = [text |-> t, tag |-> u]
  <2>1. \E t \in Seq(Octet) : \E u : Arrived([text |-> wire.text, tag |-> wire.tag]) = [text |-> t, tag |-> u]
    BY <1>1, <1>2, <1>4, TextArrives
  <2> QED
    BY <1>3, <2>1
<1> t \in Seq(Octet)
  BY <1>5
<1>6. got.ret = 0 <=> SM4_OCB_Encrypt(sent.nonce, got.out, sent.data) = Arrived(wire)
  BY <1>1, <1>5, TakesTheTag DEF OCBSent
<1>7. ASSUME change = NoChange PROVE got.out = sent.text /\ got.ret = 0
  <2>1. Arrived(wire) = wire
    BY <1>7 DEF Arrived, NoChange
  <2>2. got.out = sent.text
    BY <1>1, <2>1, ComesOutAgain DEF OCBSent
  <2> QED
    BY <1>6, <2>1, <2>2
<1> QED
  BY <1>6, <1>7

\* OCB accepts what was sent, and nothing that its own encryption would not have
\* given, for every block cipher, message, data and nonce.
THEOREM AcceptsOnlyTheTagCorrect == ModesSpec => AcceptsOnlyTheTag
<1>1. ModesInv /\ [ModesNext]_modesVars => [OCBExchange]_modesVars
  <2> SUFFICES ASSUME ModesInv PROVE OCBExchange
    OBVIOUS
  <2> QED
    BY OCBStep, Zenon DEF OCBExchange
<1> QED
  BY <1>1, ModesInvHolds, PTL DEF ModesSpec, AcceptsOnlyTheTag

-----------------------------------------------------------------------------
(* Offset codebook: the first offset is the standard's, bit by bit.            *)

\* The xor of a byte and its own low bits clears these.
LEMMA XorClears ==
  ASSUME NEW x \in Octet, NEW m \in Nat
  PROVE  XorB(x, x % TwoTo(m)) = x - (x % TwoTo(m))
<1> DEFINE P == TwoTo(m)
           a == x \div P
           y == x % P
           z == P * a
<1>1. P \in Nat \ {0} /\ x \in Nat
  BY TwoToPositive, Sizes DEF Octet
<1> HIDE DEF P
<1>2. a \in Nat /\ y \in 0 .. P - 1 /\ x = z + y /\ z \in Nat
  BY <1>1
<1> HIDE DEF y, z
<1>3. y \in Octet /\ z \in Octet
  BY <1>1, <1>2, Sizes DEF Octet
<1>4. XorB(x, y) \in Octet
  BY <1>3, XorBits
<1>5. ASSUME NEW e \in 0 .. Width - 1 PROVE Bit(XorB(x, y), e) = Bit(z, e)
  <2>1. Bit(XorB(x, y), e) = (Bit(x, e) + Bit(y, e)) % 2
    BY <1>3, XorBits
  <2>2. e \in Nat
    BY Sizes
  <2>3. 0 \in 0 .. P - 1 /\ z = P * a + 0
    BY <1>1, <1>2 DEF z
  <2>4. Bit(z, e) = IF e >= m THEN Bit(a, e - m) ELSE Bit(0, e)
    BY <1>2, <2>2, <2>3, BitOfSum DEF P
  <2>5. Bit(x, e) = IF e >= m THEN Bit(a, e - m) ELSE Bit(y, e)
    BY <1>2, <2>2, BitOfSum DEF P, z
  <2>6. Bit(0, e) = 0
    <3>1. TwoTo(e) \in Nat \ {0}
      BY <2>2, TwoToPositive
    <3>2. 0 \div TwoTo(e) = 0
      BY <3>1
    <3> QED
      BY <3>2 DEF Bit
  <2>7. e >= m => Bit(y, e) = 0
    <3> SUFFICES ASSUME e >= m PROVE Bit(y, e) = 0
      OBVIOUS
    <3>1. TwoTo(e) \in Nat \ {0} /\ P <= TwoTo(e)
      BY <2>2, TwoToPositive, TwoToGrows DEF P
    <3>2. y \div TwoTo(e) = 0
      BY <1>1, <1>2, <3>1
    <3> QED
      BY <3>2 DEF Bit
  <2>8. Bit(x, e) \in {0, 1} /\ Bit(y, e) \in {0, 1}
    BY <1>1, <1>2, <2>2, BitType
  <2> HIDE DEF a
  <2> QED
    BY <2>1, <2>2, <2>4, <2>5, <2>6, <2>7, <2>8
<1>6. XorB(x, y) = z
  BY <1>3, <1>4, <1>5, SameOctet
<1>7. z = x - y
  BY <1>1, <1>2
<1> QED
  BY <1>6, <1>7 DEF y, P

\* A byte cut out of two.
LEMMA ByteJoin ==
  ASSUME NEW a \in Octet, NEW b \in Octet, NEW s \in 0 .. Width - 1, NEW e \in 0 .. Width - 1
  PROVE  Bit((a * TwoTo(s) + b \div TwoTo(Width - s)) % ByteSize, e)
         = IF e >= s THEN Bit(a, e - s) ELSE Bit(b, Width - s + e)
<1> DEFINE P == TwoTo(s)
           Q == TwoTo(Width - s)
           r == b \div Q
           x == P * a + r
<1>1. /\ Width \in Nat \ {0} /\ s \in Nat /\ e \in Nat /\ e < Width /\ Width - s \in Nat
      /\ (Width - s) + s = Width /\ a \in Nat /\ b \in Nat
  BY Sizes DEF Octet
<1>2. P \in Nat \ {0} /\ Q \in Nat \ {0} /\ ByteSize = Q * P
  BY <1>1, TwoToPositive, TwoToSum DEF ByteSize
<1>3. r \in 0 .. P - 1
  <2>1. b \in 0 .. Q * P - 1
    BY <1>2 DEF Octet
  <2> HIDE DEF P, Q
  <2> QED
    BY <1>2, <2>1, QuotientBelow
<1>4. Bit(x, e) = IF e >= s THEN Bit(a, e - s) ELSE Bit(r, e)
  BY <1>1, <1>3, BitOfSum
<1>5. Bit(r, e) = Bit(b, Width - s + e)
  BY <1>1, BitOfShift
<1> HIDE DEF r
<1>6. x \in Nat /\ a * P + r = x
  <2> HIDE DEF P
  <2> QED
    BY <1>1, <1>2, <1>3
<1> HIDE DEF x
<1>7. Bit(x % ByteSize, e) = Bit(x, e)
  BY <1>1, <1>6, BitOfRest DEF ByteSize
<1> QED
  BY <1>4, <1>5, <1>6, <1>7 DEF r

-----------------------------------------------------------------------------

\* Bits in their bytes.
LEMMA BitPlaces ==
  ASSUME NEW n \in Nat, NEW q \in 0 .. n * Width - 1
  PROVE  /\ q \in Nat /\ q + 1 \in 1 .. n * Width /\ q \div Width \in 0 .. n - 1
         /\ q % Width \in 0 .. Width - 1 /\ Width - 1 - (q % Width) \in 0 .. Width - 1
         /\ q = Width * (q \div Width) + (q % Width)
<1>1. Width \in Nat \ {0}
  BY Sizes
<1>2. n * Width \in Nat /\ n * Width = Width * n
  BY <1>1
<1> DEFINE a == q \div Width
           r == q % Width
           w == Width * a
<1>3. q \in Nat /\ q + 1 \in 1 .. n * Width
  BY <1>2
<1>4. a \in Nat /\ r \in 0 .. Width - 1 /\ q = w + r
  BY <1>1, <1>3
<1>5. a < n
  <2> HIDE DEF a, r
  <2> SUFFICES ASSUME a >= n PROVE FALSE
    BY <1>4
  <2>1. Width * a = Width * n + Width * (a - n) /\ a - n \in Nat /\ Width * (a - n) \in Nat
    BY <1>1, <1>4
  <2> QED
    BY <1>1, <1>2, <1>4, <2>1
<1> HIDE DEF a, r, w
<1>6. Width - 1 - r \in 0 .. Width - 1 /\ a \in 0 .. n - 1
  BY <1>1, <1>4, <1>5
<1> QED
  BY <1>3, <1>4, <1>6 DEF a, r, w

LEMMA BitsAre ==
  ASSUME NEW n \in Nat, NEW s, Len(s) = n
  PROVE  /\ BitsOf(s) = [k \in 1 .. n * Width |-> BitsOf(s)[k]]
         /\ \A q \in 0 .. n * Width - 1 :
              BitsOf(s)[q + 1] = Bit(s[q \div Width + 1], Width - 1 - (q % Width))
<1>1. BitsOf(s) = [k \in 1 .. n * Width |-> Bit(s[(k - 1) \div Width + 1], Width - 1 - ((k - 1) % Width))]
  BY DEF BitsOf
<1>2. ASSUME NEW q \in 0 .. n * Width - 1
      PROVE  BitsOf(s)[q + 1] = Bit(s[q \div Width + 1], Width - 1 - (q % Width))
  <2>1. q + 1 \in 1 .. n * Width /\ (q + 1) - 1 = q
    BY BitPlaces
  <2> QED
    BY <1>1, <2>1
<1> QED
  BY <1>1, <1>2

LEMMA HalfIs == /\ L \div 2 \in Nat \ {0} /\ L = 2 * (L \div 2)
                /\ (L * Width) \div 2 = Width * (L \div 2) /\ Width * (L \div 2) \in Nat \ {0}
                /\ L * Width \in Nat \ {0}
<1> DEFINE h == L \div 2
<1>1. L = 2 * h /\ h \in Nat \ {0} /\ Width \in Nat \ {0} /\ L \in Nat \ {0}
  BY Sizes
<1> HIDE DEF h
<1> DEFINE w == Width * h
<1>2. L * Width = 2 * w /\ w \in Nat \ {0}
  BY <1>1
<1> HIDE DEF w
<1>3. (L * Width) \div 2 = w /\ L * Width \in Nat \ {0}
  BY <1>2
<1> QED
  BY <1>1, <1>2, <1>3 DEF h, w

LEMMA BitsIsSeq ==
  ASSUME NEW top \in Blocks
  PROVE  /\ Len(top) = L /\ BitsOf(top) \in Seq(Nat) /\ Len(BitsOf(top)) = L * Width
<1>1. Len(top) = L
  <2>1. top \in [1 .. L -> Octet] /\ L \in Nat
    BY Sizes DEF Blocks
  <2> QED
    BY <2>1, RowIsSeq
<1>2. L \in Nat /\ L * Width \in Nat
  BY Sizes, HalfIs
<1>3. ASSUME NEW k \in 1 .. L * Width PROVE BitsOf(top)[k] \in Nat
  <2>1. k - 1 \in 0 .. L * Width - 1 /\ (k - 1) + 1 = k
    BY <1>2
  <2>2. BitsOf(top)[(k - 1) + 1] = Bit(top[(k - 1) \div Width + 1], Width - 1 - ((k - 1) % Width))
    BY <1>1, <1>2, <2>1, BitsAre
  <2>3. (k - 1) \div Width \in 0 .. L - 1 /\ Width - 1 - ((k - 1) % Width) \in 0 .. Width - 1
    BY <1>2, <2>1, BitPlaces
  <2>4. (k - 1) \div Width + 1 \in 1 .. L
    BY <1>2, <2>3
  <2>5. top[(k - 1) \div Width + 1] \in Nat /\ Width - 1 - ((k - 1) % Width) \in Nat
    BY <2>3, <2>4, Sizes DEF Blocks, Octet
  <2> QED
    BY <2>1, <2>2, <2>5, BitType
<1>4. BitsOf(top) \in [1 .. L * Width -> Nat]
  <2>1. BitsOf(top) = [k \in 1 .. L * Width |-> BitsOf(top)[k]]
    BY <1>1, <1>2, BitsAre
  <2> QED
    BY <1>3, <2>1
<1> QED
  BY <1>1, <1>2, <1>4, RowIsSeq

LEMMA StretchedIs ==
  ASSUME NEW top \in Blocks, NEW q \in 0 .. (L + L \div 2) * Width - 1
  PROVE  StretchedBits(BitsOf(top))[q + 1] = Bit(Stretched(top, q \div Width + 1), Width - 1 - (q % Width))
<1> DEFINE h == L \div 2
           n == L * Width
           half == Width * h
           bits == BitsOf(top)
           rest == [k \in 1 .. half |-> (bits[k] + bits[k + Width]) % 2]
           a == q \div Width
           r == q % Width
<1>1. /\ L \in Nat \ {0} /\ Width \in Nat \ {0} /\ h \in Nat \ {0} /\ L = 2 * h /\ n \in Nat \ {0}
      /\ half \in Nat \ {0} /\ (L * Width) \div 2 = half /\ (L + h) * Width = n + half
  <2>1. L \in Nat \ {0} /\ Width \in Nat \ {0} /\ h \in Nat \ {0} /\ L = 2 * h
    BY Sizes, HalfIs
  <2> HIDE DEF h
  <2>2. (L + h) * Width = L * Width + Width * h
    BY <2>1
  <2> QED
    BY <2>1, <2>2, HalfIs DEF h
<1>2. bits \in Seq(Nat) /\ Len(bits) = n /\ Len(top) = L
  BY BitsIsSeq
<1>3. StretchedBits(bits) = bits \o rest
  BY <1>1 DEF StretchedBits
<1>4. rest \in Seq(Nat) /\ Len(rest) = half
  <2>1. ASSUME NEW k \in 1 .. half PROVE (bits[k] + bits[k + Width]) % 2 \in Nat
    <3>1. half + Width <= n
      <4>1. n = Width * h + Width * h
        <5> HIDE DEF h
        <5> QED
          BY <1>1
      <4>2. Width * h >= Width
        <5> HIDE DEF h
        <5> QED
          BY <1>1
      <4> QED
        BY <1>1, <4>1, <4>2
    <3>2. k \in 1 .. n /\ k + Width \in 1 .. n
      BY <1>1, <3>1
    <3>3. bits[k] \in Nat /\ bits[k + Width] \in Nat
      BY <1>2, <3>2, ElementOfSeq
    <3> HIDE DEF bits
    <3> QED
      BY <3>3
  <2>2. rest \in [1 .. half -> Nat]
    BY <2>1
  <2> HIDE DEF rest
  <2> QED
    BY <1>1, <2>2, RowIsSeq
<1>5. q \in Nat /\ q < n + half /\ a \in 0 .. L + h - 1 /\ r \in 0 .. Width - 1 /\ q = Width * a + r
  <2>1. L + h \in Nat /\ q \in 0 .. (L + h) * Width - 1
    BY <1>1
  <2>2. a \in 0 .. L + h - 1 /\ r \in 0 .. Width - 1 /\ q = Width * a + r
    <3> DEFINE Nx == L + h
    <3>1. Nx \in Nat /\ q \in 0 .. Nx * Width - 1
      BY <2>1
    <3> HIDE DEF Nx
    <3>2. q \div Width \in 0 .. Nx - 1 /\ q % Width \in 0 .. Width - 1 /\ q = Width * (q \div Width) + (q % Width)
      BY <3>1, BitPlaces
    <3>3. Nx - 1 = L + h - 1
      <4> HIDE DEF h
      <4> QED
        BY <1>1 DEF Nx
    <3>4. a \in 0 .. Nx - 1
      BY <3>2
    <3>5. a \in 0 .. L + h - 1
      BY <3>3, <3>4, Zenon
    <3> QED
      BY <3>2, <3>5, Zenon
  <2>3. q \in Nat /\ q < n + half
    BY <1>1
  <2> QED
    BY <2>2, <2>3
<1> HIDE DEF a, r
<1>6. a < L <=> q < n
  <2>1. n = Width * L
    BY <1>1
  <2>2. CASE a < L
    <3>1. Width * L = Width * a + Width + Width * (L - 1 - a) /\ L - 1 - a \in Nat /\ Width * (L - 1 - a) \in Nat
      BY <1>1, <1>5, <2>2
    <3>2. Width * a \in Nat
      BY <1>1, <1>5
    <3> QED
      BY <1>1, <1>5, <2>1, <2>2, <3>1, <3>2
  <2>3. CASE ~(a < L)
    <3>1. Width * a = Width * L + Width * (a - L) /\ a - L \in Nat /\ Width * (a - L) \in Nat
      BY <1>1, <1>5, <2>3
    <3> QED
      BY <1>1, <1>5, <2>1, <2>3, <3>1
  <2> QED
    BY <2>2, <2>3
<1>7. CASE q < n
  <2>1. (bits \o rest)[q + 1] = bits[q + 1]
    <3>1. q + 1 \in 1 .. Len(bits)
      BY <1>1, <1>2, <1>5, <1>7
    <3> HIDE DEF bits, rest, n, half
    <3> QED
      BY <1>1, <1>2, <1>4, <1>5, <1>7, <3>1
  <2>2. bits[q + 1] = Bit(top[a + 1], Width - 1 - r)
    <3>1. q \in 0 .. L * Width - 1
      BY <1>1, <1>5, <1>7
    <3> QED
      BY <1>1, <1>2, <3>1, BitsAre DEF a, r
  <2>3. Stretched(top, a + 1) = top[a + 1]
    BY <1>1, <1>5, <1>6, <1>7 DEF Stretched
  <2> QED
    BY <1>3, <2>1, <2>2, <2>3 DEF a, r
<1>8. CASE ~(q < n)
  <2> DEFINE b == a - L
             p == q - n
  <2>1. b \in 0 .. h - 1 /\ p \in 0 .. half - 1
    BY <1>1, <1>5, <1>6, <1>8
  <2>2. p = Width * b + r /\ p + Width = Width * (b + 1) + r
    <3>1. n = Width * L /\ Width * a = Width * L + Width * b /\ Width * (b + 1) = Width * b + Width
      BY <1>1, <1>5
    <3>2. Width * L \in Nat /\ Width * b \in Nat
      BY <1>1, <2>1
    <3> QED
      BY <1>1, <1>5, <3>1, <3>2
  <2> HIDE DEF b, p
  <2>3. /\ p \div Width = b /\ p % Width = r
        /\ (p + Width) \div Width = b + 1 /\ (p + Width) % Width = r
    <3>1. b \in Nat /\ b + 1 \in Nat
      BY <2>1
    <3> QED
      BY <1>1, <1>5, <2>2, <3>1, Division
  <2>4. p \in 0 .. L * Width - 1 /\ p + Width \in 0 .. L * Width - 1
    <3>1. b + 1 < L
      BY <1>1, <2>1
    <3>2. n = Width * (b + 1) + Width + Width * (L - 2 - b) /\ L - 2 - b \in Nat /\ Width * (L - 2 - b) \in Nat
      BY <1>1, <2>1, <3>1
    <3> QED
      BY <1>1, <1>5, <2>1, <2>2, <3>2
  <2>5. /\ bits[p + 1] = Bit(top[b + 1], Width - 1 - r)
        /\ bits[p + Width + 1] = Bit(top[b + 2], Width - 1 - r)
    <3>1. bits[p + 1] = Bit(top[p \div Width + 1], Width - 1 - (p % Width))
      BY <1>1, <1>2, <2>4, BitsAre
    <3>2. bits[p + Width + 1] = Bit(top[(p + Width) \div Width + 1], Width - 1 - ((p + Width) % Width))
      BY <1>1, <1>2, <2>4, BitsAre
    <3>3. b + 1 + 1 = b + 2
      BY <2>1
    <3> HIDE DEF bits
    <3> QED
      BY <2>3, <3>1, <3>2, <3>3
  <2>6. (bits \o rest)[q + 1] = (bits[p + 1] + bits[p + Width + 1]) % 2
    <3>1. q + 1 = Len(bits) + (p + 1) /\ p + 1 \in 1 .. half /\ p + 1 + Width = p + Width + 1
      BY <1>1, <1>2, <1>5, <2>1 DEF p
    <3>2. rest[p + 1] = (bits[p + 1] + bits[p + Width + 1]) % 2
      <4> HIDE DEF bits
      <4> QED
        BY <3>1
    <3>3. (bits \o rest)[q + 1] = rest[p + 1]
      <4> HIDE DEF bits, rest, half, n
      <4> QED
        BY <1>1, <1>2, <1>4, <2>1, <3>1
    <3> QED
      BY <3>2, <3>3
  <2>7. a + 1 - L = b + 1 /\ a + 1 - L + 1 = b + 2 /\ ~(a + 1 <= L) /\ b + 1 \in 1 .. L /\ b + 2 \in 1 .. L
    BY <1>1, <1>5, <1>6, <1>8, <2>1 DEF b
  <2>8. Stretched(top, a + 1) = XorB(top[b + 1], top[b + 2])
    <3> DEFINE k == a + 1
    <3>1. ~(k <= L) /\ k - L = b + 1 /\ k - L + 1 = b + 2
      BY <1>1, <1>5, <2>7
    <3> HIDE DEF k
    <3>2. Stretched(top, k) = XorB(top[b + 1], top[b + 2])
      BY <3>1, Zenon DEF Stretched
    <3> QED
      BY <3>2 DEF k
  <2>9. top[b + 1] \in Octet /\ top[b + 2] \in Octet
    BY <2>7 DEF Blocks
  <2>10. Width - 1 - r \in 0 .. Width - 1
    BY <1>1, <1>5
  <2>11. Bit(XorB(top[b + 1], top[b + 2]), Width - 1 - r)
         = (Bit(top[b + 1], Width - 1 - r) + Bit(top[b + 2], Width - 1 - r)) % 2
    BY <2>9, <2>10, XorBits
  <2>12. (bits \o rest)[q + 1] = Bit(Stretched(top, a + 1), Width - 1 - r)
    BY <2>5, <2>6, <2>8, <2>11, Zenon
  <2> QED
    BY <1>3, <2>12, Zenon DEF a, r
<1> QED
  BY <1>7, <1>8

\* The standard's block of the nonce, as the code lays it out.
NonceBlock(nonce) == [k \in 1 .. L - Len(nonce) |-> IF k = L - Len(nonce) THEN 1 ELSE 0] \o nonce

LEMMA NonceBlockIs ==
  ASSUME NEW nonce \in Seq(Octet), Len(nonce) < L
  PROVE  NonceBlock(nonce) = RawNonce(nonce)
<1> DEFINE one == L - Len(nonce)
           head == [k \in 1 .. one |-> IF k = one THEN 1 ELSE 0]
           block == head \o nonce
           raw == [k \in 1 .. L |-> IF k < one THEN 0 ELSE IF k = one THEN 1 ELSE nonce[k - one]]
<1>1. L \in Nat /\ Len(nonce) \in Nat /\ one \in 1 .. L /\ one + Len(nonce) = L
  BY Sizes, LenProperties
<1>2. head \in Seq(Octet) /\ Len(head) = one
  <2>1. head \in [1 .. one -> Octet]
    BY Sizes DEF Octet
  <2> HIDE DEF head, one
  <2> QED
    BY <1>1, <2>1, RowIsSeq
<1> HIDE DEF one
<1>3. block \in Seq(Octet) /\ Len(block) = L
  <2> HIDE DEF head
  <2> QED
    BY <1>1, <1>2
<1>4. ASSUME NEW k \in 1 .. L PROVE block[k] = raw[k]
  <2>1. CASE k <= one
    <3>1. block[k] = head[k]
      <4> HIDE DEF head
      <4> QED
        BY <1>1, <1>2, <2>1
    <3>2. k \in 1 .. one
      BY <1>1, <2>1
    <3> QED
      BY <1>1, <2>1, <3>1, <3>2
  <2>2. CASE ~(k <= one)
    <3>1. block[k] = nonce[k - one]
      <4> HIDE DEF head
      <4> QED
        BY <1>1, <1>2, <2>2
    <3> QED
      BY <1>1, <2>2, <3>1
  <2> QED
    BY <2>1, <2>2
<1>5. block = [k \in 1 .. L |-> block[k]]
  <2> HIDE DEF block
  <2> QED
    BY <1>1, <1>3, LenProperties
<1> HIDE DEF block, raw
<1>6. block = raw
  <2>1. raw = [k \in 1 .. L |-> raw[k]]
    BY DEF raw
  <2> QED
    BY <1>4, <1>5, <2>1
<1> QED
  BY <1>6, Zenon DEF block, raw, head, one, NonceBlock, RawNonce

LEMMA StandardKtop ==
  ASSUME NEW nonce \in Seq(Octet), Len(nonce) < L
  PROVE  KtopOf(nonce) = Enc([RawNonce(nonce) EXCEPT ![L] = @ - BottomOf(nonce)])
<1> DEFINE raw == RawNonce(nonce)
           bottom == BottomOf(nonce)
<1>1. raw \in Blocks /\ raw[L] \in Octet
  BY NonceParts, Sizes DEF Blocks
<1>2. PICK m \in 0 .. L * Width : Width * (L \div 2) = TwoTo(m)
  BY ModesAssumption, Zenon
<1>3. bottom = raw[L] % TwoTo(m) /\ m \in Nat
  <2>1. m \in Nat
    BY HalfIs
  <2> QED
    BY <1>2, <2>1, Zenon DEF BottomOf
<1> HIDE DEF raw, bottom
<1>4. XorB(raw[L], bottom) = raw[L] - bottom
  BY <1>1, <1>3, XorClears
<1>5. [raw EXCEPT ![L] = XorB(@, bottom)] = [raw EXCEPT ![L] = @ - bottom]
  BY <1>4
<1> QED
  BY <1>5, Zenon DEF raw, bottom, KtopOf

LEMMA FirstOffsetIs ==
  ASSUME NEW nonce \in Seq(Octet), Len(nonce) < L
  PROVE  FirstOffset(nonce)
         = [k \in 1 .. L * Width |-> StretchedBits(BitsOf(KtopOf(nonce)))[k + BottomOf(nonce)]]
<1> DEFINE n == L * Width
           block == [k \in 1 .. L - Len(nonce) |-> IF k = L - Len(nonce) THEN 1 ELSE 0] \o nonce
           half == n \div 2
           bottom == block[L] % half
           ktop == Enc([block EXCEPT ![L] = @ - bottom])
           bits == BitsOf(ktop)
           stretch == bits \o [k \in 1 .. half |-> (bits[k] + bits[k + Width]) % 2]
<1>1. FirstOffset(nonce) = [k \in 1 .. n |-> stretch[k + bottom]]
  BY Zenon DEF FirstOffset
<1>2. block = RawNonce(nonce)
  BY NonceBlockIs, Zenon DEF NonceBlock
<1> HIDE DEF block
<1>3. bottom = BottomOf(nonce)
  BY <1>2, HalfIs, Zenon DEF BottomOf
<1> HIDE DEF bottom
<1>4. ktop = KtopOf(nonce)
  BY <1>2, <1>3, StandardKtop, Zenon
<1> HIDE DEF ktop
<1>5. stretch = StretchedBits(bits)
  BY Zenon DEF StretchedBits
<1> HIDE DEF stretch
<1> QED
  BY <1>1, <1>3, <1>4, <1>5, Zenon

\* One bit of the offset.
LEMMA JoinedBit ==
  ASSUME NEW top \in Blocks, NEW b \in 0 .. Width * (L \div 2) - 1, NEW q \in 0 .. L * Width - 1
  PROVE  Bit(Joined(top, (q \div Width + 1) + b \div Width, b % Width), Width - 1 - (q % Width))
         = StretchedBits(BitsOf(top))[(q + b) + 1]
<1> DEFINE h == L \div 2
           a == q \div Width
           r == q % Width
           c == b \div Width
           s == b % Width
           e == Width - 1 - r
           k == (a + 1) + c
           half == Width * h
           n == L * Width
<1> SUFFICES Bit(Joined(top, k, s), e) = StretchedBits(BitsOf(top))[(q + b) + 1]
  BY Zenon
<1>1. /\ L \in Nat \ {0} /\ Width \in Nat \ {0} /\ h \in Nat \ {0} /\ n \in Nat \ {0} /\ half \in Nat \ {0}
      /\ (L + h) * Width = n + half
  <2>1. L \in Nat \ {0} /\ Width \in Nat \ {0} /\ h \in Nat \ {0}
    BY Sizes, HalfIs
  <2> HIDE DEF h
  <2>2. (L + h) * Width = L * Width + Width * h
    BY <2>1
  <2> QED
    BY <2>1, <2>2, HalfIs DEF h
<1>2. q \in Nat /\ a \in 0 .. L - 1 /\ r \in 0 .. Width - 1 /\ q = Width * a + r
  BY <1>1, BitPlaces
<1>3. b \in Nat /\ c \in 0 .. h - 1 /\ s \in 0 .. Width - 1 /\ b = Width * c + s
  <2>1. c \in 0 .. h - 1 /\ s \in 0 .. Width - 1
    BY <1>1, QuotientBelow
  <2>2. b \in Nat
    BY <1>1
  <2> QED
    BY <1>1, <2>1, <2>2
<1>4. q + b \in 0 .. (L + h) * Width - 1
  <2> HIDE DEF h, n, half
  <2>1. q <= n - 1 /\ b <= half - 1
    BY <1>1 DEF n, half, h
  <2> QED
    BY <1>1, <1>2, <1>3, <2>1
<1> HIDE DEF a, r, c, s, h
<1>5. /\ k \in 1 .. L + h /\ k + 1 \in 1 .. L + h
      /\ e \in 0 .. Width - 1
  BY <1>1, <1>2, <1>3
<1>6. Stretched(top, k) \in Octet /\ Stretched(top, k + 1) \in Octet
  <2> HIDE DEF k
  <2> QED
    BY <1>5, StretchedIsByte DEF h
<1>7. Bit(Joined(top, k, s), e)
      = IF e >= s THEN Bit(Stretched(top, k), e - s) ELSE Bit(Stretched(top, k + 1), Width - s + e)
  <2> HIDE DEF k, e
  <2> QED
    BY <1>3, <1>5, <1>6, ByteJoin DEF Joined
<1>8. StretchedBits(BitsOf(top))[(q + b) + 1]
      = Bit(Stretched(top, (q + b) \div Width + 1), Width - 1 - ((q + b) % Width))
  <2> DEFINE x == q + b
  <2>1. x \in 0 .. (L + L \div 2) * Width - 1
    BY <1>4 DEF h
  <2> HIDE DEF x
  <2>2. StretchedBits(BitsOf(top))[x + 1] = Bit(Stretched(top, x \div Width + 1), Width - 1 - (x % Width))
    BY <2>1, StretchedIs
  <2> QED
    BY <2>2 DEF x
<1>9. Width * (a + c) = Width * a + Width * c /\ Width * (a + c + 1) = Width * a + Width * c + Width
      /\ Width * a \in Nat /\ Width * c \in Nat /\ a + c \in Nat /\ a + c + 1 \in Nat
  BY <1>1, <1>2, <1>3
<1>10. CASE e >= s
  <2>1. q + b = Width * (a + c) + (r + s) /\ r + s \in 0 .. Width - 1
    BY <1>1, <1>2, <1>3, <1>9, <1>10
  <2>2. (q + b) \div Width = a + c /\ (q + b) % Width = r + s
    <3> DEFINE A == a + c
               R == r + s
    <3>1. A \in Nat /\ R \in 0 .. Width - 1 /\ q + b = Width * A + R
      BY <1>9, <2>1
    <3> HIDE DEF A, R
    <3>2. (q + b) \div Width = A /\ (q + b) % Width = R
      BY <1>1, <3>1, Division
    <3> QED
      BY <3>2 DEF A, R
  <2>3. a + c + 1 = k /\ Width - 1 - (r + s) = e - s
    BY <1>1, <1>2, <1>3
  <2> HIDE DEF e, k
  <2>4. (q + b) \div Width + 1 = k /\ Width - 1 - ((q + b) % Width) = e - s
    BY <2>2, <2>3
  <2> QED
    BY <1>7, <1>8, <1>10, <2>4, Zenon
<1>11. CASE ~(e >= s)
  <2>1. q + b = Width * (a + c + 1) + (r + s - Width) /\ r + s - Width \in 0 .. Width - 1
    BY <1>1, <1>2, <1>3, <1>9, <1>11
  <2>2. (q + b) \div Width = a + c + 1 /\ (q + b) % Width = r + s - Width
    <3> DEFINE A == a + c + 1
               R == r + s - Width
    <3>1. A \in Nat /\ R \in 0 .. Width - 1 /\ q + b = Width * A + R
      BY <1>9, <2>1
    <3> HIDE DEF A, R
    <3>2. (q + b) \div Width = A /\ (q + b) % Width = R
      BY <1>1, <3>1, Division
    <3> QED
      BY <3>2 DEF A, R
  <2>3. (a + c + 1) + 1 = k + 1 /\ Width - 1 - (r + s - Width) = Width - s + e
    BY <1>1, <1>2, <1>3
  <2> HIDE DEF e, k
  <2>4. (q + b) \div Width + 1 = k + 1 /\ Width - 1 - ((q + b) % Width) = Width - s + e
    BY <2>2, <2>3
  <2> QED
    BY <1>7, <1>8, <1>11, <2>4, Zenon
<1> QED
  BY <1>10, <1>11

LEMMA StandardOffset ==
  ASSUME NEW nonce \in Seq(Octet), Len(nonce) < L
  PROVE  BitsOf(StartOffset(nonce)) = FirstOffset(nonce)
<1> DEFINE start == StartOffset(nonce)
           ktop == KtopOf(nonce)
           b == BottomOf(nonce)
           n == L * Width
           bits == StretchedBits(BitsOf(ktop))
<1>1. ktop \in Blocks /\ b \in 0 .. Width * (L \div 2) - 1 /\ start \in Blocks
  BY NonceParts, StartIsBlock
<1>2. L \in Nat \ {0} /\ n \in Nat \ {0}
  BY Sizes, HalfIs
<1>3. start = [k \in 1 .. L |-> Joined(ktop, k + b \div Width, b % Width)]
  BY StartIs
<1>4. Len(start) = L
  BY <1>1, BitsIsSeq
<1>5. FirstOffset(nonce) = [k \in 1 .. n |-> bits[k + b]]
  BY FirstOffsetIs, Zenon
<1> HIDE DEF start, ktop, b, bits
<1>6. ASSUME NEW k \in 1 .. n PROVE BitsOf(start)[k] = bits[k + b]
  <2> DEFINE q == k - 1
  <2>1. q \in 0 .. L * Width - 1 /\ q + 1 = k /\ (q + b) + 1 = k + b
    BY <1>1, <1>2
  <2> HIDE DEF q
  <2>2. q \div Width \in 0 .. L - 1
    BY <1>2, <2>1, BitPlaces
  <2>3. q \div Width + 1 \in 1 .. L
    BY <1>2, <2>2
  <2>4. BitsOf(start)[q + 1] = Bit(start[q \div Width + 1], Width - 1 - (q % Width))
    BY <1>2, <1>4, <2>1, BitsAre
  <2>5. start[q \div Width + 1] = Joined(ktop, (q \div Width + 1) + b \div Width, b % Width)
    BY <1>3, <2>3
  <2>6. BitsOf(start)[q + 1] = bits[(q + b) + 1]
    BY <1>1, <2>1, <2>4, <2>5, JoinedBit DEF bits
  <2> QED
    BY <2>1, <2>6
<1>7. BitsOf(start) = [k \in 1 .. n |-> BitsOf(start)[k]]
  BY <1>2, <1>4, BitsAre
<1>8. BitsOf(start) = [k \in 1 .. n |-> bits[k + b]]
  BY <1>6, <1>7, Zenon
<1> QED
  BY <1>5, <1>8, Zenon DEF start

\* The offset every OCB call starts from, which SM4_OCB_Encrypt and _Decrypt cut out
\* of the stretched block by bytes and then by bits of a byte, has the bits the
\* standard takes out of the encrypted nonce.
THEOREM OffsetIsStandardCorrect == ModesSpec => OffsetIsStandard
<1>1. ASSUME ModesInv
      PROVE  [Receives("ocb") => BitsOf(StartOffset(sent.nonce)) = FirstOffset(sent.nonce)]_modesVars
  <2> SUFFICES ASSUME sent.mode = "ocb"
               PROVE  BitsOf(StartOffset(sent.nonce)) = FirstOffset(sent.nonce)
    BY DEF Receives
  <2>1. sent.nonce \in Seq(Octet) /\ Len(sent.nonce) < L
    BY <1>1 DEF ModesInv, OCBSent
  <2> QED
    BY <2>1, StandardOffset
<1> QED
  BY <1>1, ModesInvHolds, PTL DEF ModesSpec, OffsetIsStandard
=============================================================================
