----------------------------- MODULE SM3Stream -----------------------------
(* SM3.c around its compression function: a context buffers bytes, compresses  *)
(* every full block in place and, at the end, pads and appends the length.     *)
EXTENDS Naturals, Sequences

CONSTANTS BlockLen,     \* bytes of a block (64)
          Field,        \* bytes reserved for the length at its end (8)
          LenBytes,     \* of which this many hold it (4)
          WordBytes,    \* bytes of a word (4)
          ByteBits,     \* bits of a byte (8)
          ByteValues,   \* values of a byte (256)
          FirstValue,   \* the chaining value of an empty message
          Compress(_, _), \* of a chaining value and a block (CF)
          BytesOf(_),   \* the bytes of a chaining value
          Pieces,       \* what SM3_process is called with (a bound of the run)
          MaxLen        \* bytes of a message (a bound of the run)

Byte == 0 .. ByteValues - 1

\* The length has its place in a block, and blocks are made of whole words.
ASSUME LayoutAssumption ==
  /\ {BlockLen, Field, LenBytes, WordBytes, ByteBits} \subseteq Nat /\ ByteValues \in Nat \ {0}
  /\ LenBytes <= Field /\ Field < BlockLen /\ WordBytes > 0 /\ BlockLen % WordBytes = 0
ASSUME PiecesAssumption == \A buf \in Pieces : buf \in Seq(Byte)

VARIABLES md,           \* the context (SM3_STATE)
          absorbed,     \* what its caller has put in since SM3_init
          open, hash

streamVars == <<md, absorbed, open, hash>>

One == ByteValues \div 2           \* 0x80
\* ByteValues to the powers a length has bytes for.
Powers == LET p[k \in 0 .. LenBytes] == IF k = 0 THEN 1 ELSE ByteValues * p[k-1] IN p
LenSize == Powers[LenBytes]

\* Every word of the buffer is turned around in place.
BigEndian(b) == [i \in DOMAIN b |-> b[(i - (i % WordBytes)) + (WordBytes - 1 - (i % WordBytes))]]
Block(b) == [i \in 1 .. BlockLen |-> b[i - 1]]
SM3_compress(m) == [m EXCEPT !.state = Compress(@, Block(m.buf)), !.buf = BigEndian(m.buf)]

SM3_init(m) == [m EXCEPT !.state = FirstValue, !.length = 0, !.curlen = 0]

AppendByte(m, b) ==
  LET a == [m EXCEPT !.buf[m.curlen] = b, !.curlen = @ + 1]
  IN  IF a.curlen = BlockLen
      THEN [SM3_compress(a) EXCEPT !.length = (@ + ByteBits * BlockLen) % LenSize, !.curlen = 0]
      ELSE a
SM3_process(m, buf) ==
  LET p[n \in 0 .. Len(buf)] == IF n = 0 THEN m ELSE AppendByte(p[n-1], buf[n])
  IN  p[Len(buf)]

\* Zeros from curlen up to the given byte.
ZeroTo(m, n) == [m EXCEPT !.buf = [i \in DOMAIN @ |-> IF m.curlen <= i /\ i < n THEN 0 ELSE @[i]],
                          !.curlen = IF m.curlen < n THEN n ELSE @]

\* Mutant: a block the mark has filled up to the length field is closed as well.
SplitsEarly(m) == m.curlen >= BlockLen - Field
Splits(m) == m.curlen > BlockLen - Field

SM3_done(m) ==
  LET l == [m EXCEPT !.length = (@ + ByteBits * m.curlen) % LenSize]
      o == [l EXCEPT !.buf[l.curlen] = One, !.curlen = @ + 1]
      s == IF Splits(o) THEN [SM3_compress(ZeroTo(o, BlockLen)) EXCEPT !.curlen = 0] ELSE o
      z == ZeroTo(s, BlockLen - Field)
      f == [z EXCEPT !.buf = [i \in DOMAIN @ |->
              IF i < BlockLen - Field THEN @[i]
              ELSE IF i < BlockLen - LenBytes THEN 0
              ELSE (l.length \div Powers[BlockLen - 1 - i]) % ByteValues]]
  IN  SM3_compress(f)

StreamInit == /\ md \in [state : {FirstValue}, length : {0}, curlen : {0}, buf : [0 .. BlockLen - 1 -> {One}]]
              /\ absorbed = <<>> /\ open = FALSE /\ hash = <<>>

\* The next message of a caller; the buffer keeps what the last one left there.
Start == ~open /\ md' = SM3_init(md) /\ absorbed' = <<>> /\ open' = TRUE /\ hash' = <<>>
Process(buf) == /\ open /\ Len(absorbed) + Len(buf) <= MaxLen
                /\ md' = SM3_process(md, buf) /\ absorbed' = absorbed \o buf /\ UNCHANGED <<open, hash>>
Done == /\ open /\ md' = SM3_done(md) /\ hash' = BytesOf(md'.state) /\ open' = FALSE
        /\ UNCHANGED absorbed

StreamNext == Start \/ (\E buf \in Pieces : Process(buf)) \/ Done
StreamSpec == StreamInit /\ [][StreamNext]_streamVars

-----------------------------------------------------------------------------
(* Properties.                                                                *)

\* The padding of the standard: the mark, as few zeros as fill whole blocks
\* with the length in the last one.
Padded(msg) ==
  LET n == Len(msg)
      zeros == CHOOSE k \in 0 .. BlockLen - 1 : (n + 1 + k + Field) % BlockLen = 0
  IN  msg \o <<One>> \o [i \in 1 .. zeros + Field - LenBytes |-> 0]
          \o [i \in 1 .. LenBytes |-> ((ByteBits * n) \div Powers[LenBytes - i]) % ByteValues]
Digest(msg) ==
  LET p == Padded(msg)
      c[k \in 0 .. Len(p) \div BlockLen] ==
        IF k = 0 THEN FirstValue ELSE Compress(c[k-1], SubSeq(p, (k-1) * BlockLen + 1, k * BlockLen))
  IN  BytesOf(c[Len(p) \div BlockLen])

\* Cutting a message into calls, a reused buffer and padding that needs another
\* block change nothing: what SM3_done gives is the digest of the standard.
Hashing == INSTANCE SM3Digest
ImplementsDigest == Hashing!Spec
=============================================================================
