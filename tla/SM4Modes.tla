------------------------------ MODULE SM4Modes ------------------------------
(* The two modes of SM4_Enc.c over any block cipher, and a sender and a        *)
(* receiver that use them: what is sent may be changed on its way.  The state  *)
(* is what the two put into their calls; the modes run in the properties.     *)
EXTENDS Integers, Sequences

CONSTANTS L,            \* bytes of a block (16)
          Width,        \* bits of a byte (8)
          Poly,         \* what doubling folds an overflow to (135)
          XorB(_, _),    \* of bytes
          Enc(_), Dec(_), \* SM4_Encrypt and SM4_Decrypt under the key of both ends
          Texts, Data, IVs, \* what is sent with which data and nonce
          Rooms         \* lengths of buffers the callers give (bounds of the run)

VARIABLES sent,         \* the mode, message, data, nonce and buffer of the sender
          change,       \* what happens to the ciphertext or the tag on the way
          buffer        \* the receiver's buffer, -1 before it receives

modesVars == <<sent, change, buffer>>

TwoTo(n) == LET p[k \in 0 .. n] == IF k = 0 THEN 1 ELSE 2 * p[k-1] IN p[n]
ByteSize == TwoTo(Width)
Top      == TwoTo(Width - 1)
Octet    == 0 .. ByteSize - 1
Bit(x, n) == (x \div TwoTo(n)) % 2
Blocks   == [1 .. L -> Octet]

\* Half a block has 64 bits, a power of two: "% 64" takes the low bits of a byte.
ASSUME ModesAssumption ==
  /\ L \in Nat \ {0} /\ L % 2 = 0 /\ Width \in Nat \ {0} /\ Poly \in Octet
  /\ \E n \in 0 .. L * Width : Width * (L \div 2) = TwoTo(n)
  /\ \A s \in Texts \union Data \union IVs : s \in Seq(Octet)
  /\ Rooms \subseteq Nat
ASSUME ModesXorAssumption ==
  \A a, b \in Octet :
    /\ XorB(a, b) \in Octet
    /\ \A n \in 0 .. Width - 1 : Bit(XorB(a, b), n) = (Bit(a, n) + Bit(b, n)) % 2
ASSUME PermutationAssumption ==
  \A b \in Blocks : Enc(b) \in Blocks /\ Dec(b) \in Blocks /\ Dec(Enc(b)) = b /\ Enc(Dec(b)) = b

Zeros == [k \in 1 .. L |-> 0]
Xor16(a, b) == [k \in 1 .. L |-> XorB(a[k], b[k])]
Lesser(a, b) == IF a < b THEN a ELSE b
Filled(s, n) == [k \in 1 .. n |-> IF k <= Len(s) THEN s[k] ELSE 0]
\* Block j of a text, from 0, and the place of its byte k in a block.
PartOf(s, j) == [k \in 1 .. L |-> s[L * j + k]]
BlockOf(k) == (k - 1) \div L
PlaceOf(k) == ((k - 1) % L) + 1

-----------------------------------------------------------------------------
(* Cipher block chaining.                                                     *)
CBC_CipherText_Len(n) == ((n + L - 1) \div L) * L

\* Every block is encrypted over the one before; the last one is filled with zeros.
Chain(IV, padded, rounds) ==
  LET c[j \in 0 .. rounds] == IF j = 0 THEN IV ELSE Enc(Xor16(PartOf(padded, j - 1), c[j-1]))
  IN  c
SM4_CBC_Encrypt(IV, PlainText, room) ==
  LET len == CBC_CipherText_Len(Len(PlainText))
      c == Chain(IV, Filled(PlainText, len), len \div L)
  IN  IF room < len THEN <<>> ELSE [k \in 1 .. len |-> c[BlockOf(k) + 1][PlaceOf(k)]]

\* Mutant: the chain goes on from what was decrypted.
ChainOf(ciphertext, output) == output
ChainNext(ciphertext, output) == ciphertext

\* As many bytes as the caller's buffer takes.
SM4_CBC_Decrypt(IV, CipherText, room) ==
  LET o(j) == Dec(PartOf(CipherText, j))
      input(j) == IF j = 0 THEN IV ELSE ChainNext(PartOf(CipherText, j - 1), o(j - 1))
  IN  IF Len(CipherText) % L # 0 THEN <<>>
      ELSE [k \in 1 .. Lesser(room, Len(CipherText)) |->
              XorB(o(BlockOf(k))[PlaceOf(k)], input(BlockOf(k))[PlaceOf(k)])]

-----------------------------------------------------------------------------
(* Offset codebook.                                                           *)

\* The block shifted left by one bit, its overflow folded into the last byte.
double_arr(s) ==
  [k \in 1 .. L |->
     LET b == (s[k] % Top) * 2 + (IF k < L THEN s[k+1] \div Top ELSE 0)
     IN  IF k = L /\ s[1] \div Top # 0 THEN XorB(b, Poly) ELSE b]

ocb_ntz(a) == CHOOSE k \in 0 .. a : a % TwoTo(k) = 0 /\ (a \div TwoTo(k)) % 2 = 1
\* The macro's conditional takes the "+ 1" of its use into its second branch.
ntz_round_plus_1(a) == IF a = 0 THEN 0 ELSE CHOOSE k \in 1 .. a : TwoTo(k - 1) <= a /\ a < TwoTo(k)
l_length(message_length, data_length) ==
  IF message_length > data_length THEN ntz_round_plus_1(message_length \div L)
  ELSE ntz_round_plus_1(data_length \div L)

l_asterisk == Enc(Zeros)
l_dollar   == double_arr(l_asterisk)
\* The table: each row doubles the one before.
l(rows) == LET t[k \in 0 .. rows - 1] == double_arr(IF k = 0 THEN l_dollar ELSE t[k-1]) IN t
\* The offsets of the first m blocks; each one takes a row of the table.
Offsets(start, table, m) ==
  LET o[j \in 0 .. m] == IF j = 0 THEN start ELSE Xor16(o[j-1], table[ocb_ntz(j)]) IN o

\* Mutant: the bits of the nonce's last byte shift the offset by bytes only.
BytesOnly(bottom) == 0
BitShift(bottom) == bottom % Width
StartOffset(nonce) ==
  LET one == L - Len(nonce)
      raw == [k \in 1 .. L |-> IF k < one THEN 0 ELSE IF k = one THEN 1 ELSE nonce[k - one]]
      bottom == raw[L] % (Width * (L \div 2))
      ktop == Enc([raw EXCEPT ![L] = XorB(@, bottom)])
      stretch == [k \in 1 .. L + L \div 2 |->
                    IF k <= L THEN ktop[k] ELSE XorB(ktop[k-L], ktop[k-L+1])]
      shift == bottom \div Width
      bit_shift == BitShift(bottom)
  IN  [k \in 1 .. L |-> (stretch[k + shift] * TwoTo(bit_shift)
                         + stretch[k + shift + 1] \div TwoTo(Width - bit_shift)) % ByteSize]

\* The bytes after the last full block, marked at their end.
Whole(s) == Len(s) % L = 0
Marked(s) == LET full == L * (Len(s) \div L)
             IN  [k \in 1 .. L |-> IF full + k <= Len(s) THEN s[full + k]
                                   ELSE IF full + k = Len(s) + 1 THEN Top ELSE 0]

\* hash of the associated data.
HashOf(data, table) ==
  LET m == Len(data) \div L
      o == Offsets(Zeros, table, m)
      out[j \in 0 .. m] == IF j = 0 THEN Zeros
                           ELSE Xor16(out[j-1], Enc(Xor16(PartOf(data, j - 1), o[j])))
  IN  IF Whole(data) THEN out[m] ELSE Xor16(out[m], Enc(Xor16(Marked(data), Xor16(o[m], l_asterisk))))

\* The tag of a message whose offset has come to the given block.
Tag(text, offset, data, table) ==
  LET m == Len(text) \div L
      sum[j \in 0 .. m] == IF j = 0 THEN Zeros ELSE Xor16(sum[j-1], PartOf(text, j - 1))
      checksum == IF Whole(text) THEN sum[m] ELSE Xor16(sum[m], Marked(text))
  IN  Xor16(Enc(Xor16(Xor16(checksum, offset), l_dollar)), HashOf(data, table))

\* The offset after the full blocks, under which the rest goes, in o and last.
LastOffset(o, text) == LET m == Len(text) \div L
                       IN  IF Whole(text) THEN o[m] ELSE Xor16(o[m], l_asterisk)
\* A full block is ciphered between two uses of its offset.
Encryption == [b \in Blocks |-> Enc(b)]
Decryption == [b \in Blocks |-> Dec(b)]
Between(f, block, offset) == Xor16(f[Xor16(block, offset)], offset)
\* The full blocks and the rest, in both directions.
Crypt(f, o, text) ==
  LET full == L * (Len(text) \div L)
      pad == Enc(LastOffset(o, text))
  IN  [k \in 1 .. Len(text) |->
         IF k <= full THEN Between(f, PartOf(text, BlockOf(k)), o[BlockOf(k) + 1])[PlaceOf(k)]
         ELSE XorB(text[k], pad[k - full])]

TableFor(text, data) == l(l_length(Len(text), Len(data)))
OffsetsOf(nonce, text, data) == Offsets(StartOffset(nonce), TableFor(text, data), Len(text) \div L)

SM4_OCB_Encrypt(nonce, text, data) ==
  LET o == OffsetsOf(nonce, text, data)
  IN  [text |-> Crypt(Encryption, o, text),
       tag |-> Tag(text, LastOffset(o, text), data, TableFor(text, data))]
\* Mutant: only the last difference of the tags counts.
LastDiffers(a, b) == a[L] # b[L]
Differ(a, b) == a # b
\* The plaintext is written whatever the tag says; the answer is 0 for a good one.
SM4_OCB_Decrypt(nonce, encrypted, data) ==
  LET o == OffsetsOf(nonce, encrypted.text, data)
      out == Crypt(Decryption, o, encrypted.text)
      tag == Tag(out, LastOffset(o, out), data, TableFor(encrypted.text, data))
  IN  [out |-> out, ret |-> IF Differ(tag, encrypted.tag) THEN 1 ELSE 0]

-----------------------------------------------------------------------------
(* Sender, channel and receiver.                                              *)
None == [mode |-> "none", text |-> <<>>, data |-> <<>>, nonce |-> <<>>, room |-> 0]
NoChange == [of |-> "nothing", at |-> 0]

ModesInit == sent = None /\ change = NoChange /\ buffer = -1

\* A sender whose buffer is too small for its message gets nothing to send.
SendCBC(msg, iv, len) ==
  /\ sent = None /\ Len(iv) = L /\ CBC_CipherText_Len(Len(msg)) <= len
  /\ sent' = [mode |-> "cbc", text |-> msg, data |-> <<>>, nonce |-> iv, room |-> len]
  /\ UNCHANGED <<change, buffer>>
\* A message whose table of offsets would be empty is neither sent nor received.
SendOCB(msg, data, nonce) ==
  /\ sent = None /\ Len(nonce) < L /\ l_length(Len(msg), Len(data)) # 0
  /\ sent' = [mode |-> "ocb", text |-> msg, data |-> data, nonce |-> nonce, room |-> Len(msg)]
  /\ UNCHANGED <<change, buffer>>

\* One byte is changed, or the last bytes do not arrive.
WireLen == IF sent.mode = "cbc" THEN CBC_CipherText_Len(Len(sent.text)) ELSE Len(sent.text)
Change == /\ sent # None /\ change = NoChange /\ buffer = -1
          /\ \E at \in 1 .. WireLen, of \in {"text", "tag", "end"} :
               /\ of = "tag" => sent.mode = "ocb" /\ at <= L
               /\ of = "end" /\ sent.mode = "ocb" => l_length(at - 1, Len(sent.data)) # 0
               /\ change' = [of |-> of, at |-> at]
          /\ UNCHANGED <<sent, buffer>>

ReceiveCBC(len) == sent.mode = "cbc" /\ buffer = -1 /\ buffer' = len /\ UNCHANGED <<sent, change>>
ReceiveOCB == sent.mode = "ocb" /\ buffer = -1 /\ buffer' = sent.room /\ UNCHANGED <<sent, change>>

ModesNext == \/ \E m \in Texts, iv \in IVs, len \in Rooms : SendCBC(m, iv, len)
             \/ \E m \in Texts, a \in Data, n \in IVs : SendOCB(m, a, n)
             \/ Change \/ ReceiveOCB \/ \E len \in Rooms : ReceiveCBC(len)
ModesSpec == ModesInit /\ [][ModesNext]_modesVars

-----------------------------------------------------------------------------
(* Properties.                                                                *)
Receives(mode) == sent.mode = mode /\ buffer = -1 /\ buffer' # -1

\* What arrives of a ciphertext and its tag.
Differently(s, n) == [s EXCEPT ![n] = (@ + 1) % ByteSize]
Arrived(wire) ==
  CASE change.of = "text" -> [wire EXCEPT !.text = Differently(@, change.at)]
    [] change.of = "tag"  -> [wire EXCEPT !.tag = Differently(@, change.at)]
    [] change.of = "end"  -> [wire EXCEPT !.text = SubSeq(@, 1, change.at - 1)]
    [] OTHER -> wire

\* What was sent in CBC mode comes back, padded with zeros to the block and cut to
\* the receiver's buffer; a changed byte spoils its block and the one byte of the
\* next block it is folded into, a lost end what was lost.
ComesBack(wire, whole, got, room) ==
  LET at == change.at
      came == Len(Arrived(wire).text)
      spoiled == IF change.of # "text" THEN {}
                 ELSE {k \in DOMAIN whole : BlockOf(k) = BlockOf(at)} \union {at + L}
  IN  /\ Len(got) = IF came % L = 0 THEN Lesser(room, came) ELSE 0
      /\ \A k \in DOMAIN got \ spoiled : got[k] = whole[k]
      /\ at + L \in DOMAIN got /\ at + L \in spoiled => got[at + L] # whole[at + L]
CBCExchange ==
  Receives("cbc") =>
    \A wire \in {[text |-> SM4_CBC_Encrypt(sent.nonce, sent.text, sent.room), tag |-> <<>>]},
       whole \in {Filled(sent.text, WireLen)} :
      \A got \in {SM4_CBC_Decrypt(sent.nonce, Arrived(wire).text, buffer')} :
        ComesBack(wire, whole, got, buffer')
CBCReturns == [][CBCExchange]_modesVars

\* What was sent in OCB mode and not changed comes back and is accepted; and a
\* receiver accepts exactly what a sender with the same nonce and data would
\* have sent: the message it was given has the tag that arrived.
OCBExchange ==
  Receives("ocb") =>
    \A wire \in {SM4_OCB_Encrypt(sent.nonce, sent.text, sent.data)} :
      \A came \in {Arrived(wire)} :
        \A got \in {SM4_OCB_Decrypt(sent.nonce, came, sent.data)} :
          /\ change = NoChange => got.out = sent.text /\ got.ret = 0
          /\ got.ret = 0 <=> SM4_OCB_Encrypt(sent.nonce, got.out, sent.data) = came
AcceptsOnlyTheTag == [][OCBExchange]_modesVars

\* The standard's offset, on the bits of the blocks: offset i is the last one
\* plus the block of zeros encrypted and doubled twice and once per trailing
\* zero of i; the first is taken out of the stretched encrypted nonce.
BitsOf(s) ==
  [k \in 1 .. Len(s) * Width |->
     Bit(s[(k - 1) \div Width + 1], Width - 1 - ((k - 1) % Width))]
FirstOffset(nonce) ==
  LET n == L * Width
      block == [k \in 1 .. L - Len(nonce) |-> IF k = L - Len(nonce) THEN 1 ELSE 0] \o nonce
      half == n \div 2
      bottom == block[L] % half
      bits == BitsOf(Enc([block EXCEPT ![L] = @ - bottom]))
      stretch == bits \o [k \in 1 .. half |-> (bits[k] + bits[k + Width]) % 2]
  IN  [k \in 1 .. n |-> stretch[k + bottom]]

\* The offset every OCB call starts from is the one of the standard.
OffsetIsStandard ==
  [][Receives("ocb") => BitsOf(StartOffset(sent.nonce)) = FirstOffset(sent.nonce)]_modesVars
=============================================================================
