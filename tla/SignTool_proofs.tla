-------------------------- MODULE SignTool_proofs --------------------------
(***************************************************************************)
(* The signer, for files of any size and contents, and any addresses and   *)
(* keys: certificates it leaves in the output file verify, and a run       *)
(* certifies the files it opened where nobody writes to them meanwhile.    *)
(***************************************************************************)
EXTENDS SignTool, TLAPS

Measured == {"key", "sign", "verify", "write", "close", "done"}

\* No output is touched before the verification, so what is in the struct while
\* it is written verifies.
CheckedInv ==
    /\ OutputVerifies
    /\ pc \in {"write", "close"} => Verifies(cert)

-----------------------------------------------------------------------------

LEMMA CheckedStep == CheckedInv /\ [Next]_vars => CheckedInv'
<1> SUFFICES ASSUME CheckedInv, [Next]_vars PROVE CheckedInv'
  OBVIOUS
<1> USE DEF CheckedInv, OutputVerifies, Whole, Verifies
<1>1. CASE Verify
  BY <1>1 DEF Verify, Verdict
<1>2. CASE OpenOutput
  <2>1. CASE css' = NoCert
    BY <1>2, <2>1 DEF OpenOutput, NoCert, Part
  <2>2. CASE css' = css
    BY <1>2, <2>2 DEF OpenOutput
  <2> QED
    BY <1>2, <2>1, <2>2 DEF OpenOutput
<1>3. CASE CloseOutput
  <2>1. PICK w \in Taken : css' = [p \in Part |-> IF p \in w THEN cert[p] ELSE Nothing]
    BY <1>3 DEF CloseOutput
  <2>2. Whole' => \A p \in Part : css'[p] = cert[p]
    BY <2>1 DEF Whole
  <2>3. UNCHANGED cert /\ Verifies(cert) /\ pc' = "done"
    BY <1>3 DEF CloseOutput
  <2> QED
    BY <2>2, <2>3 DEF Part
<1>4. ASSUME UNCHANGED css, pc' \notin {"write", "close"} PROVE CheckedInv'
  BY <1>4
<1>5. CASE UNCHANGED <<css, pc, cert>>
  BY <1>5
<1>6. CASE LoadImage \/ LoadDtb
  BY <1>4, <1>6 DEF LoadImage, LoadDtb, Map, AfterBadFile
<1>7. CASE HashImageAddress \/ HashDtbAddress \/ HashImage
  BY <1>4, <1>7 DEF HashImageAddress, HashDtbAddress, HashImage, Feed
<1>8. CASE HashDtb
  BY <1>4, <1>8 DEF HashDtb
<1> QED
  BY <1>1, <1>2, <1>3, <1>4, <1>5, <1>6, <1>7, <1>8
  DEF Next, Replace, Overwrite, Begin, ParseKey, Sign, Finish, Dies, vars

\* Whatever fails on the way, a complete certificate in the file verifies.
THEOREM OutputVerifiesCorrect == Spec => []OutputVerifies
<1>1. Init => CheckedInv
  BY DEF Init, CheckedInv, OutputVerifies, Whole, NoCert, Part
<1>2. CheckedInv => OutputVerifies
  BY DEF CheckedInv
<1> QED
  BY <1>1, <1>2, CheckedStep, PTL DEF Spec

-----------------------------------------------------------------------------
(* The measurement *)

N == Len(memory["image"])
M == Len(memory["dtb"])

\* h is the beginning of a measurement: the address, the words of the image, the
\* address, the words of the device tree, where nobody wrote to the file.
Beginning(h) ==
    /\ 1 <= Len(h) => h[1] = layout["image"]
    /\ calm["image"] => \A i \in 1 .. N : i + 1 <= Len(h) => h[i + 1] = memory["image"][i]
    /\ N + 2 <= Len(h) => h[N + 2] = layout["dtb"]
    /\ calm["dtb"] => \A i \in 1 .. M : i + N + 2 <= Len(h) => h[i + N + 2] = memory["dtb"][i]

\* How far the hash has come.
Position ==
    /\ pc \in {"image", "dtb", "image address"} => fed = <<>>
    /\ pc \in {"hash image", "dtb address", "hash dtb"} => Beginning(fed)
    /\ pc \in {"image address", "hash image", "dtb address", "hash dtb"} => N >= 1 /\ M >= 1
    /\ pc = "dtb" => N >= 1
    /\ pc = "hash image" => Len(fed) \in 1 .. N
    /\ pc = "dtb address" => Len(fed) = N + 1
    /\ pc = "hash dtb" => Len(fed) \in N + 2 .. N + M + 1

MemoryType ==
    /\ memory \in [File -> Seq(Word \cup {Nothing})]
    /\ calm \in [File -> BOOLEAN] /\ \A f \in File : calm[f] => memory[f] \in Seq(Word)
    /\ disk = [f \in File |-> disk[f]] /\ \A f \in File : disk[f] \in Content(f) \cup {Nothing}
    /\ layout \in [File -> Address] /\ fed \in Seq(Word)
    /\ cert = [p \in Part |-> cert[p]]

MeasureInv ==
    /\ MemoryType /\ Position
    /\ pc \in Measured /\ loaded => Len(cert["hash"]) = N + M + 2 /\ Beginning(cert["hash"])
    /\ pc \in {"image", "dtb", "image address", "hash image", "dtb address", "hash dtb"} => ~loaded
    /\ loaded => Measurement(cert["hash"]) /\ cert["hash"] \in Seq(Word)

LEMMA RowIs == ASSUME NEW S, NEW n \in Nat, NEW m \in [1 .. n -> S] PROVE m \in Seq(S) /\ Len(m) = n
OBVIOUS

LEMMA SeqIs ==
  ASSUME NEW S, NEW s \in Seq(S)
  PROVE  Len(s) \in Nat /\ DOMAIN s = 1 .. Len(s) /\ \A i \in 1 .. Len(s) : s[i] \in S
OBVIOUS

\* The files that are mapped have lengths.
LEMMA Lengths == ASSUME MemoryType PROVE N \in Nat /\ M \in Nat /\ Len(fed) \in Nat
<1>1. memory["image"] \in Seq(Word \cup {Nothing}) /\ memory["dtb"] \in Seq(Word \cup {Nothing})
  BY DEF MemoryType, File
<1>2. fed \in Seq(Word)
  BY DEF MemoryType
<1> QED
  BY <1>1, <1>2, SeqIs DEF N, M

LEMMA AddressIs ==
  ASSUME MemoryType PROVE layout["image"] \in Word /\ layout["dtb"] \in Word
<1>1. layout["image"] \in Address /\ layout["dtb"] \in Address
  BY DEF MemoryType, File
<1> QED
  BY <1>1, SignToolAssumption

LEMMA ContentIs ==
  ASSUME NEW f \in File, NEW v \in Content(f)
  PROVE  v \in Seq(Word) /\ Len(v) >= 1 /\ DOMAIN v = 1 .. Len(v) /\ v # Nothing
<1>1. PICK n \in Nat : n >= 1 /\ v \in [1 .. n -> Word]
  BY SignToolAssumption DEF Content
<1>2. v \in Seq(Word) /\ Len(v) = n /\ DOMAIN v = 1 .. n
  BY <1>1, RowIs
<1>3. v # Nothing
  BY <1>2, SignToolAssumption
<1> QED
  BY <1>1, <1>2, <1>3

\* One word more.
LEMMA NothingYet == Len(<<>>) = 0
OBVIOUS

LEMMA Appended ==
  ASSUME NEW s \in Seq(Word), NEW w \in Word
  PROVE  /\ Append(s, w) \in Seq(Word) /\ Len(Append(s, w)) = Len(s) + 1
         /\ \A i \in 1 .. Len(s) : Append(s, w)[i] = s[i]
         /\ Append(s, w)[Len(s) + 1] = w
OBVIOUS

\* What is fed is a word, and of a file nobody wrote to the next word of it.
LEMMA SeenIs ==
  ASSUME MemoryType, NEW f \in File, NEW i \in 1 .. Len(memory[f])
  PROVE  Seen(f, i) \in Word /\ (calm[f] => Seen(f, i) = memory[f][i])
<1>1. memory[f][i] \in Word \cup {Nothing}
  <2>1. memory[f] \in Seq(Word \cup {Nothing})
    BY DEF MemoryType
  <2> QED
    BY <2>1, SeqIs
<1>2. calm[f] => memory[f][i] \in Word
  <2>1. calm[f] => memory[f] \in Seq(Word)
    BY DEF MemoryType
  <2> QED
    BY <2>1, SeqIs
<1>3. Zero \in Word /\ Nothing \notin Word
  BY SignToolAssumption
<1> QED
  BY <1>1, <1>2, <1>3 DEF Seen

\* A beginning goes on with the word that is due.
LEMMA GoesOn ==
  ASSUME MemoryType, NEW s \in Seq(Word), NEW w \in Word, Beginning(s), N \in Nat, M \in Nat,
         Len(s) = 0 => w = layout["image"],
         calm["image"] /\ Len(s) \in 1 .. N => w = memory["image"][Len(s)],
         Len(s) = N + 1 => w = layout["dtb"],
         calm["dtb"] /\ Len(s) \in N + 2 .. N + M + 1 => w = memory["dtb"][Len(s) - N - 1]
  PROVE  Beginning(Append(s, w))
<1> DEFINE a == Append(s, w)
           l == Len(s)
<1>1. l \in Nat /\ Len(a) = l + 1 /\ a[l + 1] = w /\ \A i \in 1 .. l : a[i] = s[i]
  BY Appended
<1> HIDE DEF a, l
<1>2. 1 <= Len(a) => a[1] = layout["image"]
  BY <1>1 DEF Beginning, l
<1>3. ASSUME calm["image"], NEW i \in 1 .. N, i + 1 <= Len(a) PROVE a[i + 1] = memory["image"][i]
  <2>1. CASE i + 1 <= l
    BY <1>1, <1>3, <2>1 DEF Beginning, l
  <2>2. CASE i = l
    BY <1>1, <1>3, <2>2 DEF l
  <2> QED
    BY <1>1, <1>3, <2>1, <2>2
<1>4. N + 2 <= Len(a) => a[N + 2] = layout["dtb"]
  <2>1. CASE N + 2 <= l
    BY <1>1, <2>1 DEF Beginning, l
  <2>2. CASE N + 1 = l
    BY <1>1, <2>2 DEF l
  <2> QED
    BY <1>1, <2>1, <2>2
<1>5. ASSUME calm["dtb"], NEW i \in 1 .. M, i + N + 2 <= Len(a) PROVE a[i + N + 2] = memory["dtb"][i]
  <2>1. CASE i + N + 2 <= l
    BY <1>1, <1>5, <2>1 DEF Beginning, l
  <2>2. CASE i + N + 1 = l
    <3>1. l \in N + 2 .. N + M + 1 /\ l - N - 1 = i
      BY <1>1, <2>2
    <3> QED
      BY <1>1, <1>5, <2>2, <3>1 DEF l
  <2> QED
    BY <1>1, <1>5, <2>1, <2>2
<1> QED
  BY <1>2, <1>3, <1>4, <1>5 DEF Beginning, a

\* A step that leaves the mappings and the hash alone, and the certificate's hash.
LEMMA Apart ==
  ASSUME MeasureInv, UNCHANGED <<layout, memory, fed, loaded, calm>>,
         MemoryType', cert'["hash"] = cert["hash"],
         pc' = pc \/ pc' = "idle" \/ (pc \in Measured /\ pc' \in Measured)
  PROVE  MeasureInv'
<1>1. Position'
  BY DEF MeasureInv, Position, N, M, Beginning, Measured
<1>2. \A h : Beginning(h)' <=> Beginning(h)
  BY DEF Beginning, N, M
<1>3. N' = N /\ M' = M
  BY DEF N, M
<1>4. pc' \in Measured /\ loaded' => Len(cert'["hash"]) = N' + M' + 2 /\ Beginning(cert["hash"])
  BY <1>3 DEF MeasureInv, Measured
<1>5. Beginning(cert["hash"])' <=> (Beginning(cert["hash"]))
  BY DEF Beginning, N, M
<1> QED
  BY <1>1, <1>4, <1>5 DEF MeasureInv, Measured, Measurement

\* The process runs on past the measurement, or ends.
LEMMA MemoryStep == MemoryType /\ Position /\ [Next]_vars => MemoryType'
<1> SUFFICES ASSUME MemoryType, Position, [Next]_vars PROVE MemoryType'
  OBVIOUS
<1> USE DEF MemoryType
<1>1. ASSUME NEW f \in File, Replace(f) PROVE MemoryType'
  BY <1>1 DEF Replace
<1>2. ASSUME NEW f \in File, Overwrite(f) PROVE MemoryType'
  <2>1. PICK v \in Content(f) :
          /\ disk' = [disk EXCEPT ![f] = v]
          /\ IF linked[f] /\ pc \in Reading[f]
             THEN /\ memory' = [memory EXCEPT ![f] = [i \in DOMAIN memory[f] |->
                                                     IF i \in DOMAIN v THEN v[i] ELSE Nothing]]
                  /\ calm' = [calm EXCEPT ![f] = FALSE]
             ELSE UNCHANGED <<memory, calm>>
    BY <1>2 DEF Overwrite
  <2>2. UNCHANGED <<layout, fed, cert>>
    BY <1>2 DEF Overwrite
  <2>3. disk' = [g \in File |-> disk'[g]] /\ \A g \in File : disk'[g] \in Content(g) \cup {Nothing}
    BY <2>1
  <2>4. CASE linked[f] /\ pc \in Reading[f]
    <3> DEFINE m == [i \in DOMAIN memory[f] |-> IF i \in DOMAIN v THEN v[i] ELSE Nothing]
    <3>1. v \in Seq(Word) /\ DOMAIN v = 1 .. Len(v)
      BY ContentIs
    <3>2. \A i \in DOMAIN v : v[i] \in Word
      BY <3>1, SeqIs
    <3>3. Len(memory[f]) \in Nat /\ DOMAIN memory[f] = 1 .. Len(memory[f])
      BY SeqIs
    <3>4. m \in [1 .. Len(memory[f]) -> Word \cup {Nothing}]
      BY <3>2, <3>3
    <3> HIDE DEF m
    <3>5. m \in Seq(Word \cup {Nothing})
      BY <3>3, <3>4, RowIs
    <3>6. memory' = [memory EXCEPT ![f] = m] /\ calm' = [calm EXCEPT ![f] = FALSE]
      BY <2>1, <2>4 DEF m
    <3> QED
      BY <2>2, <2>3, <3>5, <3>6
  <2>5. CASE UNCHANGED <<memory, calm>>
    BY <2>2, <2>3, <2>5
  <2> QED
    BY <2>1, <2>4, <2>5
<1>3. CASE Begin
  BY <1>3 DEF Begin, JunkCert
<1>4. ASSUME NEW f \in File, NEW next, Map(f, next) PROVE MemoryType'
  <2>1. CASE disk[f] = Nothing
    BY <1>4, <2>1 DEF Map
  <2>2. CASE disk[f] # Nothing
    <3>1. disk[f] \in Seq(Word) /\ disk[f] \in Seq(Word \cup {Nothing})
      BY <2>2, ContentIs
    <3> QED
      BY <1>4, <2>2, <3>1 DEF Map
  <2> QED
    BY <2>1, <2>2
<1>5. ASSUME NEW w \in Word, fed' = Append(fed, w), UNCHANGED <<memory, calm, disk, layout>>,
             cert' = cert \/ cert' = [cert EXCEPT !["hash"] = fed']
      PROVE  MemoryType'
  BY <1>5 DEF Part
<1>6. CASE HashImageAddress \/ HashDtbAddress
  <2>1. layout["image"] \in Word /\ layout["dtb"] \in Word
    BY AddressIs
  <2> QED
    BY <1>5, <1>6, <2>1 DEF HashImageAddress, HashDtbAddress, Feed
<1>7. CASE HashImage
  <2>1. Seen("image", Len(fed)) \in Word
    BY <1>7, SeenIs DEF HashImage, Position, N, File
  <2> QED
    BY <1>5, <1>7, <2>1 DEF HashImage, Feed
<1>8. CASE HashDtb
  <2>1. Len(fed) - Len(memory["image"]) - 1 \in 1 .. Len(memory["dtb"])
    <3>1. Len(fed) \in N + 2 .. N + M + 1
      BY <1>8 DEF HashDtb, Position
    <3>2. N \in Nat /\ M \in Nat /\ Len(fed) \in Nat
      BY Lengths
    <3>3. Len(fed) - N - 1 \in 1 .. M
      BY <3>1, <3>2
    <3> QED
      BY <3>3 DEF N, M
  <2>2. Seen("dtb", Len(fed) - Len(memory["image"]) - 1) \in Word
    BY <2>1, SeenIs DEF File
  <2> QED
    BY <1>5, <1>8, <2>2 DEF HashDtb
<1>9. CASE ParseKey
  BY <1>9 DEF ParseKey
<1>10. CASE Sign
  BY <1>10 DEF Sign
<1>11. CASE Verify \/ OpenOutput \/ CloseOutput \/ Finish \/ Dies \/ UNCHANGED vars
  BY <1>11 DEF Verify, OpenOutput, CloseOutput, Finish, Dies, vars
<1> QED
  BY <1>1, <1>2, <1>3, <1>4, <1>6, <1>7, <1>8, <1>9, <1>10, <1>11 DEF Next, LoadImage, LoadDtb, File

LEMMA MeasureStep == MeasureInv /\ [Next]_vars => MeasureInv'
<1> SUFFICES ASSUME MeasureInv, [Next]_vars PROVE MeasureInv'
  OBVIOUS
<1>1. MemoryType' /\ MemoryType
  BY MemoryStep DEF MeasureInv
<1>2. N \in Nat /\ M \in Nat /\ Len(fed) \in Nat /\ fed \in Seq(Word)
  BY <1>1, Lengths DEF MemoryType
<1>3. ASSUME NEW f \in File, Replace(f) PROVE MeasureInv'
  BY <1>1, <1>3, Apart DEF Replace
<1>4. ASSUME NEW f \in File, Overwrite(f) PROVE MeasureInv'
  <2>1. CASE UNCHANGED <<memory, calm>>
    BY <1>1, <1>4, <2>1, Apart DEF Overwrite
  <2>2. ASSUME pc \in Reading[f], NEW v \in Content(f),
               memory' = [memory EXCEPT ![f] = [i \in DOMAIN memory[f] |->
                                                     IF i \in DOMAIN v THEN v[i] ELSE Nothing]],
               calm' = [calm EXCEPT ![f] = FALSE]
        PROVE  MeasureInv'
    <3>1. UNCHANGED <<pc, layout, fed, cert, loaded>>
      BY <1>4 DEF Overwrite
    <3>2. /\ DOMAIN memory[f] = 1 .. Len(memory[f]) /\ Len(memory[f]) \in Nat
          /\ memory'[f] = [i \in DOMAIN memory[f] |-> IF i \in DOMAIN v THEN v[i] ELSE Nothing]
          /\ \A g \in File : g # f => memory'[g] = memory[g]
      <4>1. memory \in [File -> Seq(Word \cup {Nothing})] /\ memory[f] \in Seq(Word \cup {Nothing})
        BY <1>1 DEF MemoryType
      <4> QED
        BY <2>2, <4>1, SeqIs
    <3>3. Len(memory'[f]) = Len(memory[f])
      BY <3>2
    <3>4. N' = N /\ M' = M
      BY <3>2, <3>3 DEF N, M, File
    <3>5. calm'[f] = FALSE /\ \A g \in File : g # f => calm'[g] = calm[g]
      BY <2>2 DEF MeasureInv, MemoryType
    <3>6. Beginning(fed) => Beginning(fed)'
      BY <3>1, <3>2, <3>4, <3>5 DEF Beginning, File
    <3>7. Position'
      BY <3>1, <3>4, <3>6 DEF MeasureInv, Position
    <3>8. pc \notin Measured
      <4>1. CASE f = "image"
        BY <2>2, <4>1 DEF Reading, Measured
      <4>2. CASE f = "dtb"
        BY <2>2, <4>2 DEF Reading, Measured
      <4> QED
        BY <4>1, <4>2 DEF File
    <3> QED
      BY <1>1, <3>1, <3>7, <3>8 DEF MeasureInv, Measurement
  <2> QED
    BY <1>4, <2>1, <2>2 DEF Overwrite
<1>5. CASE Begin
  BY <1>1, <1>5 DEF Begin, MeasureInv, Position, Measured
<1>6. ASSUME NEW f \in File, NEW next, Map(f, next), pc \in {"image", "dtb"},
             f = "image" => pc = "image" /\ next = "dtb",
             f = "dtb" => pc = "dtb" /\ next = "image address"
      PROVE  MeasureInv'
  <2>1. UNCHANGED <<layout, fed, cert, loaded, calm>> /\ ~loaded /\ fed = <<>>
    BY <1>6 DEF Map, MeasureInv, Position
  <2>2. CASE disk[f] = Nothing
    <3>1. pc' = "key" /\ UNCHANGED <<layout, fed, cert, loaded, calm>>
      BY <1>6, <2>1, <2>2 DEF Map, AfterBadFile
    <3>2. Position'
      BY <3>1 DEF Position
    <3>3. ~loaded'
      BY <2>1, <3>1
    <3> QED
      BY <1>1, <3>1, <3>2, <3>3, Zenon DEF MeasureInv
  <2>3. CASE disk[f] # Nothing
    <3>1. pc' = next /\ memory' = [memory EXCEPT ![f] = disk[f]]
      BY <1>6, <2>3 DEF Map
    <3>2. Len(disk[f]) >= 1
      BY <2>3, ContentIs DEF MeasureInv, MemoryType
    <3>3. memory'[f] = disk[f] /\ \A g \in File : g # f => memory'[g] = memory[g]
      BY <3>1 DEF MeasureInv, MemoryType
    <3>4. CASE f = "image"
      BY <1>1, <1>6, <2>1, <3>1, <3>2, <3>3, <3>4 DEF MeasureInv, Position, Measured, N
    <3>5. CASE f = "dtb"
      <4>1. N' = N /\ M' >= 1 /\ N >= 1
        BY <1>6, <3>2, <3>3, <3>5 DEF N, M, File, MeasureInv, Position
      <4> QED
        BY <1>1, <1>6, <2>1, <3>1, <3>5, <4>1 DEF MeasureInv, Position, Measured
    <3> QED
      BY <3>4, <3>5 DEF File
  <2> QED
    BY <2>2, <2>3
<1>7. CASE HashImageAddress
  <2>1. /\ pc = "image address" /\ Len(fed) = 0 /\ N >= 1 /\ M >= 1
        /\ fed' = Append(fed, layout["image"]) /\ pc' = "hash image"
        /\ UNCHANGED <<layout, memory, calm, cert, loaded>>
    BY <1>7, NothingYet DEF HashImageAddress, Feed, MeasureInv, Position
  <2>2. layout["image"] \in Word
    BY <1>1, AddressIs
  <2>a. Len(fed) = 0 /\ N \in Nat /\ M \in Nat
    BY <1>2, <2>1, Zenon
  <2>3. Beginning(fed)
    <3>1. ~(1 <= Len(fed)) /\ ~(N + 2 <= Len(fed))
      BY <2>a
    <3>2. \A i \in 1 .. N : ~(i + 1 <= Len(fed))
      BY <2>a
    <3>3. \A i \in 1 .. M : ~(i + N + 2 <= Len(fed))
      BY <2>a
    <3> QED
      BY <3>1, <3>2, <3>3 DEF Beginning
  <2>4. Beginning(Append(fed, layout["image"])) /\ Len(fed') = 1
    <3>1. Len(fed) \notin 1 .. N /\ Len(fed) # N + 1 /\ Len(fed) \notin N + 2 .. N + M + 1
      BY <2>a
    <3>2. Beginning(Append(fed, layout["image"]))
      BY <1>1, <1>2, <2>1, <2>2, <2>3, <3>1, GoesOn
    <3>3. Len(fed') = Len(fed) + 1
      BY <1>2, <2>1, <2>2, Appended
    <3> QED
      BY <2>a, <3>2, <3>3
  <2>5. N' = N /\ M' = M /\ Beginning(fed')
    BY <2>1, <2>4 DEF N, M
  <2>6. Beginning(fed)'
    BY <2>1, <2>5 DEF Beginning, N, M
  <2>7. Position'
    <3>1. N >= 1 /\ N \in Nat /\ N' = N /\ M' = M /\ M >= 1 /\ Len(fed') = 1
      BY <1>2, <2>1, <2>4, <2>5, Zenon
    <3>2. N' >= 1 /\ M' >= 1 /\ Len(fed') \in 1 .. N'
      BY <3>1
    <3> QED
      BY <2>1, <2>6, <3>2 DEF Position
  <2> QED
    BY <1>1, <2>1, <2>7 DEF MeasureInv, Measured
<1>8. CASE HashImage
  <2> DEFINE i == Len(fed)
             w == Seen("image", i)
  <2>1. /\ pc = "hash image" /\ N >= 1 /\ M >= 1 /\ i \in 1 .. N /\ Beginning(fed)
        /\ fed' = Append(fed, w) /\ pc' = (IF i = N THEN "dtb address" ELSE "hash image")
        /\ UNCHANGED <<layout, memory, calm, cert, loaded>>
    BY <1>8 DEF HashImage, Feed, MeasureInv, Position, N
  <2>2. w \in Word /\ (calm["image"] => w = memory["image"][i])
    BY <2>1, SeenIs DEF MeasureInv, File, N
  <2> HIDE DEF w
  <2>3. Beginning(Append(fed, w)) /\ Len(fed') = i + 1
    <3>0. Len(fed) \in 1 .. N /\ N \in Nat /\ M \in Nat
      BY <1>2, <2>1, Zenon
    <3>1. Len(fed) # 0 /\ Len(fed) # N + 1 /\ Len(fed) \notin N + 2 .. N + M + 1
      BY <3>0
    <3> QED
      BY <1>1, <1>2, <2>1, <2>2, <3>1, GoesOn, Appended
  <2>4. N' = N /\ M' = M /\ Beginning(fed)'
    BY <2>1, <2>3 DEF N, M, Beginning
  <2>5. Len(fed') = i + 1 /\ (i = N \/ i + 1 \in 1 .. N)
    <3>1. Len(fed) \in 1 .. N /\ N \in Nat /\ Len(fed') = Len(fed) + 1
      BY <1>2, <2>1, <2>3, Zenon
    <3> QED
      BY <3>1
  <2> HIDE DEF i
  <2>6. Position'
    BY <2>1, <2>4, <2>5 DEF Position
  <2> QED
    BY <1>1, <2>1, <2>6 DEF MeasureInv, Measured
<1>9. CASE HashDtbAddress
  <2>1. /\ pc = "dtb address" /\ N >= 1 /\ M >= 1 /\ Len(fed) = N + 1 /\ Beginning(fed)
        /\ fed' = Append(fed, layout["dtb"]) /\ pc' = "hash dtb"
        /\ UNCHANGED <<layout, memory, calm, cert, loaded>>
    BY <1>9 DEF HashDtbAddress, Feed, MeasureInv, Position
  <2>2. layout["dtb"] \in Word
    BY <1>1, AddressIs
  <2>3. Beginning(Append(fed, layout["dtb"])) /\ Len(fed') = N + 2
    <3>0. Len(fed) = N + 1 /\ N \in Nat /\ M \in Nat
      BY <1>2, <2>1, Zenon
    <3>1. Len(fed) # 0 /\ Len(fed) \notin 1 .. N /\ Len(fed) \notin N + 2 .. N + M + 1
      BY <3>0
    <3>2. Beginning(Append(fed, layout["dtb"]))
      BY <1>1, <1>2, <2>1, <2>2, <3>1, GoesOn
    <3>3. Len(fed') = Len(fed) + 1
      BY <1>2, <2>1, <2>2, Appended
    <3> QED
      BY <3>0, <3>2, <3>3
  <2>4. N' = N /\ M' = M /\ Beginning(fed)'
    BY <2>1, <2>3 DEF N, M, Beginning
  <2>5. Len(fed') \in N' + 2 .. N' + M' + 1
    <3>1. Len(fed') = N + 2 /\ N' = N /\ M' = M /\ N \in Nat /\ M \in Nat /\ M >= 1
      BY <1>2, <2>1, <2>3, <2>4, Zenon
    <3> QED
      BY <3>1
  <2>6. Position'
    BY <2>1, <2>4, <2>5 DEF Position
  <2> QED
    BY <1>1, <2>1, <2>6 DEF MeasureInv, Measured
<1>10. CASE HashDtb
  <2> DEFINE i == Len(fed) - Len(memory["image"]) - 1
             w == Seen("dtb", i)
  <2>1. /\ pc = "hash dtb" /\ N >= 1 /\ M >= 1 /\ Len(fed) \in N + 2 .. N + M + 1 /\ Beginning(fed)
        /\ fed' = Append(fed, w) /\ UNCHANGED <<layout, memory, calm>>
    BY <1>10 DEF HashDtb, MeasureInv, Position
  <2>2. i \in 1 .. M /\ i = Len(fed) - N - 1
    <3>1. i = Len(fed) - N - 1
      BY DEF N
    <3>2. Len(fed) \in N + 2 .. N + M + 1 /\ N \in Nat /\ M \in Nat
      BY <1>2, <2>1, Zenon
    <3> HIDE DEF i
    <3> QED
      BY <3>1, <3>2
  <2>3. w \in Word /\ (calm["dtb"] => w = memory["dtb"][i])
    BY <1>1, <2>2, SeenIs DEF File, M
  <2> HIDE DEF w, i
  <2>4. Beginning(Append(fed, w)) /\ Len(fed') = Len(fed) + 1
    <3>0. Len(fed) \in N + 2 .. N + M + 1 /\ N \in Nat /\ M \in Nat
      BY <1>2, <2>1, Zenon
    <3>1. Len(fed) # 0 /\ Len(fed) \notin 1 .. N /\ Len(fed) # N + 1
      BY <3>0
    <3>2. Len(fed) - N - 1 = i
      BY <2>2
    <3> QED
      BY <1>1, <1>2, <2>1, <2>3, <3>1, <3>2, GoesOn, Appended
  <2>5. N' = N /\ M' = M /\ Beginning(fed)' /\ Len(fed') = i + N + 2
    <3>1. N' = N /\ M' = M
      BY <2>1 DEF N, M
    <3>2. Beginning(fed)'
      BY <2>1, <2>4, <3>1 DEF Beginning
    <3>3. Len(fed') = i + N + 2
      <4>1. Len(fed') = Len(fed) + 1 /\ i = Len(fed) - N - 1 /\ Len(fed) \in Nat /\ N \in Nat
        BY <1>2, <2>2, <2>4, Zenon
      <4> QED
        BY <4>1
    <3> QED
      BY <3>1, <3>2, <3>3
  <2>6. CASE i = M
    <3>1. pc' = "key" /\ loaded' = TRUE /\ cert' = [cert EXCEPT !["hash"] = fed']
      BY <1>10, <2>6 DEF HashDtb, M, i
    <3>2. cert'["hash"] = fed'
      BY <3>1 DEF MeasureInv, MemoryType, Part
    <3>3. fed' \in Seq(Word)
      BY <1>1 DEF MemoryType
    <3>4. Len(cert'["hash"]) = N' + M' + 2
      <4>1. Len(cert'["hash"]) = M + N + 2 /\ N' = N /\ M' = M /\ N \in Nat /\ M \in Nat
        BY <1>2, <2>5, <2>6, <3>2, Zenon
      <4> QED
        BY <4>1
    <3>5. Beginning(cert["hash"])'
      BY <2>5, <3>2 DEF Beginning
    <3> QED
      BY <1>1, <3>1, <3>2, <3>3, <3>4, <3>5 DEF MeasureInv, Position, Measurement
  <2>7. CASE i # M
    <3>1. UNCHANGED <<pc, loaded, cert>>
      BY <1>10, <2>7 DEF HashDtb, M, i
    <3>2. Len(fed') \in N' + 2 .. N' + M' + 1
      <4>1. Len(fed') = i + N + 2 /\ N' = N /\ M' = M /\ N \in Nat /\ M \in Nat /\ i \in 1 .. M /\ i # M
        BY <1>2, <2>2, <2>5, <2>7, Zenon
      <4> QED
        BY <4>1
    <3> QED
      BY <1>1, <2>1, <2>5, <3>1, <3>2 DEF MeasureInv, Position, Measured
  <2> QED
    BY <2>6, <2>7
<1>11. CASE ParseKey
  <2>1. PICK p : cert' = [cert EXCEPT !["key"] = p]
    BY <1>11 DEF ParseKey
  <2>2. cert'["hash"] = cert["hash"]
    BY <2>1 DEF MeasureInv, MemoryType, Part
  <2> QED
    BY <1>1, <1>11, <2>2, Apart DEF ParseKey, Measured
<1>12. CASE Sign
  <2>1. PICK s : cert' = [cert EXCEPT !["signature"] = s]
    BY <1>12 DEF Sign
  <2>2. cert'["hash"] = cert["hash"]
    BY <2>1 DEF MeasureInv, MemoryType, Part
  <2> QED
    BY <1>1, <1>12, <2>2, Apart DEF Sign, Measured
<1>13. CASE Verify \/ OpenOutput \/ CloseOutput \/ Finish \/ Dies \/ UNCHANGED vars
  <2>1. UNCHANGED <<layout, memory, fed, loaded, calm, cert>>
    BY <1>13 DEF Verify, OpenOutput, CloseOutput, Finish, Dies, vars
  <2>2. pc' = pc \/ pc' = "idle" \/ (pc \in Measured /\ pc' \in Measured)
    BY <1>13 DEF Verify, OpenOutput, CloseOutput, Finish, Dies, vars, Measured
  <2> QED
    BY <1>1, <2>1, <2>2, Apart
<1> QED
  BY <1>3, <1>4, <1>5, <1>6, <1>7, <1>8, <1>9, <1>10, <1>11, <1>12, <1>13 DEF Next, LoadImage, LoadDtb, File

LEMMA InitMeasured == Init => MeasureInv
<1> SUFFICES ASSUME Init PROVE MeasureInv
  OBVIOUS
<1>1. MemoryType
  BY DEF Init, MemoryType, JunkCert, File
<1> QED
  BY <1>1 DEF Init, MeasureInv, Position, Measured

\* attest.c:8, sign_tool.c:29: for files of every size, a certificate that got to
\* the disk is of both addresses and, of each file nobody wrote to before it was
\* measured, of the contents it was opened with.
THEOREM CertifiesWhatWasOpenedCorrect == Spec => []CertifiesWhatWasOpened
<1>1. Init => MeasureInv
  BY InitMeasured
<1>2. MeasureInv => CertifiesWhatWasOpened
  <2> SUFFICES ASSUME MeasureInv, pc = "done", loaded, css = cert PROVE CertifiesWhatWasOpened
    BY DEF CertifiesWhatWasOpened
  <2>1. Len(cert["hash"]) = N + M + 2 /\ Beginning(cert["hash"]) /\ N \in Nat /\ M \in Nat
    BY DEF MeasureInv, Measured, MemoryType, N, M, File
  <2>2. \A i \in 1 .. N : i + 1 <= N + M + 2
    BY <2>1
  <2>3. \A i \in 1 .. M : i + N + 2 <= N + M + 2
    BY <2>1
  <2>4. css["hash"] = cert["hash"] /\ 1 <= N + M + 2 /\ N + 2 <= N + M + 2
    BY <2>1
  <2> QED
    BY <2>1, <2>2, <2>3, <2>4 DEF CertifiesWhatWasOpened, Beginning, N, M
<1> QED
  BY <1>1, <1>2, MeasureStep, PTL DEF Spec

-----------------------------------------------------------------------------
(* Types *)

\* What TypeOK adds to MemoryType.
Records ==
    /\ \A p \in Part : css[p] = Nothing \/ Typed(p, css[p])
    /\ pc \in {"idle", "image", "dtb", "image address", "hash image", "dtb address", "hash dtb",
               "key", "sign", "verify", "write", "close", "done"}
    /\ linked \in [File -> BOOLEAN]
    /\ private \in Key \cup {Junk} /\ (pc = "sign" => private \in Key)
    /\ \A p \in Part : Typed(p, cert[p])
    /\ loaded \in BOOLEAN

LEMMA TypedIs ==
  ASSUME NEW v
  PROVE  /\ Typed("hash", v) <=> Measurement(v)
         /\ Typed("signature", v) <=> v = Junk \/ (Measurement(v.of) /\ v.by \in Key)
         /\ Typed("key", v) <=> v \in Key \cup {Junk}
BY DEF Typed

LEMMA RecordsStep == MeasureInv /\ Records /\ [Next]_vars => Records'
<1> SUFFICES ASSUME MeasureInv, Records, [Next]_vars PROVE Records'
  OBVIOUS
<1>1. MemoryType /\ MemoryType'
  BY MemoryStep DEF MeasureInv
<1>2. cert = [p \in Part |-> cert[p]]
  BY <1>1 DEF MemoryType
<1>3. ASSUME UNCHANGED <<css, private, cert>>, linked' \in [File -> BOOLEAN], loaded' \in BOOLEAN,
             pc' \in {"idle", "image", "dtb", "image address", "hash image", "dtb address", "hash dtb",
                      "key", "verify", "write", "close", "done"}
      PROVE  Records'
  BY <1>3 DEF Records, Typed, Measurement
<1>4. ASSUME UNCHANGED <<css, linked, loaded>>, private' \in Key, pc' \in {"sign", "verify"},
             \A p \in Part : Typed(p, cert'[p])
      PROVE  Records'
  BY <1>4 DEF Records, Typed, Measurement
<1>5. CASE \E f \in File : Replace(f) \/ Overwrite(f)
  <2>1. UNCHANGED <<css, pc, private, cert, loaded>> /\ linked' \in [File -> BOOLEAN]
    BY <1>5 DEF Replace, Overwrite, Records
  <2> QED
    BY <2>1 DEF Records, Typed, Measurement
<1>6. CASE Begin
  <2>1. \A p \in Part : Typed(p, JunkCert[p])
    BY TypedIs DEF JunkCert, Part, Measurement
  <2> QED
    BY <1>6, <2>1 DEF Begin, Records, Typed, Measurement
<1>7. CASE LoadImage \/ LoadDtb
  BY <1>3, <1>7 DEF LoadImage, LoadDtb, Map, AfterBadFile, Records
<1>8. CASE HashImageAddress \/ HashDtbAddress \/ HashImage
  BY <1>3, <1>8 DEF HashImageAddress, HashDtbAddress, HashImage, Feed, Records
<1>9. CASE HashDtb
  <2>1. CASE UNCHANGED <<pc, loaded, cert>>
    BY <1>3, <1>9, <2>1 DEF HashDtb, Records
  <2>2. CASE pc' = "key" /\ loaded' = TRUE /\ cert' = [cert EXCEPT !["hash"] = fed']
    <3>1. Measurement(fed')
      BY <1>1 DEF MemoryType, Measurement
    <3>2. \A p \in Part : cert'[p] = IF p = "hash" THEN fed' ELSE cert[p]
      BY <1>2, <2>2 DEF Part
    <3>3. \A p \in Part : Typed(p, cert'[p])
      BY <3>1, <3>2, TypedIs DEF Records
    <3>4. UNCHANGED <<css, linked, private>>
      BY <1>9 DEF HashDtb
    <3> QED
      BY <2>2, <3>3, <3>4 DEF Records, Typed, Measurement
  <2> QED
    BY <1>9, <2>1, <2>2 DEF HashDtb
<1>10. CASE ParseKey
  <2>0. PICK k \in Key : private' = k /\ \E q \in {k, Junk} : cert' = [cert EXCEPT !["key"] = q]
    BY <1>10 DEF ParseKey
  <2>1. PICK q \in {k, Junk} : cert' = [cert EXCEPT !["key"] = q]
    BY <2>0
  <2>2. UNCHANGED <<css, linked, loaded>> /\ pc' = "sign"
    BY <1>10 DEF ParseKey
  <2>3. \A p \in Part : cert'[p] = IF p = "key" THEN q ELSE cert[p]
    BY <1>2, <2>1 DEF Part
  <2>4. \A p \in Part : Typed(p, cert'[p])
    BY <2>1, <2>3, TypedIs DEF Records
  <2> QED
    BY <1>4, <2>0, <2>2, <2>4
<1>11. CASE Sign
  <2>1. PICK s \in {[of |-> cert["hash"], by |-> private], Junk} :
          cert' = [cert EXCEPT !["signature"] = s]
    BY <1>11 DEF Sign
  <2>2. UNCHANGED <<css, linked, loaded, private>> /\ pc' = "verify"
    BY <1>11 DEF Sign
  <2>3. \A p \in Part : cert'[p] = IF p = "signature" THEN s ELSE cert[p]
    BY <1>2, <2>1 DEF Part
  <2>4. Measurement(cert["hash"])
    BY TypedIs DEF Records, Part
  <2>5. private \in Key
    BY <1>11 DEF Sign, Records
  <2>6. Typed("signature", s)
    BY <2>1, <2>4, <2>5, TypedIs
  <2>7. \A p \in Part : Typed(p, cert'[p])
    BY <2>3, <2>6 DEF Records
  <2> QED
    BY <1>4, <2>2, <2>5, <2>7
<1>12. CASE Verify \/ Finish \/ Dies \/ UNCHANGED vars
  <2>1. UNCHANGED <<css, private, cert, loaded, linked>>
    BY <1>12 DEF Verify, Finish, Dies, vars
  <2>2. pc' \in {"idle", "write"} \/ pc' = pc
    BY <1>12 DEF Verify, Finish, Dies, vars
  <2> QED
    BY <2>1, <2>2 DEF Records, Typed, Measurement
<1>13. CASE OpenOutput
  BY <1>13 DEF OpenOutput, Records, NoCert, Typed, Measurement
<1>14. CASE CloseOutput
  <2>1. PICK w \in Taken : css' = [p \in Part |-> IF p \in w THEN cert[p] ELSE Nothing]
    BY <1>14 DEF CloseOutput
  <2>2. \A p \in Part : css'[p] = Nothing \/ Typed(p, css'[p])
    BY <2>1 DEF Records
  <2>3. UNCHANGED <<linked, private, cert, loaded>> /\ pc' = "done"
    BY <1>14 DEF CloseOutput
  <2> QED
    BY <2>2, <2>3 DEF Records, Typed, Measurement
<1> QED
  BY <1>5, <1>6, <1>7, <1>8, <1>9, <1>10, <1>11, <1>12, <1>13, <1>14 DEF Next

\* A signature the program made is of some measurement, by a key it parsed; what
\* is not yet set is junk.
THEOREM TypeCorrect == Spec => []TypeOK
<1>1. Init => Records
  <2>1. \A p \in Part : Typed(p, JunkCert[p]) /\ NoCert[p] = Nothing
    BY TypedIs DEF JunkCert, NoCert, Part, Measurement
  <2>2. ASSUME Init PROVE \A p \in Part : (css[p] = Nothing \/ Typed(p, css[p])) /\ Typed(p, cert[p])
    BY <2>1, <2>2, Zenon DEF Init
  <2>3. ASSUME Init PROVE /\ pc = "idle" /\ linked \in [File -> BOOLEAN] /\ loaded = FALSE
                         /\ private = Junk
    BY <2>3 DEF Init
  <2> QED
    BY <2>2, <2>3 DEF Records
<1>2. MeasureInv /\ Records => TypeOK
  BY DEF MeasureInv, MemoryType, Records, TypeOK
<1>3. Spec => []MeasureInv
  BY InitMeasured, MeasureStep, PTL DEF Spec
<1> QED
  BY <1>1, <1>2, <1>3, RecordsStep, PTL DEF Spec
=============================================================================
