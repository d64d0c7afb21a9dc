\* The library gm: cipher, hash, modes and signature on small instances.
CONSTANTS
  Word <- SmallWord
  XorW <- SmallXor
  Rounds = 6
  T <- SmallT
  TKey <- SmallTKey
  FK <- SmallFK
  CK <- SmallCK
  Keys <- FewKeys
  Plains <- AllBlocks
  L = 4
  Width = 2
  Poly = 3
  XorB <- SmallXor
  Enc <- SmallE
  Dec <- SmallD
  Texts <- FewTexts
  Data <- FewData
  IVs <- FewIVs
  Rooms = {0, 4, 7, 12, 16}
  BlockLen = 6
  Field = 3
  LenBytes = 2
  WordBytes = 2
  ByteBits = 3
  ByteValues = 8
  FirstValue <- Empty
  Compress <- Remember
  BytesOf <- AsIs
  Pieces <- FewPieces
  MaxLen = 13
  Curve <- SmallCurve
  Gx = 5
  Gy = 7
  N = 11
  Messages = {1, 5}
  Hash <- SmallHash
  KeyFiles = {0, 1, 9, 10, 11, 14}
SPECIFICATION GmSpec
\* Ciphers, self-tests and exchanges end.
CHECK_DEADLOCK FALSE
INVARIANTS Inverts SelfCheckPasses SelfTestPasses
PROPERTIES ImplementsDigest CBCReturns OffsetIsStandard AcceptsOnlyTheTag SignedVerifies AcceptsOnlySignatures
