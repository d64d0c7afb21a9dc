------------------------------ MODULE SM4Words ------------------------------
(* The tables of SM4.c and the two round functions made of them.              *)
EXTENDS Words

SM4_Sbox == <<
    214, 144, 233, 254, 204, 225, 61, 183, 22, 182, 20, 194, 40, 251, 44, 5,
    43, 103, 154, 118, 42, 190, 4, 195, 170, 68, 19, 38, 73, 134, 6, 153,
    156, 66, 80, 244, 145, 239, 152, 122, 51, 84, 11, 67, 237, 207, 172, 98,
    228, 179, 28, 169, 201, 8, 232, 149, 128, 223, 148, 250, 117, 143, 63, 166,
    71, 7, 167, 252, 243, 115, 23, 186, 131, 89, 60, 25, 230, 133, 79, 168,
    104, 107, 129, 178, 113, 100, 218, 139, 248, 235, 15, 75, 112, 86, 157, 53,
    30, 36, 14, 94, 99, 88, 209, 162, 37, 34, 124, 59, 1, 33, 120, 135,
    212, 0, 70, 87, 159, 211, 39, 82, 76, 54, 2, 231, 160, 196, 200, 158,
    234, 191, 138, 210, 64, 199, 56, 181, 163, 247, 242, 206, 249, 97, 21, 161,
    224, 174, 93, 164, 155, 52, 26, 85, 173, 147, 50, 48, 245, 140, 177, 227,
    29, 246, 226, 46, 130, 102, 202, 96, 192, 41, 35, 171, 13, 83, 78, 111,
    213, 219, 55, 69, 222, 253, 142, 47, 3, 255, 106, 114, 109, 108, 91, 81,
    141, 27, 175, 146, 187, 221, 188, 127, 17, 217, 92, 65, 31, 16, 90, 216,
    10, 193, 49, 136, 165, 205, 123, 189, 45, 116, 208, 18, 184, 229, 180, 176,
    137, 105, 151, 74, 12, 150, 119, 126, 101, 185, 241, 9, 197, 110, 198, 132,
    24, 240, 125, 236, 58, 220, 77, 32, 121, 238, 95, 62, 215, 203, 57, 72>>
SM4_CK == <<
    <<7, 3605>>, <<7203, 10801>>, <<14399, 17997>>, <<21595, 25193>>,
    <<28791, 32389>>, <<35987, 39585>>, <<43183, 46781>>, <<50379, 53977>>,
    <<57575, 61173>>, <<64515, 2577>>, <<6175, 9773>>, <<13371, 16969>>,
    <<20567, 24165>>, <<27763, 31361>>, <<34959, 38557>>, <<42155, 45753>>,
    <<49351, 52949>>, <<56547, 60145>>, <<63743, 1549>>, <<5147, 8745>>,
    <<12343, 15941>>, <<19539, 23137>>, <<26735, 30333>>, <<33931, 37529>>,
    <<41127, 44725>>, <<48323, 51921>>, <<55519, 59117>>, <<62715, 521>>,
    <<4119, 7717>>, <<11315, 14913>>, <<18511, 22109>>, <<25707, 29305>>>>
SM4_FK == <<<<41905, 47814>>, <<22186, 13136>>, <<26493, 37271>>, <<45680, 8924>>>>

\* The substitution byte by byte.
Tau(a) == LET b == ToBytes(a) IN OfBytes(<<SM4_Sbox[b[1] + 1], SM4_Sbox[b[2] + 1],
                                           SM4_Sbox[b[3] + 1], SM4_Sbox[b[4] + 1]>>)
Transform(a) == LET b == Tau(a) IN XorOf(Xor3(b, Rotl(b, 2), Rotl(b, 10)), XorOf(Rotl(b, 18), Rotl(b, 24)))
\* Mutant: the key schedule rotates like the rounds.
TransformKeyAsT(a) == Transform(a)
TransformKey(a) == LET b == Tau(a) IN Xor3(b, Rotl(b, 13), Rotl(b, 23))
=============================================================================
