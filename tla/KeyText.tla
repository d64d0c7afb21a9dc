------------------------------- MODULE KeyText -------------------------------
(* parse_key_file.c reads a key out of the text OpenSSL prints for it: bytes   *)
(* as two hexadecimal digits with ":" between them, a few to a line, then      *)
(* whatever OpenSSL prints next.                                              *)
EXTENDS Integers, Sequences, SequencesExt

CONSTANTS Digits,       \* the hexadecimal digits, least first (16)
          KeySize,      \* PRIVATE_KEY_SIZE or PUBLIC_KEY_SIZE
          PerLine,      \* bytes OpenSSL prints on a line (15)
          Mark,         \* the byte before a public key (4)
          Tails         \* what follows the key in the text

Base == Len(Digits)
Separator == {" ", "newline", ":"}

\* Digits are told apart, and from separators; bytes are two of them.
ASSUME DigitsAssumption ==
  /\ Digits \in Seq(Range(Digits)) /\ Base > 0
  /\ \A d, e \in 1 .. Base : Digits[d] = Digits[e] => d = e
  /\ Range(Digits) \intersect Separator = {}
ASSUME KeyAssumption == /\ KeySize \in Nat /\ PerLine \in Nat \ {0} /\ Mark \in 0 .. Base * Base - 1
                        /\ \A t \in Tails : t \in Seq(Range(t))

ValueOf(c) == (CHOOSE d \in DOMAIN Digits : Digits[d] = c) - 1
DigitOf(n) == Digits[n + 1]

VARIABLES key,          \* the key that was printed
          public,       \* by EVP_PKEY_print_public
          text,         \* BIO_get_mem_data after the first two lines
          i, cur, b, number, number_numbers, skip_z, \* the scan
          out           \* priv_key or pub_key

keyVars == <<key, public, text, i, cur, b, number, number_numbers, skip_z, out>>

\* What OpenSSL prints: two digits and a ":" for each byte, after PerLine of them
\* a new line and four spaces, after the last one only the new line.
Indent == <<" ", " ", " ", " ">>
Hex(n) == <<DigitOf(n \div Base), DigitOf(n % Base)>>
Ending(k, n) == IF k = n THEN <<"newline">>
                ELSE IF k % PerLine = 0 THEN <<":", "newline">> \o Indent ELSE <<":">>
\* The text of the last m bytes.
TextOfLast(bytes) ==
  LET n == Len(bytes)
      l[m \in 0 .. n] == IF m = 0 THEN <<>>
                         ELSE Hex(bytes[n - m + 1]) \o Ending(n - m + 1, n) \o l[m - 1]
  IN  l
Printed(bytes) == Indent \o TextOfLast(bytes)[Len(bytes)]

\* The bytes OpenSSL prints.
Bytes == IF public THEN <<Mark>> \o key ELSE key

KeyInit == /\ key \in [1 .. KeySize -> 0 .. Base * Base - 1] /\ public \in BOOLEAN
           /\ \E tail \in Tails : text = Printed(Bytes) \o tail
           /\ i = 1 /\ cur = 0 /\ b = 0 /\ number = 0 /\ number_numbers = 0
           /\ skip_z = ~public /\ out = <<>>

Scanning == i <= Len(text) /\ cur # KeySize
Keep == UNCHANGED <<key, public, text>>

\* Mutant: the digits seen since the last byte are not counted anew.
Uncounted == number_numbers
Recounted == 0

\* A separator after two digits ends a byte; the first byte of a public key is
\* its mark.
EndByte == /\ Scanning /\ text[i] \in Separator /\ number_numbers = 2
           /\ IF skip_z THEN out' = Append(out, b) /\ cur' = cur + 1 ELSE UNCHANGED <<out, cur>>
           /\ skip_z' = TRUE /\ b' = 0 /\ number_numbers' = Recounted /\ i' = i + 1
           /\ UNCHANGED number /\ Keep
Skip == /\ Scanning /\ text[i] \in Separator /\ number_numbers # 2 /\ i' = i + 1
        /\ UNCHANGED <<cur, b, number, number_numbers, skip_z, out>> /\ Keep

\* A letter that is no digit counts as the digit before it.
TakeDigit == /\ Scanning /\ text[i] \notin Separator
             /\ number' = (IF text[i] \in Range(Digits) THEN ValueOf(text[i]) ELSE number)
             /\ b' = (b * Base + number') % (Base * Base)
             /\ number_numbers' = number_numbers + 1 /\ i' = i + 1
             /\ UNCHANGED <<cur, skip_z, out>> /\ Keep

KeyNext == EndByte \/ Skip \/ TakeDigit
KeySpec == KeyInit /\ [][KeyNext]_keyVars

-----------------------------------------------------------------------------
\* The key in memory is the one that was printed, whatever the lines and the
\* text after it look like, and no byte of the text after it gets in.
KeyAsPrinted == ~Scanning => out = key
=============================================================================
