----------------------------- MODULE SM3Digest -----------------------------
(* What hashing promises: a context absorbs bytes, and its digest depends on   *)
(* the bytes alone, never on how they were cut into calls.                     *)
EXTENDS Naturals, Sequences

CONSTANTS Byte,         \* the values of a byte
          Digest(_)     \* the digest of a sequence of bytes

VARIABLES absorbed,     \* what the open context has taken in
          open,         \* a context is open
          hash          \* the last digest, or the empty sequence

Init == absorbed = <<>> /\ open = FALSE /\ hash = <<>>

Start  == ~open /\ open' = TRUE /\ absorbed' = <<>> /\ hash' = <<>>
Absorb == /\ open /\ UNCHANGED <<open, hash>>
          /\ absorbed' \in Seq(Byte) /\ Len(absorbed') >= Len(absorbed)
          /\ SubSeq(absorbed', 1, Len(absorbed)) = absorbed
Finish == open /\ open' = FALSE /\ hash' = Digest(absorbed) /\ UNCHANGED absorbed

Next == Start \/ Absorb \/ Finish
Spec == Init /\ [][Next]_<<absorbed, open, hash>>
=============================================================================
