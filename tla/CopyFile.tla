------------------------------ MODULE CopyFile ------------------------------
(* copy_file of util.c, by several programs to one destination: O_EXCL lets    *)
(* one of them create it, which then moves the source through a buffer with    *)
(* reads and writes that may do less than they are asked for.  A byte of the   *)
(* source is named by its place.                                              *)
EXTENDS Integers

CONSTANTS Copier,       \* the programs that copy
          Size,         \* bytes of the source
          BufSize       \* sizeof buf

ASSUME SizeAssumption == Size \in Nat /\ BufSize \in Nat \ {0}

VARIABLES copy_pc,      \* where each program is
          from,         \* offset of its next read
          out_ptr,      \* place in the source of the byte out_ptr points to
          nread,        \* bytes of the buffer still to be written
          size,         \* bytes of the destination, -1 when there is none
          dst           \* what they are

copyVars == <<copy_pc, from, out_ptr, nread, size, dst>>

CopyInit == /\ copy_pc = [p \in Copier |-> "open"]
            /\ from = [p \in Copier |-> 0] /\ out_ptr = [p \in Copier |-> 0] /\ nread = [p \in Copier |-> 0]
            /\ size = -1 /\ dst = [i \in {} |-> 0]

CopyGoto(p, label) == copy_pc' = [copy_pc EXCEPT ![p] = label]

\* Without a source or with a destination that is there, nothing is done.
Open(p) ==
  /\ copy_pc[p] = "open"
  /\ \/ CopyGoto(p, "failed") /\ UNCHANGED <<size, dst>>
     \/ size = -1 /\ size' = 0 /\ CopyGoto(p, "read") /\ UNCHANGED dst
  /\ UNCHANGED <<from, out_ptr, nread>>

\* read gives some bytes of the source, none at its end, or an error.
Read(p) ==
  /\ copy_pc[p] = "read"
  /\ \E n \in 1 .. BufSize :
       /\ from[p] + n <= Size
       /\ nread' = [nread EXCEPT ![p] = n] /\ out_ptr' = [out_ptr EXCEPT ![p] = from[p]]
       /\ from' = [from EXCEPT ![p] = @ + n]
  /\ CopyGoto(p, "write") /\ UNCHANGED <<size, dst>>
ReadEnd(p) == /\ copy_pc[p] = "read" /\ from[p] = Size /\ CopyGoto(p, "close")
              /\ UNCHANGED <<from, out_ptr, nread, size, dst>>

\* Where out_ptr points after n bytes were written.
\* Mutant: the rest of the buffer is written from its start again.
StayThere(p, n) == out_ptr[p]
Advance(p, n) == out_ptr[p] + n

\* write takes up to nread bytes, perhaps none.
Write(p) ==
  /\ copy_pc[p] = "write"
  /\ \E n \in 0 .. nread[p] :
       /\ dst' = [i \in 1 .. size + n |-> IF i <= size THEN dst[i] ELSE out_ptr[p] + i - size]
       /\ size' = size + n
       /\ nread' = [nread EXCEPT ![p] = @ - n] /\ out_ptr' = [out_ptr EXCEPT ![p] = Advance(p, n)]
       /\ CopyGoto(p, IF n = nread[p] THEN "read" ELSE "write")
  /\ UNCHANGED from

\* A call fails: an interrupted write alone is tried again.
\* Mutant: an interrupted write goes on with the next read.
ReadOn == "read"
Interrupted == "write"
Fails(p) == /\ copy_pc[p] \in {"read", "write", "close"} /\ CopyGoto(p, "failed")
            /\ UNCHANGED <<from, out_ptr, nread, size, dst>>
WriteInterrupted(p) == copy_pc[p] = "write" /\ CopyGoto(p, Interrupted) /\ UNCHANGED <<from, out_ptr, nread, size, dst>>
Close(p) == copy_pc[p] = "close" /\ CopyGoto(p, "copied") /\ UNCHANGED <<from, out_ptr, nread, size, dst>>

CopyNext == \E p \in Copier : \/ Open(p) \/ Read(p) \/ ReadEnd(p) \/ Write(p)
                              \/ Fails(p) \/ WriteInterrupted(p) \/ Close(p)
CopySpec == CopyInit /\ [][CopyNext]_copyVars

-----------------------------------------------------------------------------
CopyTypeOK == /\ copy_pc \in [Copier -> {"open", "read", "write", "close", "copied", "failed"}]
              /\ from \in [Copier -> 0 .. Size] /\ out_ptr \in [Copier -> 0 .. Size]
              /\ nread \in [Copier -> 0 .. BufSize] /\ size \in -1 .. Size

\* At any moment the destination is a beginning of the source: no byte is
\* lost, doubled or out of place, whatever reads and writes did.
Prefix == \A i \in 1 .. size : dst[i] = i

\* The program that is told 0 has copied all of the source, and it is the only
\* one that is.
CopiedMeansWhole == \A p \in Copier : copy_pc[p] = "copied" =>
                      size = Size /\ \A q \in Copier : copy_pc[q] = "copied" => q = p
=============================================================================
