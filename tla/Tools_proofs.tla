---------------------------- MODULE Tools_proofs ----------------------------
(***************************************************************************)
(* The host program and the tools around their files.  Any number of host  *)
(* programs give back what they have opened and mapped, all but the css    *)
(* file, hand the driver each file's own address where they have one.      *)
(* copy_file, for every size of source and buffer and any number of        *)
(* programs.  cmdline_parse, on the tables of both programs, for every     *)
(* number of words and every set of paths.  parse_key_file, for every size *)
(* of a key, every digits and lines, and every text behind the key.        *)
(***************************************************************************)
EXTENDS HostFiles, CopyFile, CmdlineParse, KeyText, NumberLemmas, SequenceTheorems

Shape ==
    /\ pc = [p \in Process |-> pc[p]]
    /\ args \in [Process -> [File -> Structs \cup {NULL}]]
    /\ opened \in [Process -> SUBSET File]
    /\ maps \in [Process -> SUBSET File]
    /\ dev \in [Process -> {"none", "open", "failed"}]
    /\ inside = [p \in Process |-> inside[p]]

\* Until main has given them back, what is open or mapped hangs on a struct.
Owned(p) ==
    /\ \A f \in opened[p] : args[p][f] # NULL /\ args[p][f].fd = "open"
    /\ \A f \in maps[p] : args[p][f] # NULL /\ args[p][f].ptr = f

\* main fills the structs in order.
InOrder(p) ==
    /\ pc[p] \in {"idle", "image", "attest"} => opened[p] = {} /\ maps[p] = {}
    /\ pc[p] = "dtb" => opened[p] \cup maps[p] \subseteq {"image"}
    /\ pc[p] = "css" => opened[p] \cup maps[p] \subseteq {"image", "dtb"}

\* The device is open only while load_and_run or attest works with it.
Finalized(p) == dev[p] # "none" => pc[p] \in {"run", "attest", "inside", "finalize"}

Released(p) == pc[p] = "end" => dev[p] = "none" /\ opened[p] \cup maps[p] \subseteq {"css"}

HostInv == Shape /\ \A p \in Process : /\ pc[p] # "end" => Owned(p)
                                       /\ InOrder(p) /\ Finalized(p) /\ Released(p)

-----------------------------------------------------------------------------
\* What elf_args_init leaves: a struct that names all it holds.
LEMMA InitType ==
  ASSUME NEW f \in File, NEW r \in elf_args_init(f)
  PROVE  /\ r.s \in Structs
         /\ r.fd \subseteq {f} /\ (r.fd # {} => r.s.fd = "open")
         /\ r.map \subseteq {f} /\ (r.map # {} => r.s.ptr = f)
BY DEF elf_args_init, Struct, Structs, Pointer

LEMMA HostInit == Init => HostInv
BY DEF Init, HostInv, Shape, NoFiles, File, Owned, InOrder, Finalized, Released

\* Into the ioctl, past it and out of it: only pc and inside change.
LEMMA Moves ==
  ASSUME HostInv, NEW p \in Process, NEW label \in {"inside", "finalize"},
         pc[p] \in {"run", "attest", "inside"}, pc' = [pc EXCEPT ![p] = label],
         UNCHANGED <<args, opened, maps, dev>>, inside' = [q \in Process |-> inside'[q]]
  PROVE  HostInv'
<1> USE DEF HostInv
<1>1. Shape'
  BY DEF Shape
<1>2. \A q \in Process : pc'[q] = IF q = p THEN label ELSE pc[q]
  BY DEF Shape
<1>3. ASSUME NEW q \in Process
      PROVE  (pc[q] # "end" => Owned(q))' /\ InOrder(q)' /\ Finalized(q)' /\ Released(q)'
  <2>1. (pc[q] # "end" => Owned(q))'
    BY <1>2 DEF Owned
  <2>2. InOrder(q)'
    BY <1>2 DEF InOrder
  <2>3. Finalized(q)' /\ Released(q)'
    BY <1>2 DEF Finalized, Released
  <2> QED
    BY <2>1, <2>2, <2>3
<1> QED
  BY <1>1, <1>3

\* A step of one program leaves the others alone.
LEMMA HostStep == HostInv /\ [Next]_vars => HostInv'
<1> SUFFICES ASSUME HostInv, [Next]_vars PROVE HostInv'
  OBVIOUS
<1> USE DEF HostInv, Goto
<1>1. ASSUME NEW p \in Process, Start(p) PROVE HostInv'
  <2>1. PICK first \in {"image", "attest"} : pc' = [pc EXCEPT ![p] = first]
    BY <1>1 DEF Start
  <2>2. pc[p] = "idle" /\ UNCHANGED <<args, opened, maps, dev, inside>>
    BY <1>1 DEF Start
  <2>3. Shape'
    BY <2>1, <2>2 DEF Shape
  <2>4. \A q \in Process : pc'[q] = IF q = p THEN first ELSE pc[q]
    BY <2>1 DEF Shape
  <2>5. ASSUME NEW q \in Process
        PROVE  (pc[q] # "end" => Owned(q))' /\ InOrder(q)' /\ Finalized(q)' /\ Released(q)'
    <3>1. pc[q] # "end" => Owned(q)
      OBVIOUS
    <3>2. InOrder(q) /\ Finalized(q) /\ Released(q) /\ InOrder(p) /\ Finalized(p)
      OBVIOUS
    <3> QED
      BY <3>1, <3>2, <2>2, <2>4 DEF Owned, InOrder, Finalized, Released
  <2> QED
    BY <2>3, <2>5
<1>2. ASSUME NEW p \in Process, InitFile(p) PROVE HostInv'
  <2> DEFINE f == pc[p]
  <2>1. f \in File
    BY <1>2 DEF InitFile
  <2>2. PICK r \in elf_args_init(f) :
          /\ args' = [args EXCEPT ![p][f] = r.s]
          /\ opened' = [opened EXCEPT ![p] = @ \cup r.fd] /\ maps' = [maps EXCEPT ![p] = @ \cup r.map]
          /\ pc' = [pc EXCEPT ![p] = IF elf_valid(r.s) THEN After[f] ELSE "clear"]
    BY <1>2 DEF InitFile
  <2>3. /\ r.s \in Structs /\ r.s # NULL
        /\ r.fd \subseteq {f} /\ (r.fd # {} => r.s.fd = "open")
        /\ r.map \subseteq {f} /\ (r.map # {} => r.s.ptr = f)
    BY <2>1, InitType, NullAssumption
  <2>4. UNCHANGED <<dev, inside>>
    BY <1>2 DEF InitFile
  <2>5. Shape'
    <3>1. args' \in [Process -> [File -> Structs \cup {NULL}]]
      BY <2>1, <2>2, <2>3 DEF Shape
    <3>2. opened' \in [Process -> SUBSET File] /\ maps' \in [Process -> SUBSET File]
      BY <2>1, <2>2, <2>3 DEF Shape
    <3> QED
      BY <3>1, <3>2, <2>2, <2>4 DEF Shape
  <2>6. ASSUME NEW q \in Process, q # p
        PROVE  (pc[q] # "end" => Owned(q))' /\ InOrder(q)' /\ Finalized(q)' /\ Released(q)'
    <3>1. pc'[q] = pc[q] /\ args'[q] = args[q] /\ opened'[q] = opened[q] /\ maps'[q] = maps[q]
      BY <2>2, <2>6 DEF Shape
    <3> QED
      BY <3>1, <2>4 DEF Owned, InOrder, Finalized, Released
  <2>7. /\ args'[p] = [args[p] EXCEPT ![f] = r.s]
        /\ opened'[p] = opened[p] \cup r.fd /\ maps'[p] = maps[p] \cup r.map
        /\ pc'[p] = IF elf_valid(r.s) THEN After[f] ELSE "clear"
    BY <2>2 DEF Shape
  <2>8. f \notin opened[p] /\ f \notin maps[p]
    BY <2>1 DEF InOrder, File
  <2>9. Owned(p)'
    <3>1. \A g \in File : args'[p][g] = IF g = f THEN r.s ELSE args[p][g]
      BY <2>1, <2>7 DEF Shape
    <3>2. opened[p] \subseteq File /\ maps[p] \subseteq File /\ Owned(p)
      BY <2>1 DEF Shape, File
    <3> QED
      BY <3>1, <3>2, <2>3, <2>7, <2>8, <2>1 DEF Owned
  <2>10. InOrder(p)' /\ Finalized(p)' /\ Released(p)'
    <3>1. dev[p] = "none"
      BY <2>1 DEF Finalized, File
    <3>2. CASE f = "image"
      BY <3>1, <3>2, <2>3, <2>4, <2>7 DEF InOrder, Finalized, Released, After
    <3>3. CASE f = "dtb"
      BY <3>1, <3>3, <2>3, <2>4, <2>7 DEF InOrder, Finalized, Released, After
    <3>4. CASE f = "css"
      BY <3>1, <3>4, <2>3, <2>4, <2>7 DEF InOrder, Finalized, Released, After
    <3> QED
      BY <3>2, <3>3, <3>4, <2>1 DEF File
  <2> QED
    BY <2>5, <2>6, <2>9, <2>10
<1>3. ASSUME NEW p \in Process, Clear(p) PROVE HostInv'
  <2>1. Shape'
    BY <1>3 DEF Clear, Shape, elf_args_destroy, NoFiles
  <2>2. ASSUME NEW q \in Process, q # p
        PROVE  (pc[q] # "end" => Owned(q))' /\ InOrder(q)' /\ Finalized(q)' /\ Released(q)'
    <3>1. pc'[q] = pc[q] /\ args'[q] = args[q] /\ opened'[q] = opened[q] /\ maps'[q] = maps[q] /\ dev'[q] = dev[q]
      BY <1>3, <2>2 DEF Clear, elf_args_destroy, Shape
    <3> QED
      BY <3>1 DEF Owned, InOrder, Finalized, Released
  <2>3. /\ pc[p] = "clear" /\ pc'[p] = "end" /\ dev' = dev
        /\ opened'[p] = opened[p] \ {f \in Held(p) : args[p][f].fd = "open"}
        /\ maps'[p] = maps[p] \ {args[p][f].ptr : f \in Held(p)}
    BY <1>3 DEF Clear, elf_args_destroy, Shape
  <2>4. opened'[p] \cup maps'[p] \subseteq {"css"}
    <3>1. opened[p] \subseteq File /\ maps[p] \subseteq File
      BY DEF Shape
    <3> QED
      BY <3>1, <2>3 DEF Owned, Held
  <2> QED
    BY <2>1, <2>2, <2>3, <2>4 DEF InOrder, Finalized, Released
<1>4. ASSUME NEW p \in Process, Exit(p) \/ Killed(p) PROVE HostInv'
  <2>1. /\ pc' = [pc EXCEPT ![p] = "idle"] /\ args' = [args EXCEPT ![p] = NoFiles]
        /\ opened' = [opened EXCEPT ![p] = {}] /\ maps' = [maps EXCEPT ![p] = {}]
        /\ dev' = [dev EXCEPT ![p] = "none"] /\ UNCHANGED inside
    BY <1>4 DEF Exit, Killed, Gone
  <2>2. NoFiles \in [File -> Structs \cup {NULL}]
    BY DEF NoFiles
  <2>3. Shape'
    BY <2>1, <2>2 DEF Shape
  <2>4. pc'[p] = "idle" /\ opened'[p] = {} /\ maps'[p] = {} /\ dev'[p] = "none"
    BY <2>1 DEF Shape
  <2>5. ASSUME NEW q \in Process, q # p
        PROVE  (pc[q] # "end" => Owned(q))' /\ InOrder(q)' /\ Finalized(q)' /\ Released(q)'
    <3>1. pc'[q] = pc[q] /\ args'[q] = args[q] /\ opened'[q] = opened[q] /\ maps'[q] = maps[q] /\ dev'[q] = dev[q]
      BY <2>1, <2>5 DEF Shape
    <3> QED
      BY <3>1 DEF Owned, InOrder, Finalized, Released
  <2> QED
    BY <2>3, <2>4, <2>5 DEF Owned, InOrder, Finalized, Released
<1>5. ASSUME NEW p \in Process, PLenclave_init(p) PROVE HostInv'
  <2>1. PICK r \in {"open", "failed"} : dev' = [dev EXCEPT ![p] = r]
    BY <1>5 DEF PLenclave_init
  <2>2. pc[p] \in {"run", "attest"} /\ UNCHANGED <<pc, args, opened, maps, inside>>
    BY <1>5 DEF PLenclave_init
  <2>3. Shape'
    BY <2>1, <2>2 DEF Shape
  <2>4. \A q \in Process : q # p => dev'[q] = dev[q]
    BY <2>1 DEF Shape
  <2>5. ASSUME NEW q \in Process
        PROVE  (pc[q] # "end" => Owned(q))' /\ InOrder(q)' /\ Finalized(q)' /\ Released(q)'
    <3>1. (pc[q] # "end" => Owned(q))' /\ InOrder(q)'
      BY <2>2 DEF Owned, InOrder
    <3>2. Finalized(q)' /\ Released(q)'
      BY <2>2, <2>4 DEF Finalized, Released
    <3> QED
      BY <3>1, <3>2
  <2> QED
    BY <2>3, <2>5
<1>6. ASSUME NEW p \in Process, Enter(p) PROVE HostInv'
  <2>1. PICK label \in {"inside", "finalize"} : pc' = [pc EXCEPT ![p] = label]
    BY <1>6 DEF Enter
  <2>2. pc[p] = "run" /\ UNCHANGED <<args, opened, maps, dev>> /\ inside' = [q \in Process |-> inside'[q]]
    BY <1>6 DEF Enter, Shape
  <2> QED
    BY <2>1, <2>2, Moves
<1>7. ASSUME NEW p \in Process, EnterAttest(p) PROVE HostInv'
  <2>1. PICK label \in {"inside", "finalize"} : pc' = [pc EXCEPT ![p] = label]
    BY <1>7 DEF EnterAttest
  <2>2. pc[p] = "attest" /\ UNCHANGED <<args, opened, maps, dev>> /\ inside' = [q \in Process |-> inside'[q]]
    BY <1>7 DEF EnterAttest, Shape
  <2> QED
    BY <2>1, <2>2, Moves
<1>8. ASSUME NEW p \in Process, Return(p) PROVE HostInv'
  <2>1. pc[p] = "inside" /\ UNCHANGED <<args, opened, maps, dev>> /\ inside' = [q \in Process |-> inside'[q]]
    BY <1>8 DEF Return, Shape
  <2> QED
    BY <1>8, <2>1, Moves DEF Return
<1>9. ASSUME NEW p \in Process, PLenclave_finalize(p) PROVE HostInv'
  <2>1. /\ pc[p] = "finalize" /\ pc' = [pc EXCEPT ![p] = "clear"]
        /\ dev' = [dev EXCEPT ![p] = "none"] /\ UNCHANGED <<args, opened, maps, inside>>
    BY <1>9 DEF PLenclave_finalize
  <2>2. Shape'
    BY <2>1 DEF Shape
  <2>3. \A q \in Process : /\ pc'[q] = (IF q = p THEN "clear" ELSE pc[q])
                           /\ dev'[q] = (IF q = p THEN "none" ELSE dev[q])
    BY <2>1 DEF Shape
  <2>4. ASSUME NEW q \in Process
        PROVE  (pc[q] # "end" => Owned(q))' /\ InOrder(q)' /\ Finalized(q)' /\ Released(q)'
    BY <2>1, <2>3 DEF Owned, InOrder, Finalized, Released
  <2> QED
    BY <2>2, <2>4
<1>10. CASE enclave_ioctl_init \/ enclave_ioctl_exit
  BY <1>10 DEF enclave_ioctl_init, enclave_ioctl_exit, Shape, Owned, InOrder, Finalized, Released
<1>11. CASE UNCHANGED vars
  BY <1>11 DEF vars, Shape, Owned, InOrder, Finalized, Released
<1> QED
  BY <1>1, <1>2, <1>3, <1>4, <1>5, <1>6, <1>7, <1>8, <1>9, <1>10, <1>11 DEF Next

-----------------------------------------------------------------------------
\* The address held for f is that of f, mapped, or none of a mapping.
OwnOrNone(p, f, address) == /\ f \in opened[p]
                            /\ (address = f /\ f \in maps[p]) \/ address \in Unmapped
Ready(p, F) == \A f \in F : OwnOrNone(p, f, args[p][f].ptr)

\* So it is with every file main has passed, and with the three of a submission.
Mapped(p) ==
    /\ pc[p] = "dtb" => Ready(p, {"image"})
    /\ pc[p] = "css" => Ready(p, {"image", "dtb"})
    /\ pc[p] = "run" => Ready(p, File)
    /\ inside[p] # NULL => pc[p] = "inside" /\ \A f \in File : OwnOrNone(p, f, inside[p][f])

MapInv == Shape /\ \A p \in Process : Mapped(p)

LEMMA MapInit == Init => MapInv
BY HostInit DEF Init, HostInv, MapInv, Mapped

LEMMA MapStep == MapInv /\ HostInv /\ HostInv' /\ [Next]_vars => MapInv'
<1> SUFFICES ASSUME MapInv, Shape', [Next]_vars PROVE MapInv'
  BY DEF HostInv
<1> USE DEF MapInv, Goto
<1>1. ASSUME NEW p \in Process, InitFile(p) PROVE MapInv'
  <2> DEFINE f == pc[p]
  <2>1. PICK r \in elf_args_init(f) :
          /\ args' = [args EXCEPT ![p][f] = r.s] /\ maps' = [maps EXCEPT ![p] = @ \cup r.map]
          /\ opened' = [opened EXCEPT ![p] = @ \cup r.fd]
          /\ pc' = [pc EXCEPT ![p] = IF elf_valid(r.s) THEN After[f] ELSE "clear"]
    BY <1>1 DEF InitFile
  <2>2. f \in File /\ inside' = inside
    BY <1>1 DEF InitFile
  <2>3. elf_valid(r.s) => f \in r.fd /\ ((r.s.ptr = f /\ f \in r.map) \/ r.s.ptr \in Unmapped)
    BY DEF elf_args_init, elf_valid, Struct, Unmapped
  <2>4. /\ args'[p] = [args[p] EXCEPT ![f] = r.s] /\ maps'[p] = maps[p] \cup r.map /\ opened'[p] = opened[p] \cup r.fd
        /\ pc'[p] = IF elf_valid(r.s) THEN After[f] ELSE "clear"
    BY <2>1 DEF Shape
  <2>5. \A g \in File : args'[p][g] = IF g = f THEN r.s ELSE args[p][g]
    BY <2>2, <2>4 DEF Shape
  <2>6. Mapped(p)'
    <3>1. inside'[p] = NULL
      BY <2>2 DEF Mapped, File
    <3>2. CASE f = "image"
      BY <3>1, <3>2, <2>3, <2>4, <2>5 DEF Mapped, Ready, OwnOrNone, After, File
    <3>3. CASE f = "dtb"
      BY <3>1, <3>3, <2>3, <2>4, <2>5 DEF Mapped, Ready, OwnOrNone, After, File
    <3>4. CASE f = "css"
      BY <3>1, <3>4, <2>3, <2>4, <2>5 DEF Mapped, Ready, OwnOrNone, After, File
    <3> QED
      BY <3>2, <3>3, <3>4, <2>2 DEF File
  <2>7. ASSUME NEW q \in Process, q # p PROVE Mapped(q)'
    <3>1. pc'[q] = pc[q] /\ args'[q] = args[q] /\ maps'[q] = maps[q] /\ opened'[q] = opened[q] /\ inside'[q] = inside[q]
      BY <2>1, <2>2, <2>7 DEF Shape
    <3> QED
      BY <3>1 DEF Mapped, Ready, OwnOrNone
  <2> QED
    BY <2>6, <2>7
<1>2. ASSUME NEW p \in Process, Enter(p) PROVE MapInv'
  <2>1. /\ pc[p] = "run" /\ UNCHANGED <<args, maps, opened>>
        /\ \/ pc' = [pc EXCEPT ![p] = "inside"] /\ inside' = [inside EXCEPT ![p] = user_param(args[p])]
           \/ pc' = [pc EXCEPT ![p] = "finalize"] /\ UNCHANGED inside
    BY <1>2 DEF Enter
  <2>2. Ready(p, File) /\ inside[p] = NULL
    BY <2>1 DEF Mapped
  <2>3. \A f \in File : user_param(args[p])[f] = args[p][f].ptr
    BY DEF user_param, File
  <2>4. Mapped(p)'
    BY <2>1, <2>2, <2>3 DEF Mapped, Ready, OwnOrNone, Shape
  <2>5. ASSUME NEW q \in Process, q # p PROVE Mapped(q)'
    <3>1. pc'[q] = pc[q] /\ args'[q] = args[q] /\ maps'[q] = maps[q] /\ opened'[q] = opened[q] /\ inside'[q] = inside[q]
      BY <2>1, <2>5 DEF Shape
    <3> QED
      BY <3>1 DEF Mapped, Ready, OwnOrNone
  <2> QED
    BY <2>4, <2>5
<1>3. ASSUME NEW p \in Process, Return(p) PROVE MapInv'
  BY <1>3 DEF Return, Shape, Mapped, Ready, OwnOrNone
<1>4. ASSUME NEW p \in Process,
             Start(p) \/ Clear(p) \/ Exit(p) \/ Killed(p) \/ EnterAttest(p) \/ PLenclave_finalize(p)
      PROVE  MapInv'
  <2>1. PICK label \in {"image", "attest", "end", "idle", "inside", "finalize", "clear"} :
          pc' = [pc EXCEPT ![p] = label] /\ inside' = inside
    BY <1>4 DEF Start, Clear, Exit, Killed, Gone, EnterAttest, PLenclave_finalize
  <2>2. pc[p] # "inside"
    BY <1>4 DEF Start, Clear, Exit, Killed, Gone, EnterAttest, PLenclave_finalize
  <2>3. Mapped(p)'
    BY <2>1, <2>2 DEF Mapped, Shape
  <2>4. ASSUME NEW q \in Process, q # p PROVE Mapped(q)'
    <3>1. args'[q] = args[q] /\ maps'[q] = maps[q] /\ opened'[q] = opened[q]
      BY <1>4, <2>4 DEF Start, Clear, elf_args_destroy, Exit, Killed, Gone, EnterAttest, PLenclave_finalize, Shape
    <3>2. pc'[q] = pc[q] /\ inside'[q] = inside[q]
      BY <2>1, <2>4 DEF Shape
    <3> QED
      BY <3>1, <3>2 DEF Mapped, Ready, OwnOrNone
  <2> QED
    BY <2>3, <2>4
<1>5. ASSUME NEW p \in Process, PLenclave_init(p) PROVE MapInv'
  BY <1>5 DEF PLenclave_init, Mapped, Ready, OwnOrNone
<1>6. CASE enclave_ioctl_init \/ enclave_ioctl_exit \/ UNCHANGED vars
  BY <1>6 DEF enclave_ioctl_init, enclave_ioctl_exit, vars, Mapped, Ready, OwnOrNone
<1> QED
  BY <1>1, <1>2, <1>3, <1>4, <1>5, <1>6 DEF Next

\* Whatever fresh memory holds and whichever mapping fails, the three addresses of a
\* submission are those of its three files, mapped until the ioctl returns, or none
\* of a mapping.
THEOREM SubmittedOwnFilesCorrect == Spec => []SubmittedOwnFiles
<1>1. HostInv /\ [Next]_vars => HostInv'
  BY HostStep
<1>2. MapInv /\ HostInv /\ HostInv' /\ [Next]_vars => MapInv'
  BY MapStep
<1>3. MapInv => SubmittedOwnFiles
  BY DEF MapInv, Mapped, OwnOrNone, SubmittedOwnFiles
<1> QED
  BY <1>1, <1>2, <1>3, HostInit, MapInit, PTL DEF Spec

-----------------------------------------------------------------------------
\* Whatever step of a command failed and whatever fresh memory held, main returns
\* with the device closed and only the css file still open or mapped.
THEOREM ReleasedAtReturnCorrect == Spec => []ReleasedAtReturn
<1>1. HostInv => ReleasedAtReturn
  BY DEF HostInv, Released, ReleasedAtReturn
<1>2. HostInv /\ [Next]_vars => HostInv'
  BY HostStep
<1> QED
  BY <1>1, <1>2, HostInit, PTL DEF Spec

-----------------------------------------------------------------------------
(* copy_file                                                                  *)

Copying(p) == copy_pc[p] \in {"read", "write", "close", "copied"}

\* Where the copying program stands: what is in the destination and what is
\* left of its buffer is what it has read, and there is one such program.
CopyPlace(p) == /\ copy_pc[p] = "open" => from[p] = 0
                /\ copy_pc[p] = "read" => size = from[p]
                /\ copy_pc[p] = "write" => size = out_ptr[p] /\ out_ptr[p] + nread[p] = from[p]
                /\ copy_pc[p] \in {"close", "copied"} => size = Size
OneCopies == \A p, q \in Copier : Copying(p) /\ Copying(q) => p = q
CopyInv == /\ CopyTypeOK /\ Prefix /\ OneCopies
           /\ \A p \in Copier : CopyPlace(p) /\ (Copying(p) => size # -1)

LEMMA CopyInitInv == CopyInit => CopyInv
<1> SUFFICES ASSUME CopyInit PROVE CopyInv
  OBVIOUS
<1>1. CopyTypeOK
  BY SizeAssumption DEF CopyInit, CopyTypeOK
<1>2. \A p \in Copier : ~Copying(p) /\ CopyPlace(p)
  BY DEF CopyInit, Copying, CopyPlace
<1>3. Prefix
  BY DEF CopyInit, Prefix
<1> QED
  BY <1>1, <1>2, <1>3 DEF CopyInv, OneCopies

\* A program that opens the destination finds none, so no other is copying.
LEMMA OpenInv == ASSUME CopyInv, NEW p \in Copier, Open(p) PROVE CopyInv'
<1> USE SizeAssumption DEF CopyInv
<1>1. CopyTypeOK' /\ Prefix'
  BY DEF CopyTypeOK, Prefix, Open, CopyGoto
<1>2. \A q \in Copier : q # p => copy_pc'[q] = copy_pc[q]
  BY DEF CopyTypeOK, Open, CopyGoto
<1>3. CASE copy_pc'[p] = "failed" /\ UNCHANGED <<size, dst>>
  <2>1. \A q \in Copier : Copying(q)' => Copying(q) /\ q # p
    BY <1>2, <1>3 DEF Copying
  <2>2. \A q \in Copier : CopyPlace(q)' /\ (Copying(q)' => size' # -1)
    BY <1>2, <1>3, <2>1 DEF CopyPlace, Open
  <2> QED
    BY <1>1, <2>1, <2>2 DEF OneCopies
<1>4. CASE size = -1 /\ size' = 0 /\ copy_pc'[p] = "read"
  <2>1. \A q \in Copier : Copying(q)' => q = p
    BY <1>2, <1>4 DEF Copying
  <2>2. \A q \in Copier : CopyPlace(q)' /\ (Copying(q)' => size' # -1)
    BY <1>2, <1>4, <2>1 DEF CopyPlace, Open, Copying
  <2> QED
    BY <1>1, <2>1, <2>2 DEF OneCopies
<1> QED
  BY <1>3, <1>4 DEF Open, CopyGoto, CopyTypeOK

\* A step of the copying program that keeps it the only one.
LEMMA OnlyOne ==
  ASSUME CopyInv, NEW p \in Copier, Copying(p), CopyTypeOK', Prefix', CopyPlace(p)', size' # -1,
         \A q \in Copier : q # p => copy_pc'[q] = copy_pc[q] /\ from'[q] = from[q]
  PROVE  CopyInv'
<1>1. \A q \in Copier : q # p => ~Copying(q) /\ ~Copying(q)'
  BY DEF CopyInv, OneCopies, Copying
<1>2. \A q \in Copier : q # p => CopyPlace(q)'
  BY <1>1 DEF CopyInv, CopyPlace, Copying
<1> QED
  BY <1>1, <1>2 DEF CopyInv, OneCopies

LEMMA ReadInv == ASSUME CopyInv, NEW p \in Copier, Read(p) PROVE CopyInv'
<1> USE SizeAssumption
<1> PICK n \in 1 .. BufSize : /\ from[p] + n <= Size
                              /\ nread' = [nread EXCEPT ![p] = n]
                              /\ out_ptr' = [out_ptr EXCEPT ![p] = from[p]]
                              /\ from' = [from EXCEPT ![p] = @ + n]
  BY DEF Read
<1>1. from[p] \in Nat /\ size \in Int /\ from[p] + n \in 0 .. Size
  BY DEF CopyInv, CopyTypeOK
<1>2. CopyTypeOK'
  BY <1>1 DEF CopyInv, CopyTypeOK, Read, CopyGoto
<1>3. Prefix'
  BY DEF CopyInv, Prefix, Read
<1>4. CopyPlace(p)' /\ size' # -1
  BY <1>1 DEF CopyInv, CopyTypeOK, CopyPlace, Copying, Read, CopyGoto
<1> QED
  BY <1>2, <1>3, <1>4, OnlyOne DEF CopyInv, CopyTypeOK, Read, CopyGoto, Copying

LEMMA WriteInv == ASSUME CopyInv, NEW p \in Copier, Write(p) PROVE CopyInv'
<1> USE SizeAssumption
<1> PICK n \in 0 .. nread[p] :
       /\ dst' = [k \in 1 .. size + n |-> IF k <= size THEN dst[k] ELSE out_ptr[p] + k - size]
       /\ size' = size + n
       /\ nread' = [nread EXCEPT ![p] = @ - n] /\ out_ptr' = [out_ptr EXCEPT ![p] = Advance(p, n)]
       /\ CopyGoto(p, IF n = nread[p] THEN "read" ELSE "write")
  BY DEF Write
<1>1. /\ size = out_ptr[p] /\ out_ptr[p] + nread[p] = from[p] /\ copy_pc[p] = "write"
      /\ from[p] \in 0 .. Size /\ size \in Nat /\ nread[p] \in 0 .. BufSize
  <2>1. copy_pc[p] = "write" /\ CopyPlace(p) /\ size # -1
    BY DEF CopyInv, Write, Copying
  <2>2. from[p] \in 0 .. Size /\ size \in -1 .. Size /\ nread[p] \in 0 .. BufSize
    BY DEF CopyInv, CopyTypeOK
  <2> QED
    BY <2>1, <2>2 DEF CopyPlace
<1>2. /\ nread[p] - n \in 0 .. BufSize /\ size + n \in 0 .. Size /\ Advance(p, n) = size + n
  <2>1. /\ nread[p] \in Nat /\ nread[p] <= BufSize /\ n \in Nat /\ n <= nread[p]
        /\ out_ptr[p] = size /\ from[p] \in Int /\ from[p] <= Size
    BY <1>1
  <2>2. nread[p] - n \in 0 .. BufSize
    BY <2>1
  <2>3. size + n \in 0 .. Size
    BY <1>1, <2>1
  <2> QED
    BY <2>1, <2>2, <2>3 DEF Advance
<1>3. CopyTypeOK'
  BY <1>2 DEF CopyInv, CopyTypeOK, Write, CopyGoto
<1>4. Prefix'
  BY <1>1 DEF CopyInv, Prefix
<1>5. /\ copy_pc'[p] = (IF n = nread[p] THEN "read" ELSE "write")
      /\ nread'[p] = nread[p] - n /\ out_ptr'[p] = size + n /\ from'[p] = from[p]
  BY <1>2 DEF CopyInv, CopyTypeOK, CopyGoto, Write
<1>6. CopyPlace(p)' /\ size' # -1
  BY <1>1, <1>5 DEF CopyPlace
<1> QED
  BY <1>1, <1>3, <1>4, <1>6, OnlyOne DEF CopyInv, CopyTypeOK, Write, CopyGoto, Copying

\* The steps that only move the program on.
LEMMA MoveInv ==
  ASSUME CopyInv, NEW p \in Copier, ReadEnd(p) \/ Fails(p) \/ WriteInterrupted(p) \/ Close(p)
  PROVE  CopyInv'
<1> USE SizeAssumption DEF ReadEnd, Fails, WriteInterrupted, Close, Interrupted, CopyGoto
<1>1. CopyTypeOK'
  BY DEF CopyInv, CopyTypeOK
<1>2. Prefix'
  BY DEF CopyInv, Prefix
<1>3. Copying(p) /\ size' = size
  BY DEF Copying
<1>4. copy_pc'[p] \in {"failed", "close", "write", "copied"} /\ (\A q \in Copier : q # p => copy_pc'[q] = copy_pc[q])
  BY DEF CopyInv, CopyTypeOK
<1>5. CopyPlace(p)'
  BY DEF CopyInv, CopyTypeOK, CopyPlace
<1> QED
  BY <1>1, <1>2, <1>3, <1>4, <1>5, OnlyOne DEF CopyInv

LEMMA CopyStepInv == CopyInv /\ [CopyNext]_copyVars => CopyInv'
<1> SUFFICES ASSUME CopyInv, [CopyNext]_copyVars PROVE CopyInv'
  OBVIOUS
<1>1. CASE UNCHANGED copyVars
  BY <1>1 DEF copyVars, CopyInv, CopyTypeOK, Prefix, OneCopies, Copying, CopyPlace
<1>2. ASSUME NEW p \in Copier, Open(p) PROVE CopyInv'
  BY <1>2, OpenInv
<1>3. ASSUME NEW p \in Copier, Read(p) PROVE CopyInv'
  BY <1>3, ReadInv
<1>4. ASSUME NEW p \in Copier, Write(p) PROVE CopyInv'
  BY <1>4, WriteInv
<1>5. ASSUME NEW p \in Copier, ReadEnd(p) \/ Fails(p) \/ WriteInterrupted(p) \/ Close(p) PROVE CopyInv'
  BY <1>5, MoveInv
<1> QED
  BY <1>1, <1>2, <1>3, <1>4, <1>5 DEF CopyNext

\* The invariant the other results rest on.
THEOREM CopyInvariance == CopySpec => []CopyInv
<1> QED
  BY CopyInitInv, CopyStepInv, PTL DEF CopySpec

\* The variables of copy_file stay in their ranges.
THEOREM CopyTypeCorrect == CopySpec => []CopyTypeOK
<1>1. CopyInv => CopyTypeOK
  BY DEF CopyInv
<1> QED
  BY CopyInvariance, <1>1, PTL

\* util.c:83-101: the destination is a beginning of the source at any moment.
THEOREM PrefixHolds == CopySpec => []Prefix
<1>1. CopyInv => Prefix
  BY DEF CopyInv
<1> QED
  BY CopyInvariance, <1>1, PTL

\* util.c:113: 0 is returned for a whole copy, and to one program.
THEOREM CopiedIsWhole == CopySpec => []CopiedMeansWhole
<1>1. CopyInv => CopiedMeansWhole
  <2> SUFFICES ASSUME CopyInv, NEW p \in Copier, copy_pc[p] = "copied"
               PROVE  size = Size /\ \A q \in Copier : copy_pc[q] = "copied" => q = p
    BY DEF CopiedMeansWhole
  <2>1. size = Size
    <3>1. CopyPlace(p)
      BY DEF CopyInv
    <3> QED
      BY <3>1 DEF CopyPlace
  <2>2. \A q \in Copier : copy_pc[q] = "copied" => q = p
    BY DEF CopyInv, OneCopies, Copying
  <2> QED
    BY <2>1, <2>2
<1> QED
  BY CopyInvariance, <1>1, PTL

-----------------------------------------------------------------------------
(* The command lines.                                                          *)

Word == Option \cup Command \cup Paths \cup {"?", "-help", "-image"}
Table == Options[tool]

LineType == /\ tool \in Tool /\ argv \in Seq(Word)
            /\ value \in [Option -> Paths \cup {NoPath}]
            /\ ret \in {"none", "true", "false"}

\* The words read so far are a command and m options with their paths, and the
\* table holds just these.
ReadTo(m) ==
    /\ Len(argv) = 2 * m + 1 /\ argv[1] \in Command
    /\ \A k \in 1 .. m : /\ argv[2 * k] \in Option /\ argv[2 * k + 1] \in Paths
                         /\ value[argv[2 * k]] = argv[2 * k + 1]
    /\ \A k, n \in 1 .. m : argv[2 * k] = argv[2 * n] => k = n
    /\ \A o \in Option : value[o] # NoPath => \E k \in 1 .. m : argv[2 * k] = o
ReadSoFar == \E m \in Nat : ReadTo(m)

\* The caller's array, and what lies behind it, hold the values of the table, row
\* by row, and nothing else.
Filled == /\ \A r \in 1 .. Len(Table) : path[r - 1] = value[Table[r]]
          /\ \A a \in Len(Table) .. Reach - 1 : path[a] = Empty[a]

LineInv ==
    /\ LineType
    /\ ret = "none" => ReadSoFar \/ (argv = <<>> /\ \A o \in Option : value[o] = NoPath)
    /\ AcceptsTheUsage
    /\ Delivered => ReadSoFar /\ Filled
    /\ ~Delivered => path = Empty

-----------------------------------------------------------------------------
\* One word more.
LEMMA OneMore ==
  ASSUME NEW S, NEW s \in Seq(S), NEW o \in S
  PROVE  /\ s \o <<o>> \in Seq(S) /\ Len(s \o <<o>>) = Len(s) + 1
         /\ \A k \in 1 .. Len(s) : (s \o <<o>>)[k] = s[k]
         /\ (s \o <<o>>)[Len(s) + 1] = o
OBVIOUS

\* Two words more.
LEMMA TwoMore ==
  ASSUME NEW S, NEW s \in Seq(S), NEW o \in S, NEW v \in S
  PROVE  /\ s \o <<o, v>> \in Seq(S) /\ Len(s \o <<o, v>>) = Len(s) + 2
         /\ \A k \in 1 .. Len(s) : (s \o <<o, v>>)[k] = s[k]
         /\ (s \o <<o, v>>)[Len(s) + 1] = o /\ (s \o <<o, v>>)[Len(s) + 2] = v
<1>1. <<o, v>> \in Seq(S) /\ Len(<<o, v>>) = 2 /\ <<o, v>>[1] = o /\ <<o, v>>[2] = v
  OBVIOUS
<1> DEFINE t == <<o, v>>
<1> HIDE DEF t
<1>2. t \in Seq(S) /\ Len(t) = 2 /\ t[1] = o /\ t[2] = v
  BY <1>1 DEF t
<1>3. /\ s \o t \in Seq(S) /\ Len(s \o t) = Len(s) + 2
      /\ \A k \in 1 .. Len(s) + 2 : (s \o t)[k] = IF k <= Len(s) THEN s[k] ELSE t[k - Len(s)]
  <2>1. /\ s \o t \in Seq(S) /\ Len(s \o t) = Len(s) + Len(t)
        /\ \A k \in 1 .. Len(s) + Len(t) : (s \o t)[k] = IF k <= Len(s) THEN s[k] ELSE t[k - Len(s)]
    BY <1>2, ConcatProperties, Zenon
  <2> QED
    BY <1>2, <2>1, Zenon
<1>4. \A k \in 1 .. Len(s) : (s \o t)[k] = s[k]
  BY <1>3
<1>5. (s \o t)[Len(s) + 1] = o /\ (s \o t)[Len(s) + 2] = v
  <2>1. Len(s) \in Nat
    OBVIOUS
  <2> QED
    BY <1>2, <1>3, <2>1
<1> QED
  BY <1>3, <1>4, <1>5 DEF t

\* The options are the rows of the table, one row each.
LEMMA Rows1 ==
  ASSUME tool \in Tool
  PROVE  /\ Len(Table) \in Nat /\ Len(Table) \in 0 .. Reach
         /\ \A r \in 1 .. Len(Table) : Table[r] \in Option
         /\ \A o \in Option : \E r \in 1 .. Len(Table) : Table[r] = o
         /\ \A r, n \in 1 .. Len(Table) : Table[r] = Table[n] => r = n
         /\ \A r \in 1 .. Len(Table) : Place(tool, Table[r]) = r - 1
<1>1. Table = (IF tool = "host" THEN HostOptions ELSE SignOptions)
  BY DEF Table, Options, Tool
<1>2. Len(Table) \in 0 .. Reach /\ DOMAIN Table = 1 .. Len(Table)
  <2>1. Len(HostOptions) = 6 /\ DOMAIN HostOptions = 1 .. 6
    BY DEF HostOptions
  <2>2. Len(SignOptions) = 10 /\ DOMAIN SignOptions = 1 .. 10
    BY DEF SignOptions
  <2> QED
    BY <1>1, <2>1, <2>2 DEF Reach
<1>3. Option = {Table[r] : r \in 1 .. Len(Table)}
  BY <1>2 DEF Option, Range, Table
<1>4. CASE tool = "host"
  <2>1. \A r \in 1 .. Len(Table) : Place(tool, Table[r]) = r - 1
    <3>1. Len(Table) = 6 /\ Table = HostOptions
      BY <1>1, <1>4 DEF HostOptions
    <3>2. Place(tool, Table[1]) = 0 /\ Place(tool, Table[2]) = 1 /\ Place(tool, Table[3]) = 2
      BY <1>4, <3>1 DEF HostOptions, Place, file_path_t, Enumerator
    <3>3. Place(tool, Table[4]) = 3 /\ Place(tool, Table[5]) = 4 /\ Place(tool, Table[6]) = 5
      BY <1>4, <3>1 DEF HostOptions, Place, file_path_t, Enumerator
    <3> QED
      BY <3>1, <3>2, <3>3
  <2> QED
    BY <1>2, <1>3, <2>1
<1>5. CASE tool = "sign_tool"
  <2>1. \A r \in 1 .. Len(Table) : Place(tool, Table[r]) = r - 1
    <3>1. Len(Table) = 10 /\ Table = SignOptions
      BY <1>1, <1>5 DEF SignOptions
    <3>2. Place(tool, Table[1]) = 0 /\ Place(tool, Table[2]) = 1 /\ Place(tool, Table[3]) = 2
      BY <1>5, <3>1 DEF SignOptions, Place, file_path_t, Enumerator
    <3>3. Place(tool, Table[4]) = 3 /\ Place(tool, Table[5]) = 4 /\ Place(tool, Table[6]) = 5
      BY <1>5, <3>1 DEF SignOptions, Place, file_path_t, Enumerator
    <3>4. Place(tool, Table[7]) = 6 /\ Place(tool, Table[8]) = 7
      BY <1>5, <3>1 DEF SignOptions, Place, file_path_t, Enumerator
    <3>5. Place(tool, Table[9]) = 8 /\ Place(tool, Table[10]) = 9
      BY <1>5, <3>1 DEF SignOptions, Place, file_path_t, Enumerator
    <3> QED
      BY <3>1, <3>2, <3>3, <3>4, <3>5
  <2> QED
    BY <1>2, <1>3, <2>1
<1> QED
  BY <1>2, <1>4, <1>5 DEF Tool, Reach

\* The words that are no command and the request for help are none.
LEMMA Commands == ASSUME tool \in Tool PROVE {"?", "-help", "help"} \intersect Command = {}
<1>1. CASE tool = "host"
  BY <1>1 DEF Command, Flag, HostFlag
<1>2. CASE tool = "sign_tool"
  BY <1>2 DEF Command, Flag, SignFlag
<1> QED
  BY <1>1, <1>2 DEF Tool

\* Of a whole line, the parser's checks are those of the usage text.
LEMMA ChecksDecide ==
  ASSUME LineType, NEW m \in Nat, ReadTo(m)
  PROVE  /\ WellFormed <=> FlagsKept /\ PathsDiffer
         /\ argv # <<"-help">> /\ argv # <<>>
<1>1. Pairs = m /\ Len(argv) % 2 = 1
  BY DEF Pairs, ReadTo
<1>2. argv # <<>> /\ argv # <<"-help">>
  BY Commands DEF ReadTo, LineType
<1>3. \A k \in 1 .. m : argv[2 * k] \in Option /\ argv[2 * k + 1] \in Paths
                        /\ value[argv[2 * k]] = argv[2 * k + 1] /\ value[argv[2 * k]] # NoPath
  BY WordsAssumption DEF ReadTo
<1> DEFINE given == {argv[2 * k] : k \in 1 .. m}
<1>4. \A o \in Option : o \in given <=> value[o] # NoPath
  <2>1. ASSUME NEW o \in Option, o \in given PROVE value[o] # NoPath
    BY <1>3, <2>1
  <2>2. ASSUME NEW o \in Option, value[o] # NoPath PROVE o \in given
    <3>1. \E k \in 1 .. m : argv[2 * k] = o
      BY <2>2 DEF ReadTo
    <3> QED
      BY <3>1
  <2> QED
    BY <2>1, <2>2
<1>5. FlagsKept <=> /\ {o \in Option : Flag[tool][argv[1]][o] = PAR_REQUIRED} \subseteq given
                    /\ \A o \in given : Flag[tool][argv[1]][o] # PAR_INVALID
  <2>1. given \subseteq Option
    BY <1>3
  <2> QED
    BY <1>4, <2>1 DEF FlagsKept, command
<1>6. PathsDiffer <=> \A k, n \in 1 .. m : k # n => argv[2 * k + 1] # argv[2 * n + 1]
  <2>1. ASSUME PathsDiffer, NEW k \in 1 .. m, NEW n \in 1 .. m, argv[2 * k + 1] = argv[2 * n + 1]
        PROVE  k = n
    <3>1. PICK r \in 1 .. Len(Table) : Table[r] = argv[2 * k]
      BY <1>3, Rows1 DEF LineType
    <3>2. PICK t \in 1 .. Len(Table) : Table[t] = argv[2 * n]
      BY <1>3, Rows1 DEF LineType
    <3>3. value[Table[r]] = value[Table[t]] /\ value[Table[r]] # NoPath
      BY <1>3, <2>1, <3>1, <3>2
    <3>4. r = t
      <4>1. \A x \in 1 .. Len(Table) : \A y \in x + 1 .. Len(Table) :
                ~(value[Table[x]] # NoPath /\ value[Table[x]] = value[Table[y]])
        BY <2>1, Zenon DEF PathsDiffer, Table
      <4>2. Len(Table) \in Nat
        BY Rows1 DEF LineType
      <4>3. ~(r < t)
        <5>1. r < t => t \in r + 1 .. Len(Table)
          BY <4>2
        <5> QED
          BY <3>3, <4>1, <5>1, Zenon
      <4>4. ~(t < r)
        <5>1. t < r => r \in t + 1 .. Len(Table)
          BY <4>2
        <5>2. value[Table[t]] # NoPath /\ value[Table[t]] = value[Table[r]]
          BY <3>3, Zenon
        <5> QED
          BY <4>1, <5>1, <5>2, Zenon
      <4> QED
        BY <4>2, <4>3, <4>4
    <3> QED
      BY <3>1, <3>2, <3>4 DEF ReadTo
  <2>2. ASSUME \A k, n \in 1 .. m : k # n => argv[2 * k + 1] # argv[2 * n + 1] PROVE PathsDiffer
    <3> SUFFICES ASSUME NEW r \in 1 .. Len(Table), NEW t \in r + 1 .. Len(Table),
                        value[Table[r]] # NoPath, value[Table[r]] = value[Table[t]]
                 PROVE  FALSE
      BY DEF PathsDiffer, Table
    <3>1. t \in 1 .. Len(Table) /\ r # t
      BY Rows1 DEF LineType
    <3>2. Table[r] \in Option /\ Table[t] \in Option /\ Table[r] # Table[t]
      BY <3>1, Rows1 DEF LineType
    <3>3. PICK k \in 1 .. m : argv[2 * k] = Table[r]
      BY <3>2 DEF ReadTo
    <3>4. PICK n \in 1 .. m : argv[2 * n] = Table[t]
      BY <3>2 DEF ReadTo
    <3>5. k # n /\ argv[2 * k + 1] = argv[2 * n + 1]
      BY <1>3, <3>2, <3>3, <3>4
    <3> QED
      BY <2>2, <3>5
  <2> QED
    BY <2>1, <2>2
<1>7. given = {Named(k) : k \in 1 .. Pairs}
  BY <1>1 DEF Named
<1> HIDE DEF given
<1>8. WellFormed <=> /\ \A k, n \in 1 .. m : k # n => argv[2 * k + 1] # argv[2 * n + 1]
                     /\ {o \in Option : Flag[tool][argv[1]][o] = PAR_REQUIRED} \subseteq given
                     /\ \A o \in given : Flag[tool][argv[1]][o] # PAR_INVALID
  <2>1. argv[1] \in Command /\ \A k, n \in 1 .. m : k # n => argv[2 * k] # argv[2 * n]
    BY DEF ReadTo
  <2> QED
    BY <1>1, <1>2, <1>3, <1>7, <2>1 DEF WellFormed, Named
<1> QED
  BY <1>2, <1>5, <1>6, <1>8

-----------------------------------------------------------------------------
LEMMA LineInitInv == LineInit => LineInv
<1> SUFFICES ASSUME LineInit PROVE LineInv
  OBVIOUS
<1>1. LineType
  BY DEF LineInit, LineType
<1> QED
  BY <1>1 DEF LineInit, LineInv, AcceptsTheUsage, Delivered

\* Before the first word and after it.
LEMMA FirstWord ==
  ASSUME LineInv, NoCommand \/ Help \/ UnknownCommand \/ MatchCommand
  PROVE  LineInv'
<1> USE DEF LineInv, Delivered
<1>1. /\ argv = <<>> /\ ret = "none" /\ UNCHANGED <<tool, value, path>>
      /\ tool \in Tool /\ value \in [Option -> Paths \cup {NoPath}] /\ path' = Empty
  BY DEF NoCommand, Help, UnknownCommand, MatchCommand, Give, LineType
<1>2. Option' = Option /\ Command' = Command /\ Word' = Word
  BY <1>1 DEF Option, Command, Word
<1>3. CASE NoCommand
  <2>1. argv' = <<>> /\ ret' = "false"
    BY <1>1, <1>3 DEF NoCommand, Give
  <2>2. LineType'
    BY <1>1, <1>2, <2>1 DEF LineType
  <2>3. AcceptsTheUsage'
    BY <2>1 DEF AcceptsTheUsage, WellFormed
  <2> QED
    BY <1>1, <2>1, <2>2, <2>3
<1>4. CASE Help
  <2>1. argv' = <<"-help">> /\ ret' = "true" /\ mode' = "help"
    BY <1>4 DEF Help
  <2>2. LineType'
    BY <1>1, <1>2, <2>1 DEF LineType, Word
  <2> QED
    BY <1>1, <2>1, <2>2 DEF AcceptsTheUsage
<1>5. CASE UnknownCommand
  <2>1. argv' = <<"?">> /\ ret' = "false"
    BY <1>5 DEF UnknownCommand, Give
  <2>2. LineType'
    BY <1>1, <1>2, <2>1 DEF LineType, Word
  <2>3. ~WellFormed'
    BY <1>1, <1>2, <2>1, Commands DEF WellFormed
  <2> QED
    BY <1>1, <2>1, <2>2, <2>3 DEF AcceptsTheUsage
<1>6. CASE MatchCommand
  <2>1. PICK c \in Command : argv' = <<c>>
    BY <1>6 DEF MatchCommand
  <2>2. ret' = "none" /\ argv' # <<>>
    BY <1>1, <1>6, <2>1 DEF MatchCommand
  <2>3. LineType'
    BY <1>1, <1>2, <2>1, <2>2 DEF LineType, Word
  <2>4. \A o \in Option : value[o] = NoPath
    BY <1>1 DEF ReadSoFar, ReadTo
  <2>5. ReadTo(0)'
    BY <1>1, <1>2, <2>1, <2>4 DEF ReadTo
  <2>6. ReadSoFar'
    BY <2>5 DEF ReadSoFar
  <2>7. AcceptsTheUsage'
    BY <2>2 DEF AcceptsTheUsage
  <2> QED
    BY <1>1, <2>2, <2>3, <2>6, <2>7
<1> QED
  BY <1>3, <1>4, <1>5, <1>6

\* While words are read, what the model can do with the next ones.
LEMMA TakeOptionInv ==
  ASSUME LineInv, NEW o \in Option, NEW v \in Paths, TakeOption(o, v)
  PROVE  LineInv'
<1>1. PICK m \in Nat : ReadTo(m)
  BY DEF LineInv, TakeOption, Reading, ReadSoFar
<1>2. LineType
  BY DEF LineInv
<1>3. Option' = Option /\ Command' = Command /\ Word' = Word
  BY DEF TakeOption, Option, Command, Word
<1>4. /\ argv' \in Seq(Word) /\ Len(argv') = 2 * (m + 1) + 1
      /\ \A k \in 1 .. 2 * m + 1 : argv'[k] = argv[k]
      /\ argv'[2 * m + 2] = o /\ argv'[2 * m + 3] = v
  <2>1. o \in Word /\ v \in Word /\ argv \in Seq(Word) /\ Len(argv) = 2 * m + 1
    BY <1>1, <1>2 DEF Word, LineType, ReadTo
  <2> HIDE DEF Word
  <2>2. argv' = argv \o <<o, v>>
    BY DEF TakeOption
  <2>3. /\ argv' \in Seq(Word) /\ Len(argv') = Len(argv) + 2
        /\ \A k \in 1 .. Len(argv) : argv'[k] = argv[k]
        /\ argv'[Len(argv) + 1] = o /\ argv'[Len(argv) + 2] = v
    <3>1. /\ argv \o <<o, v>> \in Seq(Word) /\ Len(argv \o <<o, v>>) = Len(argv) + 2
          /\ \A k \in 1 .. Len(argv) : (argv \o <<o, v>>)[k] = argv[k]
          /\ (argv \o <<o, v>>)[Len(argv) + 1] = o /\ (argv \o <<o, v>>)[Len(argv) + 2] = v
      BY <2>1, TwoMore
    <3> QED
      BY <2>2, <3>1
  <2> QED
    BY <2>1, <2>3
<1>5. \A q \in Option : value'[q] = IF q = o THEN v ELSE value[q]
  BY <1>2 DEF TakeOption, LineType
<1>6. LineType'
  BY <1>2, <1>3, <1>4 DEF LineType, TakeOption
<1>7. \A k \in 1 .. m : argv'[2 * k] = argv[2 * k] /\ argv'[2 * k + 1] = argv[2 * k + 1] /\ argv[2 * k] # o
  <2> SUFFICES ASSUME NEW k \in 1 .. m
               PROVE  argv'[2 * k] = argv[2 * k] /\ argv'[2 * k + 1] = argv[2 * k + 1] /\ argv[2 * k] # o
    OBVIOUS
  <2>1. 2 * k \in 1 .. 2 * m + 1 /\ 2 * k + 1 \in 1 .. 2 * m + 1
    OBVIOUS
  <2>2. value[argv[2 * k]] \in Paths
    BY <1>1 DEF ReadTo
  <2> QED
    BY <1>4, <2>1, <2>2, WordsAssumption DEF TakeOption
<1>8. ReadTo(m + 1)'
  <2>1. Len(argv') = 2 * (m + 1) + 1 /\ argv'[1] \in Command'
    BY <1>1, <1>3, <1>4 DEF ReadTo
  <2>2. ASSUME NEW k \in 1 .. m + 1
        PROVE  /\ argv'[2 * k] \in Option' /\ argv'[2 * k + 1] \in Paths
               /\ value'[argv'[2 * k]] = argv'[2 * k + 1]
    <3>1. CASE k \in 1 .. m
      <4>1. argv[2 * k] \in Option /\ argv[2 * k + 1] \in Paths /\ value[argv[2 * k]] = argv[2 * k + 1]
        BY <1>1, <3>1 DEF ReadTo
      <4> QED
        BY <1>3, <1>5, <1>7, <3>1, <4>1
    <3>2. CASE k = m + 1
      <4>1. argv'[2 * k] = o /\ argv'[2 * k + 1] = v
        BY <1>4, <3>2
      <4> QED
        BY <1>3, <1>5, <4>1
    <3> QED
      BY <3>1, <3>2
  <2>3. ASSUME NEW k \in 1 .. m + 1, NEW n \in 1 .. m + 1, argv'[2 * k] = argv'[2 * n]
        PROVE  k = n
    <3>1. argv'[2 * (m + 1)] = o
      BY <1>4
    <3>2. CASE k \in 1 .. m /\ n \in 1 .. m
      BY <1>1, <1>7, <2>3, <3>2 DEF ReadTo
    <3>3. CASE k = m + 1 /\ n \in 1 .. m
      BY <1>7, <2>3, <3>1, <3>3
    <3>4. CASE n = m + 1 /\ k \in 1 .. m
      BY <1>7, <2>3, <3>1, <3>4
    <3> QED
      BY <3>2, <3>3, <3>4
  <2>4. ASSUME NEW q \in Option, value'[q] # NoPath
        PROVE  \E k \in 1 .. m + 1 : argv'[2 * k] = q
    <3>1. CASE q = o
      <4>1. argv'[2 * (m + 1)] = q /\ m + 1 \in 1 .. m + 1
        BY <1>4, <3>1
      <4> QED
        BY <4>1
    <3>2. CASE q # o
      <4>1. value[q] # NoPath
        BY <1>5, <2>4, <3>2
      <4>2. PICK k \in 1 .. m : argv[2 * k] = q
        BY <1>1, <4>1 DEF ReadTo
      <4>3. argv'[2 * k] = q /\ k \in 1 .. m + 1
        BY <1>7, <4>2
      <4> QED
        BY <4>3
    <3> QED
      BY <3>1, <3>2
  <2> QED
    BY <1>3, <2>1, <2>2, <2>3, <2>4 DEF ReadTo
<1>9. ReadSoFar' /\ ret' = "none"
  BY <1>8 DEF ReadSoFar, TakeOption, Reading
<1>10. path' = Empty
  BY DEF LineInv, TakeOption, Reading, Delivered
<1> QED
  BY <1>6, <1>9, <1>10 DEF LineInv, AcceptsTheUsage, Delivered

\* A line that is refused while its words are read is none the usage text
\* describes: it repeats an option, or ends in one, or has a word that is none.
LEMMA RefusedWord ==
  ASSUME LineInv, Reading,
         \/ \E o \in Option, v \in Paths : Repeated(o, v)
         \/ \E o \in Option : NoValue(o)
         \/ UnknownOption
  PROVE  LineInv'
<1>1. PICK m \in Nat : ReadTo(m)
  BY DEF LineInv, Reading, ReadSoFar
<1>2. LineType /\ argv \in Seq(Word) /\ Len(argv) = 2 * m + 1
  BY <1>1 DEF LineInv, LineType, ReadTo
<1>3. UNCHANGED <<tool, value, mode, path>> /\ ret' = "false"
  BY DEF Repeated, NoValue, UnknownOption, Give
<1>4. Option' = Option /\ Command' = Command /\ Word' = Word
  BY <1>3 DEF Option, Command, Word
<1>5. "?" \in Word /\ "-image" \in Word /\ Option \subseteq Word /\ Paths \subseteq Word
  BY DEF Word
<1> HIDE DEF Word
<1>6. argv' \in Seq(Word) /\ ~WellFormed' /\ argv' # <<"-help">>
  <2>1. ASSUME NEW o \in Option, NEW v \in Paths, Repeated(o, v)
        PROVE  argv' \in Seq(Word) /\ ~WellFormed' /\ argv' # <<"-help">>
    <3>1. /\ argv' \in Seq(Word) /\ Len(argv') = 2 * (m + 1) + 1
          /\ \A k \in 1 .. 2 * m + 1 : argv'[k] = argv[k]
          /\ argv'[2 * m + 2] = o
      <4>1. argv' = argv \o <<o, v>> /\ o \in Word /\ v \in Word /\ argv \in Seq(Word)
        BY <1>2, <1>5, <2>1 DEF Repeated
      <4>2. /\ argv' \in Seq(Word) /\ Len(argv') = Len(argv) + 2
            /\ \A k \in 1 .. Len(argv) : argv'[k] = argv[k]
            /\ argv'[Len(argv) + 1] = o
        BY <4>1
      <4> QED
        BY <1>2, <4>2
    <3>2. PICK k \in 1 .. m : argv[2 * k] = o
      BY <1>1, <2>1 DEF ReadTo, Repeated
    <3>3. argv'[2 * k] = o /\ argv'[2 * (m + 1)] = o
      BY <3>1, <3>2
    <3>4. Pairs' = m + 1 /\ k \in 1 .. m + 1 /\ m + 1 \in 1 .. m + 1 /\ k # m + 1
      BY <3>1 DEF Pairs
    <3>5. ~WellFormed'
      BY <3>3, <3>4 DEF WellFormed, Named
    <3> QED
      BY <3>1, <3>5
  <2>2. ASSUME NEW o \in Word, argv' = argv \o <<o>>
        PROVE  argv' \in Seq(Word) /\ ~WellFormed' /\ argv' # <<"-help">>
    <3>1. argv' \in Seq(Word) /\ Len(argv') = 2 * m + 2 /\ argv'[1] = argv[1]
      BY <1>2, <2>2, OneMore
    <3>2. Len(argv') % 2 = 0
      BY <3>1
    <3>3. ~WellFormed'
      BY <3>2 DEF WellFormed
    <3>4. argv' # <<"-help">>
      BY <3>1
    <3> QED
      BY <3>1, <3>3, <3>4
  <2>3. ASSUME NEW o \in Word, argv' = argv \o <<o, "-image">>
        PROVE  argv' \in Seq(Word) /\ ~WellFormed' /\ argv' # <<"-help">>
    <3>1. argv' \in Seq(Word) /\ Len(argv') = 2 * (m + 1) + 1 /\ argv'[2 * (m + 1) + 1] = "-image"
      <4>1. argv' \in Seq(Word) /\ Len(argv') = Len(argv) + 2 /\ argv'[Len(argv) + 2] = "-image"
        BY <1>2, <1>5, <2>3
      <4> QED
        BY <1>2, <4>1
    <3>2. Pairs' = m + 1 /\ m + 1 \in 1 .. m + 1
      BY <3>1 DEF Pairs
    <3>3. ~WellFormed'
      BY <3>1, <3>2, WordsAssumption DEF WellFormed
    <3> QED
      BY <3>1, <3>3
  <2> QED
    BY <1>5, <2>1, <2>2, <2>3 DEF NoValue, UnknownOption
<1>7. LineType'
  BY <1>2, <1>3, <1>4, <1>6 DEF LineType
<1>8. AcceptsTheUsage'
  BY <1>3, <1>6 DEF AcceptsTheUsage
<1> QED
  BY <1>3, <1>7, <1>8 DEF LineInv, Delivered, Reading

\* The whole line is read.
LEMMA RefuseInv == ASSUME LineInv, Refuse PROVE LineInv'
<1>1. PICK m \in Nat : ReadTo(m)
  BY DEF LineInv, Refuse, Reading, ReadSoFar
<1>2. LineType /\ ~WellFormed /\ argv # <<"-help">>
  BY <1>1, ChecksDecide DEF LineInv, Refuse
<1>3. UNCHANGED <<tool, argv, value, mode, path>> /\ ret' = "false"
  BY DEF Refuse, Give
<1>4. LineType'
  BY <1>2, <1>3 DEF LineType, Word, Option, Command
<1>5. ~WellFormed'
  BY <1>2, <1>3 DEF WellFormed, Pairs, Named, Option, Command
<1>6. AcceptsTheUsage'
  BY <1>2, <1>3, <1>5 DEF AcceptsTheUsage
<1> QED
  BY <1>3, <1>4, <1>6 DEF LineInv, Delivered, Refuse, Reading

LEMMA AcceptInv == ASSUME LineInv, Accept PROVE LineInv'
<1>1. PICK m \in Nat : ReadTo(m)
  BY DEF LineInv, Accept, Reading, ReadSoFar
<1>2. LineType /\ WellFormed
  BY <1>1, ChecksDecide DEF LineInv, Accept
<1>3. UNCHANGED <<tool, argv, value>> /\ ret' = "true"
  BY DEF Accept
<1>4. LineType'
  BY <1>2, <1>3 DEF LineType, Word, Option, Command
<1>5. WellFormed'
  BY <1>2, <1>3 DEF WellFormed, Pairs, Named, Option, Command
<1>6. AcceptsTheUsage'
  BY <1>3, <1>5 DEF AcceptsTheUsage
<1>7. ReadSoFar'
  <2>1. ReadTo(m)'
    BY <1>1, <1>3 DEF ReadTo, Option, Command
  <2> QED
    BY <2>1 DEF ReadSoFar
<1>8. Filled'
  <2>1. Len(Table) \in 0 .. Reach /\ path = Empty /\ tool \in Tool
    BY <1>2, Rows1 DEF LineType, LineInv, Delivered, Accept, Reading
  <2>2. DOMAIN path = 0 .. Reach - 1 /\ DOMAIN Written = 0 .. Len(Table) - 1
    BY <2>1 DEF Empty, Written, Table
  <2>3. ASSUME NEW r \in 1 .. Len(Table) PROVE path'[r - 1] = value[Table[r]]
    <3>1. r - 1 \in DOMAIN path /\ r - 1 \in DOMAIN Written
      BY <2>1, <2>2 DEF Reach
    <3>2. path'[r - 1] = Written[r - 1]
      BY <3>1 DEF Accept
    <3>3. Written[r - 1] = value[Table[r]]
      BY <2>1 DEF Written, Table
    <3> QED
      BY <3>2, <3>3
  <2>4. ASSUME NEW a \in Len(Table) .. Reach - 1 PROVE path'[a] = Empty[a]
    <3>1. a \in DOMAIN path /\ a \notin DOMAIN Written
      BY <2>1, <2>2
    <3> QED
      BY <2>1, <3>1 DEF Accept
  <2> QED
    BY <1>3, <2>3, <2>4 DEF Filled, Table
<1>9. Delivered'
  <2>1. mode' = command /\ command # "help"
    BY <1>1, <1>2, Commands DEF Accept, command, ReadTo, LineType
  <2> QED
    BY <1>3, <2>1 DEF Delivered
<1> QED
  BY <1>3, <1>4, <1>6, <1>7, <1>8, <1>9 DEF LineInv

LEMMA LineStep == LineInv /\ [LineNext]_lineVars => LineInv'
<1> SUFFICES ASSUME LineInv, [LineNext]_lineVars PROVE LineInv'
  OBVIOUS
<1>1. CASE NoCommand \/ Help \/ UnknownCommand \/ MatchCommand
  BY <1>1, FirstWord
<1>2. ASSUME NEW o \in Option, NEW v \in Paths, TakeOption(o, v) PROVE LineInv'
  BY <1>2, TakeOptionInv
<1>3. ASSUME \/ \E o \in Option, v \in Paths : Repeated(o, v)
             \/ \E o \in Option : NoValue(o)
             \/ UnknownOption
      PROVE  LineInv'
  <2>1. Reading
    BY <1>3 DEF Repeated, NoValue, UnknownOption
  <2> QED
    BY <1>3, <2>1, RefusedWord
<1>4. CASE Refuse
  BY <1>4, RefuseInv
<1>5. CASE Accept
  BY <1>5, AcceptInv
<1>6. CASE UNCHANGED lineVars
  <2>1. UNCHANGED <<tool, argv, value, ret, mode, path>>
    BY <1>6 DEF lineVars
  <2>2. LineType' /\ (ReadSoFar => ReadSoFar') /\ Option' = Option
    BY <2>1 DEF LineInv, LineType, Word, Option, Command, ReadSoFar, ReadTo
  <2>3. AcceptsTheUsage'
    <3>1. WellFormed' <=> WellFormed
      BY <2>1 DEF WellFormed, Pairs, Named, Option, Command
    <3> QED
      BY <2>1, <3>1 DEF LineInv, AcceptsTheUsage
  <2>4. Filled => Filled'
    BY <2>1 DEF Filled, Table
  <2> QED
    BY <2>1, <2>2, <2>3, <2>4 DEF LineInv, Delivered
<1> QED
  BY <1>1, <1>2, <1>3, <1>4, <1>5, <1>6 DEF LineNext

\* host.c and sign_tool.c: on either's tables cmdline_parse accepts exactly the
\* command lines of the usage text and the request for help.
THEOREM AcceptsTheUsageCorrect == LineSpec => []AcceptsTheUsage
<1>1. LineInv => AcceptsTheUsage
  BY DEF LineInv
<1> QED
  BY <1>1, LineInitInv, LineStep, PTL DEF LineSpec

\* What the caller finds under the enumerator of an option.
LEMMA ValueFound == ASSUME LineInv, Delivered, NEW o \in Option PROVE path[Place(tool, o)] = Typed(o)
<1>1. PICK m \in Nat : ReadTo(m)
  BY DEF LineInv, ReadSoFar
<1>2. Pairs = m
  BY <1>1 DEF Pairs, ReadTo
<1>3. PICK r \in 1 .. Len(Table) : Table[r] = o
  BY Rows1 DEF LineInv, LineType
<1>4. Place(tool, o) = r - 1
  BY <1>3, Rows1 DEF LineInv, LineType
<1>5. path[Place(tool, o)] = value[o]
  BY <1>3, <1>4 DEF LineInv, Filled
<1>6. CASE \E k \in 1 .. m : argv[2 * k] = o
  <2> DEFINE k == CHOOSE n \in 1 .. m : argv[2 * n] = o
  <2>1. k \in 1 .. m /\ argv[2 * k] = o
    BY <1>6
  <2>2. value[o] = argv[2 * k + 1]
    BY <1>1, <2>1 DEF ReadTo
  <2> QED
    BY <1>2, <1>5, <1>6, <2>2 DEF Named, Typed
<1>7. CASE ~ \E k \in 1 .. m : argv[2 * k] = o
  <2>1. value[o] = NoPath
    BY <1>1, <1>7 DEF ReadTo
  <2> QED
    BY <1>2, <1>5, <1>7, <2>1 DEF Named, Typed
<1> QED
  BY <1>6, <1>7

\* host.c:190-193, sign_tool.c:268-271: under the enumerator of an option the
\* caller reads the word that followed it, in whatever order the options came and
\* although the last two of sign_tool lie behind its array; nothing else is written.
THEOREM PathsAsTypedCorrect == LineSpec => []PathsAsTyped
<1>1. LineInv => PathsAsTyped
  <2> SUFFICES ASSUME LineInv PROVE PathsAsTyped
    OBVIOUS
  <2>1. tool \in Tool /\ Len(Table) \in 0 .. Reach
    BY Rows1 DEF LineInv, LineType
  <2>2. ASSUME Delivered, NEW o \in Option PROVE path[Place(tool, o)] = Typed(o)
    BY <2>2, ValueFound
  <2>3. ASSUME NEW a \in 0 .. Reach - 1, ~Delivered \/ (\A o \in Option : Place(tool, o) # a)
        PROVE  path[a] = Empty[a]
    <3>1. CASE ~Delivered
      BY <3>1 DEF LineInv
    <3>2. CASE Delivered
      <4>1. \A r \in 1 .. Len(Table) : r - 1 # a
        BY <2>1, <2>3, <3>2, Rows1
      <4>2. a \in Len(Table) .. Reach - 1
        <5>1. ~(a + 1 \in 1 .. Len(Table))
          BY <4>1
        <5> QED
          BY <2>1, <5>1
      <4> QED
        BY <3>2, <4>2 DEF LineInv, Filled
    <3> QED
      BY <3>1, <3>2
  <2> QED
    BY <2>2, <2>3 DEF PathsAsTyped
<1> QED
  BY <1>1, LineInitInv, LineStep, PTL DEF LineSpec
-----------------------------------------------------------------------------
(* The key that is read out of the text of OpenSSL.                            *)
\* The text of the last bytes, one byte after the other.
Bits(bytes, m) == Hex(bytes[Len(bytes) - m + 1]) \o Ending(Len(bytes) - m + 1, Len(bytes))

\* They are a sequence of their own for every number of bytes.
Longer(bytes, m, t) == Bits(bytes, m) \o t

LEMMA TextExists ==
  ASSUME NEW bytes, NEW N \in Nat
  PROVE  \E g : g = [m \in 0 .. N |-> IF m = 0 THEN <<>> ELSE Longer(bytes, m, g[m - 1])]
<1> DEFINE S == {n \in Nat : \E g : g = [m \in 0 .. n |-> IF m = 0 THEN <<>> ELSE Longer(bytes, m, g[m - 1])]}
<1>1. 0 \in S
  <2>1. [m \in 0 .. 0 |-> <<>>]
        = [m \in 0 .. 0 |-> IF m = 0 THEN <<>> ELSE Longer(bytes, m, [j \in 0 .. 0 |-> <<>>][m - 1])]
    OBVIOUS
  <2> QED
    BY <2>1
<1>2. ASSUME NEW n \in Nat, n \in S PROVE n + 1 \in S
  <2>1. PICK g : g = [m \in 0 .. n |-> IF m = 0 THEN <<>> ELSE Longer(bytes, m, g[m - 1])]
    BY <1>2
  <2> DEFINE h == [m \in 0 .. n + 1 |-> IF m = n + 1 THEN Longer(bytes, m, g[n]) ELSE g[m]]
  <2>2. h = [m \in 0 .. n + 1 |-> IF m = 0 THEN <<>> ELSE Longer(bytes, m, h[m - 1])]
    BY <2>1
  <2> HIDE DEF h
  <2> QED
    BY <2>2
<1>3. Nat \subseteq S
  <2> HIDE DEF S
  <2> QED
    BY <1>1, <1>2, SetInduction
<1> QED
  BY <1>3

LEMMA TextIs ==
  ASSUME NEW bytes, Len(bytes) \in Nat
  PROVE  /\ TextOfLast(bytes)[0] = <<>>
         /\ \A m \in 1 .. Len(bytes) : TextOfLast(bytes)[m] = Bits(bytes, m) \o TextOfLast(bytes)[m - 1]
<1> DEFINE n == Len(bytes)
           c == CHOOSE g : g = [m \in 0 .. n |-> IF m = 0 THEN <<>>
                                  ELSE Hex(bytes[n - m + 1]) \o Ending(n - m + 1, n) \o g[m - 1]]
<1>1. TextOfLast(bytes) = c
  BY Zenon DEF TextOfLast
<1>2. \E g : g = [m \in 0 .. n |-> IF m = 0 THEN <<>>
                    ELSE Hex(bytes[n - m + 1]) \o Ending(n - m + 1, n) \o g[m - 1]]
  BY TextExists, Zenon DEF Longer, Bits
<1>3. c = [m \in 0 .. n |-> IF m = 0 THEN <<>>
             ELSE Hex(bytes[n - m + 1]) \o Ending(n - m + 1, n) \o c[m - 1]]
  BY <1>2, Zenon
<1> HIDE DEF c
<1>4. c[0] = <<>>
  BY <1>3
<1>5. \A m \in 1 .. n : c[m] = Bits(bytes, m) \o c[m - 1]
  BY <1>3 DEF Bits
<1> QED
  BY <1>1, <1>4, <1>5

-----------------------------------------------------------------------------
Octet == 0 .. Base * Base - 1
Char == Range(Digits) \cup Separator

\* A byte is its two digits.
LEMMA TwoDigits ==
  ASSUME NEW x \in Octet
  PROVE  /\ x \div Base \in 0 .. Base - 1 /\ x % Base \in 0 .. Base - 1
         /\ ((x \div Base) * Base + (x % Base)) % (Base * Base) = x
         /\ (0 * Base + (x \div Base)) % (Base * Base) = x \div Base
<1> DEFINE c == Base
           q == x \div c
           r == x % c
<1>1. c \in Nat \ {0} /\ c * c \in Nat \ {0} /\ c <= c * c
  BY DigitsAssumption DEF Base
<1>2. x \in Nat /\ x < c * c
  BY <1>1 DEF Octet
<1>3. q \in Nat /\ r \in 0 .. c - 1 /\ x = c * q + r
  BY <1>1, <1>2
<1> HIDE DEF c, q, r
<1>4. q < c
  BY <1>1, <1>2, <1>3
<1>5. q * c + r = x
  BY <1>1, <1>3
<1>6. x % (c * c) = x
  BY <1>1, <1>2
<1>7. q % (c * c) = q
  BY <1>1, <1>3, <1>4
<1>8. 0 * c + q = q
  BY <1>1, <1>3
<1>9. q \in 0 .. c - 1
  BY <1>1, <1>3, <1>4
<1>10. (q * c + r) % (c * c) = x /\ (0 * c + q) % (c * c) = q
  BY <1>5, <1>6, <1>7, <1>8
<1> QED
  BY <1>3, <1>9, <1>10 DEF c, q, r

\* A digit is read as its value.
LEMMA DigitReads ==
  ASSUME NEW d \in 0 .. Base - 1
  PROVE  /\ DigitOf(d) \in Range(Digits) /\ DigitOf(d) \notin Separator
         /\ ValueOf(DigitOf(d)) = d
<1>1. Base \in Nat /\ DOMAIN Digits = 1 .. Base /\ d + 1 \in 1 .. Base
  BY DigitsAssumption DEF Base
<1>2. DigitOf(d) \in Range(Digits)
  BY <1>1 DEF DigitOf, Range
<1>3. DigitOf(d) \notin Separator
  BY <1>2, DigitsAssumption
<1>4. ValueOf(DigitOf(d)) = d
  <2> DEFINE e == CHOOSE c \in DOMAIN Digits : Digits[c] = Digits[d + 1]
  <2>1. e \in 1 .. Base /\ Digits[e] = Digits[d + 1]
    BY <1>1
  <2>2. e = d + 1
    BY <1>1, <2>1, DigitsAssumption
  <2>3. ValueOf(DigitOf(d)) = e - 1
    BY Zenon DEF ValueOf, DigitOf
  <2>4. d \in Nat
    BY <1>1
  <2> HIDE DEF e
  <2> QED
    BY <2>2, <2>3, <2>4
<1> QED
  BY <1>2, <1>3, <1>4

\* What is printed for a byte.
LEMMA BytePrinted ==
  ASSUME NEW x \in Octet, NEW k, NEW n
  PROVE  /\ Hex(x) \in Seq(Char) /\ Len(Hex(x)) = 2
         /\ Hex(x)[1] = DigitOf(x \div Base) /\ Hex(x)[2] = DigitOf(x % Base)
         /\ Ending(k, n) \in Seq(Separator) /\ Len(Ending(k, n)) > 0
<1>1. DigitOf(x \div Base) \in Char /\ DigitOf(x % Base) \in Char
  BY TwoDigits, DigitReads DEF Char
<1>2. Hex(x) \in Seq(Char) /\ Len(Hex(x)) = 2
  BY <1>1 DEF Hex
<1>3. Hex(x)[1] = DigitOf(x \div Base) /\ Hex(x)[2] = DigitOf(x % Base)
  BY DEF Hex
<1>4. CASE k = n
  BY <1>2, <1>3, <1>4 DEF Ending, Separator
<1>5. CASE k # n /\ k % PerLine = 0
  <2>1. <<":", "newline">> \o Indent \in Seq(Separator) /\ Len(<<":", "newline">> \o Indent) = 6
    BY DEF Indent, Separator
  <2> QED
    BY <1>2, <1>3, <1>5, <2>1 DEF Ending
<1>6. CASE k # n /\ k % PerLine # 0
  BY <1>2, <1>3, <1>6 DEF Ending, Separator
<1> QED
  BY <1>4, <1>5, <1>6

LEMMA TextType ==
  ASSUME NEW bytes \in Seq(Octet)
  PROVE  \A m \in 0 .. Len(bytes) : TextOfLast(bytes)[m] \in Seq(Char)
<1> DEFINE n == Len(bytes)
           S == {m \in Nat : m <= n => TextOfLast(bytes)[m] \in Seq(Char)}
<1>1. n \in Nat
  OBVIOUS
<1>2. 0 \in S
  <2>1. TextOfLast(bytes)[0] = <<>>
    BY <1>1, TextIs
  <2>2. <<>> \in Seq(Char)
    OBVIOUS
  <2> QED
    BY <2>1, <2>2
<1>3. ASSUME NEW m \in Nat, m \in S PROVE m + 1 \in S
  <2> SUFFICES ASSUME m + 1 <= n PROVE TextOfLast(bytes)[m + 1] \in Seq(Char)
    OBVIOUS
  <2>1. m \in 0 .. n /\ m + 1 \in 1 .. n /\ n - (m + 1) + 1 \in 1 .. n
    BY <1>1
  <2>2. TextOfLast(bytes)[m] \in Seq(Char)
    BY <1>3, <2>1
  <2>3. TextOfLast(bytes)[m + 1] = Bits(bytes, m + 1) \o TextOfLast(bytes)[(m + 1) - 1]
    BY <1>1, <2>1, TextIs
  <2>4. bytes[n - (m + 1) + 1] \in Octet
    BY <2>1
  <2>5. Bits(bytes, m + 1) \in Seq(Char)
    <3>1. Hex(bytes[n - (m + 1) + 1]) \in Seq(Char) /\ Ending(n - (m + 1) + 1, n) \in Seq(Char)
      BY <2>4, BytePrinted DEF Char
    <3> QED
      BY <3>1 DEF Bits
  <2>6. (m + 1) - 1 = m
    OBVIOUS
  <2> QED
    BY <2>2, <2>3, <2>5, <2>6
<1>4. Nat \subseteq S
  <2> HIDE DEF S
  <2> QED
    BY <1>2, <1>3, SetInduction
<1> QED
  BY <1>1, <1>4

-----------------------------------------------------------------------------
\* A piece of the text.
Piece(txt, p, s) == /\ p + Len(s) - 1 <= Len(txt)
                    /\ \A x \in 1 .. Len(s) : txt[p + x - 1] = s[x]

LEMMA Pieces ==
  ASSUME NEW S, NEW s \in Seq(S), NEW t \in Seq(S), NEW p \in Nat, Len(text) \in Nat, Piece(text, p, s \o t)
  PROVE  Piece(text, p, s) /\ Piece(text, p + Len(s), t)
<1>1. Len(s \o t) = Len(s) + Len(t) /\ Len(s) \in Nat /\ Len(t) \in Nat
  OBVIOUS
<1>2. Piece(text, p, s)
  <2>1. \A x \in 1 .. Len(s) : x \in 1 .. Len(s \o t) /\ (s \o t)[x] = s[x]
    BY <1>1
  <2> QED
    BY <1>1, <2>1 DEF Piece
<1>3. Piece(text, p + Len(s), t)
  <2> SUFFICES ASSUME NEW x \in 1 .. Len(t) PROVE text[p + Len(s) + x - 1] = t[x]
    BY <1>1 DEF Piece
  <2>1. Len(s) + x \in 1 .. Len(s \o t) /\ (s \o t)[Len(s) + x] = t[x]
    BY <1>1
  <2>2. text[p + (Len(s) + x) - 1] = (s \o t)[Len(s) + x]
    BY <2>1 DEF Piece
  <2>3. p + (Len(s) + x) - 1 = p + Len(s) + x - 1
    BY <1>1
  <2> QED
    BY <2>1, <2>2, <2>3
<1> QED
  BY <1>2, <1>3

Total == Len(Bytes)

\* The scan between two bytes, inside one and at its end, when k bytes are done.
AtGap(k) == /\ number_numbers = 0 /\ b = 0
            /\ \E gap \in Seq(Separator) : /\ Piece(text, i, gap)
                                           /\ Piece(text, i + Len(gap), TextOfLast(Bytes)[Total - k])
AfterOne(k) == /\ number_numbers = 1 /\ b = Bytes[k + 1] \div Base
               /\ i <= Len(text) /\ text[i] = DigitOf(Bytes[k + 1] % Base)
               /\ Piece(text, i + 1, Ending(k + 1, Total))
               /\ Piece(text, i + 1 + Len(Ending(k + 1, Total)), TextOfLast(Bytes)[Total - k - 1])
AfterBoth(k) == /\ number_numbers = 2 /\ b = Bytes[k + 1]
                /\ Piece(text, i, Ending(k + 1, Total))
                /\ Piece(text, i + Len(Ending(k + 1, Total)), TextOfLast(Bytes)[Total - k - 1])

\* The mark of a public key is no byte of the key.
Marks == IF public THEN 1 ELSE 0
Done(k) == /\ cur = IF k < Marks THEN 0 ELSE k - Marks
           /\ skip_z \in BOOLEAN /\ (k < Marks => ~skip_z) /\ (k >= Marks => skip_z)
           /\ out \in Seq(Octet) /\ Len(out) = cur
           /\ \A x \in 1 .. cur : out[x] = key[x]

KeyType == /\ key \in [1 .. KeySize -> Octet] /\ public \in BOOLEAN
           /\ Len(text) \in Nat /\ i \in Nat

At(k) == Done(k) /\ (k < Total => AtGap(k) \/ AfterOne(k) \/ AfterBoth(k))

KeyInv == KeyType /\ \E k \in 0 .. Total : At(k)

LEMMA BytesType ==
  ASSUME key \in [1 .. KeySize -> Octet], public \in BOOLEAN
  PROVE  /\ Bytes \in Seq(Octet) /\ Total = KeySize + Marks /\ Marks \in {0, 1}
         /\ \A x \in 1 .. KeySize : Bytes[x + Marks] = key[x]
<1>1. key \in Seq(Octet) /\ Len(key) = KeySize
  BY KeyAssumption
<1>2. Mark \in Octet /\ KeySize \in Nat
  BY KeyAssumption DEF Octet
<1>3. CASE public
  <2>1. Bytes = <<Mark>> \o key /\ Marks = 1
    BY <1>3 DEF Bytes, Marks
  <2>2. /\ <<Mark>> \o key \in Seq(Octet) /\ Len(<<Mark>> \o key) = 1 + KeySize
        /\ \A x \in 1 .. KeySize : (<<Mark>> \o key)[x + 1] = key[x]
    BY <1>1, <1>2
  <2> QED
    BY <1>2, <2>1, <2>2 DEF Total
<1>4. CASE ~public
  BY <1>1, <1>2, <1>4 DEF Bytes, Marks, Total
<1> QED
  BY <1>3, <1>4

\* The scan goes on along a piece.
LEMMA PieceOn ==
  ASSUME NEW S, NEW s \in Seq(S), s # <<>>, NEW p \in Nat, Len(text) \in Nat, Piece(text, p, s)
  PROVE  /\ p <= Len(text) /\ text[p] = s[1] /\ s[1] \in S
         /\ Tail(s) \in Seq(S) /\ Len(Tail(s)) = Len(s) - 1 /\ Piece(text, p + 1, Tail(s))
<1>1. Len(s) \in Nat \ {0} /\ Tail(s) \in Seq(S) /\ Len(Tail(s)) = Len(s) - 1 /\ s[1] \in S
  OBVIOUS
<1>2. \A x \in 1 .. Len(s) - 1 : Tail(s)[x] = s[x + 1]
  BY <1>1
<1>3. p <= Len(text) /\ text[p] = s[1]
  <2>1. 1 \in 1 .. Len(s) /\ p + 1 - 1 = p
    BY <1>1
  <2>2. text[p + 1 - 1] = s[1]
    BY <2>1 DEF Piece
  <2> QED
    BY <1>1, <2>1, <2>2 DEF Piece
<1>4. Piece(text, p + 1, Tail(s))
  <2> SUFFICES ASSUME NEW x \in 1 .. Len(s) - 1 PROVE text[p + 1 + x - 1] = Tail(s)[x]
    BY <1>1 DEF Piece
  <2>1. x + 1 \in 1 .. Len(s) /\ p + (x + 1) - 1 = p + 1 + x - 1
    BY <1>1
  <2>2. text[p + (x + 1) - 1] = s[x + 1]
    BY <2>1 DEF Piece
  <2> QED
    BY <1>2, <2>1, <2>2
<1> QED
  BY <1>1, <1>3, <1>4

\* The text of a byte that is to be read.
LEMMA NextByte ==
  ASSUME KeyType, NEW k \in 0 .. Total - 1, NEW p \in Nat, Piece(text, p, TextOfLast(Bytes)[Total - k])
  PROVE  /\ p + 1 <= Len(text)
         /\ text[p] = DigitOf(Bytes[k + 1] \div Base) /\ text[p + 1] = DigitOf(Bytes[k + 1] % Base)
         /\ Piece(text, p + 2, Ending(k + 1, Total))
         /\ Piece(text, p + 2 + Len(Ending(k + 1, Total)), TextOfLast(Bytes)[Total - k - 1])
<1> DEFINE hex == Hex(Bytes[k + 1])
           end == Ending(k + 1, Total)
           rest == TextOfLast(Bytes)[Total - k - 1]
<1>1. Bytes \in Seq(Octet) /\ Total \in Nat /\ Len(text) \in Nat
  BY BytesType DEF KeyType, Total
<1>2. Bytes[k + 1] \in Octet
  BY <1>1 DEF Total
<1>3. /\ hex \in Seq(Char) /\ Len(hex) = 2 /\ end \in Seq(Char) /\ Len(end) \in Nat
      /\ hex[1] = DigitOf(Bytes[k + 1] \div Base) /\ hex[2] = DigitOf(Bytes[k + 1] % Base)
  BY <1>2, BytePrinted DEF Char
<1>4. rest \in Seq(Char)
  <2>1. Total - k - 1 \in 0 .. Len(Bytes)
    BY <1>1 DEF Total
  <2> QED
    BY <1>1, <2>1, TextType
<1>5. TextOfLast(Bytes)[Total - k] = (hex \o end) \o rest
  <2>1. Total - k \in 1 .. Len(Bytes) /\ Len(Bytes) - (Total - k) + 1 = k + 1 /\ (Total - k) - 1 = Total - k - 1
    BY <1>1 DEF Total
  <2>2. TextOfLast(Bytes)[Total - k] = Bits(Bytes, Total - k) \o TextOfLast(Bytes)[(Total - k) - 1]
    BY <1>1, <2>1, TextIs DEF Total
  <2>3. Bits(Bytes, Total - k) = hex \o end
    BY <2>1 DEF Bits, Total
  <2> QED
    BY <2>1, <2>2, <2>3
<1> HIDE DEF hex, end, rest
<1>6. Piece(text, p, (hex \o end) \o rest)
  BY <1>5
<1>7. hex \o end \in Seq(Char) /\ Len(hex \o end) = 2 + Len(end)
  <2>1. hex \in Seq(Char) /\ end \in Seq(Char) /\ Len(hex) = 2
    BY <1>3
  <2>2. hex \o end \in Seq(Char) /\ Len(hex \o end) = Len(hex) + Len(end)
    BY <2>1, ConcatProperties
  <2> QED
    BY <2>1, <2>2
<1>8. Piece(text, p, hex \o end) /\ Piece(text, p + Len(hex \o end), rest)
  BY <1>1, <1>4, <1>6, <1>7, Pieces
<1>9. Piece(text, p, hex) /\ Piece(text, p + 2, end)
  BY <1>1, <1>3, <1>8, Pieces
<1>10. p + 2 - 1 <= Len(text) /\ text[p + 1 - 1] = hex[1] /\ text[p + 2 - 1] = hex[2]
  BY <1>3, <1>9 DEF Piece
<1>11. p + Len(hex \o end) = p + 2 + Len(end) /\ p + 1 - 1 = p /\ p + 2 - 1 = p + 1
  BY <1>3, <1>7
<1> QED
  BY <1>3, <1>8, <1>9, <1>10, <1>11 DEF hex, end, rest

LEMMA KeyInitInv == KeyInit => KeyInv
<1> SUFFICES ASSUME KeyInit PROVE KeyInv
  OBVIOUS
<1>1. key \in [1 .. KeySize -> Octet] /\ public \in BOOLEAN
  BY DEF KeyInit, Octet
<1>2. PICK tail \in Tails : text = Printed(Bytes) \o tail
  BY DEF KeyInit
<1>3. Bytes \in Seq(Octet) /\ Total \in Nat /\ Total = KeySize + Marks /\ Marks \in {0, 1}
  BY <1>1, BytesType DEF Total
<1> DEFINE W == Char \cup Range(tail)
           T == TextOfLast(Bytes)[Total]
<1>4. T \in Seq(Char)
  BY <1>3, TextType DEF Total
<1>5. Indent \in Seq(Separator) /\ Len(Indent) = 4
  BY DEF Indent, Separator
<1>6. tail \in Seq(Range(tail))
  BY KeyAssumption
<1>7. Indent \in Seq(W) /\ T \in Seq(W) /\ tail \in Seq(W)
  BY <1>4, <1>5, <1>6 DEF Char
<1> HIDE DEF W, T
<1>8. text = (Indent \o T) \o tail
  BY <1>2 DEF Printed, T, Total
<1>9. Indent \o T \in Seq(W) /\ Len(text) \in Nat
  BY <1>7, <1>8
<1>10. Piece(text, 1, (Indent \o T) \o tail)
  BY <1>8, <1>9 DEF Piece
<1>11. Piece(text, 1, Indent \o T)
  BY <1>7, <1>9, <1>10, Pieces
<1>12. Piece(text, 1, Indent) /\ Piece(text, 1 + Len(Indent), T)
  BY <1>7, <1>9, <1>11, Pieces
<1>13. i = 1 /\ cur = 0 /\ b = 0 /\ number_numbers = 0 /\ skip_z = ~public /\ out = <<>>
  BY DEF KeyInit
<1>14. AtGap(0)
  <2>1. Total - 0 = Total
    BY <1>3
  <2> QED
    BY <1>5, <1>12, <1>13, <2>1 DEF AtGap, T
<1>15. Done(0)
  <2>1. cur = IF 0 < Marks THEN 0 ELSE 0 - Marks
    BY <1>3, <1>13
  <2>2. skip_z \in BOOLEAN /\ (0 < Marks => ~skip_z) /\ (0 >= Marks => skip_z)
    <3>1. CASE public
      <4>1. ~skip_z /\ skip_z \in BOOLEAN
        BY <1>13, <3>1
      <4>2. Marks = 1
        BY <3>1 DEF Marks
      <4> QED
        BY <4>1, <4>2
    <3>2. CASE ~public
      <4>1. skip_z /\ skip_z \in BOOLEAN
        BY <1>13, <3>2
      <4>2. Marks = 0
        BY <3>2 DEF Marks
      <4> QED
        BY <4>1, <4>2
    <3> QED
      BY <3>1, <3>2
  <2>3. out \in Seq(Octet) /\ Len(out) = cur /\ \A x \in 1 .. cur : out[x] = key[x]
    BY <1>13
  <2> QED
    BY <2>1, <2>2, <2>3 DEF Done
<1>16. KeyType
  BY <1>1, <1>9, <1>13 DEF KeyType
<1>17. 0 \in 0 .. Total
  BY <1>3
<1> QED
  BY <1>14, <1>15, <1>16, <1>17 DEF KeyInv, At

\* While the scan goes on there is a byte to come.
LEMMA ByteToCome ==
  ASSUME KeyType, NEW k \in 0 .. Total, Done(k)
  PROVE  /\ k < Total => k \in 0 .. Total - 1
         /\ cur # KeySize => k < Total
         /\ k = Total => cur = KeySize
<1>1. Total = KeySize + Marks /\ Marks \in {0, 1} /\ KeySize \in Nat
  BY BytesType, KeyAssumption DEF KeyType
<1> QED
  BY <1>1 DEF Done

LEMMA SkipInv == ASSUME KeyInv, Skip PROVE KeyInv'
<1>1. KeyType
  BY DEF KeyInv
<1>2. PICK k \in 0 .. Total : At(k) /\ Done(k) /\ (k < Total => AtGap(k) \/ AfterOne(k) \/ AfterBoth(k))
  BY DEF KeyInv, At
<1>3. k \in 0 .. Total - 1 /\ k < Total
  BY <1>1, <1>2, ByteToCome DEF Skip, Scanning
<1>4. Bytes[k + 1] \in Octet /\ Total \in Nat
  BY <1>1, <1>3, BytesType DEF KeyType, Total
<1>5. ~AfterOne(k) /\ ~AfterBoth(k)
  BY <1>4, TwoDigits, DigitReads DEF AfterOne, AfterBoth, Skip
<1>6. /\ UNCHANGED <<cur, b, number, number_numbers, skip_z, out, key, public, text>> /\ i' = i + 1
      /\ i \in Nat /\ Len(text) \in Nat
  BY <1>1 DEF Skip, Keep, KeyType
<1>7. Total' = Total /\ Bytes' = Bytes /\ Marks' = Marks
  BY <1>6 DEF Total, Bytes, Marks
<1>8. PICK gap \in Seq(Separator) : Piece(text, i, gap) /\ Piece(text, i + Len(gap), TextOfLast(Bytes)[Total - k])
  BY <1>2, <1>3, <1>5 DEF AtGap
<1>9. gap # <<>>
  <2> SUFFICES ASSUME gap = <<>> PROVE FALSE
    OBVIOUS
  <2>1. i + Len(gap) = i
    BY <1>6
  <2>2. text[i] = DigitOf(Bytes[k + 1] \div Base)
    BY <1>1, <1>3, <1>6, <1>8, <2>1, NextByte
  <2> QED
    BY <1>4, <2>2, TwoDigits, DigitReads DEF Skip
<1>10. Tail(gap) \in Seq(Separator) /\ Len(Tail(gap)) = Len(gap) - 1 /\ Piece(text, i + 1, Tail(gap)) /\ Len(gap) \in Nat
  BY <1>6, <1>8, <1>9, PieceOn
<1>11. (i + 1) + Len(Tail(gap)) = i + Len(gap)
  BY <1>6, <1>10
<1>12. AtGap(k)'
  <2>1. Piece(text', i', Tail(gap)) /\ Piece(text', i' + Len(Tail(gap)), TextOfLast(Bytes')[Total' - k])
    BY <1>6, <1>7, <1>8, <1>10, <1>11
  <2>2. number_numbers = 0 /\ b = 0
    BY <1>2, <1>3, <1>5 DEF AtGap
  <2> QED
    BY <1>6, <1>7, <1>10, <2>1, <2>2 DEF AtGap
<1>13. Done(k)' /\ KeyType'
  BY <1>1, <1>2, <1>6, <1>7 DEF Done, KeyType
<1>14. At(k)'
  BY <1>12, <1>13 DEF At
<1> QED
  BY <1>7, <1>13, <1>14 DEF KeyInv

\* A digit: the first of a byte after the separators before it, or the second.
LEMMA DigitInv == ASSUME KeyInv, TakeDigit PROVE KeyInv'
<1>1. KeyType
  BY DEF KeyInv
<1>2. PICK k \in 0 .. Total : At(k) /\ Done(k) /\ (k < Total => AtGap(k) \/ AfterOne(k) \/ AfterBoth(k))
  BY DEF KeyInv, At
<1>3. k \in 0 .. Total - 1 /\ k < Total
  BY <1>1, <1>2, ByteToCome DEF TakeDigit, Scanning
<1> DEFINE x == Bytes[k + 1]
<1>4. x \in Octet /\ Total \in Nat
  BY <1>1, <1>3, BytesType DEF KeyType, Total
<1>5. /\ x \div Base \in 0 .. Base - 1 /\ x % Base \in 0 .. Base - 1
      /\ ((x \div Base) * Base + (x % Base)) % (Base * Base) = x
      /\ (0 * Base + (x \div Base)) % (Base * Base) = x \div Base
  BY <1>4, TwoDigits
<1>6. /\ UNCHANGED <<cur, skip_z, out, key, public, text>> /\ i' = i + 1
      /\ number_numbers' = number_numbers + 1 /\ b' = (b * Base + number') % (Base * Base)
      /\ i \in Nat /\ Len(text) \in Nat
  BY <1>1 DEF TakeDigit, Keep, KeyType
<1>7. Total' = Total /\ Bytes' = Bytes /\ Marks' = Marks
  BY <1>6 DEF Total, Bytes, Marks
<1>8. ASSUME NEW d \in 0 .. Base - 1, text[i] = DigitOf(d) PROVE number' = d
  BY <1>8, DigitReads DEF TakeDigit
<1> HIDE DEF x
<1>9. ASSUME AtGap(k) PROVE AfterOne(k)'
  <2>1. PICK gap \in Seq(Separator) : Piece(text, i, gap) /\ Piece(text, i + Len(gap), TextOfLast(Bytes)[Total - k])
    BY <1>9 DEF AtGap
  <2>2. gap = <<>>
    <3> SUFFICES ASSUME gap # <<>> PROVE FALSE
      OBVIOUS
    <3>1. text[i] \in Separator
      BY <1>6, <2>1, PieceOn
    <3> QED
      BY <3>1 DEF TakeDigit
  <2>3. i + Len(gap) = i
    BY <1>6, <2>2
  <2>4. /\ i + 1 <= Len(text) /\ text[i] = DigitOf(x \div Base) /\ text[i + 1] = DigitOf(x % Base)
        /\ Piece(text, i + 2, Ending(k + 1, Total))
        /\ Piece(text, i + 2 + Len(Ending(k + 1, Total)), TextOfLast(Bytes)[Total - k - 1])
    BY <1>1, <1>3, <1>6, <2>1, <2>3, NextByte DEF x
  <2>5. number_numbers = 0 /\ b = 0
    BY <1>9 DEF AtGap
  <2>6. b' = x \div Base /\ number_numbers' = 1
    BY <1>5, <1>6, <1>8, <2>4, <2>5
  <2>7. i' + 1 = i + 2
    BY <1>6
  <2>8. AfterOne(k)'
    <3>1. i' <= Len(text') /\ text'[i'] = DigitOf(Bytes'[k + 1] % Base) /\ b' = Bytes'[k + 1] \div Base
      BY <1>6, <1>7, <2>4, <2>6 DEF x
    <3>2. /\ Piece(text', i' + 1, Ending(k + 1, Total'))
          /\ Piece(text', i' + 1 + Len(Ending(k + 1, Total')), TextOfLast(Bytes')[Total' - k - 1])
      BY <1>6, <1>7, <2>4, <2>7
    <3> QED
      BY <2>6, <3>1, <3>2 DEF AfterOne
  <2> QED
    BY <2>8
<1>10. ASSUME AfterOne(k) PROVE AfterBoth(k)'
  <2>1. number' = x % Base /\ b = x \div Base /\ number_numbers = 1
    BY <1>5, <1>8, <1>10 DEF AfterOne, x
  <2>2. b' = x /\ number_numbers' = 2
    BY <1>5, <1>6, <2>1
  <2>3. /\ Piece(text', i', Ending(k + 1, Total'))
        /\ Piece(text', i' + Len(Ending(k + 1, Total')), TextOfLast(Bytes')[Total' - k - 1])
    BY <1>6, <1>7, <1>10 DEF AfterOne
  <2>4. AfterBoth(k)'
    BY <1>7, <2>2, <2>3 DEF AfterBoth, x
  <2> QED
    BY <2>4
<1>11. ASSUME AfterBoth(k) PROVE FALSE
  <2>1. Ending(k + 1, Total) \in Seq(Separator) /\ Ending(k + 1, Total) # <<>>
    BY <1>4, BytePrinted
  <2>2. text[i] \in Separator
    BY <1>6, <1>11, <2>1, PieceOn DEF AfterBoth
  <2> QED
    BY <2>2 DEF TakeDigit
<1>12. Done(k)' /\ KeyType'
  BY <1>1, <1>2, <1>6, <1>7 DEF Done, KeyType
<1>13. At(k)'
  BY <1>2, <1>3, <1>9, <1>10, <1>11, <1>12 DEF At
<1> QED
  BY <1>7, <1>12, <1>13 DEF KeyInv

\* The separator behind a byte puts it into the key, but for the mark.
LEMMA EndByteInv == ASSUME KeyInv, EndByte PROVE KeyInv'
<1>1. KeyType
  BY DEF KeyInv
<1>2. PICK k \in 0 .. Total : At(k) /\ Done(k) /\ (k < Total => AtGap(k) \/ AfterOne(k) \/ AfterBoth(k))
  BY DEF KeyInv, At
<1>3. k \in 0 .. Total - 1 /\ k < Total /\ cur # KeySize
  BY <1>1, <1>2, ByteToCome DEF EndByte, Scanning
<1>4. AfterBoth(k)
  BY <1>2, <1>3 DEF AtGap, AfterOne, EndByte
<1>5. /\ Bytes[k + 1] \in Octet /\ Total \in Nat /\ Total = KeySize + Marks /\ Marks \in {0, 1} /\ KeySize \in Nat
      /\ \A x \in 1 .. KeySize : Bytes[x + Marks] = key[x]
  BY <1>1, <1>3, BytesType, KeyAssumption DEF KeyType, Total
<1>6. /\ UNCHANGED <<number, key, public, text>> /\ i' = i + 1 /\ i \in Nat /\ Len(text) \in Nat
      /\ skip_z' = TRUE /\ b' = 0 /\ number_numbers' = 0
      /\ IF skip_z THEN out' = Append(out, b) /\ cur' = cur + 1 ELSE UNCHANGED <<out, cur>>
  BY <1>1 DEF EndByte, Recounted, Keep, KeyType
<1>7. Total' = Total /\ Bytes' = Bytes /\ Marks' = Marks
  BY <1>6 DEF Total, Bytes, Marks
<1> DEFINE end == Ending(k + 1, Total)
<1>8. end \in Seq(Separator) /\ end # <<>> /\ Len(end) \in Nat
  BY <1>5, BytePrinted
<1>9. Piece(text, i, end) /\ Piece(text, i + Len(end), TextOfLast(Bytes)[Total - k - 1]) /\ b = Bytes[k + 1]
  BY <1>4 DEF AfterBoth
<1> HIDE DEF end
<1>10. Tail(end) \in Seq(Separator) /\ Len(Tail(end)) = Len(end) - 1 /\ Piece(text, i + 1, Tail(end))
  BY <1>6, <1>8, <1>9, PieceOn
<1>11. i' + Len(Tail(end)) = i + Len(end) /\ Total - (k + 1) = Total - k - 1
  BY <1>3, <1>5, <1>6, <1>8, <1>10
<1>12. AtGap(k + 1)'
  <2>1. Piece(text', i', Tail(end)) /\ Piece(text', i' + Len(Tail(end)), TextOfLast(Bytes')[Total' - (k + 1)])
    BY <1>6, <1>7, <1>9, <1>10, <1>11
  <2> QED
    BY <1>6, <1>10, <2>1 DEF AtGap
<1>13. Done(k + 1)'
  <2>1. CASE k < Marks
    <3>1. k = 0 /\ Marks = 1
      BY <1>3, <1>5, <2>1
    <3>2. ~skip_z /\ cur = 0
      BY <1>2, <2>1 DEF Done
    <3>3. UNCHANGED <<out, cur>>
      BY <1>6, <3>2
    <3>4. cur' = IF k + 1 < Marks' THEN 0 ELSE (k + 1) - Marks'
      BY <1>7, <3>1, <3>2, <3>3
    <3>5. out' \in Seq(Octet) /\ Len(out') = cur' /\ \A y \in 1 .. cur' : out'[y] = key'[y]
      BY <1>2, <1>6, <3>3 DEF Done
    <3> QED
      BY <1>6, <1>7, <3>1, <3>4, <3>5 DEF Done
  <2>2. CASE k >= Marks
    <3>1. cur = k - Marks /\ cur \in Nat /\ out \in Seq(Octet) /\ Len(out) = cur
      BY <1>2, <1>3, <1>5, <2>2 DEF Done
    <3>2. out' = Append(out, b) /\ cur' = cur + 1 /\ b \in Octet
      <4>1. skip_z
        BY <1>2, <2>2 DEF Done
      <4> QED
        BY <1>5, <1>6, <1>9, <4>1
    <3>3. cur + 1 \in 1 .. KeySize /\ (cur + 1) + Marks = k + 1
      BY <1>3, <1>5, <3>1
    <3>4. b = key[cur + 1]
      BY <1>5, <1>9, <3>3
    <3>5. /\ out' \in Seq(Octet) /\ Len(out') = cur + 1 /\ out'[cur + 1] = b
          /\ \A y \in 1 .. cur : out'[y] = out[y]
      BY <3>1, <3>2
    <3>6. \A y \in 1 .. cur' : out'[y] = key'[y]
      <4>1. \A y \in 1 .. cur : out[y] = key[y]
        BY <1>2 DEF Done
      <4> QED
        BY <1>6, <3>1, <3>2, <3>4, <3>5, <4>1
    <3>7. cur' = IF k + 1 < Marks' THEN 0 ELSE (k + 1) - Marks'
      BY <1>3, <1>5, <1>7, <2>2, <3>1, <3>2
    <3>8. ~(k + 1 < Marks')
      BY <1>3, <1>5, <1>7, <2>2
    <3> QED
      BY <1>6, <3>2, <3>5, <3>6, <3>7, <3>8 DEF Done
  <2> QED
    BY <1>3, <1>5, <2>1, <2>2
<1>14. KeyType' /\ k + 1 \in 0 .. Total'
  BY <1>1, <1>3, <1>5, <1>6, <1>7 DEF KeyType
<1>15. At(k + 1)'
  BY <1>12, <1>13 DEF At
<1> QED
  BY <1>14, <1>15 DEF KeyInv

LEMMA KeyStep == KeyInv /\ [KeyNext]_keyVars => KeyInv'
<1> SUFFICES ASSUME KeyInv, [KeyNext]_keyVars PROVE KeyInv'
  OBVIOUS
<1>1. CASE EndByte
  BY <1>1, EndByteInv
<1>2. CASE Skip
  BY <1>2, SkipInv
<1>3. CASE TakeDigit
  BY <1>3, DigitInv
<1>4. CASE UNCHANGED keyVars
  <2>1. UNCHANGED <<key, public, text, i, cur, b, number, number_numbers, skip_z, out>>
    BY <1>4 DEF keyVars
  <2>2. Total' = Total /\ Bytes' = Bytes /\ Marks' = Marks
    BY <2>1 DEF Total, Bytes, Marks
  <2>3. PICK k \in 0 .. Total : Done(k) /\ (k < Total => AtGap(k) \/ AfterOne(k) \/ AfterBoth(k))
    BY DEF KeyInv, At
  <2>4. Done(k)' /\ KeyType'
    BY <2>1, <2>2, <2>3 DEF KeyInv, KeyType, Done
  <2>5. (AtGap(k) => AtGap(k)') /\ (AfterOne(k) => AfterOne(k)') /\ (AfterBoth(k) => AfterBoth(k)')
    BY <2>1, <2>2 DEF AtGap, AfterOne, AfterBoth
  <2>6. At(k)'
    BY <2>2, <2>3, <2>4, <2>5 DEF At
  <2> QED
    BY <2>2, <2>4, <2>6 DEF KeyInv
<1> QED
  BY <1>1, <1>2, <1>3, <1>4 DEF KeyNext

\* parse_key_file.c: whatever the digits, the length of a key, its lines and the
\* text behind it, the key in memory is the one that was printed.
THEOREM KeyAsPrintedCorrect == KeySpec => []KeyAsPrinted
<1>1. KeyInv => KeyAsPrinted
  <2> SUFFICES ASSUME KeyInv, ~Scanning PROVE out = key
    BY DEF KeyAsPrinted
  <2>1. PICK k \in 0 .. Total : Done(k) /\ (k < Total => AtGap(k) \/ AfterOne(k) \/ AfterBoth(k))
    BY DEF KeyInv, At
  <2>2. KeyType /\ Total \in Nat /\ KeySize \in Nat
    BY BytesType, KeyAssumption DEF KeyInv, KeyType, Total
  <2>3. cur = KeySize
    <3> SUFFICES ASSUME k < Total PROVE i <= Len(text)
      BY <2>1, <2>2, ByteToCome DEF Scanning
    <3>1. k \in 0 .. Total - 1 /\ i \in Nat /\ Len(text) \in Nat
      BY <2>2 DEF KeyType
    <3>2. CASE AtGap(k)
      <4>1. PICK gap \in Seq(Separator) : Piece(text, i + Len(gap), TextOfLast(Bytes)[Total - k])
        BY <3>2 DEF AtGap
      <4>2. i + Len(gap) + 1 <= Len(text)
        BY <2>2, <3>1, <4>1, NextByte
      <4>3. Len(gap) \in Nat
        OBVIOUS
      <4> QED
        BY <3>1, <4>2, <4>3
    <3>3. CASE AfterOne(k)
      BY <3>3 DEF AfterOne
    <3>4. CASE AfterBoth(k)
      <4>1. Bytes[k + 1] \in Octet
        BY <2>2, <3>1, BytesType DEF KeyType, Total
      <4>2. Ending(k + 1, Total) \in Seq(Separator) /\ Ending(k + 1, Total) # <<>>
        BY <4>1, BytePrinted
      <4> QED
        BY <3>1, <3>4, <4>2, PieceOn DEF AfterBoth
    <3> QED
      BY <2>1, <3>2, <3>3, <3>4
  <2>4. out \in Seq(Octet) /\ Len(out) = KeySize /\ \A y \in 1 .. KeySize : out[y] = key[y]
    BY <2>1, <2>3 DEF Done
  <2>5. key \in [1 .. KeySize -> Octet] /\ out \in [1 .. KeySize -> Octet]
    BY <2>2, <2>4 DEF KeyType
  <2> QED
    BY <2>4, <2>5
<1> QED
  BY <1>1, KeyInitInv, KeyStep, PTL DEF KeySpec
=============================================================================
