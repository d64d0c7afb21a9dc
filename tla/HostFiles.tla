------------------------------ MODULE HostFiles ------------------------------
(* The host program around its system calls (host.c, lib/src/elf.c and        *)
(* penglai-enclave.c): what it opens and maps, what it hands to the driver    *)
(* and what it gives back, while the driver's module comes and goes           *)
(* (penglai-enclave-driver.c).                                                *)
CONSTANTS Process,      \* host programs that run at the same time
          NULL, MAP_FAILED,
          Junk          \* what a pointer in fresh heap memory may hold

File == {"image", "dtb", "css"}
Pointer == Junk \cup File \cup {MAP_FAILED}
Structs == [fd : {"none", "open"}, size : {"none", "some"}, ptr : Pointer]

\* A pointer that is NULL points to no struct.
ASSUME NullAssumption == NULL \notin Structs

VARIABLES module,       \* "out" or "in": is the device registered
          pc,           \* where each program is
          args,         \* its three struct elf_args, NULL before malloc
          opened,       \* files it has open
          maps,         \* files it has mapped
          dev,          \* PLenclave->fd: "none", "open" or "failed"
          inside        \* user_param of the ioctl it is in, or NULL

vars == <<module, pc, args, opened, maps, dev, inside>>

NoFiles == [f \in File |-> NULL]

Init == /\ module = "out" /\ pc = [p \in Process |-> "idle"] /\ args = [p \in Process |-> NoFiles]
        /\ opened = [p \in Process |-> {}] /\ maps = [p \in Process |-> {}]
        /\ dev = [p \in Process |-> "none"] /\ inside = [p \in Process |-> NULL]

Goto(p, label) == pc' = [pc EXCEPT ![p] = label]

-----------------------------------------------------------------------------
(* main of host.c *)
Start(p) == /\ pc[p] = "idle"
            /\ \E first \in {"image", "attest"} : Goto(p, first)
            /\ UNCHANGED <<module, args, opened, maps, dev, inside>>

\* elf_args_init on memory of malloc: what its early returns leave in the
\* struct, with the descriptor and the mapping that go with it.
Struct(fd, size, ptr) == [fd |-> fd, size |-> size, ptr |-> ptr]
elf_args_init(f) ==
  {[s |-> Struct("none", z, j), fd |-> {}, map |-> {}] : z \in {"none", "some"}, j \in Junk}
  \cup {[s |-> Struct("open", z, j), fd |-> {f}, map |-> {}] : z \in {"none", "some"}, j \in Junk}
  \cup {[s |-> Struct("open", "none", j), fd |-> {f}, map |-> {}] : j \in Junk}
  \cup {[s |-> Struct("open", "some", MAP_FAILED), fd |-> {f}, map |-> {}]}
  \cup {[s |-> Struct("open", "some", f), fd |-> {f}, map |-> {f}]}

elf_valid(s) == s.fd = "open" /\ s.size = "some" /\ s.ptr # NULL

After == [image |-> "dtb", dtb |-> "css", css |-> "run"]
InitFile(p) ==
  /\ pc[p] \in File
  /\ \E r \in elf_args_init(pc[p]) :
       /\ args' = [args EXCEPT ![p][pc[p]] = r.s]
       /\ opened' = [opened EXCEPT ![p] = @ \cup r.fd] /\ maps' = [maps EXCEPT ![p] = @ \cup r.map]
       /\ Goto(p, IF elf_valid(r.s) THEN After[pc[p]] ELSE "clear")
  /\ UNCHANGED <<module, dev, inside>>

\* elf_args_destroy closes the descriptor, then unmaps what the struct points to.
\* Mutant: only a struct that passes elf_valid is released.
HeldValid(p) == {f \in File \ {"css"} : args[p][f] # NULL /\ elf_valid(args[p][f])}
Held(p) == {f \in File \ {"css"} : args[p][f] # NULL}
elf_args_destroy(p, F) ==
  /\ opened' = [opened EXCEPT ![p] = @ \ {f \in F : args[p][f].fd = "open"}]
  /\ maps' = [maps EXCEPT ![p] = @ \ {args[p][f].ptr : f \in F}]

\* The label clear_return: the image and the device tree, not the css file.
Clear(p) == /\ pc[p] = "clear" /\ Goto(p, "end")
            /\ elf_args_destroy(p, Held(p))
            /\ args' = [args EXCEPT ![p] = NoFiles]
            /\ UNCHANGED <<module, dev, inside>>

\* The process is gone; the kernel takes back what it still holds.
Gone(p) == /\ Goto(p, "idle")
           /\ args' = [args EXCEPT ![p] = NoFiles] /\ opened' = [opened EXCEPT ![p] = {}]
           /\ maps' = [maps EXCEPT ![p] = {}] /\ dev' = [dev EXCEPT ![p] = "none"]
           /\ UNCHANGED <<module, inside>>
Exit(p) == pc[p] = "end" /\ Gone(p)
Killed(p) == pc[p] \notin {"idle", "inside"} /\ Gone(p)

-----------------------------------------------------------------------------
(* load_and_run and attest of host.c over penglai-enclave.c *)

\* PLenclave_init: open fails without the device, or for want of descriptors.
PLenclave_init(p) ==
  /\ pc[p] \in {"run", "attest"} /\ dev[p] = "none"
  /\ \E r \in {"failed"} \cup (IF module = "in" THEN {"open"} ELSE {}) : dev' = [dev EXCEPT ![p] = r]
  /\ UNCHANGED <<module, pc, args, opened, maps, inside>>

\* Mutant: the device tree's pointer is filled from the image.
ParamImageTwice(a) == [image |-> a["image"].ptr, dtb |-> a["image"].ptr, css |-> a["css"].ptr]
user_param(a) == [image |-> a["image"].ptr, dtb |-> a["dtb"].ptr, css |-> a["css"].ptr]

\* PLenclave_load_and_run up to its ioctl: a descriptor that is no device is
\* refused by the kernel.
Enter(p) ==
  /\ pc[p] = "run" /\ dev[p] # "none"
  /\ IF dev[p] = "open" /\ \A f \in File : user_param(args[p])[f] # NULL /\ args[p][f].size = "some"
     THEN Goto(p, "inside") /\ inside' = [inside EXCEPT ![p] = user_param(args[p])]
     ELSE Goto(p, "finalize") /\ UNCHANGED inside
  /\ UNCHANGED <<module, args, opened, maps, dev>>
EnterAttest(p) ==
  /\ pc[p] = "attest" /\ dev[p] # "none"
  /\ Goto(p, IF dev[p] = "open" THEN "inside" ELSE "finalize")
  /\ UNCHANGED <<module, args, opened, maps, dev, inside>>

\* The ioctl returns, with or without success.
Return(p) == /\ pc[p] = "inside" /\ Goto(p, "finalize")
             /\ inside' = [inside EXCEPT ![p] = NULL]
             /\ UNCHANGED <<module, args, opened, maps, dev>>

PLenclave_finalize(p) == /\ pc[p] = "finalize" /\ Goto(p, "clear")
                         /\ dev' = [dev EXCEPT ![p] = "none"]
                         /\ UNCHANGED <<module, args, opened, maps, inside>>

-----------------------------------------------------------------------------
(* The kernel module *)

\* enclave_ioctl_init, when misc_register succeeds; when it fails nothing is
\* registered and the module does not stay.
enclave_ioctl_init == module = "out" /\ module' = "in" /\ UNCHANGED <<pc, args, opened, maps, dev, inside>>

\* .owner = THIS_MODULE: who has the device open holds the module.
Holders == {p \in Process : dev[p] = "open"}
enclave_ioctl_exit == /\ module = "in" /\ Holders = {} /\ module' = "out"
                      /\ UNCHANGED <<pc, args, opened, maps, dev, inside>>

Next == \/ \E p \in Process : \/ Start(p) \/ InitFile(p) \/ Clear(p) \/ Exit(p) \/ Killed(p)
                              \/ PLenclave_init(p) \/ Enter(p) \/ EnterAttest(p) \/ Return(p)
                              \/ PLenclave_finalize(p)
        \/ enclave_ioctl_init \/ enclave_ioctl_exit
Spec == Init /\ [][Next]_vars

-----------------------------------------------------------------------------
\* Addresses at which nothing is mapped.  elf_valid lets both kinds pass: the
\* MAP_FAILED that elf_args_init leaves in the struct, and whatever fresh memory
\* held when fstat failed.
Unmapped == (Junk \ {NULL}) \cup {MAP_FAILED}

\* A submission is made of three open files, and each of its addresses is where
\* that file, and no other, is mapped until the ioctl returns; or, where elf_valid
\* let it pass, one at which nothing is mapped.
SubmittedOwnFiles == \A p \in Process : inside[p] # NULL =>
                       \A f \in File : /\ f \in opened[p]
                                       /\ \/ inside[p][f] = f /\ f \in maps[p]
                                          \/ inside[p][f] \in Unmapped

\* Whatever step of a command failed, main returns with the device closed and
\* the image and the device tree closed and unmapped; the css file alone is
\* left to the end of the process.
ReleasedAtReturn == \A p \in Process : pc[p] = "end" =>
                      dev[p] = "none" /\ opened[p] \cup maps[p] \subseteq {"css"}
=============================================================================
