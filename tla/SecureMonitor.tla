--------------------------- MODULE SecureMonitor ---------------------------
(***************************************************************************)
(* The M-mode secure monitor as the driver sees it.  Its code (OpenSBI) is *)
(* a git submodule that is not part of the repository, so every definition *)
(* here is external: it is what penglai-selinux-driver/penglai-enclave.c   *)
(* and penglai-enclave-ioctl.c rely on when they issue the three SBI calls *)
(*                                                                         *)
(*    SBI_SM_LOAD_SEC_LINUX    no argument; 0 lets the driver write the    *)
(*                             TEE memory                                  *)
(*    SBI_SM_RUN_SEC_LINUX     two regions and a css; 0 means started      *)
(*    SBI_SM_ATTEST_SEC_LINUX  report, nonce; -2 means "TEE haven't        *)
(*                             finished boot yet"                          *)
(*                                                                         *)
(* The contract the modules above rest on:                                 *)
(*    M1  LOAD opens the TEE memory to the host while no TEE runs, and is  *)
(*        refused once one does;                                           *)
(*    M2  RUN starts a TEE only if the memory is open and what it measures *)
(*        there is what the css certifies; the memory is closed from then  *)
(*        on;                                                              *)
(*    M3  a refused call changes nothing.                                  *)
(***************************************************************************)
EXTENDS Integers

CONSTANTS
    FailReplies,   \* the sbiret pairs a refused call may return
    Nothing        \* no image, no certificate, cleared memory

VARIABLE tee       \* the state of the secure world and the image it runs

\* struct sbiret {error, value}: error # 0 says the call failed.
ASSUME RepliesAssumption ==
    /\ FailReplies # {}
    /\ \A r \in FailReplies : r.error \in Int \ {0} /\ r.value \in Int

Ok == [error |-> 0, value |-> 0]

\* closed: no TEE, its memory is shut; open: LOAD has opened the memory;
\* booting, up: a TEE runs and its memory is shut to the host.
TeeStates == {"closed", "open", "booting", "up"}

MonitorInit == tee = [state |-> "closed", image |-> Nothing]

Running == tee.state \in {"booting", "up"}

\* The host may write the memory of the TEE.
Writable == tee.state = "open"

SbiLoad(reply) ==
    \/ /\ ~Running
       /\ reply = Ok
       /\ tee' = [tee EXCEPT !.state = "open"]
    \/ /\ Running
       /\ reply \in FailReplies
       /\ UNCHANGED tee

\* image is what the monitor finds in the two regions, css what certifies it.
Accepts(image, css) == Writable /\ css = image

SbiRun(image, css, reply) ==
    \/ /\ Accepts(image, css)
       /\ reply = Ok
       /\ tee' = [state |-> "booting", image |-> image]
    \/ /\ ~Accepts(image, css)
       /\ reply \in FailReplies
       /\ UNCHANGED tee

NotBooted == [error |-> -2, value |-> -2]

\* The report binds the nonce of the request to the image that runs.
SbiAttest(nonce, reply, report) ==
    \/ /\ tee.state = "up"
       /\ reply = Ok
       /\ report = [nonce |-> nonce, image |-> tee.image]
    \/ /\ tee.state # "up"
       /\ reply = NotBooted
       /\ report = Nothing

\* The started system finishes its boot.
TeeBoots ==
    /\ tee.state = "booting"
    /\ tee' = [tee EXCEPT !.state = "up"]
=============================================================================
