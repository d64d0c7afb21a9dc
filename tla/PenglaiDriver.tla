--------------------------- MODULE PenglaiDriver ---------------------------
(***************************************************************************)
(* The load-and-run path of the kernel driver                              *)
(* (penglai-selinux-driver/penglai-enclave-ioctl.c).                       *)
(*                                                                         *)
(* The handler is an unlocked ioctl: any number of threads are inside it   *)
(* at once, they share the physical memory the TEE will own, and nothing   *)
(* but the monitor orders them.  One action is one step another thread     *)
(* can observe: an SBI call, the copy of one chunk, the return to user     *)
(* space.  Sizes count chunks.  Nothing checks the load addresses a caller *)
(* gives: a copy may leave the memory of the TEE.                          *)
(***************************************************************************)
EXTENDS SecureMonitor, Sequences

CONSTANTS
    Thread,     \* the threads that use the device
    Source,     \* the user buffers a payload is copied from
    Frame,      \* the chunks of physical memory reserved for the TEE
    Host,       \* those the kernel and its programs use; the rest is not mapped
    Params,     \* the penglai_enclave_user_param structs that are used
    CssSize     \* sizeof(enclave_css_t)

VARIABLES
    pc,         \* where each thread is; "user": outside, "dead": killed
    uparam,     \* the parameter struct of each thread, in user memory
    kparam,     \* its copy on the kernel stack, ioctl_data
    buf,        \* tee_sbi_param: "none", "held" or "null" (kmalloc failed)
    kcss,       \* tee_sbi_param->enclave_css
    next,       \* the next chunk a running copy moves
    ret,        \* ret, and the result of the call once it is over
    mem,        \* the memory reserved for the TEE
    started,    \* history: this call's RUN was accepted
    raced,      \* history: another call's RUN was accepted since our LOAD
    disturbed,  \* history: frames other calls wrote since our LOAD
    strayed     \* history: a call has written to memory of the host

local == <<uparam, kparam, buf, kcss, next, ret>>
history == <<started, raced, disturbed, strayed>>
vars == <<tee, pc, local, mem, history>>

Parts == {"bin", "dtb"}

\* The content of one chunk: which user buffer it is of, and its place there.
Chunk == Source \X (Nat \ {0})

\* What the monitor measures and a css certifies: for each part its load
\* address and what is there, a cleared chunk included.
Image == [Parts -> [addr : Nat, bytes : Seq(Chunk \cup {Nothing})]]

Param == [src : [Parts -> Source], size : [Parts -> Nat \ {0}],
          addr : [Parts -> Nat], css : Image \cup {Nothing}, cssSize : Nat]

Frames(p, q) == p.addr[q] .. (p.addr[q] + p.size[q] - 1)

ASSUME DriverAssumption ==
    /\ Frame \subseteq Nat
    /\ Host \subseteq Nat \ Frame
    /\ CssSize \in Nat
    /\ Params \subseteq Param
    /\ Nothing \notin Image

EFAULT == 14

\* The image a caller means to start, the one sign_tool hashes.
Payload(p) ==
    [q \in Parts |-> [addr  |-> p.addr[q],
                      bytes |-> [i \in 1 .. p.size[q] |-> <<p.src[q], i>>]]]

\* What the monitor finds at an address: nothing that counts outside its memory.
Found(m, f) == IF f \in Frame THEN m[f] ELSE Nothing

\* The image memory m holds in the regions of p.
Measure(m, p) ==
    [q \in Parts |-> [addr  |-> p.addr[q],
                      bytes |-> [i \in 1 .. p.size[q] |-> Found(m, p.addr[q] + i - 1)]]]

Copying == {"bin", "dtb"}
Clearing == {"bin rest", "dtb rest"}       \* the user buffer could not be read on
Inside == Copying \cup Clearing \cup {"css", "run"}     \* between LOAD and RUN

\* The part a copy is at.
PartAt(s) == IF s \in {"bin", "bin rest"} THEN "bin" ELSE "dtb"

TypeOK ==
    /\ tee \in [state : TeeStates, image : Image \cup {Nothing}]
    /\ pc \in [Thread -> Inside \cup {"user", "load", "out", "dead"}]
    /\ uparam \in [Thread -> Params]
    /\ kparam \in [Thread -> Params]
    /\ buf \in [Thread -> {"none", "held", "null"}]
    /\ kcss \in [Thread -> Image \cup {Nothing}]
    /\ next \in [Thread -> Nat \ {0}]
    /\ ret \in [Thread -> Int]
    /\ mem \in [Frame -> Chunk \cup {Nothing}]
    /\ started \in [Thread -> BOOLEAN]
    /\ raced \in [Thread -> BOOLEAN]
    /\ disturbed \in [Thread -> SUBSET Frame]
    /\ strayed \in BOOLEAN

Init ==
    /\ MonitorInit
    /\ pc = [t \in Thread |-> "user"]
    /\ uparam \in [Thread -> Params]
    /\ kparam = uparam
    /\ buf = [t \in Thread |-> "none"]
    /\ kcss = [t \in Thread |-> Nothing]
    /\ next = [t \in Thread |-> 1]
    /\ ret = [t \in Thread |-> -EFAULT]
    /\ mem = [f \in Frame |-> Nothing]
    /\ started = [t \in Thread |-> FALSE]
    /\ raced = [t \in Thread |-> FALSE]
    /\ disturbed = [t \in Thread |-> {}]
    /\ strayed = FALSE

-----------------------------------------------------------------------------
(* Entry and return *)

\* PLenclave_load_and_run fills the struct and enters the ioctl, which works
\* on a copy of it.
IoctlEnter(t) ==
    /\ pc[t] = "user"
    /\ \E p \in Params :
          /\ uparam' = [uparam EXCEPT ![t] = p]
          /\ kparam' = [kparam EXCEPT ![t] = p]
    /\ pc' = [pc EXCEPT ![t] = "load"]
    /\ started' = [started EXCEPT ![t] = FALSE]
    /\ UNCHANGED <<tee, buf, kcss, next, ret, mem, raced, disturbed, strayed>>

\* The library turns the struct down (a NULL pointer, a size of zero), or the
\* ioctl its argument: too large, unreadable, an unknown command.
IoctlReject(t) ==
    /\ pc[t] = "user"
    /\ ret' = [ret EXCEPT ![t] = -EFAULT]
    /\ started' = [started EXCEPT ![t] = FALSE]
    /\ UNCHANGED <<tee, pc, uparam, kparam, buf, kcss, next, mem, raced, disturbed, strayed>>

\* The struct is in user memory: its owner may change it during the call.
UserRewrites(t) ==
    /\ pc[t] \notin {"user", "dead"}
    /\ \E p \in Params : uparam' = [uparam EXCEPT ![t] = p]
    /\ UNCHANGED <<tee, pc, kparam, buf, kcss, next, ret, mem, history>>

\* The history of a call is kept for as long as the call lasts.
Forget(t) ==
    /\ raced' = [raced EXCEPT ![t] = FALSE]
    /\ disturbed' = [disturbed EXCEPT ![t] = {}]

\* kfree, then the struct goes back to the caller; where that fails the
\* result is lost.
CopyOut(t) ==
    /\ pc[t] = "out"
    /\ buf' = [buf EXCEPT ![t] = "none"]
    /\ kcss' = [kcss EXCEPT ![t] = Nothing]
    /\ \/ /\ uparam' = [uparam EXCEPT ![t] = kparam[t]]
          /\ UNCHANGED ret
       \/ /\ ret' = [ret EXCEPT ![t] = -EFAULT]
          /\ UNCHANGED uparam
    /\ pc' = [pc EXCEPT ![t] = "user"]
    /\ Forget(t)
    /\ UNCHANGED <<tee, kparam, next, mem, started, strayed>>

-----------------------------------------------------------------------------
(* penglai_load_and_run_linux *)

\* load_linux and run_linux hand on the value of the SBI reply as an int and
\* drop its error.
ResultPreset(reply) == 0
Result(reply) == reply.value

LoadRefusedNever(r) == FALSE
LoadRefused(r) == r # 0

AfterLoadRetry(r) == IF LoadRefused(r) THEN "load" ELSE "bin"
AfterLoad(r) == IF LoadRefused(r) THEN "out" ELSE "bin"

\* kmalloc is not checked.
LoadLinux(t) ==
    /\ pc[t] = "load"
    /\ \E b \in {"held", "null"} : buf' = [buf EXCEPT ![t] = b]
    /\ \E reply \in FailReplies \cup {Ok} :
          /\ SbiLoad(reply)
          /\ ret' = [ret EXCEPT ![t] = Result(reply)]
          /\ pc' = [pc EXCEPT ![t] = AfterLoad(Result(reply))]
    /\ next' = [next EXCEPT ![t] = 1]
    /\ UNCHANGED <<uparam, kparam, kcss, mem, history>>

\* __va of the load address, and on from there.
Target(p, q, i) == p.addr[q] + i - 1

\* The chunk of the user buffer that goes there.
ChunkBefore(p, q, i) == <<p.src[q], i - 1>>
ChunkOf(p, q, i) == <<p.src[q], i>>

LastChunkShort(p, q, i) == i + 1 >= p.size[q]
LastChunk(p, q, i) == i = p.size[q]

\* A store goes through wherever memory is mapped and not closed by the monitor.
Storable(f) == f \in Host \/ (f \in Frame /\ Writable)

\* One chunk of copy_from_user, or of the clearing it ends with.
Store(t, f, chunk) ==
    /\ Storable(f)
    /\ mem' = [g \in Frame |-> IF g = f THEN chunk ELSE mem[g]]
    /\ strayed' = (strayed \/ f \in Host)
    /\ disturbed' = [u \in Thread |-> IF u # t /\ pc[u] \in Inside
                                         THEN disturbed[u] \cup ({f} \cap Frame)
                                         ELSE disturbed[u]]

AfterPart(q) == IF q = "bin" THEN "dtb" ELSE "css"

CopyChunk(t) ==
    LET q == pc[t]
        p == kparam[t]
    IN  /\ q \in Copying
        /\ Store(t, Target(p, q, next[t]), ChunkOf(p, q, next[t]))
        /\ IF LastChunk(p, q, next[t])
              THEN /\ next' = [next EXCEPT ![t] = 1]
                   /\ pc' = [pc EXCEPT ![t] = AfterPart(q)]
              ELSE /\ next' = [next EXCEPT ![t] = @ + 1]
                   /\ UNCHANGED pc
        /\ UNCHANGED <<tee, uparam, kparam, buf, kcss, ret, started, raced>>

\* The user buffer cannot be read on, from this chunk.
CopyFaults(t) ==
    /\ pc[t] \in Copying
    /\ pc' = [pc EXCEPT ![t] = IF @ = "bin" THEN "bin rest" ELSE "dtb rest"]
    /\ UNCHANGED <<tee, local, mem, history>>

\* copy_from_user clears what is left of the target and reports the rest.
ClearChunk(t) ==
    LET q == PartAt(pc[t])
        p == kparam[t]
    IN  /\ pc[t] \in Clearing
        /\ Store(t, Target(p, q, next[t]), Nothing)
        /\ IF next[t] = p.size[q]
              THEN /\ next' = [next EXCEPT ![t] = 1]
                   /\ ret' = [ret EXCEPT ![t] = -EFAULT]
                   /\ pc' = [pc EXCEPT ![t] = "out"]
              ELSE /\ next' = [next EXCEPT ![t] = @ + 1]
                   /\ UNCHANGED <<ret, pc>>
        /\ UNCHANGED <<tee, uparam, kparam, buf, kcss, started, raced>>

\* Nothing is mapped there, or the monitor has closed the memory: the copy stops
\* at a store that traps, and clearing what is left traps again, outside of it.
CopyTraps(t) ==
    /\ pc[t] \in Copying \cup Clearing
    /\ ~Storable(Target(kparam[t], PartAt(pc[t]), next[t]))
    /\ pc' = [pc EXCEPT ![t] = "dead"]
    /\ UNCHANGED <<tee, local, mem, history>>

\* A copy has gone over memory of the host: at any time later it may go down,
\* with everything that runs on it.
HostFails ==
    /\ strayed
    /\ pc' = [t \in Thread |-> "dead"]
    /\ UNCHANGED <<tee, local, mem, history>>

\* The size that is compared is the one of the dtb, not of the css.
CssTooSmall(p) == p.size["dtb"] < CssSize

\* A css file that is shorter than the struct is read on into the zero fill
\* of its last page, which certifies nothing.
CssOf(p) == IF p.cssSize < CssSize THEN Nothing ELSE p.css

CopyCss(t) ==
    /\ pc[t] = "css"
    /\ ~CssTooSmall(kparam[t])
    /\ buf[t] = "held"
    /\ kcss' = [kcss EXCEPT ![t] = CssOf(kparam[t])]
    /\ pc' = [pc EXCEPT ![t] = "run"]
    /\ UNCHANGED <<tee, uparam, kparam, buf, next, ret, mem, history>>

CssRejected(t) ==
    /\ pc[t] = "css"
    /\ CssTooSmall(kparam[t]) \/ buf[t] = "held"   \* too small, or unreadable
    /\ ret' = [ret EXCEPT ![t] = -EFAULT]
    /\ pc' = [pc EXCEPT ![t] = "out"]
    /\ UNCHANGED <<tee, uparam, kparam, buf, kcss, next, mem, history>>

\* The css goes to the buffer kmalloc did not deliver.
CssTraps(t) ==
    /\ pc[t] = "css"
    /\ ~CssTooSmall(kparam[t])
    /\ buf[t] = "null"
    /\ pc' = [pc EXCEPT ![t] = "dead"]
    /\ UNCHANGED <<tee, local, mem, history>>

\* The regions the monitor is given come from the kernel's copy.
HandedFromUser(t) == uparam[t]
Handed(t) == kparam[t]

RunLinux(t) ==
    /\ pc[t] = "run"
    /\ \E reply \in FailReplies \cup {Ok} :
          /\ SbiRun(Measure(mem, Handed(t)), kcss[t], reply)
          /\ ret' = [ret EXCEPT ![t] = Result(reply)]
    /\ started' = [started EXCEPT ![t] = tee' # tee]
    /\ raced' = [u \in Thread |->
                    raced[u] \/ (u # t /\ tee' # tee /\ pc[u] \in Inside)]
    /\ pc' = [pc EXCEPT ![t] = "out"]
    /\ UNCHANGED <<uparam, kparam, buf, kcss, next, mem, disturbed, strayed>>

-----------------------------------------------------------------------------
KernelStep(t) ==
    \/ LoadLinux(t)
    \/ CopyChunk(t) \/ CopyFaults(t) \/ ClearChunk(t) \/ CopyTraps(t)
    \/ CopyCss(t) \/ CssRejected(t) \/ CssTraps(t)
    \/ RunLinux(t) \/ CopyOut(t)

BootStep == TeeBoots /\ UNCHANGED <<pc, local, mem, history>>

Next ==
    \/ \E t \in Thread :
          IoctlEnter(t) \/ IoctlReject(t) \/ UserRewrites(t) \/ KernelStep(t)
    \/ BootStep
    \/ HostFails

Spec == Init /\ [][Next]_vars

\* The scheduler runs every thread that is inside the kernel.
FairSpec == Spec /\ \A t \in Thread : WF_vars(KernelStep(t))
-----------------------------------------------------------------------------
(* Properties *)

\* Where a call has all of part q behind it.
Past(q) == IF q = "bin" THEN {"dtb", "dtb rest", "css", "run"} ELSE {"css", "run"}

\* The chunks of part q that thread t has copied in its current call.
Copied(t, q) ==
    IF pc[t] = q THEN 1 .. (next[t] - 1)
    ELSE IF pc[t] \in Past(q) THEN 1 .. kparam[t].size[q]
    ELSE {}

\* What a call copied into the memory of the TEE is still there when it issues
\* RUN, in every chunk of both regions, except where another call, or the dtb of
\* the same call over its own bin, has written meanwhile.  It ties the copy loops
\* (ioctl.c:27, 35) to the regions put into tee_sbi_param (57-60).
RegionsFilled ==
    \A t \in Thread, q \in Parts : \A i \in Copied(t, q) :
        LET p == kparam[t]
            f == Target(p, q, i)
        IN  \/ f \notin Frame
            \/ mem[f] = <<p.src[q], i>>
            \/ f \in disturbed[t]
            \/ q = "bin" /\ f \in Frames(p, "dtb")

Own(p) == Frames(p, "bin") \cup Frames(p, "dtb")

\* A thread is killed inside the handler only if kmalloc gave it no buffer, if
\* another call started the TEE after this one had its LOAD, if its own struct
\* leaves the memory of the TEE, which nothing checks (ioctl.c:16), or if another
\* struct did and the host went down.  The check of the LOAD result (ioctl.c:22)
\* keeps every later call off the closed memory.
DeadOnlyByRaceOrAddress ==
    \A t \in Thread :
        pc[t] = "dead" =>
            buf[t] = "null" \/ raced[t] \/ ~(Own(kparam[t]) \subseteq Frame) \/ strayed

\* The css certifies what the caller hands over, and its regions are apart and
\* in the memory of the TEE.
Certified(p) ==
    /\ p.cssSize >= CssSize
    /\ p.css = Payload(p)
    /\ Own(p) \subseteq Frame
    /\ Frames(p, "bin") \cap Frames(p, "dtb") = {}

\* RUN refuses a certified payload only if a TEE runs already or another call
\* wrote into the caller's regions: whatever earlier calls left behind, and
\* whatever the caller's struct says by now, cannot make it fail.
UndisturbedRunStarts ==
    [][\A t \in Thread :
          /\ pc[t] = "run" /\ pc'[t] = "out"
          /\ Certified(kparam[t])
          /\ ~Running
          /\ disturbed[t] \cap Own(kparam[t]) = {}
          => started'[t]]_vars

\* "sbi call run secure linux is failed" (penglai-enclave.c:26) is no success:
\* the result that reaches the host as success (penglai-enclave.c of the SDK,
\* "ret < 0" is failure) belongs to a call that started the TEE.
Success(t) == pc[t] = "user" /\ ret[t] >= 0

SuccessMeansStarted == \A t \in Thread : Success(t) => started[t]

\* The message at ioctl.c:45 is "css file is too small": a css file shorter
\* than the struct does not get as far as RUN.
SmallCssRejected ==
    \A t \in Thread : pc[t] = "run" => kparam[t].cssSize >= CssSize

\* Every call comes to an end: no thread stays inside the driver.
EveryCallEnds ==
    \A t \in Thread :
        pc[t] \notin {"user", "dead"} ~> pc[t] \in {"user", "dead"}

\* What the callers see of a state of the driver.
StatusOf(t) ==
    IF pc[t] = "user" THEN (IF ret[t] >= 0 THEN "ok" ELSE "failed")
    ELSE IF pc[t] = "dead" THEN "gone"
    ELSE IF started[t] THEN "started" ELSE "pending"

seenRunning == IF Running THEN tee.image ELSE Nothing
seenStatus == [t \in Thread |-> StatusOf(t)]
seenCert == [t \in Thread |-> kparam[t].css]

Certificates == {p.css : p \in Params} \ {Nothing}

Service == INSTANCE TeeService WITH
    Caller <- Thread, Image <- Certificates,
    running <- seenRunning, status <- seenStatus, cert <- seenCert

\* The driver is an implementation of the service its callers see: at most one
\* start, of the image its caller certified, and success only for that caller.
ImplementsService == Service!Spec

-----------------------------------------------------------------------------
(* What makes the properties above inductive *)

\* What the driver takes for granted by dropping the error of a reply: that the
\* value of a refused call is negative as well.
RefusalsNegative == \A r \in FailReplies : r.value < 0

NextInRange ==
    \A t \in Thread :
        pc[t] \in Copying \cup Clearing => next[t] <= kparam[t].size[PartAt(pc[t])]

\* A call that has its LOAD may write, until another call starts the TEE.
OpenUnlessRaced ==
    \A t \in Thread : pc[t] \in Inside => Writable \/ (Running /\ raced[t])

\* The css in the buffer is the one the kernel's copy of the struct names.
CssKept == \A t \in Thread : pc[t] = "run" => kcss[t] = CssOf(kparam[t])

\* A result is on its way out only for what happened.
OutcomeKept ==
    \A t \in Thread :
        /\ started[t] => pc[t] \in {"out", "user"} \/ (pc[t] = "dead" /\ strayed)
        /\ pc[t] = "out" => IF started[t] THEN ret[t] = 0 ELSE ret[t] < 0

OutcomeInv == OutcomeKept /\ SuccessMeansStarted
=============================================================================
