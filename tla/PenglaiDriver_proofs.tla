----------------------- MODULE PenglaiDriver_proofs -----------------------
(* Theorems about the load-and-run path of the driver, for any number of   *)
(* threads, any payloads and any memory.                                   *)
EXTENDS PenglaiDriver, TLAPS

USE DriverAssumption, RepliesAssumption

-----------------------------------------------------------------------------
(* Facts about the data *)

\* A parameter struct has its types.
LEMMA ParamFacts ==
    ASSUME NEW p \in Params, NEW q \in Parts
    PROVE  /\ p.src[q] \in Source
           /\ p.size[q] \in Nat \ {0}
           /\ p.addr[q] \in Nat
           /\ \A i \in 1 .. p.size[q] : Target(p, q, i) \in Frames(p, q)
           /\ p.css \in Image \cup {Nothing}
  BY DEF Param, Frames, Target, Parts

\* What is measured in a well-typed memory is an image.
LEMMA MeasureIsImage ==
    ASSUME NEW m \in [Frame -> Chunk \cup {Nothing}], NEW p \in Params
    PROVE  Measure(m, p) \in Image
<1>1. \A q \in Parts : /\ p.addr[q] \in Nat
                       /\ [i \in 1 .. p.size[q] |-> Found(m, p.addr[q] + i - 1)]
                              \in Seq(Chunk \cup {Nothing})
  <2>1. TAKE q \in Parts
  <2>2. /\ p.addr[q] \in Nat
        /\ p.size[q] \in Nat
    BY ParamFacts
  <2>3. \A f : Found(m, f) \in Chunk \cup {Nothing}
    BY DEF Found
  <2>4. [i \in 1 .. p.size[q] |-> Found(m, p.addr[q] + i - 1)]
            \in [1 .. p.size[q] -> Chunk \cup {Nothing}]
    BY <2>3
  <2> QED
    BY <2>2, <2>4
<1> QED
  BY <1>1 DEF Measure, Image

\* A running copy is at a chunk of its part.
LEMMA CopyInRange ==
    ASSUME TypeOK, NextInRange, NEW t \in Thread, pc[t] \in Copying \cup Clearing
    PROVE  /\ kparam[t] \in Params
           /\ PartAt(pc[t]) \in Parts /\ (pc[t] \in Copying => PartAt(pc[t]) = pc[t])
           /\ next[t] \in 1 .. kparam[t].size[PartAt(pc[t])]
           /\ Target(kparam[t], PartAt(pc[t]), next[t]) \in Frames(kparam[t], PartAt(pc[t]))
           /\ ChunkOf(kparam[t], PartAt(pc[t]), next[t]) \in Chunk
<1>1. /\ kparam[t] \in Params /\ next[t] \in Nat \ {0}
      /\ PartAt(pc[t]) \in Parts /\ (pc[t] \in Copying => PartAt(pc[t]) = pc[t])
  BY DEF TypeOK, Copying, Clearing, Parts, PartAt
<1>2. next[t] \in 1 .. kparam[t].size[PartAt(pc[t])]
  BY <1>1, ParamFacts DEF NextInRange
<1> QED
  BY <1>1, <1>2, ParamFacts DEF ChunkOf, Chunk

\* What a store leaves behind.
LEMMA Stored ==
    ASSUME TypeOK, NEW t \in Thread, NEW f, NEW c \in Chunk \cup {Nothing}, Store(t, f, c)
    PROVE  /\ mem' \in [Frame -> Chunk \cup {Nothing}]
           /\ disturbed' \in [Thread -> SUBSET Frame]
           /\ strayed' \in BOOLEAN /\ (strayed => strayed')
           /\ f \in Frame => mem'[f] = c /\ Writable
           /\ f \notin Frame => strayed'
           /\ \A g \in Frame \ {f} : mem'[g] = mem[g]
           /\ disturbed'[t] = disturbed[t]
           /\ \A u \in Thread \ {t} :
                pc[u] \in Inside => disturbed'[u] = disturbed[u] \cup ({f} \cap Frame)
  BY DEF Store, Storable, TypeOK

-----------------------------------------------------------------------------
(* Type correctness *)

Typed == TypeOK /\ NextInRange

LEMMA TypedInit == Init => Typed
<1> SUFFICES ASSUME Init PROVE Typed
  OBVIOUS
<1>1. tee \in [state : TeeStates, image : Image \cup {Nothing}]
  BY DEF Init, MonitorInit, TeeStates
<1>3. /\ pc \in [Thread -> Inside \cup {"user", "load", "out", "dead"}]
      /\ buf \in [Thread -> {"none", "held", "null"}]
      /\ ret \in [Thread -> Int]
  BY DEF Init, EFAULT
<1>4. /\ started \in [Thread -> BOOLEAN]
      /\ raced \in [Thread -> BOOLEAN]
      /\ disturbed \in [Thread -> SUBSET Frame]
      /\ strayed \in BOOLEAN
  BY DEF Init
<1>5. /\ uparam \in [Thread -> Params]
      /\ kparam \in [Thread -> Params]
      /\ kcss \in [Thread -> Image \cup {Nothing}]
      /\ next \in [Thread -> Nat \ {0}]
      /\ mem \in [Frame -> Chunk \cup {Nothing}]
  BY DEF Init
<1>2. TypeOK
  BY <1>1, <1>3, <1>4, <1>5 DEF TypeOK
<1> QED
  BY <1>2 DEF Init, Typed, NextInRange, Copying, Clearing

LEMMA TypedStep == Typed /\ [Next]_vars => Typed'
<1> SUFFICES ASSUME Typed, [Next]_vars PROVE Typed'
  OBVIOUS
<1> USE DEF Typed
<1>1. ASSUME NEW t \in Thread, IoctlEnter(t) PROVE Typed'
  <2>1. TypeOK'
    BY <1>1 DEF IoctlEnter, TypeOK
  <2>2. \A u \in Thread : pc'[u] \in Copying \cup Clearing => u # t
    BY <1>1 DEF IoctlEnter, TypeOK, Copying, Clearing
  <2> QED
    BY <1>1, <2>1, <2>2 DEF IoctlEnter, TypeOK, NextInRange
<1>2. ASSUME NEW t \in Thread, IoctlReject(t) PROVE Typed'
  BY <1>2 DEF IoctlReject, TypeOK, NextInRange, EFAULT
<1>3. ASSUME NEW t \in Thread, UserRewrites(t) PROVE Typed'
  BY <1>3 DEF UserRewrites, history, TypeOK, NextInRange
<1>4. ASSUME NEW t \in Thread, LoadLinux(t) PROVE Typed'
  <2>1. PICK reply \in FailReplies \cup {Ok} :
           /\ SbiLoad(reply)
           /\ ret' = [ret EXCEPT ![t] = Result(reply)]
           /\ pc' = [pc EXCEPT ![t] = AfterLoad(Result(reply))]
    BY <1>4 DEF LoadLinux
  <2>2. Result(reply) \in Int
    BY DEF Result, Ok
  <2>3. tee' \in [state : TeeStates, image : Image \cup {Nothing}]
    BY <2>1 DEF SbiLoad, TypeOK, TeeStates
  <2>4. \A p \in Params : 1 <= p.size["bin"]
    BY ParamFacts DEF Parts
  <2>5. AfterLoad(Result(reply)) \in {"bin", "out"}
    BY DEF AfterLoad
  <2>9. /\ pc' \in [Thread -> Inside \cup {"user", "load", "out", "dead"}]
        /\ ret' \in [Thread -> Int]
    BY <2>1, <2>2, <2>5 DEF TypeOK, Inside, Copying
  <2>10. /\ buf' \in [Thread -> {"none", "held", "null"}]
         /\ next' \in [Thread -> Nat \ {0}]
    BY <1>4 DEF LoadLinux, TypeOK
  <2>11. UNCHANGED <<uparam, kparam, kcss, mem, started, raced, disturbed, strayed>>
    BY <1>4 DEF LoadLinux, history
  <2>6. TypeOK'
    BY <2>3, <2>9, <2>10, <2>11 DEF TypeOK
  <2>7. \A u \in Thread \ {t} : pc'[u] = pc[u] /\ next'[u] = next[u] /\ kparam'[u] = kparam[u]
    BY <1>4, <2>1 DEF LoadLinux, TypeOK
  <2>8. pc'[t] \in {"bin", "out"} /\ next'[t] = 1 /\ kparam'[t] \in Params
    BY <1>4, <2>1, <2>5 DEF LoadLinux, TypeOK
  <2> QED
    BY <2>4, <2>6, <2>7, <2>8 DEF NextInRange, Copying, Clearing, PartAt
<1>5. ASSUME NEW t \in Thread, CopyChunk(t) PROVE Typed'
  <2> DEFINE q == pc[t]
             p == kparam[t]
  <2>1. /\ q \in Copying
        /\ Store(t, Target(p, q, next[t]), ChunkOf(p, q, next[t]))
        /\ UNCHANGED <<tee, uparam, kparam, buf, kcss, ret, started, raced>>
    BY <1>5 DEF CopyChunk
  <2>2. /\ p \in Params
        /\ q \in Parts
        /\ next[t] \in 1 .. p.size[q]
        /\ ChunkOf(p, q, next[t]) \in Chunk
    BY <2>1, CopyInRange
  <2>3. /\ mem' \in [Frame -> Chunk \cup {Nothing}]
        /\ disturbed' \in [Thread -> SUBSET Frame]
        /\ strayed' \in BOOLEAN
    BY <2>1, <2>2, Stored
  <2>4. CASE LastChunk(p, q, next[t])
    <3>1. /\ next' = [next EXCEPT ![t] = 1]
          /\ pc' = [pc EXCEPT ![t] = IF q = "bin" THEN "dtb" ELSE "css"]
      BY <1>5, <2>4 DEF CopyChunk, AfterPart
    <3>2. 1 <= p.size["dtb"]
      BY <2>2, ParamFacts DEF Parts
    <3>3. TypeOK'
      BY <2>1, <2>3, <3>1 DEF TypeOK, Inside, Copying
    <3>4. \A u \in Thread \ {t} : pc'[u] = pc[u] /\ next'[u] = next[u] /\ kparam'[u] = kparam[u]
      BY <2>1, <3>1 DEF TypeOK
    <3>5. pc'[t] \in {"dtb", "css"} /\ next'[t] = 1 /\ kparam'[t] = p
      BY <2>1, <3>1 DEF TypeOK
    <3> QED
      BY <3>2, <3>3, <3>4, <3>5 DEF NextInRange, Copying, Clearing, PartAt
  <2>5. CASE ~LastChunk(p, q, next[t])
    <3>1. next' = [next EXCEPT ![t] = @ + 1] /\ pc' = pc
      BY <1>5, <2>5 DEF CopyChunk
    <3>2. p.size[q] \in Nat /\ next[t] + 1 <= p.size[q]
      BY <2>2, <2>5, ParamFacts DEF LastChunk
    <3>3. PartAt(q) = q
      BY <2>1 DEF PartAt, Copying
    <3> QED
      BY <2>1, <2>3, <3>1, <3>2, <3>3 DEF TypeOK, NextInRange
  <2> QED
    BY <2>4, <2>5
<1>6. ASSUME NEW t \in Thread, CopyFaults(t) PROVE Typed'
  BY <1>6 DEF CopyFaults, local, history, TypeOK, NextInRange, Inside, Copying, Clearing, PartAt
<1>15. ASSUME NEW t \in Thread, ClearChunk(t) PROVE Typed'
  <2> DEFINE q == PartAt(pc[t])
             p == kparam[t]
  <2>1. /\ pc[t] \in Clearing
        /\ Store(t, Target(p, q, next[t]), Nothing)
        /\ UNCHANGED <<tee, uparam, kparam, buf, kcss, started, raced>>
    BY <1>15 DEF ClearChunk
  <2>2. p \in Params /\ q \in Parts /\ next[t] \in 1 .. p.size[q]
    BY <2>1, CopyInRange
  <2>3. /\ mem' \in [Frame -> Chunk \cup {Nothing}]
        /\ disturbed' \in [Thread -> SUBSET Frame]
        /\ strayed' \in BOOLEAN
    BY <2>1, Stored
  <2>4. CASE next[t] = p.size[q]
    <3>1. /\ next' = [next EXCEPT ![t] = 1]
          /\ ret' = [ret EXCEPT ![t] = -EFAULT]
          /\ pc' = [pc EXCEPT ![t] = "out"]
      BY <1>15, <2>4 DEF ClearChunk
    <3>2. TypeOK'
      BY <2>1, <2>3, <3>1 DEF TypeOK, EFAULT
    <3>3. \A u \in Thread : pc'[u] \in Copying \cup Clearing =>
             pc'[u] = pc[u] /\ next'[u] = next[u] /\ kparam'[u] = kparam[u]
      BY <2>1, <3>1 DEF TypeOK, Copying, Clearing
    <3> QED
      BY <3>2, <3>3 DEF NextInRange
  <2>5. CASE next[t] # p.size[q]
    <3>1. next' = [next EXCEPT ![t] = @ + 1] /\ pc' = pc /\ ret' = ret
      BY <1>15, <2>5 DEF ClearChunk
    <3>2. p.size[q] \in Nat /\ next[t] + 1 <= p.size[q]
      BY <2>2, <2>5, ParamFacts
    <3> QED
      BY <2>1, <2>3, <3>1, <3>2 DEF TypeOK, NextInRange
  <2> QED
    BY <2>4, <2>5
<1>7. ASSUME NEW t \in Thread, CopyTraps(t) PROVE Typed'
  BY <1>7 DEF CopyTraps, local, history, TypeOK, NextInRange, Copying, Clearing
<1>8. ASSUME NEW t \in Thread, CopyCss(t) PROVE Typed'
  <2>1. CssOf(kparam[t]) \in Image \cup {Nothing}
    BY ParamFacts DEF CssOf, TypeOK, Parts
  <2> QED
    BY <1>8, <2>1 DEF CopyCss, history, TypeOK, NextInRange, Copying, Clearing, PartAt, Inside
<1>9. ASSUME NEW t \in Thread, CssRejected(t) PROVE Typed'
  <2>1. TypeOK'
    BY <1>9 DEF CssRejected, history, TypeOK, EFAULT
  <2>2. \A u \in Thread : pc'[u] \in Copying \cup Clearing => pc'[u] = pc[u]
    BY <1>9 DEF CssRejected, TypeOK, Copying, Clearing
  <2> QED
    BY <1>9, <2>1, <2>2 DEF CssRejected, NextInRange
<1>10. ASSUME NEW t \in Thread, CssTraps(t) PROVE Typed'
  BY <1>10 DEF CssTraps, local, history, TypeOK, NextInRange, Copying, Clearing
<1>11. ASSUME NEW t \in Thread, RunLinux(t) PROVE Typed'
  <2>1. PICK reply \in FailReplies \cup {Ok} :
           /\ SbiRun(Measure(mem, Handed(t)), kcss[t], reply)
           /\ ret' = [ret EXCEPT ![t] = Result(reply)]
    BY <1>11 DEF RunLinux
  <2>2. Result(reply) \in Int
    BY DEF Result, Ok
  <2>3. Measure(mem, Handed(t)) \in Image
    BY MeasureIsImage DEF Handed, TypeOK
  <2>4. tee' \in [state : TeeStates, image : Image \cup {Nothing}]
    BY <2>1, <2>3 DEF SbiRun, TypeOK, TeeStates
  <2>5. TypeOK'
    BY <1>11, <2>1, <2>2, <2>4 DEF RunLinux, TypeOK
  <2>6. \A u \in Thread : pc'[u] \in Copying \cup Clearing => pc'[u] = pc[u]
    BY <1>11 DEF RunLinux, TypeOK, Copying, Clearing
  <2> QED
    BY <1>11, <2>5, <2>6 DEF RunLinux, NextInRange
<1>12. ASSUME NEW t \in Thread, CopyOut(t) PROVE Typed'
  <2>1. /\ pc' = [pc EXCEPT ![t] = "user"]
        /\ UNCHANGED <<tee, kparam, next, mem, started, strayed>>
    BY <1>12 DEF CopyOut
  <2>2. /\ uparam' \in [Thread -> Params]
        /\ ret' \in [Thread -> Int]
    BY <1>12 DEF CopyOut, TypeOK, EFAULT
  <2>3. /\ buf' \in [Thread -> {"none", "held", "null"}]
        /\ kcss' \in [Thread -> Image \cup {Nothing}]
        /\ raced' \in [Thread -> BOOLEAN]
        /\ disturbed' \in [Thread -> SUBSET Frame]
    BY <1>12 DEF CopyOut, Forget, TypeOK
  <2>4. TypeOK'
    BY <2>1, <2>2, <2>3 DEF TypeOK
  <2>5. \A u \in Thread : pc'[u] \in Copying \cup Clearing => pc'[u] = pc[u]
    BY <2>1 DEF TypeOK, Copying, Clearing
  <2> QED
    BY <2>1, <2>4, <2>5 DEF NextInRange
<1>13. ASSUME BootStep PROVE Typed'
  BY <1>13
  DEF BootStep, TeeBoots, local, history, TypeOK, TeeStates, NextInRange
<1>14. ASSUME UNCHANGED vars PROVE Typed'
  BY <1>14 DEF vars, local, history, TypeOK, NextInRange
<1>16. ASSUME HostFails PROVE Typed'
  BY <1>16 DEF HostFails, local, history, TypeOK, NextInRange, Copying, Clearing
<1> QED
  BY <1>1, <1>2, <1>3, <1>4, <1>5, <1>6, <1>7, <1>8, <1>9, <1>10, <1>11,
     <1>12, <1>13, <1>14, <1>15, <1>16 DEF Next, KernelStep

\* Every variable keeps its type, whatever the threads do; with it, a running
\* copy never leaves the buffer it copies.
THEOREM TypeCorrect == Spec => []TypeOK
<1>1. Typed => TypeOK
  BY DEF Typed
<1> QED
  BY <1>1, TypedInit, TypedStep, PTL DEF Spec
-----------------------------------------------------------------------------
(* What was copied stays, RegionsFilled *)

\* RegionsFilled for one thread and one part.
FilledAt(t, q) ==
    \A i \in Copied(t, q) :
        LET f == Target(kparam[t], q, i)
        IN  \/ f \notin Frame
            \/ mem[f] = <<kparam[t].src[q], i>>
            \/ f \in disturbed[t]
            \/ q = "bin" /\ f \in Frames(kparam[t], "dtb")

LEMMA FilledIsFilledAt ==
    RegionsFilled <=> \A t \in Thread, q \in Parts : FilledAt(t, q)
  BY DEF RegionsFilled, FilledAt, ChunkOf

\* A thread that is not between LOAD and RUN has copied nothing.
LEMMA NothingCopiedOutside ==
    ASSUME NEW t \in Thread, NEW q \in Parts, pc[t] \notin Inside
    PROVE  Copied(t, q) = {}
  BY DEF Copied, Past, Inside, Copying, Clearing, Parts

\* A thread keeps what it copied when it does not move itself, and whoever
\* writes meanwhile adds the frames to its history.
LEMMA OthersStayFilled ==
    ASSUME Typed, RegionsFilled,
           NEW u \in Thread, NEW q \in Parts, NEW fs \in SUBSET Frame,
           pc'[u] = pc[u], kparam'[u] = kparam[u], next'[u] = next[u],
           pc[u] \in Inside => disturbed'[u] = disturbed[u] \cup fs,
           \A f \in Frame \ fs : mem'[f] = mem[f]
    PROVE  FilledAt(u, q)'
<1>1. Copied(u, q)' = Copied(u, q)
  BY DEF Copied
<1> SUFFICES ASSUME NEW i \in Copied(u, q)
             PROVE  LET f == Target(kparam[u], q, i)
                    IN  \/ f \notin Frame
                        \/ mem'[f] = <<kparam[u].src[q], i>>
                        \/ f \in disturbed'[u]
                        \/ q = "bin" /\ f \in Frames(kparam[u], "dtb")
  BY <1>1 DEF FilledAt, Target, Frames
<1> DEFINE f == Target(kparam[u], q, i)
<1>2. pc[u] \in Inside
  BY NothingCopiedOutside
<1>3. \/ f \notin Frame
      \/ mem[f] = <<kparam[u].src[q], i>>
      \/ f \in disturbed[u]
      \/ q = "bin" /\ f \in Frames(kparam[u], "dtb")
  BY FilledIsFilledAt DEF FilledAt
<1> QED
  BY <1>2, <1>3

LEMMA FilledInit == Init => RegionsFilled
  BY NothingCopiedOutside DEF Init, RegionsFilled, Inside, Copying, Clearing

LEMMA FilledStep == Typed /\ RegionsFilled /\ [Next]_vars => RegionsFilled'
<1> SUFFICES ASSUME Typed, RegionsFilled, [Next]_vars PROVE RegionsFilled'
  OBVIOUS
<1> SUFFICES ASSUME NEW u \in Thread, NEW r \in Parts PROVE FilledAt(u, r)'
  BY FilledIsFilledAt, NothingCopiedOutside DEF RegionsFilled, FilledAt
<1> USE DEF Typed
\* Steps that leave u where it is and the memory alone.
<1>1. ASSUME mem' = mem, pc'[u] = pc[u], kparam'[u] = kparam[u],
             next'[u] = next[u], pc[u] \in Inside => disturbed'[u] = disturbed[u]
      PROVE  FilledAt(u, r)'
  BY <1>1, OthersStayFilled, {} \in SUBSET Frame
\* Steps that take u out of the handler, or up to the start of it.
<1>2. ASSUME pc'[u] \notin Inside PROVE FilledAt(u, r)'
  BY <1>2 DEF FilledAt, Copied, Past, Inside, Copying, Clearing, Parts
<1>3. ASSUME NEW t \in Thread, IoctlEnter(t) PROVE FilledAt(u, r)'
  BY <1>1, <1>2, <1>3 DEF IoctlEnter, TypeOK, Inside, Copying, Clearing
<1>4. ASSUME NEW t \in Thread, IoctlReject(t) PROVE FilledAt(u, r)'
  BY <1>1, <1>4 DEF IoctlReject
<1>5. ASSUME NEW t \in Thread, UserRewrites(t) PROVE FilledAt(u, r)'
  BY <1>1, <1>5 DEF UserRewrites, history
<1>6. ASSUME NEW t \in Thread, LoadLinux(t) PROVE FilledAt(u, r)'
  <2>1. CASE u # t
    BY <1>1, <1>6, <2>1 DEF LoadLinux, history, TypeOK
  <2>2. CASE u = t
    <3>1. pc'[u] \in {"bin", "out"} /\ next'[u] = 1
      BY <1>6, <2>2 DEF LoadLinux, AfterLoad, TypeOK
    <3>2. Copied(u, r)' = {}
      <4>1. CASE pc'[u] = "bin" /\ r = "bin"
        BY <3>1, <4>1 DEF Copied
      <4>2. CASE ~(pc'[u] = "bin" /\ r = "bin")
        BY <3>1, <4>2 DEF Copied, Past, Parts
      <4> QED
        BY <4>1, <4>2
    <3> QED
      BY <3>2 DEF FilledAt
  <2> QED
    BY <2>1, <2>2
<1>7. ASSUME NEW t \in Thread, CopyChunk(t) PROVE FilledAt(u, r)'
  <2> DEFINE q == pc[t]
             p == kparam[t]
             f == Target(p, q, next[t])
  <2>1. /\ q \in Copying
        /\ Store(t, f, ChunkOf(p, q, next[t]))
        /\ kparam' = kparam
    BY <1>7 DEF CopyChunk
  <2>2. /\ p \in Params
        /\ q \in Parts
        /\ next[t] \in 1 .. p.size[q]
        /\ f \in Frames(p, q)
        /\ ChunkOf(p, q, next[t]) \in Chunk
    BY <2>1, CopyInRange
  <2>3. /\ f \in Frame => mem'[f] = <<p.src[q], next[t]>>
        /\ \A g \in Frame \ {f} : mem'[g] = mem[g]
        /\ disturbed'[t] = disturbed[t]
    BY <2>1, <2>2, Stored DEF ChunkOf
  <2>4. CASE u # t
    <3>1. pc'[u] = pc[u] /\ next'[u] = next[u]
      BY <1>7, <2>4 DEF CopyChunk, TypeOK
    <3>2. pc[u] \in Inside => disturbed'[u] = disturbed[u] \cup ({f} \cap Frame)
      BY <2>1, <2>2, <2>4, Stored
    <3>3. \A g \in Frame \ ({f} \cap Frame) : mem'[g] = mem[g]
      BY <2>3
    <3> HIDE DEF f
    <3> QED
      BY <2>1, <3>1, <3>2, <3>3, OthersStayFilled, {f} \cap Frame \in SUBSET Frame
  <2>5. CASE u = t
    <3>1. CASE r = q
      <4>1. Copied(t, r)' \subseteq Copied(t, r) \cup {next[t]}
        <5>1. CASE LastChunk(p, q, next[t])
          <6>1. pc'[t] = AfterPart(q)
            BY <1>7, <5>1 DEF CopyChunk, TypeOK
          <6>2. p.size[q] = next[t] /\ next[t] \in Nat
            BY <2>2, <5>1, ParamFacts DEF LastChunk
          <6>3. Copied(t, r)' = 1 .. next[t]
            BY <2>1, <3>1, <6>1, <6>2 DEF Copied, Past, AfterPart, Copying
          <6>4. Copied(t, r) = 1 .. (next[t] - 1)
            BY <3>1 DEF Copied
          <6> QED
            BY <6>2, <6>3, <6>4
        <5>2. CASE ~LastChunk(p, q, next[t])
          <6>1. pc'[t] = q /\ next'[t] = next[t] + 1
            BY <1>7, <5>2 DEF CopyChunk, TypeOK
          <6>2. next[t] \in Nat
            BY <2>2
          <6>3. Copied(t, r)' = 1 .. (next'[t] - 1)
            BY <3>1, <6>1 DEF Copied
          <6>4. Copied(t, r) = 1 .. (next[t] - 1)
            BY <3>1 DEF Copied
          <6> QED
            BY <6>1, <6>2, <6>3, <6>4
        <5> QED
          BY <5>1, <5>2
      <4>2. Copied(t, r) \subseteq 1 .. (next[t] - 1)
        BY <3>1 DEF Copied
      <4>3. SUFFICES ASSUME NEW i \in Copied(t, r)'
                     PROVE  \/ Target(p, r, i) \notin Frame
                            \/ mem'[Target(p, r, i)] = <<p.src[r], i>>
                            \/ Target(p, r, i) \in disturbed'[t]
                            \/ r = "bin" /\ Target(p, r, i) \in Frames(p, "dtb")
        BY <2>1, <2>5 DEF FilledAt, Target, Frames
      <4>4. CASE i = next[t]
        BY <2>3, <3>1, <4>4
      <4>5. CASE i # next[t]
        <5>1. i \in Copied(t, r)
          BY <4>1, <4>3, <4>5
        <5>2. Target(p, r, i) # f
          BY <2>2, <3>1, <4>2, <5>1, ParamFacts DEF Target
        <5>3. \/ Target(p, r, i) \notin Frame
              \/ mem[Target(p, r, i)] = <<p.src[r], i>>
              \/ Target(p, r, i) \in disturbed[t]
              \/ r = "bin" /\ Target(p, r, i) \in Frames(p, "dtb")
          BY <5>1, FilledIsFilledAt DEF FilledAt
        <5> HIDE DEF f
        <5> QED
          BY <2>3, <5>2, <5>3
      <4> QED
        BY <4>4, <4>5
    <3>2. CASE r # q
      <4> DEFINE g(i) == Target(p, r, i)
      <4>1. Copied(t, r)' \subseteq IF r = "bin" /\ q = "dtb"
                                    THEN 1 .. p.size["bin"] ELSE {}
        <5>1. CASE q = "bin"
          <6>1. r = "dtb" /\ pc'[t] \in {"bin", "dtb"} /\ next'[t] \in Nat
                /\ (pc'[t] = "dtb" => next'[t] = 1)
            BY <1>7, <2>1, <3>2, <5>1 DEF CopyChunk, AfterPart, TypeOK, Parts
          <6> QED
            BY <5>1, <6>1 DEF Copied, Past
        <5>2. CASE q = "dtb"
          <6>1. r = "bin" /\ pc'[t] \in {"dtb", "css"}
            BY <1>7, <2>1, <3>2, <5>2 DEF CopyChunk, AfterPart, TypeOK, Parts
          <6> QED
            BY <2>1, <5>2, <6>1 DEF Copied, Past
        <5> QED
          BY <2>1, <5>1, <5>2 DEF Copying
      <4>2. SUFFICES ASSUME NEW i \in 1 .. p.size["bin"],
                            r = "bin", q = "dtb"
                     PROVE  \/ g(i) \notin Frame
                            \/ mem'[g(i)] = <<p.src[r], i>>
                            \/ g(i) \in disturbed'[t]
                            \/ g(i) \in Frames(p, "dtb")
        BY <2>1, <2>5, <4>1 DEF FilledAt, Target, Frames
      <4>3. i \in Copied(t, "bin")
        BY <4>2 DEF Copied, Past
      <4>4. \/ g(i) \notin Frame
            \/ mem[g(i)] = <<p.src[r], i>>
            \/ g(i) \in disturbed[t]
            \/ g(i) \in Frames(p, "dtb")
        BY <4>2, <4>3, FilledIsFilledAt DEF FilledAt
      <4>5. f \in Frames(p, "dtb")
        BY <2>2, <4>2
      <4> HIDE DEF f, g
      <4> QED
        BY <2>3, <4>4, <4>5
    <3> QED
      BY <3>1, <3>2
  <2> QED
    BY <2>4, <2>5
<1>8. ASSUME NEW t \in Thread, CopyFaults(t) PROVE FilledAt(u, r)'
  <2>1. CASE u # t
    BY <1>1, <1>8, <2>1 DEF CopyFaults, local, history, TypeOK
  <2>2. CASE u = t
    <3>1. /\ pc[u] \in Copying /\ mem' = mem /\ kparam' = kparam /\ disturbed' = disturbed
          /\ pc'[u] = IF pc[u] = "bin" THEN "bin rest" ELSE "dtb rest"
      BY <1>8, <2>2 DEF CopyFaults, local, history, TypeOK
    <3>2. Copied(u, r)' \subseteq Copied(u, r)
      BY <3>1 DEF Copied, Past, Copying, Parts
    <3> QED
      BY <3>1, <3>2, FilledIsFilledAt DEF FilledAt, Target, Frames
  <2> QED
    BY <2>1, <2>2
<1>16. ASSUME NEW t \in Thread, ClearChunk(t) PROVE FilledAt(u, r)'
  <2> DEFINE q == PartAt(pc[t])
             p == kparam[t]
             f == Target(p, q, next[t])
  <2>1. pc[t] \in Clearing /\ Store(t, f, Nothing) /\ kparam' = kparam
    BY <1>16 DEF ClearChunk
  <2>2. q \in Parts /\ f \in Frames(p, q)
    BY <2>1, CopyInRange
  <2>3. /\ \A g \in Frame \ {f} : mem'[g] = mem[g]
        /\ disturbed'[t] = disturbed[t]
    BY <2>1, Stored
  <2>4. CASE u # t
    <3>1. pc'[u] = pc[u] /\ next'[u] = next[u]
      BY <1>16, <2>4 DEF ClearChunk, TypeOK
    <3>2. pc[u] \in Inside => disturbed'[u] = disturbed[u] \cup ({f} \cap Frame)
      BY <2>1, <2>4, Stored
    <3>3. \A g \in Frame \ ({f} \cap Frame) : mem'[g] = mem[g]
      BY <2>3
    <3> HIDE DEF f
    <3> QED
      BY <2>1, <3>1, <3>2, <3>3, OthersStayFilled, {f} \cap Frame \in SUBSET Frame
  <2>5. CASE u = t
    <3>1. pc'[t] = pc[t] \/ pc'[t] = "out"
      BY <1>16 DEF ClearChunk, TypeOK
    <3>2. Copied(t, r)' \subseteq Copied(t, r) /\ (Copied(t, r)' # {} => q = "dtb" /\ r = "bin")
      BY <2>1, <3>1 DEF Copied, Past, PartAt, Clearing, Parts
    <3>3. SUFFICES ASSUME NEW i \in Copied(t, r), q = "dtb", r = "bin"
                   PROVE  \/ Target(p, r, i) \notin Frame
                          \/ mem'[Target(p, r, i)] = <<p.src[r], i>>
                          \/ Target(p, r, i) \in disturbed'[t]
                          \/ Target(p, r, i) \in Frames(p, "dtb")
      BY <2>1, <2>5, <3>2 DEF FilledAt, Target, Frames
    <3>4. \/ Target(p, r, i) \notin Frame
          \/ mem[Target(p, r, i)] = <<p.src[r], i>>
          \/ Target(p, r, i) \in disturbed[t]
          \/ Target(p, r, i) \in Frames(p, "dtb")
      BY <3>3, FilledIsFilledAt DEF FilledAt
    <3>5. f \in Frames(p, "dtb")
      BY <2>2, <3>3
    <3> HIDE DEF f, q
    <3> QED
      BY <2>3, <3>4, <3>5
  <2> QED
    BY <2>4, <2>5
<1>9. ASSUME NEW t \in Thread, CopyTraps(t) \/ CssTraps(t)
      PROVE  FilledAt(u, r)'
  BY <1>1, <1>2, <1>9 DEF CopyTraps, CssTraps, local, history, TypeOK, Inside, Copying, Clearing
<1>10. ASSUME NEW t \in Thread, CopyCss(t) PROVE FilledAt(u, r)'
  <2>1. CASE u # t
    BY <1>1, <1>10, <2>1 DEF CopyCss, history, TypeOK
  <2>2. CASE u = t
    <3>1. pc[u] = "css" /\ pc'[u] = "run" /\ mem' = mem
          /\ kparam' = kparam /\ disturbed' = disturbed
      BY <1>10, <2>2 DEF CopyCss, history, TypeOK
    <3>2. Copied(u, r)' = Copied(u, r)
      BY <3>1 DEF Copied, Past, Parts
    <3> QED
      BY <3>1, <3>2, FilledIsFilledAt DEF FilledAt, Target, Frames
  <2> QED
    BY <2>1, <2>2
<1>11. ASSUME NEW t \in Thread, CssRejected(t) PROVE FilledAt(u, r)'
  BY <1>1, <1>2, <1>11 DEF CssRejected, history, TypeOK, Inside, Copying, Clearing
<1>12. ASSUME NEW t \in Thread, RunLinux(t) PROVE FilledAt(u, r)'
  BY <1>1, <1>2, <1>12 DEF RunLinux, TypeOK, Inside, Copying, Clearing
<1>13. ASSUME NEW t \in Thread, CopyOut(t) PROVE FilledAt(u, r)'
  BY <1>1, <1>2, <1>13 DEF CopyOut, Forget, TypeOK, Inside, Copying, Clearing
<1>14. ASSUME BootStep PROVE FilledAt(u, r)'
  BY <1>1, <1>14 DEF BootStep, local, history
<1>15. ASSUME UNCHANGED vars PROVE FilledAt(u, r)'
  BY <1>1, <1>15 DEF vars, local, history
<1>17. ASSUME HostFails PROVE FilledAt(u, r)'
  BY <1>2, <1>17 DEF HostFails, Inside, Copying, Clearing
<1> QED
  BY <1>3, <1>4, <1>5, <1>6, <1>7, <1>8, <1>9, <1>10, <1>11, <1>12, <1>13,
     <1>14, <1>15, <1>16, <1>17 DEF Next, KernelStep

\* What a call copied into the memory of the TEE is still there when it issues RUN, except where
\* another call or its own dtb wrote over it.
THEOREM RegionsFilledCorrect == Spec => []RegionsFilled
  BY TypedInit, TypedStep, FilledInit, FilledStep, PTL DEF Spec

-----------------------------------------------------------------------------
(* Who may be killed, DeadOnlyByRaceOrAddress *)

RaceInv == OpenUnlessRaced /\ DeadOnlyByRaceOrAddress

LEMMA RaceInit == Init => RaceInv
  BY DEF Init, RaceInv, OpenUnlessRaced, DeadOnlyByRaceOrAddress, Inside, Copying, Clearing

LEMMA RaceStep ==
    ASSUME RefusalsNegative
    PROVE  Typed /\ RaceInv /\ [Next]_vars => RaceInv'
<1> SUFFICES ASSUME Typed, RaceInv, [Next]_vars PROVE RaceInv'
  OBVIOUS
<1> USE DEF Typed, RaceInv, OpenUnlessRaced, DeadOnlyByRaceOrAddress
<1>1. ASSUME NEW t \in Thread, IoctlEnter(t) PROVE RaceInv'
  BY <1>1 DEF IoctlEnter, TypeOK, Inside, Copying, Clearing, Writable, Running, Own, Frames
<1>2. ASSUME NEW t \in Thread, IoctlReject(t) PROVE RaceInv'
  BY <1>2 DEF IoctlReject, Writable, Running, Own, Frames
<1>3. ASSUME NEW t \in Thread, UserRewrites(t) PROVE RaceInv'
  BY <1>3 DEF UserRewrites, history, Writable, Running, Own, Frames
<1>4. ASSUME NEW t \in Thread, LoadLinux(t) PROVE RaceInv'
  <2>1. PICK reply \in FailReplies \cup {Ok} :
           /\ SbiLoad(reply)
           /\ pc' = [pc EXCEPT ![t] = AfterLoad(Result(reply))]
    BY <1>4 DEF LoadLinux
  <2>2. CASE Running
    <3>1. tee' = tee /\ reply.value \in Int /\ reply.value < 0
      BY <2>1, <2>2 DEF SbiLoad, RefusalsNegative
    <3>2. AfterLoad(Result(reply)) = "out"
      <4>1. Result(reply) # 0
        BY <3>1 DEF Result
      <4> QED
        BY <4>1 DEF AfterLoad, LoadRefused
    <3> QED
      BY <1>4, <2>1, <3>1, <3>2
      DEF LoadLinux, history, TypeOK, Inside, Copying, Clearing, Writable, Running, Own, Frames
  <2>3. CASE ~Running
    <3>1. tee' = [tee EXCEPT !.state = "open"]
      BY <2>1, <2>3 DEF SbiLoad
    <3>2. Writable'
      BY <3>1 DEF TypeOK, Writable
    <3>3. \A u \in Thread : pc'[u] = "dead" => pc[u] = "dead" /\ buf'[u] = buf[u]
      BY <1>4, <2>1 DEF LoadLinux, AfterLoad, TypeOK
    <3> QED
      BY <1>4, <3>2, <3>3 DEF LoadLinux, history, Own, Frames
  <2> QED
    BY <2>2, <2>3
<1>5. ASSUME NEW t \in Thread, CopyChunk(t) \/ ClearChunk(t) PROVE RaceInv'
  <2>1. UNCHANGED <<tee, buf, raced, kparam>> /\ pc[t] \in Inside
    BY <1>5 DEF CopyChunk, ClearChunk, Inside
  <2>2. \A u \in Thread : /\ pc'[u] = "dead" => pc[u] = "dead"
                          /\ pc'[u] \in Inside => pc[u] \in Inside
    BY <1>5, <2>1 DEF CopyChunk, ClearChunk, AfterPart, TypeOK
  <2>3. strayed => strayed'
    BY <1>5 DEF CopyChunk, ClearChunk, Store
  <2>4. OpenUnlessRaced'
    BY <2>1, <2>2 DEF Writable, Running, Own, Frames
  <2>5. DeadOnlyByRaceOrAddress'
    BY <2>1, <2>2, <2>3 DEF Own, Frames
  <2> QED
    BY <2>4, <2>5
<1>6. ASSUME NEW t \in Thread, CopyFaults(t) PROVE RaceInv'
  <2>1. /\ UNCHANGED <<tee, buf, raced, kparam, strayed>>
        /\ pc[t] \in Inside
        /\ pc' = [pc EXCEPT ![t] = IF pc[t] = "bin" THEN "bin rest" ELSE "dtb rest"]
    BY <1>6 DEF CopyFaults, local, history, Inside
  <2>2. \A u \in Thread : /\ pc'[u] = "dead" => pc[u] = "dead"
                          /\ pc'[u] \in Inside => pc[u] \in Inside
    BY <2>1 DEF TypeOK
  <2> QED
    BY <2>1, <2>2 DEF Writable, Running, Own, Frames
<1>7. ASSUME NEW t \in Thread, CopyTraps(t) PROVE RaceInv'
  <2> DEFINE f == Target(kparam[t], PartAt(pc[t]), next[t])
  <2>1. /\ pc[t] \in Copying \cup Clearing /\ ~Storable(f)
        /\ pc' = [pc EXCEPT ![t] = "dead"]
        /\ UNCHANGED <<tee, buf, raced, kparam, strayed>>
    BY <1>7 DEF CopyTraps, local, history
  <2>2. raced[t] \/ ~(Own(kparam[t]) \subseteq Frame)
    <3>1. f \in Own(kparam[t])
      BY <2>1, CopyInRange DEF Own, Parts
    <3>2. f \notin Frame \/ ~Writable
      BY <2>1 DEF Storable
    <3>3. pc[t] \in Inside
      BY <2>1 DEF Inside
    <3> HIDE DEF f
    <3> QED
      BY <3>1, <3>2, <3>3
  <2> QED
    BY <2>1, <2>2 DEF TypeOK, Inside, Copying, Clearing, Writable, Running, Own, Frames
<1>8. ASSUME NEW t \in Thread, CopyCss(t) PROVE RaceInv'
  BY <1>8 DEF CopyCss, history, TypeOK, Inside, Copying, Clearing, Writable, Running, Own, Frames
<1>9. ASSUME NEW t \in Thread, CssRejected(t) PROVE RaceInv'
  BY <1>9 DEF CssRejected, history, TypeOK, Inside, Copying, Clearing, Writable, Running, Own, Frames
<1>10. ASSUME NEW t \in Thread, CssTraps(t) PROVE RaceInv'
  BY <1>10 DEF CssTraps, local, history, TypeOK, Inside, Copying, Clearing, Writable, Running, Own, Frames
<1>11. ASSUME NEW t \in Thread, RunLinux(t) PROVE RaceInv'
  <2>1. /\ pc' = [pc EXCEPT ![t] = "out"]
        /\ UNCHANGED <<buf, kparam, strayed>>
        /\ raced' = [u \in Thread |->
                        raced[u] \/ (u # t /\ tee' # tee /\ pc[u] \in Inside)]
    BY <1>11 DEF RunLinux
  <2>2. tee' = tee \/ tee'.state = "booting"
    BY <1>11 DEF RunLinux, SbiRun
  <2>3. \A u \in Thread : pc'[u] \in Inside => u # t /\ pc[u] \in Inside
    BY <2>1 DEF TypeOK, Inside, Copying, Clearing
  <2>4. \A u \in Thread : pc'[u] = "dead" => pc[u] = "dead"
    BY <2>1 DEF TypeOK
  <2>5. \A u \in Thread : raced[u] => raced'[u]
    BY <2>1
  <2>6. DeadOnlyByRaceOrAddress'
    BY <2>1, <2>4, <2>5 DEF Own, Frames
  <2>7. CASE tee' = tee
    BY <2>3, <2>5, <2>6, <2>7 DEF Writable, Running, Own, Frames
  <2>8. CASE tee' # tee
    BY <2>1, <2>2, <2>3, <2>6, <2>8 DEF Running
  <2> QED
    BY <2>7, <2>8
<1>12. ASSUME NEW t \in Thread, CopyOut(t) PROVE RaceInv'
  BY <1>12 DEF CopyOut, Forget, TypeOK, Inside, Copying, Clearing, Writable, Running, Own, Frames
<1>13. ASSUME BootStep PROVE RaceInv'
  <2>1. Running /\ Running' /\ ~Writable
    BY <1>13 DEF BootStep, TeeBoots, Running, Writable, TypeOK
  <2> QED
    BY <1>13, <2>1 DEF BootStep, local, history, Own, Frames
<1>14. ASSUME UNCHANGED vars PROVE RaceInv'
  BY <1>14 DEF vars, local, history, Writable, Running, Own, Frames
<1>15. ASSUME HostFails PROVE RaceInv'
  BY <1>15 DEF HostFails, history, Inside, Copying, Clearing
<1> QED
  BY <1>1, <1>2, <1>3, <1>4, <1>5, <1>6, <1>7, <1>8, <1>9, <1>10, <1>11,
     <1>12, <1>13, <1>14, <1>15 DEF Next, KernelStep

\* A thread is killed in the handler only for want of a buffer, because another
\* call started the TEE while it was copying, or because of a load address outside
\* the memory of the TEE, its own or one that brought the host down.
THEOREM DeadOnlyByRaceOrAddressCorrect ==
    ASSUME RefusalsNegative
    PROVE  Spec => []DeadOnlyByRaceOrAddress
<1>1. RaceInv => DeadOnlyByRaceOrAddress
  BY DEF RaceInv
<1> QED
  BY <1>1, TypedInit, TypedStep, RaceInit, RaceStep, PTL DEF Spec

-----------------------------------------------------------------------------
(* A certified payload nobody disturbs is started, UndisturbedRunStarts *)

LEMMA CssInit == Init => CssKept
  BY DEF Init, CssKept

LEMMA CssStep == Typed /\ CssKept /\ [Next]_vars => CssKept'
<1> SUFFICES ASSUME Typed, CssKept, [Next]_vars,
                    NEW u \in Thread, pc'[u] = "run"
             PROVE  kcss'[u] = CssOf(kparam'[u])
  BY DEF CssKept, CssOf
<1> USE DEF Typed, CssKept
\* Steps that leave u where it is.
<1>1. ASSUME pc'[u] = pc[u], kcss'[u] = kcss[u], kparam'[u] = kparam[u]
      PROVE  kcss'[u] = CssOf(kparam'[u])
  BY <1>1
<1>2. ASSUME NEW t \in Thread, CopyCss(t) PROVE kcss'[u] = CssOf(kparam'[u])
  BY <1>1, <1>2 DEF CopyCss, TypeOK
<1>3. ASSUME NEW t \in Thread, IoctlEnter(t) \/ CopyOut(t)
      PROVE  kcss'[u] = CssOf(kparam'[u])
  BY <1>1, <1>3 DEF IoctlEnter, CopyOut, TypeOK
<1>4. ASSUME NEW t \in Thread, LoadLinux(t)
      PROVE  kcss'[u] = CssOf(kparam'[u])
  BY <1>1, <1>4 DEF LoadLinux, AfterLoad, TypeOK
<1>5. ASSUME NEW t \in Thread, CopyChunk(t)
      PROVE  kcss'[u] = CssOf(kparam'[u])
  BY <1>1, <1>5 DEF CopyChunk, AfterPart, TypeOK
<1>6. ASSUME NEW t \in Thread,
             \/ CopyFaults(t) \/ ClearChunk(t) \/ CopyTraps(t) \/ CssRejected(t) \/ CssTraps(t)
             \/ RunLinux(t)
      PROVE  kcss'[u] = CssOf(kparam'[u])
  BY <1>1, <1>6 DEF CopyFaults, ClearChunk, CopyTraps, CssRejected, CssTraps, RunLinux,
     local, TypeOK
<1>7. ASSUME NEW t \in Thread, IoctlReject(t) \/ UserRewrites(t)
      PROVE  kcss'[u] = CssOf(kparam'[u])
  BY <1>1, <1>7 DEF IoctlReject, UserRewrites
<1>9. ASSUME HostFails PROVE kcss'[u] = CssOf(kparam'[u])
  BY <1>9 DEF HostFails
<1>8. ASSUME BootStep \/ UNCHANGED vars PROVE kcss'[u] = CssOf(kparam'[u])
  BY <1>1, <1>8 DEF BootStep, vars, local
<1> QED
  BY <1>2, <1>3, <1>4, <1>5, <1>6, <1>7, <1>8, <1>9 DEF Next, KernelStep

\* Undisturbed, the regions of a call that is about to issue RUN hold exactly
\* the payload it came with.
LEMMA UndisturbedHoldsPayload ==
    ASSUME Typed, RegionsFilled, NEW t \in Thread, pc[t] = "run",
           Own(kparam[t]) \subseteq Frame,
           Frames(kparam[t], "bin") \cap Frames(kparam[t], "dtb") = {},
           disturbed[t] \cap Own(kparam[t]) = {}
    PROVE  Measure(mem, kparam[t]) = Payload(kparam[t])
<1> DEFINE p == kparam[t]
<1>1. p \in Params
  BY DEF Typed, TypeOK
<1>2. ASSUME NEW q \in Parts, NEW i \in 1 .. p.size[q]
      PROVE  Found(mem, p.addr[q] + i - 1) = <<p.src[q], i>>
  <2>1. i \in Copied(t, q)
    BY <1>2 DEF Copied, Past, Parts
  <2>2. Target(p, q, i) \in Frames(p, q)
    BY <1>1, <1>2, ParamFacts
  <2>5. Target(p, q, i) \in Frame
    BY <1>2, <2>2 DEF Own, Parts
  <2>3. Target(p, q, i) \notin disturbed[t]
    BY <1>2, <2>2 DEF Own, Parts
  <2>4. ~(q = "bin" /\ Target(p, q, i) \in Frames(p, "dtb"))
    BY <2>2
  <2> QED
    BY <1>2, <2>1, <2>3, <2>4, <2>5 DEF RegionsFilled, Target, Found
<1>3. \A q \in Parts : [i \in 1 .. p.size[q] |-> Found(mem, p.addr[q] + i - 1)]
                          = [i \in 1 .. p.size[q] |-> <<p.src[q], i>>]
  BY <1>2
<1> QED
  BY <1>3 DEF Measure, Payload

StartInv == Typed /\ RegionsFilled /\ RaceInv /\ CssKept

\* Whatever went before, a certified payload that no other call wrote over is
\* not refused unless a TEE runs.
THEOREM UndisturbedRunStartsCorrect ==
    ASSUME RefusalsNegative
    PROVE  Spec => UndisturbedRunStarts
<1>1. StartInv /\ [Next]_vars =>
        [\A t \in Thread :
            /\ pc[t] = "run" /\ pc'[t] = "out"
            /\ Certified(kparam[t])
            /\ ~Running
            /\ disturbed[t] \cap Own(kparam[t]) = {}
            => started'[t]]_vars
  <2> SUFFICES ASSUME StartInv, Next, NEW t \in Thread,
                      pc[t] = "run", pc'[t] = "out",
                      Certified(kparam[t]), ~Running,
                      disturbed[t] \cap Own(kparam[t]) = {}
               PROVE  started'[t]
    OBVIOUS
  <2> USE DEF StartInv
  <2>1. RunLinux(t)
    <3> USE DEF Typed, TypeOK
    <3>1. ASSUME NEW u \in Thread,
                 IoctlEnter(u) \/ IoctlReject(u) \/ UserRewrites(u) \/ CopyOut(u)
          PROVE  FALSE
      BY <3>1 DEF IoctlEnter, IoctlReject, UserRewrites, CopyOut
    <3>2. ASSUME NEW u \in Thread, LoadLinux(u) PROVE FALSE
      BY <3>2 DEF LoadLinux
    <3>3. ASSUME NEW u \in Thread,
                 CopyChunk(u) \/ CopyFaults(u) \/ ClearChunk(u) \/ CopyTraps(u)
          PROVE  FALSE
      BY <3>3 DEF CopyChunk, CopyFaults, ClearChunk, CopyTraps, Copying, Clearing
    <3>4. ASSUME NEW u \in Thread, CopyCss(u) \/ CssRejected(u) \/ CssTraps(u)
          PROVE  FALSE
      BY <3>4 DEF CopyCss, CssRejected, CssTraps
    <3>5. ASSUME NEW u \in Thread, RunLinux(u) PROVE u = t
      BY <3>5 DEF RunLinux
    <3>6. ~BootStep /\ ~HostFails
      BY DEF BootStep, HostFails
    <3> QED
      BY <3>1, <3>2, <3>3, <3>4, <3>5, <3>6 DEF Next, KernelStep
  <2>2. Measure(mem, kparam[t]) = Payload(kparam[t])
    BY UndisturbedHoldsPayload DEF Certified
  <2>3. kcss[t] = Payload(kparam[t])
    <3>1. kparam[t] \in Param /\ CssSize \in Nat
      BY DEF Typed, TypeOK
    <3> QED
      BY <3>1 DEF CssKept, CssOf, Certified, Param
  <2>4. Writable
    BY DEF RaceInv, OpenUnlessRaced, Inside, Copying, Clearing
  <2>5. tee' = [state |-> "booting", image |-> Payload(kparam[t])]
    BY <2>1, <2>2, <2>3, <2>4 DEF RunLinux, SbiRun, Accepts, Handed
  <2>6. tee' # tee
    BY <2>4, <2>5 DEF Writable
  <2> QED
    BY <2>1, <2>6 DEF RunLinux, Typed, TypeOK
<1>2. Init => StartInv
  BY TypedInit, FilledInit, RaceInit, CssInit DEF StartInv
<1>3. StartInv /\ [Next]_vars => StartInv'
  BY TypedStep, FilledStep, RaceStep, CssStep DEF StartInv
<1> QED
  BY <1>1, <1>2, <1>3, PTL DEF Spec, UndisturbedRunStarts

-----------------------------------------------------------------------------
(* What the caller hears *)

LEMMA OutcomeInit == Init => OutcomeInv
  BY DEF Init, OutcomeInv, OutcomeKept, SuccessMeansStarted,
     Success, EFAULT

LEMMA OutcomeStep ==
    ASSUME RefusalsNegative
    PROVE  Typed /\ OutcomeInv /\ [Next]_vars => OutcomeInv'
<1> SUFFICES ASSUME Typed, OutcomeInv, [Next]_vars PROVE OutcomeInv'
  OBVIOUS
<1> USE DEF Typed, OutcomeInv, OutcomeKept, SuccessMeansStarted, Success
\* Steps that move no thread to a result.
<1>1. ASSUME started' = started, ret' = ret, strayed => strayed',
             \A u \in Thread : \/ pc'[u] = pc[u]
                               \/ /\ pc[u] \notin {"out", "user", "dead"}
                                  /\ pc'[u] \notin {"out", "user"}
      PROVE  OutcomeInv'
  BY <1>1
<1>2. ASSUME NEW t \in Thread, IoctlEnter(t) PROVE OutcomeInv'
  BY <1>2 DEF IoctlEnter, TypeOK
<1>3. ASSUME NEW t \in Thread, IoctlReject(t) PROVE OutcomeInv'
  BY <1>3 DEF IoctlReject, TypeOK, EFAULT
<1>4. ASSUME NEW t \in Thread, UserRewrites(t) PROVE OutcomeInv'
  BY <1>1, <1>4 DEF UserRewrites, history
<1>5. ASSUME NEW t \in Thread, LoadLinux(t) PROVE OutcomeInv'
  <2>1. PICK reply \in FailReplies \cup {Ok} :
           /\ SbiLoad(reply)
           /\ ret' = [ret EXCEPT ![t] = Result(reply)]
           /\ pc' = [pc EXCEPT ![t] = AfterLoad(Result(reply))]
    BY <1>5 DEF LoadLinux
  <2>2. Result(reply) = 0 \/ Result(reply) < 0
    BY <2>1 DEF Result, Ok, RefusalsNegative
  <2>3. /\ AfterLoad(Result(reply)) = "out" => Result(reply) < 0
        /\ AfterLoad(Result(reply)) \in {"out", "bin"}
    BY <2>2 DEF AfterLoad, LoadRefused
  <2>4. pc[t] = "load" /\ started' = started /\ strayed' = strayed
    BY <1>5 DEF LoadLinux, history
  <2>5. ret'[t] = Result(reply) /\ pc'[t] = AfterLoad(Result(reply))
    BY <2>1 DEF TypeOK
  <2>6. \A u \in Thread \ {t} : ret'[u] = ret[u] /\ pc'[u] = pc[u]
    BY <2>1 DEF TypeOK
  <2>7. ~started[t]
    BY <2>4
  <2> QED
    BY <2>3, <2>4, <2>5, <2>6, <2>7
<1>6. ASSUME NEW t \in Thread, CopyChunk(t) PROVE OutcomeInv'
  <2>1. /\ UNCHANGED <<ret, started>>
        /\ pc[t] \in Copying
        /\ pc' = [pc EXCEPT ![t] = IF pc[t] = "bin" THEN "dtb" ELSE "css"]
             \/ pc' = pc
        /\ strayed => strayed'
    BY <1>6 DEF CopyChunk, AfterPart, Store
  <2> QED
    BY <1>1, <2>1 DEF TypeOK, Copying
<1>7. ASSUME NEW t \in Thread, ClearChunk(t) \/ CssRejected(t), pc' # pc
      PROVE  OutcomeInv'
  <2>1. /\ pc[t] \in Inside
        /\ started' = started
        /\ ret' = [ret EXCEPT ![t] = -EFAULT]
        /\ pc' = [pc EXCEPT ![t] = "out"]
        /\ strayed => strayed'
    <3>1. CASE ClearChunk(t)
      BY <1>7, <3>1 DEF ClearChunk, Store, Inside
    <3>2. CASE CssRejected(t)
      BY <3>2 DEF CssRejected, history, Inside
    <3> QED
      BY <1>7, <3>1, <3>2
  <2>2. ret'[t] = -EFAULT /\ pc'[t] = "out"
    BY <2>1 DEF TypeOK
  <2>3. \A u \in Thread \ {t} : ret'[u] = ret[u] /\ pc'[u] = pc[u]
    BY <2>1 DEF TypeOK
  <2>4. ~started[t]
    BY <2>1 DEF Inside, Copying, Clearing
  <2> QED
    BY <2>1, <2>2, <2>3, <2>4 DEF EFAULT
<1>12. ASSUME NEW t \in Thread, ClearChunk(t), pc' = pc PROVE OutcomeInv'
  <2>1. /\ ret' = ret \/ pc' = [pc EXCEPT ![t] = "out"]
        /\ pc[t] \in Clearing
        /\ started' = started
        /\ strayed => strayed'
    BY <1>12 DEF ClearChunk, Store
  <2>2. ret' = ret
    BY <1>12, <2>1 DEF TypeOK, Clearing
  <2> QED
    BY <1>1, <1>12, <2>1, <2>2
<1>13. ASSUME HostFails PROVE OutcomeInv'
  BY <1>13 DEF HostFails, local, history
<1>14. ASSUME NEW t \in Thread, CssRejected(t) PROVE pc' # pc
  <2>1. pc[t] = "css" /\ pc' = [pc EXCEPT ![t] = "out"]
    BY <1>14 DEF CssRejected
  <2> QED
    BY <2>1 DEF TypeOK
<1>8. ASSUME NEW t \in Thread, CopyFaults(t) \/ CopyTraps(t) \/ CopyCss(t) \/ CssTraps(t)
      PROVE  OutcomeInv'
  BY <1>1, <1>8 DEF CopyFaults, CopyTraps, CopyCss, CssTraps, local, history, TypeOK,
     Copying, Clearing
<1>9. ASSUME NEW t \in Thread, RunLinux(t) PROVE OutcomeInv'
  <2>1. PICK reply \in FailReplies \cup {Ok} :
           /\ SbiRun(Measure(mem, Handed(t)), kcss[t], reply)
           /\ ret' = [ret EXCEPT ![t] = Result(reply)]
    BY <1>9 DEF RunLinux
  <2>2. /\ started' = [started EXCEPT ![t] = tee' # tee]
        /\ pc' = [pc EXCEPT ![t] = "out"]
        /\ strayed' = strayed
    BY <1>9 DEF RunLinux
  <2>3. IF tee' # tee THEN Result(reply) = 0 ELSE Result(reply) < 0
    <3>1. CASE Accepts(Measure(mem, Handed(t)), kcss[t])
      <4>1. reply = Ok /\ tee'.state = "booting" /\ tee.state = "open"
        BY <2>1, <3>1 DEF SbiRun, Accepts, Writable
      <4> QED
        BY <4>1 DEF Result, Ok
    <3>2. CASE ~Accepts(Measure(mem, Handed(t)), kcss[t])
      BY <2>1, <3>2 DEF SbiRun, Result, RefusalsNegative
    <3> QED
      BY <3>1, <3>2
  <2>4. /\ ret'[t] = Result(reply) /\ pc'[t] = "out"
        /\ started'[t] <=> tee' # tee
    BY <2>1, <2>2 DEF TypeOK
  <2>5. \A u \in Thread \ {t} : /\ ret'[u] = ret[u] /\ pc'[u] = pc[u]
                                /\ started'[u] <=> started[u]
    BY <2>1, <2>2 DEF TypeOK
  <2>6. ASSUME NEW u \in Thread
        PROVE  /\ started'[u] => pc'[u] \in {"out", "user"} \/ (pc'[u] = "dead" /\ strayed')
               /\ pc'[u] = "out" => IF started'[u] THEN ret'[u] = 0 ELSE ret'[u] < 0
               /\ pc'[u] = "user" /\ ret'[u] >= 0 => started'[u]
    <3>1. CASE u = t
      BY <2>3, <2>4, <3>1
    <3>2. CASE u # t
      BY <2>2, <2>5, <3>2
    <3> QED
      BY <3>1, <3>2
  <2> QED
    BY <2>6
<1>10. ASSUME NEW t \in Thread, CopyOut(t) PROVE OutcomeInv'
  <2>1. /\ pc[t] = "out"
        /\ pc' = [pc EXCEPT ![t] = "user"]
        /\ ret' = ret \/ ret' = [ret EXCEPT ![t] = -EFAULT]
        /\ started' = started /\ strayed' = strayed
    BY <1>10 DEF CopyOut
  <2>2. pc'[t] = "user" /\ (ret'[t] = ret[t] \/ ret'[t] < 0)
    BY <2>1 DEF TypeOK, EFAULT
  <2>3. \A u \in Thread \ {t} : ret'[u] = ret[u] /\ pc'[u] = pc[u]
    BY <2>1 DEF TypeOK
  <2>4. ASSUME NEW u \in Thread
        PROVE  /\ started'[u] => pc'[u] \in {"out", "user"} \/ (pc'[u] = "dead" /\ strayed')
               /\ pc'[u] = "out" => IF started'[u] THEN ret'[u] = 0 ELSE ret'[u] < 0
               /\ pc'[u] = "user" /\ ret'[u] >= 0 => started'[u]
    <3>1. CASE u = t
      <4>1. ret[t] \in Int /\ ret'[t] \in Int
        BY <2>1 DEF TypeOK, EFAULT
      <4>2. ret[t] >= 0 => started[t]
        <5>1. ~started[t] => ret[t] < 0
          BY <2>1
        <5> QED
          BY <4>1, <5>1
      <4>3. ret'[t] >= 0 => started[t]
        BY <2>2, <4>1, <4>2
      <4>4. pc'[u] = "user" /\ (started'[u] <=> started[u]) /\ ret'[u] = ret'[t]
        BY <2>1, <2>2, <3>1
      <4>5. ret'[u] >= 0 => started'[u]
        BY <3>1, <4>3, <4>4
      <4> HIDE DEF OutcomeInv, OutcomeKept, SuccessMeansStarted, Success
      <4> QED
        BY <4>4, <4>5
    <3>2. CASE u # t
      BY <2>1, <2>3, <3>2
    <3> QED
      BY <3>1, <3>2
  <2> QED
    BY <2>4
<1>11. ASSUME BootStep \/ UNCHANGED vars PROVE OutcomeInv'
  BY <1>1, <1>11 DEF BootStep, vars, local, history
<1> QED
  BY <1>2, <1>3, <1>4, <1>5, <1>6, <1>7, <1>8, <1>9, <1>10, <1>11, <1>12, <1>13, <1>14
  DEF Next, KernelStep

-----------------------------------------------------------------------------
(* The driver implements the service *)

ServiceInv == Typed /\ OutcomeInv /\ CssKept

\* A step after which the callers see what they saw before.
LEMMA SeenUnchanged ==
    ASSUME seenRunning' = seenRunning, kparam' = kparam,
           \A u \in Thread : StatusOf(u)' = StatusOf(u)
    PROVE  UNCHANGED Service!vars
  BY DEF Service!vars, seenStatus, seenCert

\* A step after which one caller sees another status.
LEMMA SeenStatusStep ==
    ASSUME NEW t \in Thread, NEW st,
           StatusOf(t)' = st,
           \A u \in Thread \ {t} : StatusOf(u)' = StatusOf(u)
    PROVE  seenStatus' = [seenStatus EXCEPT ![t] = st]
  BY DEF seenStatus

LEMMA ServiceInit == Init => Service!Init
<1> SUFFICES ASSUME Init PROVE Service!Init
  OBVIOUS
<1>1. seenRunning = Nothing
  BY DEF Init, MonitorInit, Running, seenRunning
<1>2. seenStatus = [c \in Thread |-> "failed"]
  BY DEF Init, EFAULT, StatusOf, seenStatus
<1>3. seenCert \in [Thread -> Certificates \cup {Nothing}]
  BY DEF Init, seenCert, Certificates
<1> QED
  BY <1>1, <1>2, <1>3 DEF Service!Init

LEMMA ServiceStep ==
    ServiceInv /\ [Next]_vars => [Service!Next]_(Service!vars)
<1> SUFFICES ASSUME ServiceInv, [Next]_vars
             PROVE  Service!Next \/ UNCHANGED Service!vars
  OBVIOUS
<1> USE DEF ServiceInv, Typed
<1>1. ASSUME NEW t \in Thread, IoctlEnter(t) PROVE Service!Ask(t)
  <2>1. PICK p \in Params : kparam' = [kparam EXCEPT ![t] = p]
    BY <1>1 DEF IoctlEnter
  <2>2. /\ pc[t] = "user"
        /\ pc' = [pc EXCEPT ![t] = "load"]
        /\ started' = [started EXCEPT ![t] = FALSE]
        /\ tee' = tee /\ ret' = ret
    BY <1>1 DEF IoctlEnter
  <2>3. seenStatus[t] \in Service!Told
    BY <2>2 DEF seenStatus, StatusOf, Service!Told
  <2>4. seenStatus' = [seenStatus EXCEPT ![t] = "pending"]
    BY <2>2, SeenStatusStep DEF StatusOf, TypeOK
  <2>5. seenCert' = [seenCert EXCEPT ![t] = p.css]
    BY <2>1 DEF seenCert, TypeOK
  <2>6. p.css \in Certificates \cup {Nothing}
    BY DEF Certificates
  <2>7. seenRunning' = seenRunning
    BY <2>2 DEF seenRunning, Running
  <2> QED
    BY <2>3, <2>4, <2>5, <2>6, <2>7 DEF Service!Ask
<1>2. ASSUME NEW t \in Thread, IoctlReject(t) PROVE Service!Fail(t)
  <2>1. /\ pc[t] = "user" /\ pc' = pc /\ kparam' = kparam /\ tee' = tee
        /\ ret' = [ret EXCEPT ![t] = -EFAULT]
        /\ started' = [started EXCEPT ![t] = FALSE]
    BY <1>2 DEF IoctlReject
  <2>2. seenStatus[t] # "gone"
    BY <2>1 DEF seenStatus, StatusOf
  <2>3. StatusOf(t)' = "failed"
    BY <2>1 DEF StatusOf, TypeOK, EFAULT
  <2>4. \A u \in Thread \ {t} : StatusOf(u)' = StatusOf(u)
    BY <2>1 DEF StatusOf, TypeOK
  <2>5. seenStatus' = [seenStatus EXCEPT ![t] = "failed"]
    BY <2>3, <2>4, SeenStatusStep
  <2> QED
    BY <2>1, <2>2, <2>5 DEF Service!Fail, seenRunning, seenCert, Running
<1>3. ASSUME NEW t \in Thread, UserRewrites(t) PROVE UNCHANGED Service!vars
  BY <1>3, SeenUnchanged
  DEF UserRewrites, history, StatusOf, seenRunning, Running
<1>4. ASSUME NEW t \in Thread, LoadLinux(t) PROVE UNCHANGED Service!vars
  <2>1. seenRunning' = seenRunning
    BY <1>4 DEF LoadLinux, SbiLoad, seenRunning, Running, TypeOK
  <2>2. \A u \in Thread : StatusOf(u)' = StatusOf(u)
    BY <1>4 DEF LoadLinux, AfterLoad, history, StatusOf, TypeOK
  <2> QED
    BY <1>4, <2>1, <2>2, SeenUnchanged DEF LoadLinux
<1>5. ASSUME NEW t \in Thread,
             CopyChunk(t) \/ CopyFaults(t) \/ ClearChunk(t) \/ CopyCss(t) \/ CssRejected(t)
      PROVE  UNCHANGED Service!vars
  <2>1. UNCHANGED <<tee, kparam, started>>
    BY <1>5 DEF CopyChunk, CopyFaults, ClearChunk, CopyCss, CssRejected, local, history
  <2>2. /\ pc[t] \in Inside
        /\ pc'[t] \notin {"user", "dead"}
        /\ \A u \in Thread \ {t} : pc'[u] = pc[u] /\ ret'[u] = ret[u]
    <3>1. CASE CopyChunk(t)
      <4>1. /\ pc[t] \in Copying /\ ret' = ret
            /\ pc' = pc \/ pc' = [pc EXCEPT ![t] = AfterPart(pc[t])]
        BY <3>1 DEF CopyChunk
      <4> QED
        BY <4>1 DEF AfterPart, TypeOK, Inside, Copying
    <3>2. CASE CopyFaults(t)
      <4>1. /\ pc[t] \in Copying /\ ret' = ret
            /\ pc' = [pc EXCEPT ![t] = IF pc[t] = "bin" THEN "bin rest" ELSE "dtb rest"]
        BY <3>2 DEF CopyFaults, local
      <4> QED
        BY <4>1 DEF TypeOK, Inside
    <3>3. CASE ClearChunk(t)
      <4>1. /\ pc[t] \in Clearing
            /\ pc' = pc \/ pc' = [pc EXCEPT ![t] = "out"]
            /\ ret' = ret \/ ret' = [ret EXCEPT ![t] = -EFAULT]
        BY <3>3 DEF ClearChunk
      <4> QED
        BY <4>1 DEF TypeOK, Inside, Clearing
    <3>4. CASE CopyCss(t)
      BY <3>4 DEF CopyCss, TypeOK, Inside
    <3>5. CASE CssRejected(t)
      BY <3>5 DEF CssRejected, TypeOK, Inside
    <3> QED
      BY <1>5, <3>1, <3>2, <3>3, <3>4, <3>5
  <2>3. \A u \in Thread : StatusOf(u)' = StatusOf(u)
    BY <2>1, <2>2 DEF StatusOf, Inside, Copying, Clearing
  <2> QED
    BY <2>1, <2>3, SeenUnchanged DEF seenRunning, Running
<1>6. ASSUME NEW t \in Thread, CopyTraps(t) \/ CssTraps(t)
      PROVE  Service!Vanish(t)
  <2>1. /\ UNCHANGED <<tee, kparam, started, ret>>
        /\ pc[t] \in Inside
        /\ pc' = [pc EXCEPT ![t] = "dead"]
    BY <1>6 DEF CopyTraps, CssTraps, local, history, Inside
  <2>2. StatusOf(t) = "pending"
    BY <2>1 DEF StatusOf, OutcomeInv, OutcomeKept, Inside, Copying, Clearing
  <2>3. seenStatus' = [seenStatus EXCEPT ![t] = "gone"]
    BY <2>1, SeenStatusStep DEF StatusOf, TypeOK
  <2> QED
    BY <2>1, <2>2, <2>3
    DEF Service!Vanish, seenStatus, seenRunning, seenCert, Running
<1>7. ASSUME NEW t \in Thread, RunLinux(t)
      PROVE  Service!Start(t) \/ UNCHANGED Service!vars
  <2> DEFINE im == Measure(mem, kparam[t])
  <2>1. /\ pc[t] = "run"
        /\ pc' = [pc EXCEPT ![t] = "out"]
        /\ started' = [started EXCEPT ![t] = tee' # tee]
        /\ kparam' = kparam
        /\ \A u \in Thread \ {t} : ret'[u] = ret[u]
    BY <1>7 DEF RunLinux, TypeOK
  <2>2. ~started[t]
    BY <2>1 DEF OutcomeInv, OutcomeKept
  <2>3. CASE tee' = tee
    <3>1. \A u \in Thread : StatusOf(u)' = StatusOf(u)
      BY <2>1, <2>2, <2>3 DEF StatusOf, TypeOK
    <3> QED
      BY <2>1, <2>3, <3>1, SeenUnchanged DEF seenRunning, Running
  <2>4. CASE tee' # tee
    <3>1. /\ Writable
          /\ kcss[t] = im
          /\ tee' = [state |-> "booting", image |-> im]
      BY <1>7, <2>4 DEF RunLinux, SbiRun, Accepts, Handed
    <3>2. im # Nothing
      BY MeasureIsImage DEF TypeOK
    <3>3. seenCert[t] = im
      BY <2>1, <3>1, <3>2 DEF CssKept, CssOf, seenCert
    <3>4. seenRunning = Nothing /\ seenRunning' = im
      BY <3>1 DEF seenRunning, Running, Writable
    <3>5. StatusOf(t) = "pending"
      BY <2>1, <2>2 DEF StatusOf
    <3>6. seenStatus' = [seenStatus EXCEPT ![t] = "started"]
      BY <2>1, <2>4, SeenStatusStep DEF StatusOf, TypeOK
    <3> QED
      BY <2>1, <3>2, <3>3, <3>4, <3>5, <3>6
      DEF Service!Start, seenStatus, seenCert
  <2> QED
    BY <2>3, <2>4
<1>8. ASSUME NEW t \in Thread, CopyOut(t)
      PROVE  Service!Succeed(t) \/ Service!Fail(t)
  <2>1. /\ pc[t] = "out"
        /\ pc' = [pc EXCEPT ![t] = "user"]
        /\ ret' = ret \/ ret' = [ret EXCEPT ![t] = -EFAULT]
        /\ UNCHANGED <<tee, kparam, started>>
    BY <1>8 DEF CopyOut
  <2>2. UNCHANGED <<seenRunning, seenCert>>
    BY <2>1 DEF seenRunning, seenCert, Running
  <2>3. StatusOf(t) \in {"started", "pending"}
    BY <2>1 DEF StatusOf
  <2>4. \A u \in Thread \ {t} : StatusOf(u)' = StatusOf(u)
    BY <2>1 DEF StatusOf, TypeOK
  <2>5. CASE ret'[t] >= 0
    <3>1. StatusOf(t) = "started" /\ StatusOf(t)' = "ok"
      BY <2>1, <2>5 DEF StatusOf, OutcomeInv, OutcomeKept, TypeOK, EFAULT
    <3>2. seenStatus' = [seenStatus EXCEPT ![t] = "ok"]
      BY <2>4, <3>1, SeenStatusStep
    <3> QED
      BY <2>2, <3>1, <3>2 DEF Service!Succeed, seenStatus
  <2>6. CASE ~(ret'[t] >= 0)
    <3>1. StatusOf(t)' = "failed"
      BY <2>1, <2>6 DEF StatusOf, TypeOK
    <3>2. seenStatus' = [seenStatus EXCEPT ![t] = "failed"]
      BY <2>4, <3>1, SeenStatusStep
    <3> QED
      BY <2>2, <2>3, <3>2 DEF Service!Fail, seenStatus
  <2> QED
    BY <2>5, <2>6
<1>9. ASSUME BootStep PROVE UNCHANGED Service!vars
  <2>1. seenRunning' = seenRunning
    BY <1>9 DEF BootStep, TeeBoots, seenRunning, Running, TypeOK
  <2> QED
    BY <1>9, <2>1, SeenUnchanged DEF BootStep, local, history, StatusOf
<1>11. ASSUME HostFails PROVE Service!HostGoesDown
  BY <1>11 DEF HostFails, Service!HostGoesDown, local, history, seenRunning, seenStatus, seenCert,
     StatusOf, Running
<1>10. ASSUME UNCHANGED vars PROVE UNCHANGED Service!vars
  BY <1>10, SeenUnchanged
  DEF vars, local, history, StatusOf, seenRunning, Running
<1> QED
  BY <1>1, <1>2, <1>3, <1>4, <1>5, <1>6, <1>7, <1>8, <1>9, <1>10, <1>11
  DEF Next, KernelStep, Service!Next

\* The driver implements the service its callers see.
THEOREM ImplementsServiceCorrect ==
    ASSUME RefusalsNegative
    PROVE  Spec => ImplementsService
<1>1. Init => ServiceInv
  BY TypedInit, OutcomeInit, CssInit DEF ServiceInv
<1>2. ServiceInv /\ [Next]_vars => ServiceInv'
  BY TypedStep, OutcomeStep, CssStep DEF ServiceInv
<1> QED
  BY <1>1, <1>2, ServiceInit, ServiceStep, PTL
  DEF Spec, ImplementsService, Service!Spec

=============================================================================
