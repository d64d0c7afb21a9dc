---------------------------- MODULE Attestation ----------------------------
(***************************************************************************)
(* Attestation from the challenge to the verdict: host processes           *)
(* (host/host.c, attest) ask the monitor for a report through the driver   *)
(* (penglai_attest_linux) and put it into digital_report.txt; the remote   *)
(* verifier (remote/remote.c) reads that file and checks it.               *)
(*                                                                         *)
(* All hosts use the same file name and nothing locks the file, so reports *)
(* can be torn.  A report has three pieces: what it says of the TEE (hash   *)
(* and custom field), the nonce, and the signature with its key; a piece   *)
(* is written and read as a whole.                                         *)
(***************************************************************************)
EXTENDS SecureMonitor

CONSTANTS
    Host,          \* the processes that run "host attest"
    Nonce,         \* the challenges
    SystemImage,   \* the images a TEE may run
    Custom,        \* what its custom field may say at the time
    MonitorKey,    \* the key of this device's monitor
    DevKey,        \* dev_pubkey, the key the verifier expects
    DiskMayFill    \* whether the file system can run out of space

VARIABLES
    hpc,        \* where each host is; a process that ended is idle again
    nonce,      \* attest_param.nonce, Nothing when idle
    got,        \* attest_param.report, Nothing where none is held
    flushed,    \* the parts of the report its fclose got to the file
    file,       \* digital_report.txt; a part that is Nothing is not there
    vpc,        \* where the verifier is
    seen,       \* the verifier's struct report
    have,       \* the pieces of it that were read
    passed,     \* the report it passed, or Nothing
    issued,     \* history: the reports the monitor issued
    calm        \* history: the file was whole and is untouched since it was opened

hostVars == <<hpc, nonce, got, flushed>>
verVars == <<vpc, seen, have, passed>>
vars == <<tee, hostVars, file, verVars, issued, calm>>

Part == {"body", "nonce", "signature"}

\* tee_report_t
Report == [nonce : Nonce, image : SystemImage, custom : Custom,
           key : {MonitorKey}]

ASSUME AttestationAssumption ==
    /\ DiskMayFill \in BOOLEAN
    /\ Nothing \notin Report \cup [nonce : Nonce, image : SystemImage]
    /\ Nothing \notin [part : Part, of : Report]

\* One part of a report, or bytes that are none: what kmalloc or the stack held.
Junk == [part |-> "junk", of |-> Nothing]
Piece == [part : Part, of : Report] \cup {Junk}
PieceRaw(r, q) == r
PieceOf(r, q) == IF r = Nothing THEN Junk ELSE [part |-> q, of |-> r]

TypeOK ==
    /\ tee \in [state : TeeStates, image : SystemImage \cup {Nothing}]
    /\ hpc \in [Host -> {"idle", "asked", "report", "open", "success"}]
    /\ nonce \in [Host -> Nonce \cup {Nothing}]
    /\ got \in [Host -> Report \cup {Nothing}]
    /\ flushed \in [Host -> SUBSET Part]
    /\ file \in [Part -> Piece \cup {Nothing}]
    /\ vpc \in {"idle", "read", "check"}
    /\ seen \in [Part -> Piece]
    /\ have \subseteq Part
    /\ passed \in Report \cup {Nothing}
    /\ issued \subseteq Report
    /\ calm \in BOOLEAN

Init ==
    /\ MonitorInit
    /\ hpc = [h \in Host |-> "idle"]
    /\ nonce = [h \in Host |-> Nothing]
    /\ got = [h \in Host |-> Nothing]
    /\ flushed = [h \in Host |-> {}]
    /\ file = [q \in Part |-> Nothing]
    /\ vpc = "idle"
    /\ seen = [q \in Part |-> Junk]
    /\ have = {}
    /\ passed = Nothing
    /\ issued = {}
    /\ calm = FALSE

-----------------------------------------------------------------------------
(* The TEE is started by the load-and-run path, and boots. *)

TeeStarts ==
    /\ ~Running
    /\ \E im \in SystemImage : tee' = [state |-> "booting", image |-> im]
    /\ UNCHANGED <<hostVars, file, verVars, issued, calm>>

BootStep == TeeBoots /\ UNCHANGED <<hostVars, file, verVars, issued, calm>>

-----------------------------------------------------------------------------
(* The host and the driver *)

\* attest fills in the nonce and enters the ioctl.
HostAsks(h) ==
    /\ hpc[h] = "idle"
    /\ \E n \in Nonce : nonce' = [nonce EXCEPT ![h] = n]
    /\ hpc' = [hpc EXCEPT ![h] = "asked"]
    /\ UNCHANGED <<tee, got, flushed, file, verVars, issued, calm>>

\* The process of host h is over, and its memory gone.
Gone(h) ==
    /\ hpc' = [hpc EXCEPT ![h] = "idle"]
    /\ nonce' = [nonce EXCEPT ![h] = Nothing]
    /\ got' = [got EXCEPT ![h] = Nothing]
    /\ flushed' = [flushed EXCEPT ![h] = {}]

AttestResultPreset(reply) == 0
AttestResult(reply) == reply.value

\* The sbiret of attest_linux and the report in the driver's buffer; what an
\* attestation that is refused leaves there is what kmalloc found.
Answer(h, reply, r) ==
    \E m \in [nonce : Nonce, image : SystemImage] \cup {Nothing}, c \in Custom :
        /\ SbiAttest(nonce[h], reply, m)
        /\ r = IF m = Nothing THEN Nothing
               ELSE [nonce |-> m.nonce, image |-> m.image, custom |-> c, key |-> MonitorKey]

\* penglai_attest_linux: the buffer goes back to the host whatever the reply;
\* only the sign of the result tells the host what it got.
AttestLinux(h) ==
    /\ hpc[h] = "asked"
    /\ \E reply \in {Ok, NotBooted}, r \in Report \cup {Nothing} :
          /\ Answer(h, reply, r)
          /\ issued' = issued \cup ({r} \ {Nothing})
          /\ IF AttestResult(reply) >= 0
             THEN /\ hpc' = [hpc EXCEPT ![h] = "report"]
                  /\ got' = [got EXCEPT ![h] = r]
                  /\ UNCHANGED <<nonce, flushed>>
             ELSE Gone(h)
    /\ UNCHANGED <<tee, file, verVars, calm>>

\* A request that never gets to the monitor: the device cannot be opened, the
\* struct cannot be copied in, or kmalloc, which is not checked, gave no buffer
\* and the kernel ends the process where it touches it.
AttestFails(h) ==
    /\ hpc[h] = "asked"
    /\ Gone(h)
    /\ UNCHANGED <<tee, file, verVars, issued, calm>>

\* The report was made, and cannot be copied back, or the file not be opened.
AnswerLost(h) ==
    /\ hpc[h] = "report"
    /\ Gone(h)
    /\ UNCHANGED <<tee, file, verVars, issued, calm>>

\* fopen with "wb" cuts the file to nothing.
OpenReport(h) ==
    /\ hpc[h] = "report"
    /\ file' = [q \in Part |-> Nothing]
    /\ hpc' = [hpc EXCEPT ![h] = "open"]
    /\ calm' = FALSE
    /\ UNCHANGED <<tee, nonce, got, flushed, verVars, issued>>

\* How much of the report the kernel takes.
Taken ==
    IF DiskMayFill THEN {{}, {"body"}, {"body", "nonce"}, Part} ELSE {Part}

\* The report fits into the buffer of stdio: fwrite only buffers it and counts
\* all of it as written, fclose writes it out over whatever is in the file, and
\* nobody looks at the result of fclose.
CloseReport(h) ==
    /\ hpc[h] = "open"
    /\ \E w \in Taken :
          /\ file' = [q \in Part |-> IF q \in w THEN PieceOf(got[h], q) ELSE file[q]]
          /\ flushed' = [flushed EXCEPT ![h] = w]
    /\ hpc' = [hpc EXCEPT ![h] = "success"]
    /\ calm' = FALSE
    /\ UNCHANGED <<tee, nonce, got, verVars, issued>>

\* "success to write" is printed, and the process ends.
HostEnds(h) ==
    /\ hpc[h] = "success"
    /\ Gone(h)
    /\ UNCHANGED <<tee, file, verVars, issued, calm>>

-----------------------------------------------------------------------------
(* The remote verifier *)

Whole(f) == \E r \in Report : \A q \in Part : f[q] = PieceOf(r, q)

\* A new process, its struct on the stack with whatever was there before.
VerifierOpens ==
    /\ vpc = "idle"
    /\ vpc' = "read"
    /\ passed' = Nothing
    /\ calm' = Whole(file)
    /\ UNCHANGED <<tee, hostVars, file, seen, have, issued>>

\* One read of fread takes all there is; after a short one it tries again, up
\* to the end of the file.
VerifierReads ==
    /\ vpc = "read"
    /\ LET there == {q \in Part : q \notin have /\ file[q] # Nothing}
       IN  /\ seen' = [q \in Part |-> IF q \in there THEN file[q] ELSE seen[q]]
           /\ have' = have \cup there
           /\ vpc' = IF there = {} \/ have' = Part THEN "check" ELSE "read"
    /\ UNCHANGED <<tee, hostVars, file, passed, issued, calm>>

\* The report a struct in memory spells out.
Claim(s) == [nonce |-> s["nonce"].of.nonce, image |-> s["body"].of.image,
             custom |-> s["body"].of.custom, key |-> s["signature"].of.key]

NoJunk(s) == \A q \in Part : s[q] # Junk

KeyRight(s) == s["signature"].of.key = DevKey

\* SM2_Verify answers 0 for a signature made for these very bytes.
SignatureAny(s) == TRUE
SignatureMisread(s) == s["signature"].of # Claim(s)
SignatureRight(s) == s["signature"].of = Claim(s)

VerifierDecides ==
    /\ vpc = "check"
    /\ passed' = IF NoJunk(seen) /\ KeyRight(seen) /\ SignatureRight(seen)
                 THEN Claim(seen) ELSE Nothing
    /\ vpc' = "idle"
    /\ seen' = [q \in Part |-> Junk]
    /\ have' = {}
    /\ calm' = FALSE
    /\ UNCHANGED <<tee, hostVars, file, issued>>

-----------------------------------------------------------------------------
HostStep(h) ==
    \/ HostAsks(h) \/ AttestLinux(h) \/ AttestFails(h) \/ AnswerLost(h)
    \/ OpenReport(h) \/ CloseReport(h) \/ HostEnds(h)

Next ==
    \/ TeeStarts \/ BootStep
    \/ \E h \in Host : HostStep(h)
    \/ VerifierOpens \/ VerifierReads \/ VerifierDecides

Spec == Init /\ [][Next]_vars

-----------------------------------------------------------------------------
(* Properties *)

\* A host puts into the file only what the monitor issued for the nonce this
\* host was given: neither the report of a concurrent call nor the bytes of an
\* unfilled buffer (ioctl.c:79-84) get there.
WritesOwnReport ==
    \A h \in Host :
        hpc[h] \in {"report", "open", "success"} =>
            got[h] \in issued /\ got[h].nonce = nonce[h]

\* "success to write digital report to digital_report.txt" (host.c:63): the
\* whole report has reached the file when the host says so.
SuccessMeansFlushed ==
    \A h \in Host : hpc[h] = "success" => flushed[h] = Part

\* A verification of a whole report that nobody touches meanwhile passes on a
\* device with the expected key: what hosts left unfinished before, and what
\* the struct held before the read, make no difference.
CalmVerificationPasses ==
    [][vpc = "check" /\ vpc' = "idle" /\ calm /\ MonitorKey = DevKey
         => passed' # Nothing]_vars

\* A verdict of "passed" is about one report the monitor issued, however the
\* writes of several hosts, cut short or not, and the reads interleave.
Service == INSTANCE AttestService

ImplementsAttestService == Service!Spec

-----------------------------------------------------------------------------
(* What makes the refinement inductive *)

\* Pieces in the file, and pieces the verifier holds, are of issued reports and
\* in their places.
Genuine(c, q) == c.part = q /\ c.of \in issued

GenuinePieces ==
    /\ \A h \in Host : got[h] = Nothing \/ got[h] \in issued
    /\ \A q \in Part : file[q] \in {Nothing, Junk} \/ Genuine(file[q], q)
    /\ \A q \in Part : seen[q] = Junk \/ Genuine(seen[q], q)
=============================================================================
