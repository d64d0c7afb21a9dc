------------------------- MODULE Attestation_proofs -------------------------
(***************************************************************************)
(* Attestation, for any number of hosts, nonces, images and custom fields: *)
(* hosts write only their own reports, and a verdict of "passed" is about  *)
(* a report the monitor issued.                                            *)
(***************************************************************************)
EXTENDS Attestation, TLAPS

\* What every part of the file, and of the verifier's struct, goes back to.
GenuineInv == TypeOK /\ GenuinePieces

USE AttestationAssumption

LEMMA InitTyped == Init => TypeOK
<1> SUFFICES ASSUME Init PROVE TypeOK
  OBVIOUS
<1>1. Junk \in Piece
  BY DEF Piece
<1>2. tee \in [state : TeeStates, image : SystemImage \cup {Nothing}]
  BY DEF Init, MonitorInit, TeeStates
<1> QED
  BY <1>1, <1>2 DEF Init, TypeOK

\* A process that ends leaves the tables of the hosts typed.
LEMMA GoneTyped ==
  ASSUME TypeOK, NEW h \in Host, Gone(h)
  PROVE  /\ hpc' \in [Host -> {"idle", "asked", "report", "open", "success"}]
         /\ nonce' \in [Host -> Nonce \cup {Nothing}]
         /\ got' \in [Host -> Report \cup {Nothing}]
         /\ flushed' \in [Host -> SUBSET Part]
  BY DEF TypeOK, Gone

LEMMA PieceTyped ==
  ASSUME NEW r \in Report \cup {Nothing}, NEW q \in Part
  PROVE  PieceOf(r, q) \in Piece
  BY DEF PieceOf, Piece

\* A claim is spelt out of three pieces of reports.
LEMMA ClaimTyped ==
  ASSUME NEW s \in [Part -> Piece], NoJunk(s)
  PROVE  Claim(s) \in Report
<1>1. \A q \in Part : s[q].of \in Report
  BY DEF NoJunk, Piece
<1>2. s["body"].of \in Report /\ s["nonce"].of \in Report /\ s["signature"].of \in Report
  BY <1>1 DEF Part
<1> QED
  BY <1>2 DEF Claim, Report

LEMMA TypedStep == TypeOK /\ [Next]_vars => TypeOK'
<1> SUFFICES ASSUME TypeOK, [Next]_vars PROVE TypeOK'
  OBVIOUS
<1>1. CASE TeeStarts
  BY <1>1 DEF TeeStarts, TypeOK, TeeStates, hostVars, verVars
<1>2. CASE BootStep
  BY <1>2 DEF BootStep, TeeBoots, TypeOK, TeeStates, hostVars, verVars
<1>3. ASSUME NEW h \in Host, HostAsks(h) PROVE TypeOK'
  BY <1>3 DEF HostAsks, TypeOK, verVars
<1>4. ASSUME NEW h \in Host, AttestLinux(h) PROVE TypeOK'
  <2>1. PICK reply \in {Ok, NotBooted}, r \in Report \cup {Nothing} :
          /\ issued' = issued \cup ({r} \ {Nothing})
          /\ \/ /\ hpc' = [hpc EXCEPT ![h] = "report"]
                /\ got' = [got EXCEPT ![h] = r]
                /\ UNCHANGED <<nonce, flushed>>
             \/ Gone(h)
    BY <1>4 DEF AttestLinux
  <2>2. issued' \subseteq Report
    BY <2>1 DEF TypeOK
  <2>3. CASE Gone(h)
    BY <1>4, <2>2, <2>3, GoneTyped DEF AttestLinux, TypeOK, verVars
  <2>4. CASE ~Gone(h)
    BY <1>4, <2>1, <2>2, <2>4 DEF AttestLinux, TypeOK, verVars
  <2> QED
    BY <2>3, <2>4
<1>5. ASSUME NEW h \in Host, AttestFails(h) \/ AnswerLost(h) \/ HostEnds(h) PROVE TypeOK'
  BY <1>5, GoneTyped DEF AttestFails, AnswerLost, HostEnds, TypeOK, verVars
<1>6. ASSUME NEW h \in Host, OpenReport(h) PROVE TypeOK'
  BY <1>6 DEF OpenReport, TypeOK, verVars
<1>7. ASSUME NEW h \in Host, CloseReport(h) PROVE TypeOK'
  <2>1. PICK w \in SUBSET Part :
          /\ file' = [q \in Part |-> IF q \in w THEN PieceOf(got[h], q) ELSE file[q]]
          /\ flushed' = [flushed EXCEPT ![h] = w]
    BY <1>7 DEF CloseReport, Taken, Part
  <2>2. file' \in [Part -> Piece \cup {Nothing}]
    BY <2>1, PieceTyped DEF TypeOK
  <2> QED
    BY <1>7, <2>1, <2>2 DEF CloseReport, TypeOK, verVars
<1>8. CASE VerifierOpens
  BY <1>8 DEF VerifierOpens, TypeOK, hostVars, Whole
<1>9. CASE VerifierReads
  BY <1>9 DEF VerifierReads, TypeOK, hostVars
<1>10. CASE VerifierDecides
  <2>1. passed' \in Report \cup {Nothing}
    BY <1>10, ClaimTyped DEF VerifierDecides, TypeOK
  <2> QED
    BY <1>10, <2>1 DEF VerifierDecides, TypeOK, hostVars, Piece
<1>11. CASE UNCHANGED vars
  BY <1>11 DEF vars, hostVars, verVars, TypeOK
<1> QED
  BY <1>1, <1>2, <1>3, <1>4, <1>5, <1>6, <1>7, <1>8, <1>9, <1>10, <1>11
  DEF Next, HostStep

\* The state of hosts, file and verifier is what their structs can hold.
THEOREM TypeCorrect == Spec => []TypeOK
<1> QED
  BY InitTyped, TypedStep, PTL DEF Spec

-----------------------------------------------------------------------------

\* What a host asks with is a nonce, and what runs is an image.
Asked ==
    /\ Running => tee.image \in SystemImage
    /\ \A h \in Host : hpc[h] = "asked" => nonce[h] \in Nonce

LEMMA AskedStep == TypeOK /\ Asked /\ [Next]_vars => Asked'
<1> SUFFICES ASSUME TypeOK, Asked, [Next]_vars PROVE Asked'
  OBVIOUS
<1>1. Running' => tee'.image \in SystemImage
  <2>1. CASE TeeStarts
    BY <2>1 DEF TeeStarts
  <2>2. CASE BootStep
    BY <2>2 DEF BootStep, TeeBoots, TypeOK, Asked, Running
  <2>3. CASE UNCHANGED tee
    BY <2>3 DEF Asked, Running
  <2> QED
    BY <2>1, <2>2, <2>3 DEF Next, HostStep, HostAsks, AttestLinux, AttestFails, AnswerLost,
       OpenReport, CloseReport, HostEnds, VerifierOpens, VerifierReads, VerifierDecides, vars
<1>2. \A g \in Host : hpc'[g] = "asked" => nonce'[g] \in Nonce
  <2>1. ASSUME NEW h \in Host, HostStep(h), NEW g \in Host, hpc'[g] = "asked"
        PROVE  nonce'[g] \in Nonce
    BY <2>1 DEF HostStep, HostAsks, AttestLinux, AttestFails, AnswerLost, OpenReport,
       CloseReport, HostEnds, Gone, TypeOK, Asked
  <2>2. CASE UNCHANGED <<hpc, nonce>>
    BY <2>2 DEF Asked
  <2> QED
    BY <2>1, <2>2 DEF Next, TeeStarts, BootStep, VerifierOpens, VerifierReads,
       VerifierDecides, hostVars, vars
<1> QED
  BY <1>1, <1>2 DEF Asked, Running

\* The monitor answers a call with success only for the nonce of that call.
LEMMA AnswerIsOwn ==
  ASSUME NEW h \in Host, NEW reply \in {Ok, NotBooted}, NEW r \in Report \cup {Nothing},
         Asked, hpc[h] = "asked", Answer(h, reply, r), AttestResult(reply) >= 0
  PROVE  r # Nothing /\ r.nonce = nonce[h]
<1>1. PICK m \in [nonce : Nonce, image : SystemImage] \cup {Nothing}, c \in Custom :
        /\ SbiAttest(nonce[h], reply, m)
        /\ r = IF m = Nothing THEN Nothing
               ELSE [nonce |-> m.nonce, image |-> m.image, custom |-> c, key |-> MonitorKey]
  BY DEF Answer
<1>2. reply # NotBooted
  BY DEF AttestResult, NotBooted
<1>3. m = [nonce |-> nonce[h], image |-> tee.image]
  BY <1>1, <1>2 DEF SbiAttest
<1>4. m \in [nonce : Nonce, image : SystemImage]
  BY <1>1, <1>2, <1>3 DEF SbiAttest, Asked, Running
<1>5. r = [nonce |-> m.nonce, image |-> m.image, custom |-> c, key |-> MonitorKey]
  BY <1>1, <1>4
<1>6. r \in Report
  BY <1>4, <1>5 DEF Report
<1> QED
  BY <1>3, <1>5, <1>6

LEMMA OwnReportStep == TypeOK /\ Asked /\ WritesOwnReport /\ [Next]_vars => WritesOwnReport'
<1> SUFFICES ASSUME TypeOK, Asked, WritesOwnReport, [Next]_vars,
                    NEW g \in Host, hpc'[g] \in {"report", "open", "success"}
             PROVE  got'[g] \in issued' /\ got'[g].nonce = nonce'[g]
  BY DEF WritesOwnReport
<1>0. hpc[g] \in {"report", "open", "success"} => got[g] \in issued /\ got[g].nonce = nonce[g]
  BY DEF WritesOwnReport
<1>1. ASSUME NEW h \in Host, AttestLinux(h)
      PROVE  got'[g] \in issued' /\ got'[g].nonce = nonce'[g]
  <2>1. PICK reply \in {Ok, NotBooted}, r \in Report \cup {Nothing} :
          /\ Answer(h, reply, r)
          /\ issued' = issued \cup ({r} \ {Nothing})
          /\ IF AttestResult(reply) >= 0
             THEN /\ hpc' = [hpc EXCEPT ![h] = "report"]
                  /\ got' = [got EXCEPT ![h] = r]
                  /\ UNCHANGED <<nonce, flushed>>
             ELSE Gone(h)
    BY <1>1 DEF AttestLinux
  <2>2. CASE g # h
    BY <1>0, <2>1, <2>2 DEF TypeOK, Gone
  <2>3. CASE g = h
    <3>1. AttestResult(reply) >= 0
      BY <2>1, <2>3 DEF TypeOK, Gone
    <3>2. r # Nothing /\ r.nonce = nonce[h]
      BY <1>1, <2>1, <3>1, AnswerIsOwn DEF AttestLinux
    <3> QED
      BY <2>1, <2>3, <3>1, <3>2 DEF TypeOK
  <2> QED
    BY <2>2, <2>3
<1>2. ASSUME NEW h \in Host, HostAsks(h) \/ AttestFails(h) \/ AnswerLost(h) \/ HostEnds(h)
      PROVE  got'[g] \in issued' /\ got'[g].nonce = nonce'[g]
  BY <1>0, <1>2 DEF HostAsks, AttestFails, AnswerLost, HostEnds, Gone, TypeOK
<1>3. ASSUME NEW h \in Host, OpenReport(h) \/ CloseReport(h)
      PROVE  got'[g] \in issued' /\ got'[g].nonce = nonce'[g]
  BY <1>0, <1>3 DEF OpenReport, CloseReport, TypeOK
<1>4. CASE TeeStarts \/ BootStep \/ VerifierOpens \/ VerifierReads \/ VerifierDecides
  BY <1>0, <1>4 DEF TeeStarts, BootStep, VerifierOpens, VerifierReads, VerifierDecides, hostVars
<1>5. CASE UNCHANGED vars
  BY <1>0, <1>5 DEF vars, hostVars
<1> QED
  BY <1>1, <1>2, <1>3, <1>4, <1>5 DEF Next, HostStep

\* A host never writes another call's report, nor an unfilled buffer.
THEOREM WritesOwnReportCorrect == Spec => []WritesOwnReport
<1>1. Init => WritesOwnReport
  BY DEF Init, WritesOwnReport
<1>2. Init => Asked
  BY DEF Init, Asked, MonitorInit, Running
<1> QED
  BY <1>1, <1>2, TypeCorrect, AskedStep, OwnReportStep, PTL DEF Spec

-----------------------------------------------------------------------------

\* Genuine in the next state.
GenuineNext(c, q) == c.part = q /\ c.of \in issued'

LEMMA InitGenuine == Init => GenuinePieces
  BY DEF Init, GenuinePieces

\* A report that was issued stays issued, so pieces stay genuine.
LEMMA GenuineStep == GenuineInv /\ [Next]_vars => GenuinePieces'
<1> SUFFICES ASSUME TypeOK, GenuinePieces, [Next]_vars PROVE GenuinePieces'
  BY DEF GenuineInv
<1>0. issued \subseteq issued'
  BY DEF Next, HostStep, TeeStarts, BootStep, HostAsks, AttestLinux, AttestFails, AnswerLost,
         OpenReport, CloseReport, HostEnds, VerifierOpens, VerifierReads, VerifierDecides, vars
<1>1. ASSUME NEW q \in Part, NEW c, Genuine(c, q) PROVE GenuineNext(c, q)
  BY <1>0, <1>1 DEF Genuine, GenuineNext
<1>2. \A g \in Host : got'[g] = Nothing \/ got'[g] \in issued'
  <2>1. ASSUME NEW h \in Host, NEW g \in Host, HostStep(h)
        PROVE  got'[g] = Nothing \/ got'[g] \in issued'
    <3>1. CASE AttestLinux(h)
      BY <1>0, <3>1 DEF AttestLinux, Gone, TypeOK, GenuinePieces
    <3>2. CASE ~AttestLinux(h)
      BY <1>0, <2>1, <3>2 DEF HostStep, HostAsks, AttestFails, AnswerLost, OpenReport,
         CloseReport, HostEnds, Gone, TypeOK, GenuinePieces
    <3> QED
      BY <3>1, <3>2
  <2>2. CASE got' = got
    BY <1>0, <2>2 DEF GenuinePieces
  <2> QED
    BY <2>1, <2>2 DEF Next, TeeStarts, BootStep, VerifierOpens, VerifierReads,
       VerifierDecides, hostVars, vars
<1>3. \A q \in Part : file'[q] \in {Nothing, Junk} \/ GenuineNext(file'[q], q)
  <2>0. CASE file' = file
    BY <1>1, <2>0 DEF GenuinePieces
  <2>1. ASSUME NEW h \in Host, OpenReport(h), NEW q \in Part PROVE file'[q] = Nothing
    BY <2>1 DEF OpenReport
  <2>2. ASSUME NEW h \in Host, CloseReport(h), NEW q \in Part
        PROVE  file'[q] \in {Nothing, Junk} \/ GenuineNext(file'[q], q)
    <3>1. file'[q] = PieceOf(got[h], q) \/ file'[q] = file[q]
      BY <2>2 DEF CloseReport
    <3>2. got[h] = Nothing \/ got[h] \in issued
      BY DEF GenuinePieces
    <3>3. PieceOf(got[h], q) = Junk \/ Genuine(PieceOf(got[h], q), q)
      BY <3>2 DEF PieceOf, Genuine
    <3>4. file[q] \in {Nothing, Junk} \/ Genuine(file[q], q)
      BY DEF GenuinePieces
    <3> QED
      BY <1>1, <3>1, <3>3, <3>4
  <2> QED
    BY <2>0, <2>1, <2>2 DEF Next, HostStep, TeeStarts, BootStep, HostAsks, AttestLinux,
       AttestFails, AnswerLost, HostEnds, VerifierOpens, VerifierReads, VerifierDecides, vars
<1>4. \A q \in Part : seen'[q] = Junk \/ GenuineNext(seen'[q], q)
  <2>0. CASE seen' = seen
    BY <1>1, <2>0 DEF GenuinePieces
  <2>1. ASSUME VerifierReads, NEW q \in Part
        PROVE  seen'[q] = Junk \/ GenuineNext(seen'[q], q)
    <3>1. seen'[q] = seen[q] \/ (file[q] # Nothing /\ seen'[q] = file[q])
      BY <2>1 DEF VerifierReads
    <3> QED
      BY <1>1, <3>1 DEF GenuinePieces
  <2>2. ASSUME VerifierDecides, NEW q \in Part PROVE seen'[q] = Junk
    BY <2>2 DEF VerifierDecides
  <2> QED
    BY <2>0, <2>1, <2>2 DEF Next, HostStep, TeeStarts, BootStep, HostAsks, AttestLinux,
       AttestFails, AnswerLost, OpenReport, CloseReport, HostEnds, VerifierOpens, verVars, vars
<1> QED
  BY <1>2, <1>3, <1>4 DEF GenuinePieces, Genuine, GenuineNext

\* Each step issues a report, passes one, rejects, or does not concern the service.
LEMMA StepImplements == GenuineInv /\ [Next]_vars => [Service!Next]_(Service!vars)
<1> SUFFICES ASSUME TypeOK, GenuinePieces, [Next]_vars
             PROVE  Service!Next \/ UNCHANGED <<issued, passed>>
  BY DEF GenuineInv, Service!vars
<1>1. ASSUME NEW h \in Host, AttestLinux(h)
      PROVE  Service!Issue \/ UNCHANGED <<issued, passed>>
  <2>1. PICK r \in Report \cup {Nothing} : issued' = issued \cup ({r} \ {Nothing})
    BY <1>1 DEF AttestLinux
  <2>2. UNCHANGED passed
    BY <1>1 DEF AttestLinux, verVars
  <2>3. CASE r = Nothing
    BY <2>1, <2>2, <2>3
  <2>4. CASE r # Nothing
    BY <2>1, <2>2, <2>4 DEF Service!Issue
  <2> QED
    BY <2>3, <2>4
<1>2. CASE VerifierOpens
  BY <1>2 DEF VerifierOpens, Service!Reject, Service!Next
<1>3. CASE VerifierDecides
  <2>1. UNCHANGED issued
    BY <1>3 DEF VerifierDecides
  <2>2. CASE passed' = Nothing
    BY <2>1, <2>2 DEF Service!Reject, Service!Next
  <2>3. CASE passed' # Nothing
    <3>1. NoJunk(seen) /\ SignatureRight(seen) /\ passed' = Claim(seen)
      BY <1>3, <2>3 DEF VerifierDecides
    <3>2. seen["signature"].of \in issued
      BY <3>1 DEF GenuinePieces, Genuine, NoJunk, Part
    <3>3. passed' \in issued
      BY <3>1, <3>2 DEF SignatureRight
    <3> QED
      BY <2>1, <3>3 DEF Service!Pass, Service!Next
  <2> QED
    BY <2>2, <2>3
<1>4. CASE UNCHANGED <<issued, passed>>
  BY <1>4
<1> QED
  BY <1>1, <1>2, <1>3, <1>4 DEF Next, HostStep, TeeStarts, BootStep, HostAsks, AttestFails,
     AnswerLost, OpenReport, CloseReport, HostEnds, VerifierReads, verVars, vars, Service!Next

\* Whatever way a report takes, a passed verdict is about one that was issued.
THEOREM ImplementsAttestServiceCorrect == Spec => ImplementsAttestService
<1>1. Init => Service!Init
  BY DEF Init, Service!Init
<1>2. Init => GenuineInv
  BY InitTyped, InitGenuine DEF GenuineInv
<1>3. GenuineInv /\ [Next]_vars => GenuineInv'
  BY TypedStep, GenuineStep DEF GenuineInv
<1> QED
  BY <1>1, <1>2, <1>3, StepImplements, PTL DEF Spec, ImplementsAttestService, Service!Spec

-----------------------------------------------------------------------------
(* A verification of a whole report that nobody touches passes. *)

\* While calm, the file is one whole report, what the verifier has read of it
\* is the file's, and it decides only when it has read everything.
CalmInv ==
    /\ vpc = "idle" => have = {}
    /\ calm => /\ vpc # "idle"
               /\ Whole(file)
               /\ \A q \in have : seen[q] = file[q]
               /\ vpc = "check" => have = Part

\* No part of a whole file is missing.
LEMMA WholeIsThere ==
  ASSUME NEW r \in Report, NEW q \in Part
  PROVE  PieceOf(r, q) = [part |-> q, of |-> r] /\ PieceOf(r, q) \notin {Nothing, Junk}
<1>1. PieceOf(r, q) = [part |-> q, of |-> r]
  BY DEF PieceOf
<1>2. [part |-> q, of |-> r] \in [part : Part, of : Report]
  OBVIOUS
<1>3. [part |-> q, of |-> r] # Junk
  BY DEF Part, Junk
<1> QED
  BY <1>1, <1>2, <1>3

LEMMA CalmInit == Init => CalmInv
  BY DEF Init, CalmInv

LEMMA CalmStep == TypeOK /\ CalmInv /\ [Next]_vars => CalmInv'
<1> SUFFICES ASSUME TypeOK, CalmInv, [Next]_vars PROVE CalmInv'
  OBVIOUS
<1>1. CASE UNCHANGED <<file, verVars, calm>>
  BY <1>1 DEF CalmInv, verVars, Whole
<1>2. ASSUME NEW h \in Host, OpenReport(h) \/ CloseReport(h) PROVE CalmInv'
  <2>1. UNCHANGED <<vpc, have>> /\ calm' = FALSE
    BY <1>2 DEF OpenReport, CloseReport, verVars
  <2> QED
    BY <2>1 DEF CalmInv
<1>3. CASE VerifierOpens
  BY <1>3 DEF VerifierOpens, CalmInv, Whole
<1>4. CASE VerifierReads
  <2> DEFINE there == {q \in Part : q \notin have /\ file[q] # Nothing}
  <2>1. /\ vpc = "read" /\ UNCHANGED <<file, calm>>
        /\ seen' = [q \in Part |-> IF q \in there THEN file[q] ELSE seen[q]]
        /\ have' = have \cup there
        /\ vpc' = IF there = {} \/ have' = Part THEN "check" ELSE "read"
    BY <1>4 DEF VerifierReads
  <2>2. ASSUME calm PROVE have' = Part /\ \A q \in have' : seen'[q] = file'[q]
    <3>1. PICK r \in Report : \A q \in Part : file[q] = PieceOf(r, q)
      BY <2>2 DEF CalmInv, Whole
    <3>2. there = Part \ have
      BY <3>1, WholeIsThere
    <3>3. have \subseteq Part /\ \A q \in have : seen[q] = file[q]
      BY <2>2 DEF CalmInv, TypeOK
    <3> QED
      BY <2>1, <3>2, <3>3
  <2>3. vpc' # "idle"
    BY <2>1
  <2>4. Whole(file)' <=> Whole(file)
    BY <2>1 DEF Whole
  <2> QED
    BY <2>1, <2>2, <2>3, <2>4 DEF CalmInv
<1>5. CASE VerifierDecides
  BY <1>5 DEF VerifierDecides, CalmInv
<1> QED
  BY <1>1, <1>2, <1>3, <1>4, <1>5 DEF Next, HostStep, TeeStarts, BootStep, HostAsks, AttestLinux,
     AttestFails, AnswerLost, HostEnds, vars

\* A struct that holds the pieces of one report of the expected key passes.
LEMMA WholePasses ==
  ASSUME NEW r \in Report, \A q \in Part : seen[q] = PieceOf(r, q), MonitorKey = DevKey
  PROVE  NoJunk(seen) /\ KeyRight(seen) /\ SignatureRight(seen) /\ Claim(seen) # Nothing
<1>1. \A q \in Part : seen[q].of = r /\ seen[q] # Junk
  BY WholeIsThere
<1>2. seen["nonce"].of = r /\ seen["body"].of = r /\ seen["signature"].of = r
  BY <1>1 DEF Part
<1>3. Claim(seen) = r /\ r.key = MonitorKey
  BY <1>2 DEF Claim, Report
<1> QED
  BY <1>1, <1>2, <1>3 DEF NoJunk, KeyRight, SignatureRight

LEMMA CalmDecides ==
  TypeOK /\ CalmInv /\ [Next]_vars =>
    [vpc = "check" /\ vpc' = "idle" /\ calm /\ MonitorKey = DevKey => passed' # Nothing]_vars
<1> SUFFICES ASSUME TypeOK, CalmInv, Next, vpc = "check", vpc' = "idle", calm, MonitorKey = DevKey
             PROVE  passed' # Nothing
  BY DEF vars
<1>1. VerifierDecides
  BY DEF Next, HostStep, TeeStarts, BootStep, HostAsks, AttestLinux, AttestFails, AnswerLost,
     OpenReport, CloseReport, HostEnds, VerifierOpens, VerifierReads, verVars
<1>2. PICK r \in Report : \A q \in Part : file[q] = PieceOf(r, q)
  BY DEF CalmInv, Whole
<1>3. \A q \in Part : seen[q] = PieceOf(r, q)
  BY <1>2 DEF CalmInv
<1> QED
  BY <1>1, <1>3, WholePasses DEF VerifierDecides

\* A whole report that nobody writes over while it is read passes on a device
\* with the expected key, whatever was left in the file and in the struct before.
THEOREM CalmVerificationPassesCorrect == Spec => CalmVerificationPasses
  BY TypeCorrect, CalmInit, CalmStep, CalmDecides, PTL DEF Spec, CalmVerificationPasses
=============================================================================
