--------------------------- MODULE AttestService ---------------------------
(***************************************************************************)
(* What remote attestation promises: the secure monitor issues reports,    *)
(* and whatever way a report takes to the verifier, a verdict of "passed"  *)
(* is about a report that was issued, never about pieces of several.       *)
(***************************************************************************)
CONSTANTS Report, Nothing

VARIABLES
    issued,    \* the reports the monitor has issued
    passed     \* the report the last verification passed, or Nothing

vars == <<issued, passed>>

Init == issued = {} /\ passed = Nothing

Issue ==
    /\ \E r \in Report : issued' = issued \cup {r}
    /\ UNCHANGED passed

Pass ==
    /\ passed' \in issued
    /\ UNCHANGED issued

Reject ==
    /\ passed' = Nothing
    /\ UNCHANGED issued

Next == Issue \/ Pass \/ Reject

Spec == Init /\ [][Next]_vars
=============================================================================
