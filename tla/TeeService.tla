----------------------------- MODULE TeeService -----------------------------
(***************************************************************************)
(* What the load-and-run service of the driver promises its callers, with  *)
(* everything between the call and the start left out: a caller hands over *)
(* a certificate, the TEE starts at most once and then runs exactly the    *)
(* image that caller certified, and only the caller whose request started  *)
(* it may hear success.  A caller may hear failure for a TEE it did start: *)
(* the answer itself can get lost on its way (copy_to_user).               *)
(***************************************************************************)
CONSTANTS Caller, Image, Nothing

VARIABLES
    running,   \* the image the TEE runs, or Nothing
    status,    \* what each caller is waiting for, or was told last
    cert       \* the image each caller's last request certifies

vars == <<running, status, cert>>

Told == {"ok", "failed"}
Status == Told \cup {"pending", "started", "gone"}

Init ==
    /\ running = Nothing
    /\ status = [c \in Caller |-> "failed"]
    /\ cert \in [Caller -> Image \cup {Nothing}]

Ask(c) ==
    /\ status[c] \in Told
    /\ status' = [status EXCEPT ![c] = "pending"]
    /\ \E im \in Image \cup {Nothing} : cert' = [cert EXCEPT ![c] = im]
    /\ UNCHANGED running

Start(c) ==
    /\ status[c] = "pending"
    /\ running = Nothing
    /\ cert[c] # Nothing
    /\ running' = cert[c]
    /\ status' = [status EXCEPT ![c] = "started"]
    /\ UNCHANGED cert

Succeed(c) ==
    /\ status[c] = "started"
    /\ status' = [status EXCEPT ![c] = "ok"]
    /\ UNCHANGED <<running, cert>>

\* Refused before or after the request was taken up, or the answer is lost.
Fail(c) ==
    /\ status[c] # "gone"
    /\ status' = [status EXCEPT ![c] = "failed"]
    /\ UNCHANGED <<running, cert>>

\* The kernel kills the caller inside the call, before any start.
Vanish(c) ==
    /\ status[c] = "pending"
    /\ status' = [status EXCEPT ![c] = "gone"]
    /\ UNCHANGED <<running, cert>>

\* A load address outside the memory of the TEE can bring the whole host down:
\* no caller is ever answered, and what runs in the TEE runs on.
HostGoesDown ==
    /\ status' = [c \in Caller |-> "gone"]
    /\ UNCHANGED <<running, cert>>

Next ==
    \/ \E c \in Caller : Ask(c) \/ Start(c) \/ Succeed(c) \/ Fail(c) \/ Vanish(c)
    \/ HostGoesDown

Spec == Init /\ [][Next]_vars
=============================================================================
