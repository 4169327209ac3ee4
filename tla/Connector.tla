------------------------------- MODULE Connector -------------------------------
(***************************************************************************)
(* What udpConnect promises its callers: after at most MaxRetries attempts *)
(* one result is reported, once, and TIMEOUT only when all attempts were   *)
(* made.  A caller that is destroyed first hears nothing.  GeminiCnx       *)
(* implements this for its connections together.                           *)
(***************************************************************************)
EXTENDS Naturals

CONSTANTS Connections, MaxRetries

VARIABLES
    outcome,    \* for each connection "idle", "trying", "abandoned" or its result
    attempts    \* connection requests sent

vars == <<outcome, attempts>>

Init ==
    /\ outcome = [c \in Connections |-> "idle"]
    /\ attempts = [c \in Connections |-> 0]

\* The first connection request of c, or another one.
Attempt(c) ==
    /\ outcome[c] \in {"idle", "trying"} /\ outcome'[c] = "trying"
    /\ attempts'[c] = attempts[c] + 1 /\ attempts'[c] <= MaxRetries

Report(c) ==
    /\ outcome[c] = "trying"
    /\ outcome'[c] \in {"OK", "FAIL_TEMP", "FAIL_PERM", "TIMEOUT", "abandoned"}
    /\ outcome'[c] = "TIMEOUT" => attempts[c] = MaxRetries
    /\ attempts'[c] = attempts[c]

Rest(c) == outcome'[c] = outcome[c] /\ attempts'[c] = attempts[c]

\* Connections proceed independently; those of callers destroyed together end together.
Next == \A c \in Connections : Attempt(c) \/ Report(c) \/ Rest(c)

\* Connecting comes to an end by itself, whatever the FPGA does.
Ends == \A c \in Connections : (outcome[c] = "trying") ~> (outcome[c] # "trying")

Safe == Init /\ [][Next]_vars
Spec == Safe /\ Ends

================================================================================
