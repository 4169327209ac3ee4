---------------------------- MODULE RegisterService ----------------------------
(***************************************************************************)
(* What a Gemini connection promises the channels opened on it, with no    *)
(* word about sequence numbers, windows, timers or retries: requests queue *)
(* in the order they are made, the oldest is answered first, each once,    *)
(* to the channel that made it if it is still open, and when the           *)
(* connection is given up everything queued is reported as timed out.      *)
(***************************************************************************)
EXTENDS Integers, Sequences

CONSTANTS MaxTrans, MaxOpens

VARIABLES
    connected,
    queue,      \* ids of the requests not answered yet, oldest first
    owner,      \* owner[id] is the channel that made request id
    open,       \* channels that still listen
    opened,     \* channels opened so far
    results     \* what has been reported

vars == <<connected, queue, owner, open, opened, results>>

Report(id, outcome) ==
    {[id |-> id, to |-> c, outcome |-> outcome] : c \in {owner[id]} \cap open}

Init ==
    /\ connected = TRUE
    /\ queue = <<>>
    /\ owner = <<>>
    /\ open = {}
    /\ opened = 0
    /\ results = {}

Open ==
    /\ opened < MaxOpens
    /\ opened' = opened + 1
    /\ open' = open \cup {opened + 1}
    /\ UNCHANGED <<connected, queue, owner, results>>

Dispose(c) ==
    /\ open' = open \ {c}
    /\ UNCHANGED <<connected, queue, owner, opened, results>>

\* Channel c makes a request that takes n transactions.
Request(c, n) ==
    /\ connected
    /\ Len(owner) + n <= MaxTrans
    /\ owner' = owner \o [k \in 1 .. n |-> c]
    /\ queue' = queue \o [k \in 1 .. n |-> Len(owner) + k]
    /\ UNCHANGED <<connected, open, opened, results>>

\* A request on a connection already given up times out at once.
Refuse(c) ==
    /\ ~connected
    /\ Len(owner) < MaxTrans
    /\ owner' = Append(owner, c)
    /\ results' = results \cup {[id |-> Len(owner) + 1, to |-> c, outcome |-> "timeout"]}
    /\ UNCHANGED <<connected, queue, open, opened>>

\* The oldest request is answered.
Answer(outcome) ==
    /\ queue # <<>>
    /\ queue' = Tail(queue)
    /\ results' = results \cup Report(queue[1], outcome)
    /\ UNCHANGED <<connected, owner, open, opened>>

\* The connection is given up, which only an unanswered request can cause.
GiveUp ==
    /\ connected
    /\ queue # <<>>
    /\ connected' = FALSE
    /\ queue' = <<>>
    /\ results' = results \cup UNION {Report(queue[i], "timeout") : i \in DOMAIN queue}
    /\ UNCHANGED <<owner, open, opened>>

Next ==
    \/ Open
    \/ \E c \in open : Dispose(c) \/ Refuse(c) \/ \E n \in 1 .. MaxTrans : Request(c, n)
    \/ \E outcome \in {"ACK", "NACKP"} : Answer(outcome)
    \/ GiveUp

Spec == Init /\ [][Next]_vars

================================================================================
