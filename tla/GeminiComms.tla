------------------------------ MODULE GeminiComms ------------------------------
(***************************************************************************)
(* The client side of the Gemini register protocol while it is connected:  *)
(* class Gemini_comms and class RwChannel of                               *)
(* gemini-viewer/src/gemini_comms/gemini_comms.cpp.  RwChannel objects     *)
(* multiplex read/write requests over one UDP "connection" to an FPGA.     *)
(* Requests are cut into transactions, at most m_pipelineLen of which are  *)
(* in flight; replies come back in order; anything else triggers a resend  *)
(* of the oldest transaction ("go back N").                                *)
(*                                                                         *)
(* Every slot of the Qt event loop runs to completion, so one handler is   *)
(* one action.  The network is left completely open here: any packet may   *)
(* arrive at any time.  GeminiSystem closes it with an FPGA.               *)
(*                                                                         *)
(* Some operators are preceded by variants with a plausible mistake; they  *)
(* are used nowhere, each property is shown to fail with one of them.      *)
(***************************************************************************)
EXTENDS Integers, Sequences, FiniteSets

CONSTANTS
    SeqSpace,           \* number of values of the sequence number, 2^8 in the code
    PipelineLen,        \* m_pipelineLen, told by the FPGA when it accepts the connection
    MaxRetries,         \* m_maxRetries
    MaxPayloadWords,    \* m_maxPayloadWords, told by the FPGA too
    RequestSizes,       \* the numRegs a channel may ask for
    MaxTrans,           \* bound: transactions submitted in a behaviour
    MaxOpens            \* bound: channels opened in a behaviour

ASSUME SeqSpaceAssumption == SeqSpace \in Nat \ {0}
ASSUME PipelineAssumption == PipelineLen \in Nat \ {0}
\* With no retry allowed the connection request itself is never sent
\* (onCnxTimeout gives up first), so a connected client has at least one.
ASSUME RetriesAssumption == MaxRetries \in Nat \ {0}
ASSUME PayloadAssumption == MaxPayloadWords \in Nat \ {0}
ASSUME SizesAssumption == RequestSizes \subseteq Nat
ASSUME BoundsAssumption == MaxTrans \in Nat /\ MaxOpens \in Nat

VARIABLES
    m_isConnected,
    m_transList,            \* transactions not yet retired, oldest first
    m_numInTransit,
    m_waitingForRetryResponse,
    m_cli_seq,              \* sequence number of the last datagram written
    m_timer,                \* is the single-shot timer running?
    m_chans,                \* the channel open in each slot, 0 for nullptr
    opened,                 \* history: channels opened so far (they are 1..opened)
    owner,                  \* history: owner[id] is the channel that submitted id
    results,                \* history: the result signals emitted to channels
    written,                \* datagrams the last handler wrote, in order of id
    undefined               \* the front of an empty list has been read

vars == <<m_isConnected, m_transList, m_numInTransit, m_waitingForRetryResponse,
          m_cli_seq, m_timer, m_chans, opened, owner, results, written, undefined>>

SeqNums == 0 .. (SeqSpace - 1)
Ops == {"ACK", "NACKP", "NACKT", "CNX", "malformed"}
Packet == [op : Ops, svr_seq : SeqNums]
Outcomes == {"ACK", "NACKP", "timeout"}

SeqPlus(s, k) == (s + k) % SeqSpace

--------------------------------------------------------------------------------
(* Splitting a request and choosing what to send.                            *)

\* A request of n registers becomes one transaction for each multiple of
\* MaxPayloadWords below n; a request of no register becomes none.
NumPieces(n) == Cardinality({o \in 0 .. (n - 1) : o % MaxPayloadWords = 0})

Transaction(id, slot) == [id |-> id, ctx |-> slot, sendCount |-> 0, cli_seq |-> 0]

Unsent(L) == {i \in DOMAIN L : L[i].sendCount = 0}
Rank(L, i) == Cardinality({j \in Unsent(L) : j <= i})

\* The transactions of L that trySendTransactions sends when n are in flight:
\* the first unsent ones, as long as the pipeline has room.
ToSendOneTooMany(L, n) == {i \in Unsent(L) : n + Rank(L, i) <= PipelineLen + 1}
ToSend(L, n) == {i \in Unsent(L) : n + Rank(L, i) <= PipelineLen}

Sent(trans, seq) == [trans EXCEPT !.sendCount = @ + 1, !.cli_seq = seq]

Datagram(trans) == [id |-> trans.id, seq |-> trans.cli_seq]

\* The list L once trySendTransactions has sent what it can.
AfterTrySend(L, n) ==
    [i \in DOMAIN L |-> IF i \in ToSend(L, n)
                        THEN Sent(L[i], SeqPlus(m_cli_seq, Rank(L, i)))
                        ELSE L[i]]

\* sendGeminiTransaction starts the timer when it sends the front of the list.
TimerNeverStarted(L, n, running) == running
TimerAfterTrySend(L, n, running) == running \/ 1 \in ToSend(L, n)

\* trySendTransactions on list L with n in flight while no retry is pending;
\* running says whether the timer already runs for the front of L.
TrySendTransactions(L, n, running) ==
    /\ m_transList' = AfterTrySend(L, n)
    /\ m_numInTransit' = n + Cardinality(ToSend(L, n))
    /\ m_cli_seq' = SeqPlus(m_cli_seq, Cardinality(ToSend(L, n)))
    /\ written' = {Datagram(AfterTrySend(L, n)[i]) : i \in ToSend(L, n)}
    /\ m_timer' = TimerAfterTrySend(L, n, running)

--------------------------------------------------------------------------------
(* Results and retries.                                                      *)

\* The result signal for trans: nobody gets it when its channel was disposed.
Signal(trans, outcome) ==
    {[id |-> trans.id, to |-> c, outcome |-> outcome] : c \in {m_chans[trans.ctx]} \ {0}}

NotifyOldest(L) == IF L = <<>> THEN {} ELSE Signal(L[1], "timeout")
NotifyAll(L) == UNION {Signal(L[i], "timeout") : i \in DOMAIN L}

\* closeConnection: every pending transaction is reported as timed out.
CloseConnection(L, n, signalled) ==
    /\ m_isConnected' = FALSE
    /\ results' = signalled \cup NotifyAll(L)
    /\ m_transList' = <<>>
    /\ m_numInTransit' = n
    /\ written' = {}
    /\ UNCHANGED <<m_waitingForRetryResponse, m_cli_seq>>

\* The list L with its front sent again and all the others to be resent later.
SeqForResend(trans) == SeqPlus(SeqPlus(trans.cli_seq, SeqSpace - 1), 1)
ResendUnderNextSeq(L) ==
    [i \in DOMAIN L |-> IF i = 1 THEN Sent(L[1], SeqPlus(m_cli_seq, 1))
                                 ELSE [L[i] EXCEPT !.sendCount = 0]]
ResendOldestOnly(L) ==
    [i \in DOMAIN L |-> IF i = 1 THEN Sent(L[1], SeqForResend(L[1])) ELSE L[i]]
AfterResend(L) ==
    [i \in DOMAIN L |-> IF i = 1 THEN Sent(L[1], SeqForResend(L[1]))
                                 ELSE [L[i] EXCEPT !.sendCount = 0]]

RetriesUsedUpEarly(trans) == trans.sendCount >= MaxRetries
RetriesUsedUp(trans) == trans.sendCount > MaxRetries

\* resendOldestTransaction on the non-empty list L with n in flight.
ResendOldestTransaction(L, n, running, signalled) ==
    \/ /\ RetriesUsedUp(L[1])
       /\ CloseConnection(L, n, signalled)
       /\ m_timer' = running
    \/ /\ ~RetriesUsedUp(L[1])
       /\ m_transList' = AfterResend(L)
       /\ m_numInTransit' = n + 1
       /\ m_waitingForRetryResponse' = TRUE
       /\ m_cli_seq' = AfterResend(L)[1].cli_seq
       /\ written' = {Datagram(AfterResend(L)[1])}
       /\ m_timer' = TRUE
       /\ results' = signalled
       /\ UNCHANGED m_isConnected

\* m_transList.front() of an empty list: the program has no defined
\* behaviour from here on, so no action is enabled any more.
ReadFrontOfEmptyList ==
    /\ m_transList = <<>>
    /\ undefined' = TRUE
    /\ written' = {}
    /\ UNCHANGED <<m_isConnected, m_transList, m_numInTransit,
                   m_waitingForRetryResponse, m_cli_seq, m_timer, m_chans,
                   opened, owner, results>>

--------------------------------------------------------------------------------
(* RwChannel: what the user of a connection does.                            *)

\* openChannel: the first empty slot no pending transaction still refers to,
\* else a new slot at the end.
EmptySlots == {s \in DOMAIN m_chans : m_chans[s] = 0}
FreeSlots == {s \in DOMAIN m_chans :
                /\ m_chans[s] = 0
                /\ \A i \in DOMAIN m_transList : m_transList[i].ctx # s}

OpenChannel ==
    /\ ~undefined
    /\ opened < MaxOpens
    /\ opened' = opened + 1
    /\ m_chans' = IF FreeSlots = {}
                  THEN Append(m_chans, opened + 1)
                  ELSE [m_chans EXCEPT ![CHOOSE s \in FreeSlots :
                                            \A r \in FreeSlots : s <= r] = opened + 1]
    /\ written' = {}
    /\ UNCHANGED <<m_isConnected, m_transList, m_numInTransit, m_cli_seq, m_timer,
                   m_waitingForRetryResponse, owner, results, undefined>>

\* RwChannel::dispose by the channel in slot s.
Dispose(s) ==
    /\ ~undefined
    /\ m_chans[s] # 0
    /\ m_chans' = [m_chans EXCEPT ![s] = 0]
    /\ written' = {}
    /\ UNCHANGED <<m_isConnected, m_transList, m_numInTransit, m_cli_seq, m_timer,
                   m_waitingForRetryResponse, opened, owner, results, undefined>>

\* The list with n transactions of the channel in slot s pushed at its end.
PushBack(s, n) == m_transList \o [k \in 1 .. n |-> Transaction(Len(owner) + k, s)]

\* RwChannel::rw of numRegs registers by the channel in slot s, connected.
Rw(s, numRegs) ==
    LET pieces == NumPieces(numRegs)
        L == PushBack(s, pieces)
    IN  /\ ~undefined
        /\ m_isConnected
        /\ m_chans[s] # 0
        /\ Len(owner) + pieces <= MaxTrans
        /\ owner' = owner \o [k \in 1 .. pieces |-> m_chans[s]]
        /\ \/ /\ m_waitingForRetryResponse
              /\ m_transList' = L
              /\ written' = {}
              /\ UNCHANGED <<m_numInTransit, m_cli_seq, m_timer>>
           \/ /\ ~m_waitingForRetryResponse
              /\ TrySendTransactions(L, m_numInTransit, m_timer)
        /\ UNCHANGED <<m_isConnected, m_waitingForRetryResponse, m_chans, opened,
                       results, undefined>>

\* RwChannel::rw after the connection failed: one timeout, at once.
RwNotConnected(s) ==
    /\ ~undefined
    /\ ~m_isConnected
    /\ m_chans[s] # 0
    /\ Len(owner) < MaxTrans
    /\ owner' = Append(owner, m_chans[s])
    /\ results' = results \cup
                    {[id |-> Len(owner) + 1, to |-> m_chans[s], outcome |-> "timeout"]}
    /\ written' = {}
    /\ UNCHANGED <<m_isConnected, m_transList, m_numInTransit, m_cli_seq, m_timer,
                   m_waitingForRetryResponse, m_chans, opened, undefined>>

--------------------------------------------------------------------------------
(* onPktRxReady, by the kind of packet.                                      *)

\* Runts and packets of another protocol version.
RxMalformed(pkt) ==
    /\ pkt.op = "malformed"
    /\ written' = {}
    /\ UNCHANGED <<m_isConnected, m_transList, m_numInTransit, m_cli_seq, m_timer,
                   m_waitingForRetryResponse, m_chans, opened, owner, results, undefined>>

IsTemporaryNack(pkt) == pkt.op = "NACKT"
IsMismatch(pkt) == pkt.op = "NACKT" \/ pkt.svr_seq # m_transList[1].cli_seq

RetryAlways == TRUE
MayRetry == ~m_waitingForRetryResponse

\* Something was lost: go back to the oldest transaction, once.
RxMismatch(pkt) ==
    /\ pkt.op # "malformed"
    /\ m_transList # <<>>
    /\ IsMismatch(pkt)
    /\ \/ /\ MayRetry
          /\ ResendOldestTransaction(m_transList, m_numInTransit, m_timer, results)
       \/ /\ ~MayRetry
          /\ written' = {}
          /\ UNCHANGED <<m_isConnected, m_transList, m_numInTransit, m_cli_seq,
                         m_timer, m_waitingForRetryResponse, results>>
    /\ UNCHANGED <<m_chans, opened, owner, undefined>>

\* The expected number on a packet that is not a reply.
RxUnexpected(pkt) ==
    /\ pkt.op \notin {"malformed", "ACK", "NACKP"}
    /\ m_transList # <<>>
    /\ ~IsMismatch(pkt)
    /\ written' = {}
    /\ UNCHANGED <<m_isConnected, m_transList, m_numInTransit, m_cli_seq, m_timer,
                   m_waitingForRetryResponse, m_chans, opened, owner, results, undefined>>

InFlightDecremented == m_numInTransit - 1
InFlightResetThenDecremented ==
    (IF m_waitingForRetryResponse THEN 0 ELSE m_numInTransit) - 1
InFlightAfterReply == IF m_waitingForRetryResponse THEN 0 ELSE m_numInTransit - 1

RetireNewest(L) == SubSeq(L, 1, Len(L) - 1)
Retire(L) == Tail(L)

\* The reply to the oldest transaction.  When the next one was already sent
\* its timer is started, unless its deadline has passed: then it is resent
\* at once, and trySendTransactions does nothing because a retry is pending.
RxReply(pkt, expired) ==
    LET rest == Retire(m_transList)
        nextSent == rest # <<>> /\ rest[1].sendCount > 0
        signalled == results \cup Signal(m_transList[1], pkt.op)
    IN  /\ pkt.op \in {"ACK", "NACKP"}
        /\ m_transList # <<>>
        /\ ~IsMismatch(pkt)
        /\ \/ /\ nextSent /\ expired
              /\ ResendOldestTransaction(rest, InFlightAfterReply, FALSE, signalled)
           \/ /\ ~(nextSent /\ expired)
              /\ m_waitingForRetryResponse' = FALSE
              /\ results' = signalled
              /\ TrySendTransactions(rest, InFlightAfterReply, nextSent)
              /\ UNCHANGED m_isConnected
        /\ UNCHANGED <<m_chans, opened, owner, undefined>>

RxEmptyList(pkt) ==
    /\ pkt.op # "malformed"
    /\ ReadFrontOfEmptyList

\* expired: the deadline of the next transaction has passed meanwhile.
OnPktRxReady(pkt, expired) ==
    /\ ~undefined
    /\ \/ RxMalformed(pkt)
       \/ RxEmptyList(pkt)
       \/ RxMismatch(pkt)
       \/ RxUnexpected(pkt)
       \/ RxReply(pkt, expired)

--------------------------------------------------------------------------------
\* The timer fires: onPktTimeout.
OnPktTimeout ==
    /\ ~undefined
    /\ m_timer
    /\ \/ /\ m_transList # <<>>
          /\ ResendOldestTransaction(m_transList, m_numInTransit, FALSE, results)
          /\ UNCHANGED <<m_chans, opened, owner, undefined>>
       \/ ReadFrontOfEmptyList

\* The state onCnxRxReady leaves when the FPGA accepts the connection: its
\* acknowledgement carries sequence number 1, which m_cli_seq takes over.
Init ==
    /\ m_isConnected = TRUE
    /\ m_transList = <<>>
    /\ m_numInTransit = 0
    /\ m_waitingForRetryResponse = FALSE
    /\ m_cli_seq = 1 % SeqSpace
    /\ m_timer = FALSE
    /\ m_chans = <<>>
    /\ opened = 0
    /\ owner = <<>>
    /\ results = {}
    /\ written = {}
    /\ undefined = FALSE

UserNext ==
    \/ OpenChannel
    \/ \E s \in DOMAIN m_chans :
        \/ Dispose(s)
        \/ RwNotConnected(s)
        \/ \E n \in RequestSizes : Rw(s, n)

Next ==
    \/ UserNext
    \/ OnPktTimeout
    \/ \E pkt \in Packet, expired \in BOOLEAN : OnPktRxReady(pkt, expired)

Spec == Init /\ [][Next]_vars

\* A started QTimer fires while the event loop runs.
FairSpec == Spec /\ WF_vars(OnPktTimeout)

--------------------------------------------------------------------------------
(* Properties.                                                               *)

Pending == {m_transList[i].id : i \in DOMAIN m_transList}
OpenChannels == {m_chans[s] : s \in DOMAIN m_chans} \ {0}

\* Every variable keeps its type; in particular the unsigned m_numInTransit
\* is never decremented below zero.
TypeOK ==
    /\ m_isConnected \in BOOLEAN
    /\ m_transList \in Seq([id : Nat \ {0}, ctx : 1 .. Len(m_chans),
                            sendCount : Nat, cli_seq : SeqNums])
    /\ m_numInTransit \in Nat
    /\ m_waitingForRetryResponse \in BOOLEAN
    /\ m_cli_seq \in SeqNums
    /\ m_timer \in BOOLEAN
    /\ m_chans \in Seq(0 .. opened)
    /\ opened \in Nat
    /\ owner \in Seq(1 .. opened)
    /\ results \subseteq [id : 1 .. Len(owner), to : 1 .. opened, outcome : Outcomes]
    /\ written \subseteq [id : Nat \ {0}, seq : SeqNums]
    /\ undefined \in BOOLEAN

\* The window is a window: while no retry is pending, m_numInTransit counts
\* exactly the transactions marked as sent, they are the oldest ones, they fit
\* the FPGA's pipeline, and nothing waits unsent while the pipeline has room.
\* This must survive every mix of replies, resends, late timers and new
\* requests, since m_numInTransit is kept apart from the sendCount marks.
WindowAccounting ==
    ~m_waitingForRetryResponse =>
        /\ \A i \in DOMAIN m_transList :
                m_transList[i].sendCount > 0 <=> i <= m_numInTransit
        /\ m_numInTransit <= PipelineLen
        /\ m_numInTransit < PipelineLen => m_numInTransit = Len(m_transList)
        /\ m_isConnected => m_numInTransit <= Len(m_transList)

\* While a retry is pending the front is the only transaction marked as sent,
\* so the one reply that is waited for is the front's.
RetryWindow ==
    m_isConnected /\ m_waitingForRetryResponse =>
        /\ m_transList # <<>>
        /\ \A i \in DOMAIN m_transList : m_transList[i].sendCount > 0 <=> i = 1

\* A transaction is only ever transmitted under one sequence number, the one
\* its place in the order of submission gives it, however often the window is
\* rewound: the FPGA recognises a repeated request by its number.
NumberOf(id) == (id + 1) % SeqSpace
NumberedBySubmission ==
    /\ \A d \in written : d.seq = NumberOf(d.id)
    /\ \A i \in DOMAIN m_transList :
            m_transList[i].sendCount > 0 => m_transList[i].cli_seq = NumberOf(m_transList[i].id)

\* The timer runs exactly while something is pending, so a lost reply is always
\* noticed and the timer never fires on an empty list.
TimerGuardsPending == m_timer <=> m_transList # <<>>

\* The connection is only given up after the oldest transaction has been
\* transmitted MaxRetries + 1 times, and nothing is ever transmitted more often.
GiveUpOnlyAfterRetries ==
    [][/\ m_isConnected /\ ~m_isConnected' =>
            m_transList[1].sendCount = MaxRetries + 1
       /\ \A i \in DOMAIN m_transList' : m_transList'[i].sendCount <= MaxRetries + 1]_vars

\* A transaction that is no longer pending has been reported to its channel,
\* unless that channel was disposed; with resends and slot reuse nothing is
\* retired silently.
NoResultLost ==
    \A id \in DOMAIN owner :
        \/ id \in Pending
        \/ owner[id] \notin OpenChannels
        \/ \E r \in results : r.id = id /\ r.to = owner[id]

\* A result only reaches the channel that asked, although slots are reused
\* while transactions of disposed channels are still pending.
ChannelIsolation ==
    /\ \A r \in results : r.to = owner[r.id]
    /\ \A i \in DOMAIN m_transList :
            m_chans[m_transList[i].ctx] \in {0, owner[m_transList[i].id]}

\* Whatever the network does, every request is eventually answered or timed
\* out (or the program has run into the undefined read).
EveryRequestEnds ==
    \A id \in 1 .. MaxTrans : id <= Len(owner) ~> id \notin Pending \/ undefined

\* The connection implements the abstract service: forget sequence numbers,
\* the window, the timer and the slots.
Service == INSTANCE RegisterService WITH
    connected <- m_isConnected,
    queue <- [i \in DOMAIN m_transList |-> m_transList[i].id],
    open <- OpenChannels

\* Every step of the client is a step of the register service or none of its
\* business: requests are answered in order, once, and to whoever asked.
ImplementsService == Service!Spec

--------------------------------------------------------------------------------
(* The loops of rw and trySendTransactions as they are written, to compare   *)
(* with what the actions use.                                                *)

\* The transactions rw makes of a request of n registers from base: one for each
\* multiple of MaxPayloadWords below n, from there to the next one or to the end.
Regs(base, numRegs) == [base |-> base, numRegs |-> numRegs]
PiecesAllFromBase(base, n) ==
    [k \in 1 .. NumPieces(n) |->
        LET start == (k - 1) * MaxPayloadWords
        IN  Regs(base, IF start + MaxPayloadWords <= n THEN MaxPayloadWords ELSE n - start)]
PiecesOf(base, n) ==
    [k \in 1 .. NumPieces(n) |->
        LET start == (k - 1) * MaxPayloadWords
        IN  Regs(base + start,
                 IF start + MaxPayloadWords <= n THEN MaxPayloadWords ELSE n - start)]

\* The same as the loop of rw makes them, which counts base up and numRegs down.
AnyRegs == [base : Nat, numRegs : Nat]
RegsSent(n) == IF n > MaxPayloadWords THEN MaxPayloadWords ELSE n
SplitLoop[rq \in AnyRegs] ==
    IF rq.numRegs = 0 THEN <<>>
    ELSE LET sent == RegsSent(rq.numRegs)
         IN  <<Regs(rq.base, sent)>> \o SplitLoop[Regs(rq.base + sent, rq.numRegs - sent)]

\* One turn of trySendTransactions, at the i-th transaction.  With a full pipeline
\* the code leaves the loop; here the remaining turns do nothing.
TrySendTurn(loop, i) ==
    IF loop.inTransit >= PipelineLen \/ loop.list[i].sendCount # 0 THEN loop
    ELSE [list |-> [loop.list EXCEPT ![i] = Sent(@, SeqPlus(loop.seq, 1))],
          inTransit |-> loop.inTransit + 1,
          seq |-> SeqPlus(loop.seq, 1)]

TrySendLoop(L, n) ==
    LET turn[i \in 0 .. Len(L)] ==
            IF i = 0 THEN [list |-> L, inTransit |-> n, seq |-> m_cli_seq]
            ELSE TrySendTurn(turn[i - 1], i)
    IN  turn[Len(L)]

\* The actions agree with the loops: a request of any size the channels may ask for
\* is split into transactions that cover its registers without a gap and without an
\* overlap, as many as the actions add to the list; and the loop over the list, from every
\* reachable list, every rewound list and every fill of the pipeline, sends the same
\* transactions under the same numbers.
LoopsAgree ==
    /\ \A base \in {0, MaxPayloadWords}, n \in RequestSizes :
            SplitLoop[Regs(base, n)] = PiecesOf(base, n)
    /\ \A n \in 0 .. PipelineLen :
        \A L \in {m_transList} \cup (IF m_transList = <<>> THEN {} ELSE {AfterResend(m_transList)}) :
            TrySendLoop(L, n) =
                [list |-> AfterTrySend(L, n),
                 inTransit |-> n + Cardinality(ToSend(L, n)),
                 seq |-> SeqPlus(m_cli_seq, Cardinality(ToSend(L, n)))]

================================================================================
