------------------------------ MODULE GeminiSystem -----------------------------
(***************************************************************************)
(* A connected Gemini_comms and the FPGA it talks to over UDP.  The FPGA's *)
(* firmware is not part of the repository: its server is modelled from     *)
(* what gemini_comms.cpp expects of it (external).  Each direction of the  *)
(* network is a queue that may lose packets; it delivers the rest in order,*)
(* as a link of a laboratory network does.                                 *)
(*                                                                         *)
(* Late says how slow the network may be.  FALSE: a packet is delivered or *)
(* lost before the timeout of the transaction that caused it.  TRUE: it    *)
(* may also still be under way when the timer fires.                       *)
(***************************************************************************)
EXTENDS GeminiComms

CONSTANTS
    Late,
    RepeatedCnx,        \* connection requests that may have been sent again
    MaxLosses           \* bound: packets lost in a behaviour

ASSUME LateAssumption == Late \in BOOLEAN
\* A network that is in time answers a connection request before it is repeated.
ASSUME RepeatedCnxAssumption == RepeatedCnx \in Nat /\ (~Late => RepeatedCnx = 0)
ASSUME LossesAssumption == MaxLosses \in Nat
\* The FPGA must tell a repeated number from a number ahead of a gap.
ASSUME NumbersSuffice == 2 * PipelineLen <= SeqSpace

VARIABLES
    toFpga,     \* datagrams under way to the FPGA
    fromFpga,   \* replies under way to the client; re is the id that caused them
    done,       \* history: ids in the order the FPGA executed them
    lastSeq,    \* sequence number the FPGA executed last
    lost        \* history: packets lost so far

netVars == <<toFpga, fromFpga, done, lastSeq, lost>>
sysVars == <<vars, netVars>>

--------------------------------------------------------------------------------
(* The FPGA (external).                                                      *)

Reply(op, seq, re) == [op |-> op, svr_seq |-> seq, re |-> re]

\* The number a datagram carries is the next one, one of the last PipelineLen
\* executed ones (its reply is sent again), or ahead of a gap: NACKT.
IsNext(seq) == seq = SeqPlus(lastSeq, 1)
IsRepeat(seq) == \E k \in 0 .. (PipelineLen - 1) : k < Len(done) /\ SeqPlus(seq, k) = lastSeq

FpgaReceives ==
    /\ toFpga # <<>>
    /\ LET d == Head(toFpga)
       IN  \/ /\ IsNext(d.seq)
              /\ done' = Append(done, d.id)
              /\ lastSeq' = d.seq
              /\ fromFpga' = Append(fromFpga, Reply("ACK", d.seq, d.id))
           \/ /\ IsRepeat(d.seq)
              /\ fromFpga' = Append(fromFpga, Reply("ACK", d.seq, d.id))
              /\ UNCHANGED <<done, lastSeq>>
           \/ /\ ~IsNext(d.seq) /\ ~IsRepeat(d.seq)
              /\ fromFpga' = Append(fromFpga, Reply("NACKT", lastSeq, d.id))
              /\ UNCHANGED <<done, lastSeq>>
    /\ toFpga' = Tail(toFpga)
    /\ UNCHANGED <<vars, lost>>

\* The network drops the packet it would deliver next.
Lose ==
    /\ lost < MaxLosses
    /\ lost' = lost + 1
    /\ \/ /\ toFpga # <<>>
          /\ toFpga' = Tail(toFpga)
          /\ UNCHANGED fromFpga
       \/ /\ fromFpga # <<>>
          /\ fromFpga' = Tail(fromFpga)
          /\ UNCHANGED toFpga
    /\ UNCHANGED <<vars, done, lastSeq>>

--------------------------------------------------------------------------------
(* The client on this network.                                               *)

\* Nothing sent up to the last transmission of trans is still under way.
\* While a retry is pending, that is everything ever sent.
Quiet(trans, incoming) ==
    LET stale(id) == m_waitingForRetryResponse \/ id <= trans.id
    IN  /\ \A i \in DOMAIN toFpga : ~stale(toFpga[i].id)
        /\ \A i \in DOMAIN incoming : ~stale(incoming[i].re)

MayExpire(trans, incoming) == Late \/ Quiet(trans, incoming)

\* The datagrams of the step go out in the order of submission.
Transmits ==
    \E out \in [1 .. Cardinality(written') -> written'] :
        /\ \A i, j \in DOMAIN out : i < j => out[i].id < out[j].id
        /\ toFpga' = toFpga \o out

\* Nothing is read before the first request: onCnxRxReady reports the connection to
\* its window, which asks for its first block inside that slot (fpga_window.cpp:320).
ClientReceives ==
    /\ owner # <<>>
    /\ fromFpga # <<>>
    /\ fromFpga' = Tail(fromFpga)
    /\ \E expired \in BOOLEAN :
        /\ expired /\ Len(m_transList) > 1 => MayExpire(m_transList[2], Tail(fromFpga))
        /\ OnPktRxReady([op |-> Head(fromFpga).op, svr_seq |-> Head(fromFpga).svr_seq], expired)
    /\ Transmits
    /\ UNCHANGED <<done, lastSeq, lost>>

ClientTimesOut ==
    /\ m_transList # <<>> => MayExpire(m_transList[1], fromFpga)
    /\ OnPktTimeout
    /\ Transmits
    /\ UNCHANGED <<fromFpga, done, lastSeq, lost>>

ClientRequests ==
    /\ UserNext
    /\ Transmits
    /\ UNCHANGED <<fromFpga, done, lastSeq, lost>>

\* On a slow network the connection request may have been repeated before the
\* first acknowledgement came: those of the others are still under way.
SysInit ==
    /\ Init
    /\ toFpga = <<>>
    /\ \E n \in 0 .. RepeatedCnx :
            fromFpga = [k \in 1 .. n |-> Reply("ACK", 1 % SeqSpace, 0)]
    /\ done = <<>>
    /\ lastSeq = 1 % SeqSpace
    /\ lost = 0

SysNext ==
    \/ ClientRequests
    \/ ClientReceives
    \/ ClientTimesOut
    \/ FpgaReceives
    \/ Lose

SysSpec == SysInit /\ [][SysNext]_sysVars

\* The event loop reads what arrives and serves its timer, the FPGA answers
\* what it receives, and packets do not stay under way for ever.
FairSysSpec ==
    /\ SysSpec
    /\ WF_sysVars(ClientReceives)
    /\ WF_sysVars(ClientTimesOut)
    /\ WF_sysVars(FpgaReceives)

--------------------------------------------------------------------------------
(* Properties.                                                               *)

\* The reply a step consumes, if it consumes one.
Consumed(p) == fromFpga # <<>> /\ p = Head(fromFpga) /\ fromFpga' = Tail(fromFpga)
               /\ lost' = lost /\ done' = done

\* The transaction retired by a reply is the one the FPGA executed for that
\* reply, although replies carry nothing but a number that wraps around and
\* are matched against whatever transaction is the oldest at that time.
AnswerMatches ==
    [][\A r \in results' \ results :
            r.outcome # "timeout" => /\ fromFpga # <<>>
                                     /\ Head(fromFpga).re = r.id]_sysVars

\* The FPGA executes the transactions in the order of submission, each once:
\* no write is repeated by a resend and none is skipped.
ExecutedInOrder == done = [k \in DOMAIN done |-> k]

\* A result other than a timeout is only reported for an executed transaction.
ReportedIsExecuted ==
    \A r \in results : r.outcome # "timeout" => r.id \in {done[k] : k \in DOMAIN done}

\* The head of the transaction list is never read while the list is empty
\* (gemini_comms.cpp:495-500 always has a packet "we're waiting for").
NoUndefined == ~undefined

\* gemini_comms.cpp:495-498: an ACK makes the client go back to its oldest
\* transaction only when it is for a later one, a sign of a lost reply.
RetryOnLaterAck ==
    [][\A p \in {fromFpga[i] : i \in DOMAIN fromFpga} :
            /\ Consumed(p)
            /\ p.op = "ACK"
            /\ m_waitingForRetryResponse' /\ ~m_waitingForRetryResponse
            /\ m_transList' # <<>> /\ m_transList # <<>>
            /\ m_transList'[1].id = m_transList[1].id
            => p.re > m_transList[1].id]_sysVars

\* gemini_comms.cpp:527-528: when the reply to a retry comes in, nothing is
\* left in the FPGA's buffer, so the window may start again from empty.
BufferEmptyAfterRetry ==
    [][m_waitingForRetryResponse /\ ~m_waitingForRetryResponse' => toFpga = <<>>]_sysVars

\* gemini_comms.cpp:372: there are never more datagrams on their way to the
\* FPGA than it can buffer, retries and rewound windows included.
PipelineRespected == Len(toFpga) <= PipelineLen

\* On a network that is faster than the timeout the connection is only given
\* up when one packet was lost for every transmission of some transaction.
GiveUpMeansLoss == ~m_isConnected => lost > MaxRetries

\* Every request is executed and answered, unless the connection is given up, which
\* by GiveUpMeansLoss takes more than MaxRetries losses: retries make progress and
\* do not chase each other for ever, however the losses fall.
EveryRequestAnswered ==
    \A id \in 1 .. MaxTrans :
        id <= Len(owner) ~> \/ id \in {done[k] : k \in DOMAIN done} /\ id \notin Pending
                            \/ ~m_isConnected

================================================================================
