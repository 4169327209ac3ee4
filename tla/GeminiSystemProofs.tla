-------------------------- MODULE GeminiSystemProofs ---------------------------
(***************************************************************************)
(* Theorems about GeminiSystem, for every pipeline, number of retries,     *)
(* payload size and sequence number space that NumbersSuffice allows, for  *)
(* every loss of packets, and for networks slower than the timeout too.    *)
(***************************************************************************)
EXTENDS GeminiSystem, GeminiCommsProofs

--------------------------------------------------------------------------------
(* Numbers that are not far apart.                                           *)

LEMMA Sizes == /\ SeqSpace \in Nat \ {0} /\ PipelineLen \in Nat \ {0}
               /\ 2 * PipelineLen <= SeqSpace
  BY SeqSpaceAssumption, PipelineAssumption, NumbersSuffice

\* A remainder does not come back before the modulus is reached.
LEMMA SameRemainder ==
    ASSUME NEW m \in Nat \ {0}, NEW a \in Nat, NEW b \in Nat, a <= b, b - a < m,
           a % m = b % m
    PROVE  a = b
<1> DEFINE q == a \div m
           r == a % m
           d == b - a
<1>1. a = m * q + r /\ q \in Int /\ r \in 0 .. (m - 1)
  OBVIOUS
<1>2. d \in 0 .. (m - 1) /\ b = a + d
  OBVIOUS
<1> HIDE DEF q, r, d
<1>3. CASE r + d < m
  <2>1. r + d \in 0 .. (m - 1) /\ b = m * q + (r + d)
    BY <1>1, <1>2, <1>3
  <2>2. b % m = r + d
    BY ONLY <1>1, <2>1, ModUnique, m \in Nat \ {0}
  <2>3. r = r + d
    BY <2>2 DEF r
  <2> QED
    BY <1>1, <1>2, <2>3
<1>4. CASE ~(r + d < m)
  <2> DEFINE s == r + d - m
  <2>1. s \in 0 .. (m - 1)
    BY <1>1, <1>2, <1>4
  <2>2. b = m * (q + 1) + s /\ q + 1 \in Int
    BY <1>1, <1>2
  <2> HIDE DEF s
  <2>3. b % m = s
    BY ONLY <2>1, <2>2, ModUnique, m \in Nat \ {0}
  <2>4. s = r
    BY <2>3 DEF r
  <2> QED
    BY <1>1, <1>2, <2>4 DEF s
<1> QED
  BY <1>3, <1>4

\* Transactions less than SeqSpace apart have different numbers.
LEMMA SameNumber ==
    ASSUME NEW a \in Nat, NEW b \in Nat, a - b < SeqSpace, b - a < SeqSpace,
           NumberOf(a) = NumberOf(b)
    PROVE  a = b
<1>1. SeqSpace \in Nat \ {0} /\ a + 1 \in Nat /\ b + 1 \in Nat
  BY Sizes
<1>2. (a + 1) % SeqSpace = (b + 1) % SeqSpace
  BY DEF NumberOf
<1>3. CASE a <= b
  <2>1. a + 1 <= b + 1 /\ (b + 1) - (a + 1) < SeqSpace
    BY <1>1, <1>3
  <2>2. a + 1 = b + 1
    BY ONLY <1>1, <1>2, <2>1, SameRemainder
  <2> QED
    BY <2>2
<1>4. CASE b <= a
  <2>1. b + 1 <= a + 1 /\ (a + 1) - (b + 1) < SeqSpace
    BY <1>1, <1>4
  <2>2. b + 1 = a + 1
    BY ONLY <1>1, <1>2, <2>1, SameRemainder
  <2> QED
    BY <2>2
<1> QED
  BY <1>3, <1>4

LEMMA NumberType == \A id \in Nat : NumberOf(id) \in SeqNums
  BY SeqSpaceAssumption DEF NumberOf, SeqNums

--------------------------------------------------------------------------------
(* What a step of the client does to what the network sees of it.            *)

\* A step that retires nothing, or gives the connection up.
Keeps ==
    /\ m_isConnected' => m_isConnected /\ Retired' = Retired
    /\ \A r \in results' \ results : r.outcome = "timeout"

\* A step that retires the oldest transaction for a reply with its number.
Answers(pkt) ==
    /\ m_isConnected /\ pkt.op \in {"ACK", "NACKP"}
    /\ pkt.svr_seq = NumberOf(Retired + 1)
    /\ m_isConnected' => Retired' = Retired + 1
    /\ \A r \in results' \ results : r.outcome = "timeout" \/ r.id = Retired + 1

LEMMA KeepsList ==
    ASSUME UNCHANGED <<m_isConnected, m_transList, owner, results>>
    PROVE  Keeps
  BY DEF Keeps, Retired

LEMMA SignalsOf ==
    ASSUME NEW STATE trans, NEW outcome
    PROVE  \A r \in Signal(trans, outcome) : r.id = trans.id /\ r.outcome = outcome
  BY DEF Signal

LEMMA TimeoutsOf ==
    ASSUME NEW STATE L
    PROVE  \A r \in NotifyAll(L) : r.outcome = "timeout"
<1> SUFFICES ASSUME NEW r \in NotifyAll(L)
             PROVE  r.outcome = "timeout"
  OBVIOUS
<1>1. PICK i \in DOMAIN L : r \in Signal(L[i], "timeout")
  BY DEF NotifyAll
<1> QED
  BY <1>1 DEF Signal

\* Going back to the oldest transaction of the whole list.
LEMMA ResendKeeps ==
    ASSUME IInv, m_transList # <<>>, NEW STATE running,
           ResendOldestTransaction(m_transList, m_numInTransit, running, results),
           UNCHANGED vars1
    PROVE  Keeps
<1>1. m_isConnected /\ m_transList \in Seq(Trans)
  BY FrontFacts DEF IInv, Typed
<1>2. \/ CloseConnection(m_transList, m_numInTransit, results)
      \/ SameTransactions(m_transList) /\ results' = results /\ UNCHANGED m_isConnected
  BY <1>1, ResendSame
<1>3. CASE CloseConnection(m_transList, m_numInTransit, results)
  <2>1. ~m_isConnected' /\ results' = results \cup NotifyAll(m_transList)
    BY <1>3 DEF CloseConnection
  <2> QED
    BY <2>1, TimeoutsOf DEF Keeps
<1>4. CASE SameTransactions(m_transList) /\ results' = results /\ UNCHANGED m_isConnected
  <2>1. Retired' = Retired
    BY <1>4 DEF SameTransactions, Retired, vars1
  <2> QED
    BY <1>1, <1>4, <2>1 DEF Keeps
<1> QED
  BY <1>2, <1>3, <1>4

LEMMA UserKeeps ==
    ASSUME IInv, UserNext
    PROVE  Keeps
<1>1. CASE OpenChannel
  BY <1>1, KeepsList DEF OpenChannel
<1>2. ASSUME NEW s \in DOMAIN m_chans, Dispose(s) PROVE Keeps
  BY <1>2, KeepsList DEF Dispose
<1>3. ASSUME NEW s \in DOMAIN m_chans, RwNotConnected(s) PROVE Keeps
  <2>1. /\ ~m_isConnected' /\ results' = results \cup
               {[id |-> Len(owner) + 1, to |-> m_chans[s], outcome |-> "timeout"]}
    BY <1>3 DEF RwNotConnected
  <2> QED
    BY <2>1 DEF Keeps
<1>4. ASSUME NEW s \in DOMAIN m_chans, NEW n \in RequestSizes, Rw(s, n) PROVE Keeps
  <2> DEFINE p == NumPieces(n)
             L == PushBack(s, p)
  <2>1. /\ p \in Nat /\ SameTransactions(L)
        /\ Len(L) = Len(m_transList) + p /\ Len(owner') = Len(owner) + p
    BY <1>4, RequestList
  <2>2. m_isConnected /\ results' = results
    BY <1>4 DEF Rw
  <2>3. Len(m_transList') = Len(L) /\ Len(m_transList) \in Nat /\ Len(owner) \in Nat
    BY <2>1, Facts DEF SameTransactions
  <2> HIDE DEF L, p
  <2>4. Retired' = Retired
    BY <2>1, <2>3 DEF Retired
  <2> QED
    BY <2>2, <2>4 DEF Keeps
<1> QED
  BY <1>1, <1>2, <1>3, <1>4 DEF UserNext

LEMMA TimeoutKeeps ==
    ASSUME IInv, OnPktTimeout
    PROVE  Keeps
<1>1. CASE m_transList # <<>>
  <2>1. ResendOldestTransaction(m_transList, m_numInTransit, FALSE, results) /\ UNCHANGED vars1
    BY <1>1 DEF OnPktTimeout, ReadFrontOfEmptyList, vars1
  <2> QED
    BY <1>1, <2>1, ResendKeeps
<1>2. CASE m_transList = <<>>
  BY <1>2, KeepsList DEF OnPktTimeout, ReadFrontOfEmptyList
<1> QED
  BY <1>1, <1>2

\* The reply to the oldest transaction.
LEMMA ReplyAnswers ==
    ASSUME IInv, Numbering, NEW STATE pkt, NEW STATE expired, RxReply(pkt, expired)
    PROVE  Answers(pkt)
<1> DEFINE rest == Retire(m_transList)
           nextSent == rest # <<>> /\ rest[1].sendCount > 0
           signalled == results \cup Signal(m_transList[1], pkt.op)
           n == InFlightAfterReply
<1>1. /\ m_transList # <<>> /\ ~IsMismatch(pkt) /\ pkt.op \in {"ACK", "NACKP"}
      /\ owner' = owner
  BY DEF RxReply
<1>2. /\ m_isConnected /\ Len(m_transList) \in Nat /\ Len(m_transList) >= 1
      /\ Len(owner) \in Nat /\ m_transList[1].sendCount \in 1 .. (MaxRetries + 1)
  BY <1>1, FrontFacts
<1>3. m_transList[1].id = Retired + 1
  BY <1>2 DEF IInv, Consecutive, Retired
<1>4. pkt.svr_seq = NumberOf(Retired + 1)
  <2>1. m_transList[1].sendCount > 0 /\ 1 \in 1 .. Len(m_transList)
    BY <1>2, RetriesAssumption
  <2>2. m_transList[1].cli_seq = NumberOf(m_transList[1].id)
    BY <2>1 DEF Numbering
  <2> QED
    BY <1>1, <1>3, <2>2 DEF IsMismatch
<1>5. /\ rest \in Seq(Trans) /\ Len(rest) = Len(m_transList) - 1
      /\ SentOnce(rest, n) /\ n \in Nat /\ n <= PipelineLen
  BY <1>1, RetireFront
<1>6. \A r \in signalled \ results : r.id = Retired + 1
  BY <1>3, SignalsOf
<1>7. \/ /\ rest # <<>>
         /\ ResendOldestTransaction(rest, n, FALSE, signalled)
      \/ /\ results' = signalled
         /\ TrySendTransactions(rest, n, nextSent)
         /\ UNCHANGED m_isConnected
  BY DEF RxReply
<1> HIDE DEF rest, signalled, n, nextSent
<1>8. CASE rest # <<>> /\ ResendOldestTransaction(rest, n, FALSE, signalled)
  <2>1. \/ CloseConnection(rest, n, signalled)
        \/ SameTransactions(rest) /\ results' = signalled /\ UNCHANGED m_isConnected
    BY <1>5, <1>8, ResendSame
  <2>2. CASE CloseConnection(rest, n, signalled)
    <3>1. ~m_isConnected' /\ results' = signalled \cup NotifyAll(rest)
      BY <2>2 DEF CloseConnection
    <3>2. \A r \in results' \ results : r.outcome = "timeout" \/ r.id = Retired + 1
      BY <1>6, <3>1, TimeoutsOf
    <3> QED
      BY <1>1, <1>2, <1>4, <3>1, <3>2 DEF Answers
  <2>3. CASE SameTransactions(rest) /\ results' = signalled /\ UNCHANGED m_isConnected
    <3>1. Retired' = Retired + 1
      BY <1>1, <1>2, <1>5, <2>3 DEF SameTransactions, Retired
    <3> QED
      BY <1>1, <1>2, <1>4, <1>6, <2>3, <3>1 DEF Answers
  <2> QED
    BY <2>1, <2>2, <2>3
<1>9. CASE results' = signalled /\ TrySendTransactions(rest, n, nextSent)
  <2>1. m_transList' = AfterTrySend(rest, n) /\ m_cli_seq \in SeqNums
    BY <1>9 DEF TrySendTransactions, IInv, Typed
  <2>2. Len(m_transList') = Len(rest)
    BY <1>5, <2>1, AfterTrySendList
  <2>3. Retired' = Retired + 1
    BY <1>1, <1>2, <1>5, <2>2 DEF Retired
  <2> QED
    BY <1>1, <1>2, <1>4, <1>6, <1>9, <2>3 DEF Answers
<1> QED
  BY <1>7, <1>8, <1>9

LEMMA PacketStep ==
    ASSUME IInv, Numbering, NEW STATE pkt, NEW STATE expired, OnPktRxReady(pkt, expired)
    PROVE  Keeps \/ Answers(pkt)
<1>1. CASE RxMalformed(pkt) \/ RxEmptyList(pkt) \/ RxUnexpected(pkt)
  BY <1>1, KeepsList DEF RxMalformed, RxEmptyList, ReadFrontOfEmptyList, RxUnexpected
<1>2. CASE RxMismatch(pkt)
  <2>1. m_transList # <<>> /\ UNCHANGED vars1
    BY <1>2 DEF RxMismatch, vars1
  <2>2. \/ ResendOldestTransaction(m_transList, m_numInTransit, m_timer, results)
        \/ UNCHANGED <<m_isConnected, m_transList, owner, results>>
    BY <1>2 DEF RxMismatch
  <2> QED
    BY <2>1, <2>2, ResendKeeps, KeepsList
<1>3. CASE RxReply(pkt, expired)
  BY <1>3, ReplyAnswers
<1> QED
  BY <1>1, <1>2, <1>3 DEF OnPktRxReady

--------------------------------------------------------------------------------
(* What a step of the client sends.                                          *)

\* The datagrams written last are of transactions marked as sent.
WrittenMarked ==
    /\ IsFiniteSet(written)
    /\ \A d \in written : \E i \in 1 .. Len(m_transList) :
            m_transList[i].sendCount > 0 /\ d.id = m_transList[i].id

\* What a function maps a finite set onto is finite.
LEMMA FiniteImage ==
    ASSUME NEW S, IsFiniteSet(S), NEW T, NEW f \in [S -> T],
           \A t \in T : \E x \in S : f[x] = t
    PROVE  IsFiniteSet(T)
<1>1. f \in Surjection(S, T)
  BY DEF Surjection
<1> QED
  BY <1>1, FS_Surjection

LEMMA NothingWritten ==
    ASSUME written' = {}
    PROVE  WrittenMarked'
  BY FS_EmptySet DEF WrittenMarked

LEMMA TrySendWrites ==
    ASSUME NEW STATE L, L \in Seq(Trans), NEW STATE n, SentOnce(L, n), n <= PipelineLen,
           m_cli_seq \in SeqNums, NEW STATE running, TrySendTransactions(L, n, running)
    PROVE  WrittenMarked'
<1> DEFINE A == AfterTrySend(L, n)
           S == ToSend(L, n)
<1>1. m_transList' = A /\ written' = {Datagram(A[i]) : i \in S}
  BY DEF TrySendTransactions
<1>2. /\ S = (n + 1) .. WindowEnd(L) /\ WindowEnd(L) \in n .. Len(L)
  BY ToSendIsInterval
<1>3. n \in Nat /\ Len(L) \in Nat
  BY LenProperties DEF SentOnce
<1>4. Len(A) = Len(L) /\ SentOnce(A, WindowEnd(L))
  BY AfterTrySendList
<1> HIDE DEF A, S
<1>5. IsFiniteSet(written')
  <2>1. IsFiniteSet(S)
    BY <1>2, <1>3, FS_Interval
  <2> DEFINE f == [i \in S |-> Datagram(A[i])]
  <2>2. f \in [S -> written'] /\ \A d \in written' : \E i \in S : f[i] = d
    BY <1>1
  <2> HIDE DEF f
  <2> QED
    BY <2>1, <2>2, FiniteImage
<1>6. ASSUME NEW d \in written'
      PROVE  \E i \in 1 .. Len(m_transList') :
                m_transList'[i].sendCount > 0 /\ d.id = m_transList'[i].id
  <2>1. PICK i \in S : d = Datagram(A[i])
    BY <1>1
  <2>2. i \in 1 .. Len(A) /\ i <= WindowEnd(L)
    BY <1>2, <1>3, <1>4
  <2>3. A[i].sendCount = 1
    BY <1>4, <2>2 DEF SentOnce
  <2>4. d.id = A[i].id
    BY <2>1 DEF Datagram
  <2> QED
    BY <1>1, <2>2, <2>3, <2>4
<1> QED
  BY <1>5, <1>6 DEF WrittenMarked

LEMMA ResendWrites ==
    ASSUME NEW STATE L, L \in Seq(Trans), L # <<>>, NEW STATE n, NEW STATE running,
           NEW STATE signalled, ResendOldestTransaction(L, n, running, signalled)
    PROVE  WrittenMarked'
<1>1. CASE CloseConnection(L, n, signalled)
  BY <1>1, NothingWritten DEF CloseConnection
<1>2. CASE /\ m_transList' = AfterResend(L)
           /\ written' = {Datagram(AfterResend(L)[1])}
  <2>1. /\ Len(AfterResend(L)) = Len(L) /\ Len(L) >= 1 /\ Len(L) \in Nat
        /\ AfterResend(L)[1].sendCount = L[1].sendCount + 1
    BY AfterResendList, LenProperties
  <2>2. L[1] \in Trans
    BY <2>1, ElementOfSeq
  <2>3. AfterResend(L)[1].sendCount > 0
    BY <2>1, <2>2 DEF Trans
  <2>4. IsFiniteSet(written')
    BY <1>2, FS_Singleton
  <2>5. \A d \in written' : d.id = AfterResend(L)[1].id
    BY <1>2 DEF Datagram
  <2>6. 1 \in 1 .. Len(m_transList') /\ m_transList'[1].sendCount > 0
        /\ \A d \in written' : d.id = m_transList'[1].id
    BY <1>2, <2>1, <2>3, <2>5
  <2> QED
    BY <2>4, <2>6 DEF WrittenMarked
<1> QED
  BY <1>1, <1>2 DEF ResendOldestTransaction

LEMMA UserWrites ==
    ASSUME IInv, UserNext
    PROVE  WrittenMarked'
<1>1. CASE OpenChannel
  BY <1>1, NothingWritten DEF OpenChannel
<1>2. ASSUME NEW s \in DOMAIN m_chans, Dispose(s) PROVE WrittenMarked'
  BY <1>2, NothingWritten DEF Dispose
<1>3. ASSUME NEW s \in DOMAIN m_chans, RwNotConnected(s) PROVE WrittenMarked'
  BY <1>3, NothingWritten DEF RwNotConnected
<1>4. ASSUME NEW s \in DOMAIN m_chans, NEW n \in RequestSizes, Rw(s, n) PROVE WrittenMarked'
  <2> DEFINE p == NumPieces(n)
             L == PushBack(s, p)
  <2>1. \/ written' = {}
        \/ /\ ~m_waitingForRetryResponse
           /\ TrySendTransactions(L, m_numInTransit, m_timer)
    BY <1>4 DEF Rw
  <2>2. CASE /\ ~m_waitingForRetryResponse
             /\ TrySendTransactions(L, m_numInTransit, m_timer)
    <3>1. p \in Nat /\ s \in 1 .. Len(m_chans)
      BY NumPiecesType, Facts
    <3>2. /\ L \in Seq(Trans) /\ Len(L) = Len(m_transList) + p
          /\ \A i \in 1 .. Len(m_transList) : L[i] = m_transList[i]
          /\ \A i \in (Len(m_transList) + 1) .. Len(m_transList) + p :
                    L[i] = Transaction(Len(owner) + (i - Len(m_transList)), s)
      BY <3>1, RwList
    <3>3. /\ m_numInTransit = WindowEnd(m_transList)
          /\ SentOnce(m_transList, m_numInTransit) /\ m_cli_seq \in SeqNums
      BY <2>2 DEF IInv, Window, Typed
    <3>4. Len(m_transList) \in Nat /\ PipelineLen \in Nat
      BY Facts, PipelineAssumption
    <3> HIDE DEF L, p
    <3>5. SentOnce(L, m_numInTransit) /\ m_numInTransit <= PipelineLen
      <4>1. m_numInTransit \in 0 .. Len(m_transList) /\ m_numInTransit <= PipelineLen
        BY <3>3, <3>4 DEF WindowEnd, SentOnce
      <4>2. ASSUME NEW i \in 1 .. Len(L)
            PROVE  L[i].sendCount = IF i <= m_numInTransit THEN 1 ELSE 0
        <5>1. CASE i <= Len(m_transList)
          BY <3>2, <3>3, <3>4, <5>1 DEF SentOnce
        <5>2. CASE ~(i <= Len(m_transList))
          <6>1. i \in (Len(m_transList) + 1) .. Len(m_transList) + p
            BY <3>1, <3>2, <3>4, <5>2
          <6>2. L[i].sendCount = 0
            BY <3>2, <6>1, NewTransaction
          <6> QED
            BY <3>4, <4>1, <5>2, <6>2
        <5> QED
          BY <5>1, <5>2
      <4>3. m_numInTransit \in 0 .. Len(L)
        BY <3>1, <3>2, <3>4, <4>1
      <4> QED
        BY <4>1, <4>2, <4>3 DEF SentOnce
    <3> QED
      BY <2>2, <3>2, <3>3, <3>5, TrySendWrites
  <2> QED
    BY <2>1, <2>2, NothingWritten
<1> QED
  BY <1>1, <1>2, <1>3, <1>4 DEF UserNext

LEMMA TimeoutWrites ==
    ASSUME IInv, OnPktTimeout
    PROVE  WrittenMarked'
<1>1. m_transList \in Seq(Trans)
  BY DEF IInv, Typed
<1> QED
  BY <1>1, ResendWrites, NothingWritten DEF OnPktTimeout, ReadFrontOfEmptyList

LEMMA PacketWrites ==
    ASSUME IInv, NEW STATE pkt, NEW STATE expired, OnPktRxReady(pkt, expired)
    PROVE  WrittenMarked'
<1>1. CASE RxMalformed(pkt) \/ RxEmptyList(pkt) \/ RxUnexpected(pkt)
  BY <1>1, NothingWritten DEF RxMalformed, RxEmptyList, ReadFrontOfEmptyList, RxUnexpected
<1>2. CASE RxMismatch(pkt)
  <2>1. m_transList \in Seq(Trans) /\ m_transList # <<>>
    BY <1>2 DEF IInv, Typed, RxMismatch
  <2>2. \/ ResendOldestTransaction(m_transList, m_numInTransit, m_timer, results)
        \/ written' = {}
    BY <1>2 DEF RxMismatch
  <2> QED
    BY <2>1, <2>2, ResendWrites, NothingWritten
<1>3. CASE RxReply(pkt, expired)
  <2> DEFINE rest == Retire(m_transList)
             nextSent == rest # <<>> /\ rest[1].sendCount > 0
             signalled == results \cup Signal(m_transList[1], pkt.op)
             n == InFlightAfterReply
  <2>1. m_transList # <<>> /\ m_cli_seq \in SeqNums
    BY <1>3 DEF RxReply, IInv, Typed
  <2>2. /\ rest \in Seq(Trans) /\ SentOnce(rest, n) /\ n <= PipelineLen
    BY <2>1, RetireFront
  <2>3. \/ rest # <<>> /\ ResendOldestTransaction(rest, n, FALSE, signalled)
        \/ TrySendTransactions(rest, n, nextSent)
    BY <1>3 DEF RxReply
  <2> HIDE DEF rest, nextSent, signalled, n
  <2> QED
    BY <2>1, <2>2, <2>3, ResendWrites, TrySendWrites
<1> QED
  BY <1>1, <1>2, <1>3 DEF OnPktRxReady

\* What is written is in the window that starts behind the retired transactions.
InReach(id) == Retired + 1 <= id /\ id <= Retired + PipelineLen

LEMMA WrittenInReach ==
    ASSUME IInv', Numbering', WrittenMarked'
    PROVE  /\ IsFiniteSet(written')
           /\ \A d \in written' : /\ m_isConnected'
                                  /\ d.id \in Nat /\ d.seq \in SeqNums
                                  /\ d.seq = NumberOf(d.id)
                                  /\ InReach(d.id)'
<1>1. IsFiniteSet(written') /\ \A d \in written' : d.seq = NumberOf(d.id)
  BY DEF WrittenMarked, Numbering
<1>2. ASSUME NEW d \in written'
      PROVE  m_isConnected' /\ d.id \in Nat /\ d.seq \in SeqNums /\ InReach(d.id)'
  <2>1. written' \subseteq [id : Nat \ {0}, seq : SeqNums]
    BY DEF IInv, Typed
  <2>2. d.id \in Nat /\ d.seq \in SeqNums
    BY <2>1
  <2>3. PICK i \in 1 .. Len(m_transList') :
            m_transList'[i].sendCount > 0 /\ d.id = m_transList'[i].id
    BY DEF WrittenMarked
  <2>4. m_transList' \in Seq(Trans) /\ owner' \in Seq(1 .. opened')
    BY DEF IInv, Typed
  <2>5. Len(m_transList') \in Nat /\ Len(owner') \in Nat
    BY <2>4, LenProperties
  <2>6. m_transList' # <<>>
    BY <2>3, <2>5, EmptySeq
  <2>7. m_isConnected'
    BY <2>6 DEF IInv, Window
  <2>8. d.id = Retired' + i
    BY <2>3, <2>5 DEF IInv, Consecutive, Retired
  <2>9. i <= PipelineLen
    <3>1. CASE m_waitingForRetryResponse'
      <4>1. \A j \in 2 .. Len(m_transList') : m_transList'[j].sendCount = 0
        BY <2>6, <3>1 DEF IInv, Window
      <4>2. i = 1
        BY <2>3, <2>5, <4>1
      <4> QED
        BY <4>2, Sizes
    <3>2. CASE ~m_waitingForRetryResponse'
      <4>1. SentOnce(m_transList, m_numInTransit)' /\ m_numInTransit' = WindowEnd(m_transList)'
        BY <3>2 DEF IInv, Window
      <4>2. i <= m_numInTransit'
        BY <2>3, <2>5, <4>1 DEF SentOnce
      <4>3. m_numInTransit' <= PipelineLen /\ m_numInTransit' \in Nat
        BY <2>5, <4>1, Sizes DEF WindowEnd
      <4> QED
        BY <2>5, <4>2, <4>3, Sizes
    <3> QED
      BY <3>1, <3>2
  <2> QED
    <3> DEFINE R == Retired'
               x == d.id
    <3>1. R \in Int /\ x = R + i /\ i \in Int /\ 1 <= i
      BY <2>5, <2>8 DEF Retired
    <3> HIDE DEF R, x
    <3>2. R + 1 <= x /\ x <= R + PipelineLen
      BY <2>9, <3>1, Sizes
    <3> USE DEF R, x
    <3> QED
      BY <2>2, <2>7, <3>2 DEF InReach
<1> QED
  BY <1>1, <1>2

--------------------------------------------------------------------------------
(* The network's part of the invariant.  Every transmission lies in a window *)
(* of PipelineLen transactions behind the retired ones, and the window only  *)
(* moves on; so of two transmissions the later is at most PipelineLen - 1    *)
(* transactions behind the earlier, and nothing under way is further than    *)
(* PipelineLen from what the FPGA executed or the client retired last.       *)

Datagrams == [id : Nat, seq : SeqNums]
Replies == [op : {"ACK", "NACKT"}, svr_seq : SeqNums, re : Nat]

NetTypes ==
    /\ toFpga \in Seq(Datagrams)
    /\ fromFpga \in Seq(Replies)
    /\ done \in Seq(Nat)

\* What comes out of the network first was sent first: transmission a before b.
Before(a, b) == a <= b + PipelineLen - 1

InOrder ==
    /\ \A j, k \in 1 .. Len(toFpga) : j < k => Before(toFpga[j].id, toFpga[k].id)
    /\ \A j, k \in 1 .. Len(fromFpga) : j < k => Before(fromFpga[j].re, fromFpga[k].re)
    /\ \A j \in 1 .. Len(fromFpga), k \in 1 .. Len(toFpga) :
            Before(fromFpga[j].re, toFpga[k].id)

\* The FPGA has executed the first transactions.
Executed ==
    /\ \A k \in 1 .. Len(done) : done[k] = k
    /\ lastSeq = NumberOf(Len(done))

Asked ==
    \A k \in 1 .. Len(toFpga) :
        /\ toFpga[k].seq = NumberOf(toFpga[k].id)
        /\ toFpga[k].id <= Len(done) + PipelineLen
        /\ Before(Len(done), toFpga[k].id)

Acknowledged ==
    \A k \in 1 .. Len(fromFpga) : fromFpga[k].op = "ACK" =>
        /\ fromFpga[k].svr_seq = NumberOf(fromFpga[k].re)
        /\ fromFpga[k].re <= Len(done)

Reported == \A r \in results : r.outcome # "timeout" => r.id <= Len(done)

\* No further from the retired transactions than a window.
Near(id) == Before(Retired, id) /\ id <= Retired + PipelineLen

Bounded ==
    m_isConnected =>
        /\ Retired <= Len(done) /\ Len(done) <= Retired + PipelineLen
        /\ \A k \in 1 .. Len(toFpga) : Near(toFpga[k].id)
        /\ \A k \in 1 .. Len(fromFpga) : Near(fromFpga[k].re)

NetInv == NetTypes /\ InOrder /\ Executed /\ Asked /\ Acknowledged /\ Reported /\ Bounded

\* What taking the head off a queue leaves.
LEMMA TailFacts ==
    ASSUME NEW S, NEW s \in Seq(S), s # <<>>
    PROVE  /\ Len(s) \in Nat /\ Len(s) >= 1 /\ 1 \in 1 .. Len(s)
           /\ Head(s) = s[1] /\ s[1] \in S
           /\ Tail(s) \in Seq(S) /\ Len(Tail(s)) = Len(s) - 1
           /\ \A i \in 1 .. Len(Tail(s)) : i + 1 \in 1 .. Len(s) /\ Tail(s)[i] = s[i + 1]
<1>1. Len(s) \in Nat /\ Len(s) >= 1
  BY EmptySeq, LenProperties
<1>2. s[1] \in S /\ Head(s) = s[1]
  BY <1>1, ElementOfSeq
<1>3. Tail(s) \in Seq(S) /\ Len(Tail(s)) = Len(s) - 1
      /\ \A i \in 1 .. Len(Tail(s)) : Tail(s)[i] = s[i + 1]
  BY HeadTailProperties
<1> QED
  BY <1>1, <1>2, <1>3

\* The types of what is under way.
LEMMA NetFacts ==
    ASSUME NetTypes
    PROVE  /\ Len(toFpga) \in Nat /\ Len(fromFpga) \in Nat /\ Len(done) \in Nat
           /\ \A k \in 1 .. Len(toFpga) :
                toFpga[k] \in Datagrams /\ toFpga[k].id \in Nat /\ toFpga[k].seq \in SeqNums
           /\ \A k \in 1 .. Len(fromFpga) :
                /\ fromFpga[k] \in Replies /\ fromFpga[k].re \in Nat
                /\ fromFpga[k].op \in {"ACK", "NACKT"} /\ fromFpga[k].svr_seq \in SeqNums
           /\ toFpga # <<>> => 1 \in 1 .. Len(toFpga)
           /\ fromFpga # <<>> => 1 \in 1 .. Len(fromFpga)
<1>1. toFpga \in Seq(Datagrams) /\ fromFpga \in Seq(Replies) /\ done \in Seq(Nat)
  BY DEF NetTypes
<1>2. Len(toFpga) \in Nat /\ Len(fromFpga) \in Nat /\ Len(done) \in Nat
  BY <1>1, LenProperties
<1>3. /\ \A k \in 1 .. Len(toFpga) : toFpga[k] \in Datagrams
      /\ \A k \in 1 .. Len(fromFpga) : fromFpga[k] \in Replies
  BY <1>1, ElementOfSeq
<1>4. \A d \in Datagrams : d.id \in Nat /\ d.seq \in SeqNums
  BY DEF Datagrams
<1>5. \A p \in Replies : /\ p.re \in Nat /\ p.op \in {"ACK", "NACKT"}
                         /\ p.svr_seq \in SeqNums
  BY DEF Replies
<1>6. toFpga # <<>> => 1 \in 1 .. Len(toFpga)
  BY <1>1, TailFacts
<1>7. fromFpga # <<>> => 1 \in 1 .. Len(fromFpga)
  BY <1>1, TailFacts
<1> QED
  BY <1>2, <1>3, <1>4, <1>5, <1>6, <1>7

\* The FPGA executes only what is next in the order of submission.
LEMMA ExecutesNext ==
    ASSUME NetInv, toFpga # <<>>, IsNext(toFpga[1].seq)
    PROVE  toFpga[1].id = Len(done) + 1
<1> DEFINE x == toFpga[1].id
           D == Len(done)
<1>1. 1 \in 1 .. Len(toFpga) /\ x \in Nat /\ D \in Nat
  BY NetFacts DEF NetInv
<1>2. toFpga[1].seq = NumberOf(x) /\ x <= D + PipelineLen /\ D <= x + PipelineLen - 1
  BY <1>1 DEF NetInv, Asked, Before
<1>3. SeqPlus(lastSeq, 1) = NumberOf(D + 1)
  BY <1>1, NumberOfNext DEF NetInv, Executed
<1>4. NumberOf(x) = NumberOf(D + 1)
  BY <1>2, <1>3 DEF IsNext
<1> HIDE DEF x, D
<1>5. x - (D + 1) < SeqSpace /\ (D + 1) - x < SeqSpace /\ D + 1 \in Nat
  BY <1>1, <1>2, Sizes
<1>6. x = D + 1
  BY ONLY <1>1, <1>4, <1>5, SameNumber
<1> QED
  BY <1>6 DEF x, D

\* It takes nothing for a repetition that it has not executed.
LEMMA RepeatsExecuted ==
    ASSUME NetInv, toFpga # <<>>, IsRepeat(toFpga[1].seq)
    PROVE  toFpga[1].id <= Len(done)
<1> DEFINE x == toFpga[1].id
           D == Len(done)
<1>1. 1 \in 1 .. Len(toFpga) /\ x \in Nat /\ D \in Nat
  BY NetFacts DEF NetInv
<1>2. toFpga[1].seq = NumberOf(x) /\ x <= D + PipelineLen /\ D <= x + PipelineLen - 1
  BY <1>1 DEF NetInv, Asked, Before
<1>3. PICK k \in 0 .. (PipelineLen - 1) : SeqPlus(toFpga[1].seq, k) = lastSeq
  BY DEF IsRepeat
<1>4. k \in Nat /\ k <= PipelineLen - 1
  BY Sizes
<1>5. NumberOf(x + k) = NumberOf(D)
  BY <1>1, <1>2, <1>3, <1>4, NumberOfNext DEF NetInv, Executed
<1> HIDE DEF x, D
<1>6. x + k \in Nat /\ (x + k) - D < SeqSpace /\ D - (x + k) < SeqSpace
  BY <1>1, <1>2, <1>4, Sizes
<1>7. x + k = D
  BY ONLY <1>1, <1>5, <1>6, SameNumber
<1> QED
  BY <1>1, <1>4, <1>7 DEF x, D

LEMMA RetiredType ==
    ASSUME IInv
    PROVE  Retired \in Nat
  BY DEF IInv, Consecutive, Typed, Retired

LEMMA ResultIds ==
    ASSUME IInv
    PROVE  \A r \in results : r.id \in Nat
  BY DEF IInv, Typed

\* A reply goes out for the datagram taken off the queue, and what it acknowledges has
\* been executed.
LEMMA FpgaReplies ==
    ASSUME IInv, NetInv, toFpga # <<>>, NEW STATE rep, rep \in Replies, rep.re = toFpga[1].id,
           toFpga' = Tail(toFpga), fromFpga' = Append(fromFpga, rep), UNCHANGED vars,
           \/ UNCHANGED <<done, lastSeq>>
           \/ /\ done' = Append(done, toFpga[1].id) /\ lastSeq' = toFpga[1].seq
              /\ toFpga[1].id = Len(done) + 1,
           rep.op = "ACK" => rep.svr_seq = NumberOf(rep.re) /\ rep.re <= Len(done')
    PROVE  NetInv'
<1> DEFINE D == Len(done)
           E == Len(done')
           x == toFpga[1].id
           m == Len(fromFpga)
<1>1. /\ toFpga \in Seq(Datagrams) /\ fromFpga \in Seq(Replies) /\ done \in Seq(Nat)
      /\ Len(toFpga) \in Nat /\ m \in Nat /\ D \in Nat /\ x \in Nat
      /\ 1 \in 1 .. Len(toFpga)
  BY NetFacts DEF NetInv, NetTypes
<1>2. /\ toFpga' \in Seq(Datagrams) /\ Len(toFpga') = Len(toFpga) - 1
      /\ \A i \in 1 .. Len(toFpga') : i + 1 \in 1 .. Len(toFpga) /\ toFpga'[i] = toFpga[i + 1]
  BY <1>1, TailFacts
<1>3. /\ fromFpga' \in Seq(Replies) /\ Len(fromFpga') = m + 1
      /\ \A i \in 1 .. m : fromFpga'[i] = fromFpga[i]
      /\ fromFpga'[m + 1] = rep
  BY <1>1, AppendProperties
<1>4. /\ done' \in Seq(Nat) /\ E \in Nat /\ D <= E
      /\ E = D \/ (E = D + 1 /\ x = D + 1)
  <2>1. CASE UNCHANGED <<done, lastSeq>>
    BY <1>1, <2>1
  <2>2. CASE done' = Append(done, x) /\ x = D + 1
    <3>1. done' \in Seq(Nat) /\ Len(done') = Len(done) + 1
      BY <1>1, <2>2, AppendProperties
    <3> QED
      BY <1>1, <2>2, <3>1
  <2> QED
    BY <2>1, <2>2
<1>5. NetTypes'
  BY <1>2, <1>3, <1>4 DEF NetTypes
<1>6. InOrder'
  <2>1. ASSUME NEW j \in 1 .. Len(toFpga'), NEW k \in 1 .. Len(toFpga'), j < k
        PROVE  Before(toFpga'[j].id, toFpga'[k].id)
    <3>1. j + 1 \in 1 .. Len(toFpga) /\ k + 1 \in 1 .. Len(toFpga) /\ j + 1 < k + 1
      BY <1>2, <2>1
    <3> QED
      BY <1>2, <3>1 DEF NetInv, InOrder
  <2>2. ASSUME NEW j \in 1 .. Len(fromFpga'), NEW k \in 1 .. Len(fromFpga'), j < k
        PROVE  Before(fromFpga'[j].re, fromFpga'[k].re)
    <3>1. j \in 1 .. m /\ fromFpga'[j] = fromFpga[j]
      BY <1>1, <1>3, <2>2
    <3>2. CASE k \in 1 .. m
      BY <1>3, <2>2, <3>1, <3>2 DEF NetInv, InOrder
    <3>3. CASE k = m + 1
      <4>1. Before(fromFpga[j].re, toFpga[1].id)
        BY <1>1, <3>1 DEF NetInv, InOrder
      <4> QED
        BY <1>3, <3>1, <3>3, <4>1
    <3> QED
      BY <1>1, <1>3, <3>2, <3>3
  <2>3. ASSUME NEW j \in 1 .. Len(fromFpga'), NEW k \in 1 .. Len(toFpga')
        PROVE  Before(fromFpga'[j].re, toFpga'[k].id)
    <3>1. k + 1 \in 1 .. Len(toFpga) /\ 1 < k + 1 /\ toFpga'[k] = toFpga[k + 1]
      BY <1>1, <1>2
    <3>2. CASE j \in 1 .. m
      BY <1>3, <3>1, <3>2 DEF NetInv, InOrder
    <3>3. CASE j = m + 1
      <4>1. Before(toFpga[1].id, toFpga[k + 1].id)
        BY <1>1, <3>1 DEF NetInv, InOrder
      <4> QED
        BY <1>3, <3>1, <3>3, <4>1
    <3> QED
      BY <1>1, <1>3, <3>2, <3>3
  <2>4. /\ \A j, k \in 1 .. Len(toFpga') : j < k => Before(toFpga'[j].id, toFpga'[k].id)
        /\ \A j, k \in 1 .. Len(fromFpga') : j < k => Before(fromFpga'[j].re, fromFpga'[k].re)
        /\ \A j \in 1 .. Len(fromFpga'), k \in 1 .. Len(toFpga') :
                Before(fromFpga'[j].re, toFpga'[k].id)
    BY <2>1, <2>2, <2>3
  <2> QED
    BY <2>4 DEF InOrder, Before
<1>7. Executed'
  <2>1. CASE UNCHANGED <<done, lastSeq>>
    BY <2>1 DEF NetInv, Executed
  <2>2. CASE /\ done' = Append(done, x) /\ lastSeq' = toFpga[1].seq /\ x = D + 1
    <3>1. toFpga[1].seq = NumberOf(x)
      BY <1>1 DEF NetInv, Asked
    <3>2. /\ E = D + 1 /\ done'[D + 1] = x
          /\ \A k \in 1 .. D : done'[k] = done[k]
      BY <1>1, <2>2, AppendProperties
    <3>3. \A k \in 1 .. E : done'[k] = k
      <4> TAKE k \in 1 .. E
      <4>1. CASE k \in 1 .. D
        BY <3>2, <4>1 DEF NetInv, Executed
      <4>2. CASE k = D + 1
        BY <2>2, <3>2, <4>2
      <4> QED
        BY <1>1, <3>2, <4>1, <4>2
    <3>4. lastSeq' = NumberOf(E)
      BY <2>2, <3>1, <3>2
    <3> QED
      BY <3>3, <3>4 DEF Executed, NumberOf
  <2> QED
    BY <2>1, <2>2
<1>8. Asked'
  <2> SUFFICES ASSUME NEW k \in 1 .. Len(toFpga')
               PROVE  /\ toFpga'[k].seq = NumberOf(toFpga'[k].id)
                      /\ toFpga'[k].id <= E + PipelineLen
                      /\ Before(E, toFpga'[k].id)
    BY DEF Asked, NumberOf, Before
  <2> DEFINE y == toFpga[k + 1].id
  <2>1. k + 1 \in 1 .. Len(toFpga) /\ 1 < k + 1 /\ toFpga'[k] = toFpga[k + 1] /\ y \in Nat
    BY <1>1, <1>2, NetFacts DEF NetInv
  <2>2. /\ toFpga[k + 1].seq = NumberOf(y)
        /\ y <= D + PipelineLen /\ Before(D, y)
    BY <2>1 DEF NetInv, Asked
  <2>3. Before(x, y)
    BY <1>1, <2>1 DEF NetInv, InOrder
  <2> HIDE DEF x, y, D, E
  <2>4. y <= E + PipelineLen /\ Before(E, y)
    <3>1. D \in Nat /\ x \in Nat /\ y \in Nat /\ PipelineLen \in Nat
      BY <1>1, <2>1, Sizes
    <3>2. E = D \/ (E = D + 1 /\ E = x)
      BY <1>4
    <3>3. /\ y <= D + PipelineLen
          /\ D <= y + PipelineLen - 1 /\ x <= y + PipelineLen - 1
      BY <2>2, <2>3 DEF Before
    <3>4. y <= E + PipelineLen /\ E <= y + PipelineLen - 1
      BY ONLY <3>1, <3>2, <3>3
    <3> QED
      BY <3>4 DEF Before
  <2> QED
    BY <2>1, <2>2, <2>4 DEF y
<1>9. Acknowledged'
  <2> SUFFICES ASSUME NEW k \in 1 .. Len(fromFpga'), fromFpga'[k].op = "ACK"
               PROVE  fromFpga'[k].svr_seq = NumberOf(fromFpga'[k].re) /\ fromFpga'[k].re <= E
    BY DEF Acknowledged, NumberOf
  <2>1. CASE k \in 1 .. m
    <3>1. fromFpga[k].svr_seq = NumberOf(fromFpga[k].re) /\ fromFpga[k].re <= D
      BY <1>3, <2>1 DEF NetInv, Acknowledged
    <3>2. fromFpga[k].re \in Nat
      BY <2>1, NetFacts DEF NetInv
    <3>3. fromFpga[k].re <= E
      BY <1>1, <1>4, <3>1, <3>2
    <3> QED
      BY <1>3, <2>1, <3>1, <3>3
  <2>2. CASE k = m + 1
    BY <1>3, <2>2
  <2> QED
    BY <1>1, <1>3, <2>1, <2>2
<1>10. Reported'
  <2>1. results' = results
    BY DEF vars
  <2>2. \A r \in results : r.outcome # "timeout" => r.id <= D
    BY DEF NetInv, Reported
  <2>3. \A r \in results : r.id \in Nat
    BY ResultIds
  <2> HIDE DEF D, E
  <2>4. \A r \in results : r.outcome # "timeout" => r.id <= E
    BY <1>1, <1>4, <2>2, <2>3
  <2> QED
    BY <2>1, <2>4 DEF Reported, E
<1>11. Bounded'
  <2> SUFFICES ASSUME m_isConnected'
               PROVE  /\ Retired' <= E /\ E <= Retired' + PipelineLen
                      /\ \A k \in 1 .. Len(toFpga') : /\ Before(Retired', toFpga'[k].id)
                                                      /\ toFpga'[k].id <= Retired' + PipelineLen
                      /\ \A k \in 1 .. Len(fromFpga') : /\ Before(Retired', fromFpga'[k].re)
                                                        /\ fromFpga'[k].re <= Retired' + PipelineLen
    BY DEF Bounded, Near, Before
  <2> DEFINE R == Retired
  <2>1. m_isConnected /\ Retired' = R
    BY DEF vars, Retired
  <2>2. R \in Int
    BY RetiredType
  <2>3. /\ R <= D /\ D <= R + PipelineLen
        /\ \A k \in 1 .. Len(toFpga) : Before(R, toFpga[k].id) /\ toFpga[k].id <= R + PipelineLen
        /\ \A k \in 1 .. Len(fromFpga) : Before(R, fromFpga[k].re) /\ fromFpga[k].re <= R + PipelineLen
    BY <2>1 DEF NetInv, Bounded, Near
  <2> HIDE DEF R
  <2>4. Before(R, x) /\ x <= R + PipelineLen
    BY <1>1, <2>3
  <2>5. \A k \in 1 .. Len(toFpga') : Before(R, toFpga'[k].id) /\ toFpga'[k].id <= R + PipelineLen
    BY <1>2, <2>3
  <2>6. \A k \in 1 .. Len(fromFpga') : Before(R, fromFpga'[k].re) /\ fromFpga'[k].re <= R + PipelineLen
    <3> TAKE k \in 1 .. Len(fromFpga')
    <3>1. CASE k \in 1 .. m
      BY <1>3, <2>3, <3>1
    <3>2. CASE k = m + 1
      BY <1>3, <2>4, <3>2
    <3> QED
      BY <1>1, <1>3, <3>1, <3>2
  <2>7. R <= E /\ E <= R + PipelineLen
    <3> HIDE DEF x, D, E
    <3> QED
      BY <1>1, <1>4, <2>2, <2>3, <2>4, Sizes
  <2> QED
    BY <2>1, <2>5, <2>6, <2>7
<1> QED
  BY <1>5, <1>6, <1>7, <1>8, <1>9, <1>10, <1>11 DEF NetInv

LEMMA FpgaReceivesNet ==
    ASSUME IInv, NetInv, FpgaReceives
    PROVE  NetInv'
<1> DEFINE d == toFpga[1]
<1>1. /\ toFpga # <<>> /\ Head(toFpga) = d /\ toFpga' = Tail(toFpga) /\ UNCHANGED vars
      /\ d.id \in Nat /\ d.seq \in SeqNums /\ Len(done) \in Nat /\ done \in Seq(Nat)
      /\ d.seq = NumberOf(d.id) /\ lastSeq \in SeqNums
  <2>1. toFpga # <<>> /\ toFpga \in Seq(Datagrams) /\ done \in Seq(Nat)
    BY DEF FpgaReceives, NetInv, NetTypes
  <2>2. Head(toFpga) = d /\ 1 \in 1 .. Len(toFpga)
    BY <2>1, TailFacts
  <2>3. d.id \in Nat /\ d.seq \in SeqNums /\ Len(done) \in Nat
    BY <2>2, NetFacts DEF NetInv
  <2>4. d.seq = NumberOf(d.id) /\ lastSeq \in SeqNums
    BY <2>2, <2>3, NumberType DEF NetInv, Asked, Executed
  <2> QED
    BY <2>1, <2>2, <2>3, <2>4 DEF FpgaReceives
<1>2. CASE /\ IsNext(d.seq) /\ done' = Append(done, d.id) /\ lastSeq' = d.seq
           /\ fromFpga' = Append(fromFpga, Reply("ACK", d.seq, d.id))
  <2> DEFINE rep == Reply("ACK", d.seq, d.id)
  <2>1. rep \in Replies /\ rep.re = d.id /\ rep.svr_seq = d.seq
    BY <1>1 DEF Reply, Replies
  <2>2. d.id = Len(done) + 1
    BY <1>1, <1>2, ExecutesNext
  <2>3. Len(done') = Len(done) + 1
    BY <1>1, <1>2, AppendProperties
  <2>4. d.id <= Len(done')
    BY <1>1, <2>2, <2>3
  <2> HIDE DEF rep
  <2>5. fromFpga' = Append(fromFpga, rep)
    BY <1>2 DEF rep
  <2> QED
    BY <1>1, <1>2, <2>1, <2>2, <2>4, <2>5, FpgaReplies
<1>3. CASE /\ IsRepeat(d.seq) /\ UNCHANGED <<done, lastSeq>>
           /\ fromFpga' = Append(fromFpga, Reply("ACK", d.seq, d.id))
  <2> DEFINE rep == Reply("ACK", d.seq, d.id)
  <2>1. rep \in Replies /\ rep.re = d.id /\ rep.svr_seq = d.seq
    BY <1>1 DEF Reply, Replies
  <2>2. d.id <= Len(done')
    BY <1>1, <1>3, RepeatsExecuted
  <2> HIDE DEF rep
  <2>3. fromFpga' = Append(fromFpga, rep)
    BY <1>3 DEF rep
  <2> QED
    BY <1>1, <1>3, <2>1, <2>2, <2>3, FpgaReplies
<1>4. CASE /\ UNCHANGED <<done, lastSeq>>
           /\ fromFpga' = Append(fromFpga, Reply("NACKT", lastSeq, d.id))
  <2> DEFINE rep == Reply("NACKT", lastSeq, d.id)
  <2>1. rep \in Replies /\ rep.re = d.id /\ rep.op = "NACKT"
    BY <1>1 DEF Reply, Replies
  <2> HIDE DEF rep
  <2>2. fromFpga' = Append(fromFpga, rep)
    BY <1>4 DEF rep
  <2> QED
    BY <1>1, <1>4, <2>1, <2>2, FpgaReplies
<1> QED
  BY <1>1, <1>2, <1>3, <1>4 DEF FpgaReceives

--------------------------------------------------------------------------------
(* Steps that take from the queues and send.                                 *)

\* The rest of the queues is kept, a datagrams of toFpga and b replies of fromFpga
\* are gone, and what was sent behind them lies in the window.
LEMMA QueuesMove ==
    ASSUME IInv', NetInv, UNCHANGED <<done, lastSeq>>, NEW a \in Nat, NEW b \in Nat,
           NEW STATE n, n \in Nat,
           toFpga' \in Seq(Datagrams), fromFpga' \in Seq(Replies),
           \A i \in 1 .. n : i + a \in 1 .. Len(toFpga) /\ toFpga'[i] = toFpga[i + a],
           \A i \in (n + 1) .. Len(toFpga') :
                /\ m_isConnected' /\ toFpga'[i].seq = NumberOf(toFpga'[i].id)
                /\ Retired' + 1 <= toFpga'[i].id /\ toFpga'[i].id <= Retired' + PipelineLen,
           \A i \in 1 .. Len(fromFpga') :
                i + b \in 1 .. Len(fromFpga) /\ fromFpga'[i] = fromFpga[i + b],
           m_isConnected' =>
                /\ Retired' <= Len(done) /\ Len(done) <= Retired' + PipelineLen
                /\ \A i \in 1 .. n : /\ Before(Retired', toFpga'[i].id)
                                     /\ toFpga'[i].id <= Retired' + PipelineLen
                /\ \A i \in 1 .. Len(fromFpga') : /\ Before(Retired', fromFpga'[i].re)
                                                  /\ fromFpga'[i].re <= Retired' + PipelineLen,
           Reported'
    PROVE  NetInv'
<1> DEFINE R == Retired'
           m == Len(toFpga')
           k == Len(fromFpga')
           D == Len(done)
           x(i) == toFpga'[i].id
           y(i) == fromFpga'[i].re
           con == m_isConnected'
<1>1. R \in Int /\ m \in Nat /\ k \in Nat /\ D \in Nat
      /\ (\A i \in 1 .. m : x(i) \in Nat) /\ (\A i \in 1 .. k : y(i) \in Nat)
  <2>1. owner' \in Seq(1 .. opened') /\ m_transList' \in Seq(Trans)
    BY DEF IInv, Typed
  <2>2. Len(owner') \in Nat /\ Len(m_transList') \in Nat
    BY <2>1, LenProperties
  <2>3. \A d \in Datagrams : d.id \in Nat
    BY DEF Datagrams
  <2>4. \A p \in Replies : p.re \in Nat
    BY DEF Replies
  <2>5. m \in Nat /\ k \in Nat /\ D \in Nat
    BY LenProperties, NetFacts DEF NetInv
  <2>6. \A i \in 1 .. m : toFpga'[i] \in Datagrams
    BY ElementOfSeq
  <2>7. \A i \in 1 .. k : fromFpga'[i] \in Replies
    BY ElementOfSeq
  <2> QED
    BY <2>2, <2>3, <2>4, <2>5, <2>6, <2>7 DEF Retired
<1>2. /\ \A i \in 1 .. n : /\ i + a \in 1 .. Len(toFpga)
                           /\ x(i) = toFpga[i + a].id /\ toFpga'[i] = toFpga[i + a]
      /\ \A i \in 1 .. k : /\ i + b \in 1 .. Len(fromFpga)
                           /\ y(i) = fromFpga[i + b].re /\ fromFpga'[i] = fromFpga[i + b]
  OBVIOUS
<1>3. /\ \A i \in (n + 1) .. m : con /\ R + 1 <= x(i) /\ x(i) <= R + PipelineLen
      /\ con => /\ R <= D /\ D <= R + PipelineLen
                /\ \A i \in 1 .. n : R <= x(i) + PipelineLen - 1 /\ x(i) <= R + PipelineLen
                /\ \A i \in 1 .. k : R <= y(i) + PipelineLen - 1 /\ y(i) <= R + PipelineLen
  BY DEF Before
<1>4. \A i \in (n + 1) .. m : toFpga'[i].seq = NumberOf(toFpga'[i].id)
  OBVIOUS
<1>5. NetTypes'
  BY DEF NetTypes, NetInv
<1>6. InOrder'
  <2>1. \A i, j \in 1 .. m : i < j => x(i) <= x(j) + PipelineLen - 1
    <3> SUFFICES ASSUME NEW i \in 1 .. m, NEW j \in 1 .. m, i < j
                 PROVE  x(i) <= x(j) + PipelineLen - 1
      OBVIOUS
    <3>1. CASE j \in 1 .. n
      <4>1. i \in 1 .. n /\ i + a < j + a
        BY <3>1
      <4> QED
        BY <1>2, <3>1, <4>1 DEF NetInv, InOrder, Before
    <3>2. CASE j \in (n + 1) .. m
      <4>1. i \in 1 .. n \/ i \in (n + 1) .. m
        BY <1>1
      <4>2. con /\ x(i) <= R + PipelineLen /\ R + 1 <= x(j)
        BY <1>3, <3>2, <4>1
      <4>3. x(i) \in Nat /\ x(j) \in Nat
        BY <1>1
      <4> HIDE DEF x, R
      <4> QED
        BY <1>1, <4>2, <4>3, Sizes
    <3> QED
      BY <1>1, <3>1, <3>2
  <2>2. \A i, j \in 1 .. k : i < j => y(i) <= y(j) + PipelineLen - 1
    <3> SUFFICES ASSUME NEW i \in 1 .. k, NEW j \in 1 .. k, i < j
                 PROVE  y(i) <= y(j) + PipelineLen - 1
      OBVIOUS
    <3>1. i + b < j + b
      BY <1>1
    <3> QED
      BY <1>2, <3>1 DEF NetInv, InOrder, Before
  <2>3. \A i \in 1 .. k, j \in 1 .. m : y(i) <= x(j) + PipelineLen - 1
    <3> SUFFICES ASSUME NEW i \in 1 .. k, NEW j \in 1 .. m
                 PROVE  y(i) <= x(j) + PipelineLen - 1
      OBVIOUS
    <3>1. CASE j \in 1 .. n
      BY <1>2, <3>1 DEF NetInv, InOrder, Before
    <3>2. CASE j \in (n + 1) .. m
      <4>1. con /\ y(i) <= R + PipelineLen /\ R + 1 <= x(j)
        BY <1>3, <3>2
      <4>2. y(i) \in Nat /\ x(j) \in Nat
        BY <1>1
      <4> HIDE DEF x, y, R
      <4> QED
        BY <1>1, <4>1, <4>2, Sizes
    <3> QED
      BY <1>1, <3>1, <3>2
  <2> QED
    BY <2>1, <2>2, <2>3 DEF InOrder, Before
<1>7. Executed'
  BY DEF NetInv, Executed, NumberOf
<1>8. Asked'
  <2> SUFFICES ASSUME NEW i \in 1 .. m
               PROVE  /\ toFpga'[i].seq = NumberOf(toFpga'[i].id)
                      /\ x(i) <= D + PipelineLen /\ D <= x(i) + PipelineLen - 1
    BY DEF Asked, NumberOf, Before
  <2>1. CASE i \in 1 .. n
    BY <1>2, <2>1 DEF NetInv, Asked, Before
  <2>2. CASE i \in (n + 1) .. m
    <3>1. R + 1 <= x(i) /\ x(i) <= R + PipelineLen /\ R <= D /\ D <= R + PipelineLen
      BY <1>3, <2>2
    <3>2. x(i) \in Nat
      BY <1>1
    <3>3. toFpga'[i].seq = NumberOf(toFpga'[i].id)
      BY <1>4, <2>2
    <3> HIDE DEF x, R, D
    <3>4. x(i) <= D + PipelineLen /\ D <= x(i) + PipelineLen - 1
      BY <1>1, <3>1, <3>2, Sizes
    <3> QED
      BY <3>3, <3>4
  <2> QED
    BY <1>1, <2>1, <2>2
<1>9. Acknowledged'
  <2> SUFFICES ASSUME NEW i \in 1 .. k, fromFpga'[i].op = "ACK"
               PROVE  fromFpga'[i].svr_seq = NumberOf(fromFpga'[i].re) /\ fromFpga'[i].re <= D
    BY DEF Acknowledged, NumberOf
  <2> QED
    BY <1>2 DEF NetInv, Acknowledged
<1>10. Bounded'
  <2> SUFFICES ASSUME con
               PROVE  /\ R <= D /\ D <= R + PipelineLen
                      /\ \A i \in 1 .. m : R <= x(i) + PipelineLen - 1 /\ x(i) <= R + PipelineLen
                      /\ \A i \in 1 .. k : R <= y(i) + PipelineLen - 1 /\ y(i) <= R + PipelineLen
    BY DEF Bounded, Near, Before
  <2>1. ASSUME NEW i \in 1 .. m
        PROVE  R <= x(i) + PipelineLen - 1 /\ x(i) <= R + PipelineLen
    <3>1. CASE i \in 1 .. n
      BY <1>3, <3>1
    <3>2. CASE i \in (n + 1) .. m
      <4>1. R + 1 <= x(i) /\ x(i) <= R + PipelineLen /\ x(i) \in Nat
        BY <1>1, <1>3, <3>2
      <4> HIDE DEF x, R
      <4> QED
        BY <1>1, <4>1, Sizes
    <3> QED
      BY <1>1, <3>1, <3>2
  <2> QED
    BY <1>3, <2>1
<1> QED
  BY <1>5, <1>6, <1>7, <1>8, <1>9, <1>10 DEF NetInv

\* A packet that is lost leaves the others as they were.
LEMMA LoseNet ==
    ASSUME IInv, IInv', NetInv, Lose
    PROVE  NetInv'
<1>1. UNCHANGED <<vars, done, lastSeq>> /\ toFpga \in Seq(Datagrams) /\ fromFpga \in Seq(Replies)
      /\ Len(toFpga) \in Nat /\ Len(fromFpga) \in Nat
  BY NetFacts DEF Lose, NetInv, NetTypes
<1>2. Reported'
  BY <1>1 DEF vars, NetInv, Reported
<1>3. /\ m_isConnected' = m_isConnected /\ Retired' = Retired
  BY <1>1 DEF vars, Retired
<1>4. m_isConnected =>
        /\ Retired <= Len(done) /\ Len(done) <= Retired + PipelineLen
        /\ \A i \in 1 .. Len(toFpga) : /\ Before(Retired, toFpga[i].id)
                                       /\ toFpga[i].id <= Retired + PipelineLen
        /\ \A i \in 1 .. Len(fromFpga) : /\ Before(Retired, fromFpga[i].re)
                                         /\ fromFpga[i].re <= Retired + PipelineLen
  BY DEF NetInv, Bounded, Near
<1> DEFINE n == Len(toFpga')
<1> DEFINE Left(a, b) ==
        /\ n \in Nat /\ toFpga' \in Seq(Datagrams) /\ fromFpga' \in Seq(Replies)
        /\ \A i \in 1 .. n : i + a \in 1 .. Len(toFpga) /\ toFpga'[i] = toFpga[i + a]
        /\ \A i \in 1 .. Len(fromFpga') :
                i + b \in 1 .. Len(fromFpga) /\ fromFpga'[i] = fromFpga[i + b]
<1>5. \E a \in Nat, b \in Nat : Left(a, b)
  <2>1. CASE toFpga # <<>> /\ toFpga' = Tail(toFpga) /\ fromFpga' = fromFpga
    <3>1. /\ toFpga' \in Seq(Datagrams) /\ n \in Nat
          /\ \A i \in 1 .. n : i + 1 \in 1 .. Len(toFpga) /\ toFpga'[i] = toFpga[i + 1]
      BY <1>1, <2>1, TailFacts, LenProperties
    <3>2. \A i \in 1 .. Len(fromFpga') : i + 0 \in 1 .. Len(fromFpga) /\ fromFpga'[i] = fromFpga[i + 0]
      BY <1>1, <2>1
    <3>3. Left(1, 0)
      BY <1>1, <2>1, <3>1, <3>2
    <3> HIDE DEF Left
    <3> QED
      BY <3>3
  <2>2. CASE fromFpga # <<>> /\ fromFpga' = Tail(fromFpga) /\ toFpga' = toFpga
    <3>1. /\ fromFpga' \in Seq(Replies)
          /\ \A i \in 1 .. Len(fromFpga') : i + 1 \in 1 .. Len(fromFpga) /\ fromFpga'[i] = fromFpga[i + 1]
      BY <1>1, <2>2, TailFacts
    <3>2. \A i \in 1 .. n : i + 0 \in 1 .. Len(toFpga) /\ toFpga'[i] = toFpga[i + 0]
      BY <1>1, <2>2
    <3>3. Left(0, 1)
      BY <1>1, <2>2, <3>1, <3>2
    <3> HIDE DEF Left
    <3> QED
      BY <3>3
  <2> QED
    BY <2>1, <2>2 DEF Lose
<1>6. PICK a \in Nat, b \in Nat : Left(a, b)
  BY <1>5
<1>7. m_isConnected' =>
        /\ Retired' <= Len(done) /\ Len(done) <= Retired' + PipelineLen
        /\ \A i \in 1 .. n : /\ Before(Retired', toFpga'[i].id)
                             /\ toFpga'[i].id <= Retired' + PipelineLen
        /\ \A i \in 1 .. Len(fromFpga') : /\ Before(Retired', fromFpga'[i].re)
                                          /\ fromFpga'[i].re <= Retired' + PipelineLen
  BY <1>3, <1>4, <1>6
<1>8. \A i \in (n + 1) .. n : FALSE
  BY <1>6
<1> QED
  <2> HIDE DEF n
  <2>1. \A i \in (n + 1) .. Len(toFpga') :
                /\ m_isConnected' /\ toFpga'[i].seq = NumberOf(toFpga'[i].id)
                /\ Retired' + 1 <= toFpga'[i].id /\ toFpga'[i].id <= Retired' + PipelineLen
    BY <1>8 DEF n
  <2> QED
    BY <1>1, <1>2, <1>6, <1>7, <2>1, QueuesMove

\* A reply that retires a transaction was caused by that transaction: what is under way
\* is too close to it to have its number otherwise.
LEMMA AnswerIsItsOwn ==
    ASSUME IInv, NetInv, fromFpga # <<>>,
           Answers([op |-> fromFpga[1].op, svr_seq |-> fromFpga[1].svr_seq])
    PROVE  fromFpga[1].re = Retired + 1 /\ Retired + 1 <= Len(done)
<1> DEFINE y == fromFpga[1].re
           R == Retired
<1>1. /\ 1 \in 1 .. Len(fromFpga) /\ y \in Nat /\ R \in Nat
      /\ fromFpga[1].op \in {"ACK", "NACKT"}
  BY NetFacts, RetiredType DEF NetInv
<1>2. /\ m_isConnected /\ fromFpga[1].op \in {"ACK", "NACKP"}
      /\ fromFpga[1].svr_seq = NumberOf(R + 1)
  BY DEF Answers
<1>3. NumberOf(y) = NumberOf(R + 1) /\ y <= Len(done)
  BY <1>1, <1>2 DEF NetInv, Acknowledged
<1>4. R <= y + PipelineLen - 1 /\ y <= R + PipelineLen
  BY <1>1, <1>2 DEF NetInv, Bounded, Near, Before
<1> HIDE DEF y, R
<1>5. y - (R + 1) < SeqSpace /\ (R + 1) - y < SeqSpace /\ R + 1 \in Nat
  BY <1>1, <1>4, Sizes
<1>6. y = R + 1
  BY ONLY <1>1, <1>3, <1>5, SameNumber
<1> QED
  BY <1>3, <1>6 DEF y, R

\* What a step of the client adds to the datagrams under way.
LEMMA Sends ==
    ASSUME IInv', Numbering', WrittenMarked', NetTypes, Transmits
    PROVE  /\ toFpga' \in Seq(Datagrams)
           /\ \A i \in 1 .. Len(toFpga) : toFpga'[i] = toFpga[i]
           /\ \A i \in (Len(toFpga) + 1) .. Len(toFpga') :
                /\ m_isConnected' /\ toFpga'[i].seq = NumberOf(toFpga'[i].id)
                /\ Retired' + 1 <= toFpga'[i].id /\ toFpga'[i].id <= Retired' + PipelineLen
<1> DEFINE W == written'
           c == Cardinality(W)
           m == Len(toFpga)
<1>1. /\ IsFiniteSet(W)
      /\ \A d \in W : /\ m_isConnected' /\ d.id \in Nat /\ d.seq \in SeqNums
                      /\ d.seq = NumberOf(d.id)
                      /\ Retired' + 1 <= d.id /\ d.id <= Retired' + PipelineLen
  BY WrittenInReach DEF InReach
<1>2. W \subseteq [id : Nat \ {0}, seq : SeqNums]
  BY DEF IInv, Typed
<1>3. W \subseteq Datagrams
  BY <1>2 DEF Datagrams
<1>4. c \in Nat /\ toFpga \in Seq(Datagrams) /\ m \in Nat
  BY <1>1, FS_CardinalityType, NetFacts DEF NetTypes
<1>5. PICK out \in [1 .. c -> W] : toFpga' = toFpga \o out
  BY DEF Transmits
<1> HIDE DEF c, W
<1>6. out \in Seq(W) /\ Len(out) = c
  BY <1>4, <1>5, SeqOfFunction
<1>7. out \in [1 .. c -> Datagrams]
  BY <1>3, <1>5
<1>8. out \in Seq(Datagrams)
  BY <1>4, <1>7, SeqOfFunction
<1>9. /\ toFpga' \in Seq(Datagrams) /\ Len(toFpga') = m + c
      /\ \A i \in 1 .. m : toFpga'[i] = toFpga[i]
      /\ \A i \in (m + 1) .. (m + c) : toFpga'[i] = out[i - m]
  <2> DEFINE T == toFpga \o out
  <2>1. /\ T \in Seq(Datagrams) /\ Len(T) = m + c
        /\ \A i \in 1 .. Len(T) : T[i] = IF i <= m THEN toFpga[i] ELSE out[i - m]
    BY <1>4, <1>6, <1>8, ConcatProperties
  <2> HIDE DEF T
  <2>2. /\ \A i \in 1 .. m : T[i] = toFpga[i]
        /\ \A i \in (m + 1) .. (m + c) : T[i] = out[i - m]
    BY <1>4, <2>1
  <2>3. toFpga' = T
    BY <1>5 DEF T
  <2> QED
    BY <2>1, <2>2, <2>3
<1>10. ASSUME NEW i \in (m + 1) .. Len(toFpga')
       PROVE  toFpga'[i] \in W
  BY <1>4, <1>5, <1>9, <1>10
<1> QED
  BY <1>1, <1>9, <1>10

\* A step of the client: it takes at most the first reply, and retires the oldest
\* transaction only if that reply is the answer to it.
LEMMA ClientNet ==
    ASSUME IInv, IInv', Numbering', WrittenMarked', NetInv, Transmits,
           UNCHANGED <<done, lastSeq>>,
           \/ Keeps /\ fromFpga' = fromFpga
           \/ /\ fromFpga # <<>> /\ fromFpga' = Tail(fromFpga)
              /\ \/ Keeps
                 \/ Answers([op |-> fromFpga[1].op, svr_seq |-> fromFpga[1].svr_seq])
    PROVE  NetInv'
<1> DEFINE R == Retired
           D == Len(done)
           n == Len(toFpga)
           k == Len(fromFpga)
           taken == fromFpga # <<>> /\ fromFpga' = Tail(fromFpga)
           answer == Answers([op |-> fromFpga[1].op, svr_seq |-> fromFpga[1].svr_seq])
<1>1. /\ toFpga \in Seq(Datagrams) /\ fromFpga \in Seq(Replies) /\ R \in Nat /\ D \in Nat
      /\ n \in Nat /\ k \in Nat
      /\ \A i \in 1 .. n : toFpga[i].id \in Nat
      /\ \A i \in 1 .. k : fromFpga[i].re \in Nat
  BY NetFacts, RetiredType DEF NetInv, NetTypes
<1>2. /\ toFpga' \in Seq(Datagrams)
      /\ \A i \in 1 .. n : toFpga'[i] = toFpga[i]
      /\ \A i \in (n + 1) .. Len(toFpga') :
            /\ m_isConnected' /\ toFpga'[i].seq = NumberOf(toFpga'[i].id)
            /\ Retired' + 1 <= toFpga'[i].id /\ toFpga'[i].id <= Retired' + PipelineLen
  BY Sends DEF NetInv
<1>3. \A i \in 1 .. n : i + 0 \in 1 .. n /\ toFpga'[i] = toFpga[i + 0]
  BY <1>1, <1>2
<1>4. m_isConnected =>
        /\ R <= D /\ D <= R + PipelineLen
        /\ \A i \in 1 .. n : Before(R, toFpga[i].id) /\ toFpga[i].id <= R + PipelineLen
        /\ \A i \in 1 .. k : Before(R, fromFpga[i].re) /\ fromFpga[i].re <= R + PipelineLen
  BY DEF NetInv, Bounded, Near
<1>5. Reported'
  <2>1. ASSUME NEW r \in results', r.outcome # "timeout"
        PROVE  r.id <= D
    <3>1. CASE r \in results
      BY <2>1, <3>1 DEF NetInv, Reported
    <3>2. CASE r \in results' \ results
      <4>1. taken /\ answer /\ r.id = R + 1
        BY <2>1, <3>2 DEF Keeps, Answers
      <4> QED
        BY <4>1, AnswerIsItsOwn
    <3> QED
      BY <2>1, <3>1, <3>2
  <2> QED
    BY <2>1 DEF Reported
<1>6. CASE ~taken \/ ~answer
  <2>1. m_isConnected' => m_isConnected /\ Retired' = R
    BY <1>6 DEF Keeps
  <2>2. PICK b \in Nat : /\ fromFpga' \in Seq(Replies)
                         /\ \A i \in 1 .. Len(fromFpga') :
                                i + b \in 1 .. k /\ fromFpga'[i] = fromFpga[i + b]
    <3>1. CASE taken
      <4>1. /\ fromFpga' \in Seq(Replies)
            /\ \A i \in 1 .. Len(fromFpga') : i + 1 \in 1 .. k /\ fromFpga'[i] = fromFpga[i + 1]
        BY <1>1, <3>1, TailFacts
      <4> QED
        BY <4>1
    <3>2. CASE ~taken
      <4>1. /\ fromFpga' \in Seq(Replies)
            /\ \A i \in 1 .. Len(fromFpga') : i + 0 \in 1 .. k /\ fromFpga'[i] = fromFpga[i + 0]
        BY <1>1, <3>2
      <4> QED
        BY <4>1
    <3> QED
      BY <3>1, <3>2
  <2>3. m_isConnected' =>
            /\ Retired' <= D /\ D <= Retired' + PipelineLen
            /\ \A i \in 1 .. n : /\ Before(Retired', toFpga'[i].id)
                                 /\ toFpga'[i].id <= Retired' + PipelineLen
            /\ \A i \in 1 .. Len(fromFpga') : /\ Before(Retired', fromFpga'[i].re)
                                              /\ fromFpga'[i].re <= Retired' + PipelineLen
    BY <1>2, <1>4, <2>1, <2>2
  <2> QED
    BY <1>1, <1>2, <1>3, <1>5, <2>2, <2>3, QueuesMove
<1>7. CASE taken /\ answer
  <2>1. /\ m_isConnected /\ m_isConnected' => Retired' = R + 1
    BY <1>7 DEF Answers
  <2>2. fromFpga[1].re = R + 1 /\ R + 1 <= D
    BY <1>7, AnswerIsItsOwn
  <2>3. /\ 1 \in 1 .. k /\ fromFpga' \in Seq(Replies)
        /\ \A i \in 1 .. Len(fromFpga') :
                i + 1 \in 1 .. k /\ 1 < i + 1 /\ fromFpga'[i] = fromFpga[i + 1]
    BY <1>1, <1>7, TailFacts, LenProperties
  <2>4. m_isConnected
    BY <1>7 DEF Answers
  <2>5. ASSUME NEW i \in 1 .. n
        PROVE  Before(R + 1, toFpga[i].id) /\ toFpga[i].id <= R + 1 + PipelineLen
    <3> DEFINE z == toFpga[i].id
    <3>1. Before(R + 1, z)
      BY <2>2, <2>3 DEF NetInv, InOrder
    <3>2. z <= R + PipelineLen /\ z \in Nat
      BY <1>1, <1>4, <2>4
    <3> HIDE DEF z, R
    <3>3. z <= R + 1 + PipelineLen
      BY <1>1, <3>2, Sizes
    <3> QED
      BY <3>1, <3>3 DEF z
  <2>6. ASSUME NEW i \in 1 .. Len(fromFpga')
        PROVE  Before(R + 1, fromFpga'[i].re) /\ fromFpga'[i].re <= R + 1 + PipelineLen
    <3> DEFINE z == fromFpga[i + 1].re
    <3>1. Before(R + 1, z)
      BY <2>2, <2>3 DEF NetInv, InOrder
    <3>2. z <= R + PipelineLen /\ z \in Nat
      BY <1>1, <1>4, <2>3, <2>4
    <3> HIDE DEF z, R
    <3>3. z <= R + 1 + PipelineLen
      BY <1>1, <3>2, Sizes
    <3> QED
      BY <2>3, <3>1, <3>3 DEF z
  <2>7. R + 1 <= D /\ D <= R + 1 + PipelineLen
    <3> HIDE DEF R, D
    <3> QED
      BY <1>1, <1>4, <2>2, <2>4, Sizes
  <2>8. m_isConnected' =>
            /\ Retired' <= D /\ D <= Retired' + PipelineLen
            /\ \A i \in 1 .. n : /\ Before(Retired', toFpga'[i].id)
                                 /\ toFpga'[i].id <= Retired' + PipelineLen
            /\ \A i \in 1 .. Len(fromFpga') : /\ Before(Retired', fromFpga'[i].re)
                                              /\ fromFpga'[i].re <= Retired' + PipelineLen
    BY <1>2, <2>1, <2>4, <2>5, <2>6, <2>7
  <2>9. \A i \in 1 .. Len(fromFpga') : i + 1 \in 1 .. k /\ fromFpga'[i] = fromFpga[i + 1]
    BY <2>3
  <2> QED
    BY <1>1, <1>2, <1>3, <1>5, <2>3, <2>8, <2>9, QueuesMove
<1> QED
  BY <1>6, <1>7

--------------------------------------------------------------------------------
(* The invariant of the system.                                              *)

SysInv == IInv /\ Numbering /\ NetInv

\* The packet a step of the client handles is one the client may be given.
LEMMA StepOfClient ==
    ASSUME NetInv, SysNext
    PROVE  [Next]_vars
<1>1. CASE ClientRequests
  BY <1>1 DEF ClientRequests, Next
<1>2. CASE ClientTimesOut
  BY <1>2 DEF ClientTimesOut, Next
<1>3. CASE ClientReceives
  <2> DEFINE p == fromFpga[1]
             pkt == [op |-> p.op, svr_seq |-> p.svr_seq]
  <2>1. fromFpga # <<>> /\ fromFpga \in Seq(Replies)
    BY <1>3 DEF ClientReceives, NetInv, NetTypes
  <2>2. Head(fromFpga) = p /\ p \in Replies
    BY <2>1, TailFacts
  <2>3. pkt \in Packet
    BY <2>2 DEF Replies, Packet, Ops
  <2> HIDE DEF p
  <2>4. \E expired \in BOOLEAN : OnPktRxReady(pkt, expired)
    BY <1>3, <2>2 DEF ClientReceives
  <2> QED
    BY <2>3, <2>4 DEF Next
<1>4. CASE FpgaReceives \/ Lose
  BY <1>4 DEF FpgaReceives, Lose
<1> QED
  BY <1>1, <1>2, <1>3, <1>4 DEF SysNext

\* What a step of the client retires and reports, and what it takes and sends.
LEMMA ClientSteps ==
    ASSUME IInv, Numbering, NetInv, ClientRequests \/ ClientReceives \/ ClientTimesOut
    PROVE  /\ WrittenMarked' /\ Transmits /\ UNCHANGED <<done, lastSeq>>
           /\ \/ Keeps /\ fromFpga' = fromFpga
              \/ /\ fromFpga # <<>> /\ fromFpga' = Tail(fromFpga)
                 /\ \/ Keeps
                    \/ Answers([op |-> fromFpga[1].op, svr_seq |-> fromFpga[1].svr_seq])
<1>1. CASE ClientRequests
  BY <1>1, UserKeeps, UserWrites DEF ClientRequests
<1>2. CASE ClientTimesOut
  BY <1>2, TimeoutKeeps, TimeoutWrites DEF ClientTimesOut
<1>3. CASE ClientReceives
  <2> DEFINE pkt == [op |-> fromFpga[1].op, svr_seq |-> fromFpga[1].svr_seq]
  <2>1. fromFpga # <<>> /\ fromFpga \in Seq(Replies)
    BY <1>3 DEF ClientReceives, NetInv, NetTypes
  <2>2. Head(fromFpga) = fromFpga[1]
    BY <2>1, TailFacts
  <2>3. PICK expired \in BOOLEAN : OnPktRxReady(pkt, expired)
    BY <1>3, <2>2 DEF ClientReceives
  <2> HIDE DEF pkt
  <2>4. (Keeps \/ Answers(pkt)) /\ WrittenMarked'
    BY <2>3, PacketStep, PacketWrites
  <2> QED
    BY <1>3, <2>1, <2>4 DEF ClientReceives, pkt
<1> QED
  BY <1>1, <1>2, <1>3

LEMMA InitSysInv == SysInit => SysInv
<1> SUFFICES ASSUME SysInit PROVE SysInv
  OBVIOUS
<1>1. Init /\ IInv
  BY InitIInv DEF SysInit
<1>2. Numbering
  <2>1. Len(m_transList) = 0 /\ Len(owner) = 0 /\ m_numInTransit = 0
        /\ m_cli_seq = 1 % SeqSpace /\ ~m_waitingForRetryResponse /\ written = {}
    BY <1>1, EmptySeq DEF Init
  <2>2. Retired + m_numInTransit = 0
    BY <2>1 DEF Retired
  <2> QED
    BY <2>1, <2>2 DEF Numbering, NumberOf
<1>3. toFpga = <<>> /\ done = <<>> /\ Len(toFpga) = 0 /\ Len(done) = 0 /\ lastSeq = 1 % SeqSpace
  BY EmptySeq DEF SysInit
<1>4. PICK n \in 0 .. RepeatedCnx :
            fromFpga = [k \in 1 .. n |-> Reply("ACK", 1 % SeqSpace, 0)]
  BY DEF SysInit
<1>5. n \in Nat
  BY RepeatedCnxAssumption
<1>6. /\ Reply("ACK", 1 % SeqSpace, 0) \in Replies
      /\ Reply("ACK", 1 % SeqSpace, 0).re = 0
      /\ Reply("ACK", 1 % SeqSpace, 0).svr_seq = NumberOf(0)
  BY NumberType DEF Reply, Replies, NumberOf
<1>7. fromFpga \in Seq(Replies) /\ Len(fromFpga) = n
      /\ \A k \in 1 .. n : fromFpga[k].re = 0 /\ fromFpga[k].svr_seq = NumberOf(0)
  <2> DEFINE q == Reply("ACK", 1 % SeqSpace, 0)
  <2>1. q \in Replies /\ fromFpga = [k \in 1 .. n |-> q]
    BY <1>4, <1>6
  <2>2. q.re = 0 /\ q.svr_seq = NumberOf(0)
    BY <1>6
  <2> HIDE DEF q
  <2>3. fromFpga \in [1 .. n -> Replies]
    BY <2>1
  <2> QED
    BY <1>5, <2>1, <2>2, <2>3, SeqOfFunction
<1>8. Retired = 0 /\ results = {}
  BY <1>1, EmptySeq DEF Init, Retired
<1>9. NetTypes
  BY <1>3, <1>7 DEF NetTypes
<1>10. Executed /\ Asked
  BY <1>3 DEF Executed, Asked, NumberOf
<1>11. InOrder
  BY <1>3, <1>5, <1>7, Sizes DEF InOrder, Before
<1>12. Acknowledged
  BY <1>3, <1>7 DEF Acknowledged
<1>13. Reported
  BY <1>8 DEF Reported
<1>14. Bounded
  BY <1>3, <1>7, <1>8, Sizes DEF Bounded, Near, Before
<1> QED
  BY <1>1, <1>2, <1>9, <1>10, <1>11, <1>12, <1>13, <1>14 DEF SysInv, NetInv

LEMMA StepSysInv == SysInv /\ [SysNext]_sysVars => SysInv'
<1> SUFFICES ASSUME SysInv, [SysNext]_sysVars
             PROVE  SysInv'
  OBVIOUS
<1>1. IInv /\ Numbering /\ NetInv
  BY DEF SysInv
<1>2. CASE UNCHANGED sysVars
  <2>1. UNCHANGED vars /\ UNCHANGED netVars
    BY <1>2 DEF sysVars
  <2>2. IInv' /\ Numbering'
    BY <1>1, <2>1, StepIInv, StepNumbering
  <2>3. NetInv'
    BY <1>1, <2>1 DEF vars, netVars, NetInv, NetTypes, InOrder, Before, Executed, Asked,
                      NumberOf, Acknowledged, Reported, Bounded, Near, Retired
  <2> QED
    BY <2>2, <2>3 DEF SysInv
<1>3. CASE SysNext
  <2>1. [Next]_vars
    BY <1>1, <1>3, StepOfClient
  <2>2. IInv' /\ Numbering'
    BY <1>1, <2>1, StepIInv, StepNumbering
  <2>3. CASE ClientRequests \/ ClientReceives \/ ClientTimesOut
    BY <1>1, <2>2, <2>3, ClientSteps, ClientNet DEF SysInv
  <2>4. CASE FpgaReceives
    BY <1>1, <2>2, <2>4, FpgaReceivesNet DEF SysInv
  <2>5. CASE Lose
    BY <1>1, <2>2, <2>5, LoseNet DEF SysInv
  <2> QED
    BY <1>3, <2>3, <2>4, <2>5 DEF SysNext
<1> QED
  BY <1>2, <1>3

\* Nothing under way, executed or retired is ever more than a window apart from the
\* rest: the invariant behind the theorems below.
THEOREM SysInvariant == SysSpec => []SysInv
  BY InitSysInv, StepSysInv, PTL DEF SysSpec

\* No write is repeated by a resend and none is skipped or overtaken: whatever is lost
\* and however late, the FPGA executes the transactions in the order of submission.
THEOREM ExecutedOnceInOrder == SysSpec => []ExecutedInOrder
<1>1. SysInv => ExecutedInOrder
  <2> SUFFICES ASSUME SysInv PROVE ExecutedInOrder
    OBVIOUS
  <2>1. done \in Seq(Nat) /\ \A k \in 1 .. Len(done) : done[k] = k
    BY DEF SysInv, NetInv, NetTypes, Executed
  <2>2. DOMAIN done = 1 .. Len(done) /\ done = [k \in DOMAIN done |-> done[k]]
    BY <2>1, LenProperties
  <2> QED
    BY <2>1, <2>2 DEF ExecutedInOrder
<1> QED
  BY <1>1, SysInvariant, PTL

\* A caller that is not told of a timeout may rely on the FPGA having executed it.
THEOREM ReportedWasExecuted == SysSpec => []ReportedIsExecuted
<1>1. SysInv => ReportedIsExecuted
  <2> SUFFICES ASSUME SysInv, NEW r \in results, r.outcome # "timeout"
               PROVE  r.id \in {done[k] : k \in DOMAIN done}
    BY DEF ReportedIsExecuted
  <2>1. done \in Seq(Nat) /\ \A k \in 1 .. Len(done) : done[k] = k
    BY DEF SysInv, NetInv, NetTypes, Executed
  <2>2. Len(done) \in Nat /\ DOMAIN done = 1 .. Len(done)
    BY <2>1, LenProperties
  <2>3. r.id \in 1 .. Len(owner) /\ Len(owner) \in Nat /\ r.id <= Len(done)
    BY LenProperties DEF SysInv, IInv, Typed, NetInv, Reported
  <2>4. r.id \in 1 .. Len(done)
    BY <2>2, <2>3
  <2> QED
    BY <2>1, <2>2, <2>4
<1> QED
  BY <1>1, SysInvariant, PTL

\* A reply is never taken for the answer to another transaction than the one that
\* caused it, although the numbers repeat: no value read goes to the wrong request.
THEOREM AnswersMatched == SysSpec => AnswerMatches
<1> DEFINE Matched == \A r \in results' \ results :
                        r.outcome # "timeout" => /\ fromFpga # <<>>
                                                 /\ Head(fromFpga).re = r.id
<1>1. SysInv /\ [SysNext]_sysVars => [Matched]_sysVars
  <2> SUFFICES ASSUME SysInv, SysNext
               PROVE  Matched
    BY DEF sysVars
  <2>1. IInv /\ Numbering /\ NetInv
    BY DEF SysInv
  <2>2. CASE ClientRequests \/ ClientReceives \/ ClientTimesOut
    <3> SUFFICES ASSUME NEW r \in results' \ results, r.outcome # "timeout"
                 PROVE  fromFpga # <<>> /\ Head(fromFpga).re = r.id
      OBVIOUS
    <3>1. /\ fromFpga # <<>> /\ r.id = Retired + 1
          /\ Answers([op |-> fromFpga[1].op, svr_seq |-> fromFpga[1].svr_seq])
      BY <2>1, <2>2, ClientSteps DEF Keeps, Answers
    <3>2. fromFpga[1].re = Retired + 1
      BY <2>1, <3>1, AnswerIsItsOwn
    <3>3. Head(fromFpga) = fromFpga[1]
      BY <2>1, <3>1, TailFacts DEF NetInv, NetTypes
    <3> QED
      BY <3>1, <3>2, <3>3
  <2>3. CASE FpgaReceives \/ Lose
    BY <2>3 DEF FpgaReceives, Lose, vars
  <2> QED
    BY <2>2, <2>3 DEF SysNext
<1> QED
  BY <1>1, SysInvariant, PTL DEF SysSpec, AnswerMatches

================================================================================
