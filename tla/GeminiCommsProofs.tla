--------------------------- MODULE GeminiCommsProofs ---------------------------
(***************************************************************************)
(* Theorems about GeminiComms, for every pipeline length, number of        *)
(* retries, payload size and sequence number space, and for every          *)
(* behaviour of the network: the window and its numbers, the loops that    *)
(* split requests and fill the pipeline, and that a connection implements  *)
(* RegisterService, hence that results reach whoever asked and none is     *)
(* lost.                                                                   *)
(***************************************************************************)
EXTENDS GeminiComms, FiniteSetTheorems, SequenceTheorems, WellFoundedInduction, TLAPS

Trans == [id : Nat \ {0}, ctx : Nat \ {0}, sendCount : Nat, cli_seq : SeqNums]

\* The first n transactions of L have been sent, once each; the others not.
SentOnce(L, n) ==
    /\ n \in 0 .. Len(L)
    /\ \A i \in 1 .. Len(L) : L[i].sendCount = IF i <= n THEN 1 ELSE 0

\* Where the window ends when the pipeline is filled from L.
WindowEnd(L) == IF Len(L) < PipelineLen THEN Len(L) ELSE PipelineLen

--------------------------------------------------------------------------------
(* Sequence number arithmetic.                                               *)

\* A function on 1 .. n is a sequence of length n.
LEMMA SeqOfFunction ==
    ASSUME NEW S, NEW n \in Nat, NEW f \in [1 .. n -> S]
    PROVE  f \in Seq(S) /\ Len(f) = n
<1>1. f \in Seq(S)
  BY SeqDef
<1>2. Len(f) \in Nat /\ 1 .. Len(f) = 1 .. n
  BY <1>1, LenProperties
<1>3. \A a, b \in Nat : 1 .. a = 1 .. b => a = b
  OBVIOUS
<1> QED
  BY <1>1, <1>2, <1>3

\* A sequence number moved on stays in the range of sequence numbers.
LEMMA SeqPlusType ==
    ASSUME NEW s \in Int, NEW k \in Int
    PROVE  SeqPlus(s, k) \in SeqNums
  BY SeqSpaceAssumption DEF SeqPlus, SeqNums

\* A quotient and a remainder determine the remainder.
LEMMA ModUnique ==
    ASSUME NEW m \in Nat \ {0}, NEW q \in Int, NEW r \in 0 .. (m - 1)
    PROVE  (m * q + r) % m = r
  OBVIOUS

\* Adding to a remainder and reducing again is adding first: m_cli_seq counts
\* modulo the sequence number space.
LEMMA SeqPlusOfMod ==
    ASSUME NEW a \in Nat, NEW k \in Nat
    PROVE  SeqPlus(a % SeqSpace, k) = (a + k) % SeqSpace
<1> DEFINE q == a \div SeqSpace
           r == a % SeqSpace
           p == (r + k) \div SeqSpace
           t == (r + k) % SeqSpace
<1>0. SeqSpace \in Nat \ {0}
  BY SeqSpaceAssumption
<1>1. a = SeqSpace * q + r /\ q \in Int /\ r \in 0 .. (SeqSpace - 1)
  BY <1>0
<1>2. r + k = SeqSpace * p + t /\ p \in Int /\ t \in 0 .. (SeqSpace - 1)
  BY <1>0, <1>1
<1>3. a + k = SeqSpace * (q + p) + t /\ q + p \in Int
  BY <1>0, <1>1, <1>2
<1>4. (SeqSpace * (q + p) + t) % SeqSpace = t
  <2> HIDE DEF q, r, p, t
  <2> QED BY <1>0, <1>2, <1>3, ModUnique
<1> QED
  BY <1>3, <1>4 DEF SeqPlus

\* m_cli_seq = oldest->cli_seq - 1 followed by ++m_cli_seq gives the number the
\* transaction had before.
LEMMA SeqForResendSame ==
    ASSUME NEW c \in SeqNums
    PROVE  SeqPlus(SeqPlus(c, SeqSpace - 1), 1) = c
<1>1. SeqSpace \in Nat \ {0} /\ c \in Nat /\ c < SeqSpace
  BY SeqSpaceAssumption DEF SeqNums
<1>2. SeqPlus((c + (SeqSpace - 1)) % SeqSpace, 1) = (c + (SeqSpace - 1) + 1) % SeqSpace
  <2>1. c + (SeqSpace - 1) \in Nat /\ 1 \in Nat
    BY <1>1
  <2> HIDE DEF SeqPlus
  <2> QED
    BY ONLY <2>1, SeqPlusOfMod
<1>3. c + (SeqSpace - 1) + 1 = SeqSpace * 1 + c
  BY <1>1
<1>4. (SeqSpace * 1 + c) % SeqSpace = c
  BY <1>1, ModUnique
<1> QED
  BY <1>2, <1>3, <1>4 DEF SeqPlus

--------------------------------------------------------------------------------
(* What trySendTransactions sends.                                           *)

\* With the first n transactions sent, the rank of an unsent one is its
\* distance from n.
LEMMA RankIsOffset ==
    ASSUME NEW L \in Seq(Trans), NEW n, SentOnce(L, n),
           NEW i \in 1 .. Len(L), n < i
    PROVE  Rank(L, i) = i - n
<1>1. DOMAIN L = 1 .. Len(L) /\ Len(L) \in Nat /\ n \in Nat
  BY LenProperties DEF SentOnce
<1>2. {j \in Unsent(L) : j <= i} = (n + 1) .. i
  BY <1>1 DEF Unsent, SentOnce
<1>3. Cardinality((n + 1) .. i) = i - n
  <2>1. n + 1 \in Int /\ i \in Int /\ ~(n + 1 > i)
    BY <1>1
  <2> QED
    BY <1>1, <2>1, FS_Interval
<1> QED
  BY <1>2, <1>3 DEF Rank

\* So the transactions sent are those that follow n, up to the window's end.
LEMMA ToSendIsInterval ==
    ASSUME NEW L \in Seq(Trans), NEW n, SentOnce(L, n), n <= PipelineLen
    PROVE  /\ ToSend(L, n) = (n + 1) .. WindowEnd(L)
           /\ Cardinality(ToSend(L, n)) = WindowEnd(L) - n
           /\ WindowEnd(L) \in n .. Len(L)
<1>1. DOMAIN L = 1 .. Len(L) /\ Len(L) \in Nat /\ n \in 0 .. Len(L) /\ PipelineLen \in Nat
  BY LenProperties, PipelineAssumption DEF SentOnce
<1>2. WindowEnd(L) \in n .. Len(L)
  BY <1>1 DEF WindowEnd
<1>3. Unsent(L) = (n + 1) .. Len(L)
  BY <1>1 DEF Unsent, SentOnce
<1>4. ToSend(L, n) = (n + 1) .. WindowEnd(L)
  <2>1. ASSUME NEW i \in (n + 1) .. Len(L)
        PROVE  n + Rank(L, i) = i
    BY <1>1, RankIsOffset
  <2> QED
    BY <1>1, <1>2, <1>3, <2>1 DEF ToSend, WindowEnd
<1>5. Cardinality((n + 1) .. WindowEnd(L)) = WindowEnd(L) - n
  <2>1. n + 1 \in Int /\ WindowEnd(L) \in Int /\ n <= WindowEnd(L) /\ n \in Nat
    BY <1>1, <1>2
  <2>2. Cardinality((n + 1) .. WindowEnd(L)) =
            IF n + 1 > WindowEnd(L) THEN 0 ELSE WindowEnd(L) - (n + 1) + 1
    BY <2>1, FS_Interval
  <2> QED
    BY <2>1, <2>2
<1> QED
  BY <1>2, <1>4, <1>5

\* Sending a transaction touches its count and its number only; marking it for
\* resending touches its count only.
LEMMA SentRecord ==
    ASSUME NEW t \in Trans, NEW q \in SeqNums
    PROVE  /\ Sent(t, q) \in Trans
           /\ Sent(t, q).id = t.id
           /\ Sent(t, q).ctx = t.ctx
           /\ Sent(t, q).sendCount = t.sendCount + 1
           /\ Sent(t, q).cli_seq = q
<1>1. [t EXCEPT !.sendCount = t.sendCount + 1] \in Trans
  BY DEF Trans
<1>2. [[t EXCEPT !.sendCount = t.sendCount + 1] EXCEPT !.cli_seq = q] \in Trans
  BY <1>1 DEF Trans
<1>3. Sent(t, q) = [[t EXCEPT !.sendCount = t.sendCount + 1] EXCEPT !.cli_seq = q]
  BY DEF Sent
<1>4. Sent(t, q) \in Trans
  BY <1>2, <1>3
<1> QED
  BY <1>4 DEF Sent, Trans

\* Marking a transaction of the window as unsent, as a rewind does, keeps its
\* identity, its slot and its number.
LEMMA UnsentRecord ==
    ASSUME NEW t \in Trans
    PROVE  /\ [t EXCEPT !.sendCount = 0] \in Trans
           /\ [t EXCEPT !.sendCount = 0].id = t.id
           /\ [t EXCEPT !.sendCount = 0].ctx = t.ctx
           /\ [t EXCEPT !.sendCount = 0].sendCount = 0
           /\ [t EXCEPT !.sendCount = 0].cli_seq = t.cli_seq
  BY DEF Trans

\* The list after trySendTransactions: as long as before, the window filled,
\* the transactions just sent numbered on from m_cli_seq.
LEMMA AfterTrySendList ==
    ASSUME NEW STATE L, L \in Seq(Trans), NEW STATE n, SentOnce(L, n),
           n <= PipelineLen, m_cli_seq \in SeqNums
    PROVE  /\ AfterTrySend(L, n) \in Seq(Trans)
           /\ Len(AfterTrySend(L, n)) = Len(L)
           /\ SentOnce(AfterTrySend(L, n), WindowEnd(L))
           /\ \A i \in 1 .. Len(L) :
                /\ AfterTrySend(L, n)[i].id = L[i].id
                /\ AfterTrySend(L, n)[i].ctx = L[i].ctx
                /\ AfterTrySend(L, n)[i].cli_seq =
                        IF n < i /\ i <= WindowEnd(L) THEN SeqPlus(m_cli_seq, i - n)
                                                      ELSE L[i].cli_seq
<1> DEFINE A == AfterTrySend(L, n)
<1>1. DOMAIN L = 1 .. Len(L) /\ Len(L) \in Nat /\ n \in 0 .. Len(L)
  BY LenProperties DEF SentOnce
<1>2. ToSend(L, n) = (n + 1) .. WindowEnd(L) /\ WindowEnd(L) \in n .. Len(L)
  BY ToSendIsInterval
<1>3. A = [i \in 1 .. Len(L) |-> IF n < i /\ i <= WindowEnd(L)
                                 THEN Sent(L[i], SeqPlus(m_cli_seq, Rank(L, i)))
                                 ELSE L[i]]
  BY <1>1, <1>2 DEF AfterTrySend
<1>4. ASSUME NEW i \in 1 .. Len(L)
      PROVE  /\ A[i] \in Trans
             /\ A[i].id = L[i].id /\ A[i].ctx = L[i].ctx
             /\ A[i].sendCount = IF i <= WindowEnd(L) THEN 1 ELSE 0
             /\ A[i].cli_seq = IF n < i /\ i <= WindowEnd(L) THEN SeqPlus(m_cli_seq, i - n)
                                                             ELSE L[i].cli_seq
  <2>1. L[i] \in Trans /\ L[i].sendCount = IF i <= n THEN 1 ELSE 0
    BY ElementOfSeq DEF SentOnce
  <2>2. CASE n < i /\ i <= WindowEnd(L)
    <3>1. Rank(L, i) = i - n
      BY <2>2, RankIsOffset
    <3>2. SeqPlus(m_cli_seq, i - n) \in SeqNums
      <4>1. m_cli_seq \in Int /\ i - n \in Int
        BY <1>1, SeqSpaceAssumption DEF SeqNums
      <4> QED
        BY <4>1, SeqPlusType
    <3>3. A[i] = Sent(L[i], SeqPlus(m_cli_seq, i - n))
      BY <1>3, <2>2, <3>1
    <3> QED
      BY <1>1, <2>1, <2>2, <3>2, <3>3, SentRecord
  <2>3. CASE ~(n < i /\ i <= WindowEnd(L))
    <3>1. A[i] = L[i]
      BY <1>3, <2>3
    <3>2. i <= WindowEnd(L) <=> i <= n
      BY <1>1, <1>2, <2>3
    <3> QED
      BY <2>1, <2>3, <3>1, <3>2
  <2> QED
    BY <2>2, <2>3
<1>5. A \in [1 .. Len(L) -> Trans]
  BY <1>3, <1>4
<1>6. A \in Seq(Trans) /\ Len(A) = Len(L)
  BY <1>1, <1>5, SeqDef, LenProperties
<1> QED
  BY <1>1, <1>2, <1>4, <1>6 DEF SentOnce

\* The list after resendOldestTransaction: the front sent once more, under the
\* number it had, and all the others to be sent again.
LEMMA AfterResendList ==
    ASSUME NEW L \in Seq(Trans), L # <<>>
    PROVE  /\ AfterResend(L) \in Seq(Trans)
           /\ Len(AfterResend(L)) = Len(L)
           /\ Len(L) >= 1
           /\ AfterResend(L)[1].sendCount = L[1].sendCount + 1
           /\ \A i \in 2 .. Len(L) : AfterResend(L)[i].sendCount = 0
           /\ \A i \in 1 .. Len(L) :
                /\ AfterResend(L)[i].id = L[i].id
                /\ AfterResend(L)[i].ctx = L[i].ctx
                /\ AfterResend(L)[i].cli_seq = L[i].cli_seq
<1> DEFINE A == AfterResend(L)
<1>1. DOMAIN L = 1 .. Len(L) /\ Len(L) \in Nat /\ Len(L) >= 1
  BY LenProperties, EmptySeq
<1>2. A = [i \in 1 .. Len(L) |-> IF i = 1 THEN Sent(L[1], SeqForResend(L[1]))
                                          ELSE [L[i] EXCEPT !.sendCount = 0]]
  BY <1>1 DEF AfterResend
<1>3. ASSUME NEW i \in 1 .. Len(L)
      PROVE  /\ A[i] \in Trans
             /\ A[i].id = L[i].id /\ A[i].ctx = L[i].ctx /\ A[i].cli_seq = L[i].cli_seq
             /\ A[i].sendCount = IF i = 1 THEN L[1].sendCount + 1 ELSE 0
  <2>1. L[i] \in Trans
    BY ElementOfSeq
  <2>2. CASE i = 1
    <3>1. L[1].cli_seq \in SeqNums
      BY <2>1, <2>2 DEF Trans
    <3>2. SeqForResend(L[1]) = L[1].cli_seq
      BY <3>1, SeqForResendSame DEF SeqForResend
    <3>3. A[i] = Sent(L[1], L[1].cli_seq)
      BY <1>2, <2>2, <3>2
    <3> QED
      BY <2>1, <2>2, <3>1, <3>3, SentRecord
  <2>3. CASE i # 1
    <3>1. A[i] = [L[i] EXCEPT !.sendCount = 0]
      BY <1>2, <2>3
    <3> QED
      BY <2>1, <2>3, <3>1, UnsentRecord
  <2> QED
    BY <2>2, <2>3
<1>4. A \in [1 .. Len(L) -> Trans]
  BY <1>2, <1>3
<1>5. A \in Seq(Trans) /\ Len(A) = Len(L)
  BY <1>1, <1>4, SeqDef, LenProperties
<1> QED
  BY <1>1, <1>3, <1>5

--------------------------------------------------------------------------------
(* The inductive invariant.                                                  *)

\* The range of every variable; the list's slots are slots.
Typed ==
    /\ m_isConnected \in BOOLEAN
    /\ m_transList \in Seq(Trans)
    /\ \A i \in 1 .. Len(m_transList) : m_transList[i].ctx \in 1 .. Len(m_chans)
    /\ m_numInTransit \in Nat
    /\ m_waitingForRetryResponse \in BOOLEAN
    /\ m_cli_seq \in SeqNums
    /\ m_timer \in BOOLEAN
    /\ opened \in Nat
    /\ m_chans \in Seq(0 .. opened)
    /\ owner \in Seq(1 .. opened)
    /\ results \subseteq [id : 1 .. Len(owner), to : 1 .. opened, outcome : Outcomes]
    /\ written \subseteq [id : Nat \ {0}, seq : SeqNums]
    /\ undefined \in BOOLEAN

\* The pending transactions are the last ones submitted, in order.
Consecutive ==
    /\ Len(m_transList) <= Len(owner)
    /\ \A i \in 1 .. Len(m_transList) :
            m_transList[i].id = Len(owner) - Len(m_transList) + i

\* Which transactions are marked as sent, and whether the timer runs.
Window ==
    /\ ~m_waitingForRetryResponse =>
            /\ m_numInTransit = WindowEnd(m_transList)
            /\ SentOnce(m_transList, m_numInTransit)
    /\ m_waitingForRetryResponse /\ m_transList # <<>> =>
            /\ m_transList[1].sendCount \in 1 .. (MaxRetries + 1)
            /\ \A i \in 2 .. Len(m_transList) : m_transList[i].sendCount = 0
    /\ m_isConnected /\ m_waitingForRetryResponse => m_transList # <<>>
    /\ ~m_isConnected => m_waitingForRetryResponse /\ m_transList = <<>>
    /\ m_timer <=> m_transList # <<>>

IInv == Typed /\ Consecutive /\ Window

\* Everything but the channels and what was submitted, which a handler of
\* packets and timers leaves alone.
vars1 == <<m_chans, opened, owner, undefined>>

\* The signals of a transaction are well-typed results.
LEMMA SignalType ==
    ASSUME Typed, Consecutive, NEW STATE trans,
           trans \in Trans, trans.ctx \in 1 .. Len(m_chans), trans.id \in 1 .. Len(owner),
           NEW outcome \in Outcomes
    PROVE  Signal(trans, outcome) \subseteq
                [id : 1 .. Len(owner), to : 1 .. opened, outcome : Outcomes]
<1>1. m_chans[trans.ctx] \in 0 .. opened
  BY ElementOfSeq DEF Typed
<1>2. \A c \in {m_chans[trans.ctx]} \ {0} : c \in 1 .. opened
  BY <1>1 DEF Typed
<1> QED
  BY <1>2 DEF Signal

\* Filling the pipeline from a list whose first n transactions are in flight
\* leaves a full window and a running timer.
LEMMA TrySendStep ==
    ASSUME NEW STATE L, L \in Seq(Trans), NEW STATE n, SentOnce(L, n), n <= PipelineLen,
           NEW STATE running, running \in BOOLEAN, running <=> n > 0,
           m_cli_seq \in SeqNums,
           TrySendTransactions(L, n, running)
    PROVE  /\ m_transList' \in Seq(Trans)
           /\ Len(m_transList') = Len(L)
           /\ \A i \in 1 .. Len(L) : /\ m_transList'[i].id = L[i].id
                                     /\ m_transList'[i].ctx = L[i].ctx
           /\ m_numInTransit' \in Nat
           /\ m_numInTransit' = WindowEnd(m_transList')
           /\ SentOnce(m_transList', m_numInTransit')
           /\ m_cli_seq' \in SeqNums
           /\ written' \subseteq [id : Nat \ {0}, seq : SeqNums]
           /\ m_timer' \in BOOLEAN
           /\ m_timer' <=> m_transList' # <<>>
<1> DEFINE A == AfterTrySend(L, n)
<1>1. /\ ToSend(L, n) = (n + 1) .. WindowEnd(L)
      /\ Cardinality(ToSend(L, n)) = WindowEnd(L) - n
      /\ WindowEnd(L) \in n .. Len(L)
  BY ToSendIsInterval
<1>2. /\ A \in Seq(Trans) /\ Len(A) = Len(L) /\ SentOnce(A, WindowEnd(L))
      /\ \A i \in 1 .. Len(L) : A[i].id = L[i].id /\ A[i].ctx = L[i].ctx
  BY AfterTrySendList
<1>3. m_transList' = A /\ m_numInTransit' = n + Cardinality(ToSend(L, n))
  BY DEF TrySendTransactions
<1>4. n \in Nat /\ Len(L) \in Nat /\ n <= Len(L) /\ PipelineLen \in Nat \ {0}
  BY LenProperties, PipelineAssumption DEF SentOnce
<1>5. m_numInTransit' = WindowEnd(L) /\ WindowEnd(A) = WindowEnd(L) /\ WindowEnd(L) \in Nat
  BY <1>1, <1>2, <1>3, <1>4 DEF WindowEnd
<1>6. m_cli_seq' \in SeqNums
  <2>1. m_cli_seq \in Int /\ Cardinality(ToSend(L, n)) \in Int
    BY <1>1, <1>4, SeqSpaceAssumption DEF SeqNums
  <2> QED
    BY <2>1, SeqPlusType DEF TrySendTransactions
<1>7. written' \subseteq [id : Nat \ {0}, seq : SeqNums]
  <2>1. \A i \in ToSend(L, n) : A[i] \in Trans
    BY <1>1, <1>2, <1>4, ElementOfSeq
  <2>2. \A i \in ToSend(L, n) : Datagram(A[i]) \in [id : Nat \ {0}, seq : SeqNums]
    BY <2>1 DEF Datagram, Trans
  <2> QED
    BY <2>2 DEF TrySendTransactions
<1>8. m_timer' \in BOOLEAN /\ (m_timer' <=> n > 0 \/ 1 \in ToSend(L, n))
  BY DEF TrySendTransactions, TimerAfterTrySend
<1>9. m_timer' <=> Len(L) > 0
  BY <1>1, <1>4, <1>8 DEF WindowEnd
<1>10. m_transList' # <<>> <=> Len(L) > 0
  BY <1>2, <1>3, <1>4, EmptySeq
<1> QED
  BY <1>2, <1>3, <1>5, <1>6, <1>7, <1>8, <1>9, <1>10

\* Going back to the oldest transaction of L keeps the invariant: either L
\* remains, its front sent once more, or the connection is closed.
LEMMA ResendStep ==
    ASSUME Typed, Consecutive, m_isConnected,
           NEW STATE L, L \in Seq(Trans), L # <<>>,
           \A i \in 1 .. Len(L) : L[i].ctx \in 1 .. Len(m_chans) /\ L[i].id \in 1 .. Len(owner),
           L[1].sendCount \in 1 .. (MaxRetries + 1),
           NEW STATE n, n \in Nat,
           NEW STATE running, running \in BOOLEAN,
           L[1].sendCount > 1 => m_waitingForRetryResponse /\ ~running,
           NEW STATE signalled,
           signalled \subseteq [id : 1 .. Len(owner), to : 1 .. opened, outcome : Outcomes],
           ResendOldestTransaction(L, n, running, signalled),
           UNCHANGED vars1
    PROVE  /\ Typed'
           /\ Window'
           /\ \/ m_transList' = <<>>
              \/ /\ Len(m_transList') = Len(L)
                 /\ \A i \in 1 .. Len(L) : m_transList'[i].id = L[i].id
<1>1. Len(L) \in Nat /\ Len(L) >= 1 /\ L[1] \in Trans
  BY LenProperties, EmptySeq, ElementOfSeq
<1>2. UNCHANGED <<m_chans, opened, owner, undefined>>
  BY DEF vars1
<1>3. MaxRetries \in Nat \ {0}
  BY RetriesAssumption
<1>4. CASE RetriesUsedUp(L[1])
  <2>1. /\ m_isConnected' = FALSE /\ m_transList' = <<>> /\ m_numInTransit' = n
        /\ written' = {} /\ m_timer' = running
        /\ results' = signalled \cup NotifyAll(L)
        /\ UNCHANGED <<m_waitingForRetryResponse, m_cli_seq>>
    BY <1>4 DEF ResendOldestTransaction, CloseConnection
  <2>2. m_waitingForRetryResponse /\ ~running
    BY <1>1, <1>3, <1>4 DEF RetriesUsedUp, Trans
  <2>3. results' \subseteq [id : 1 .. Len(owner), to : 1 .. opened, outcome : Outcomes]
    <3>1. ASSUME NEW i \in DOMAIN L
          PROVE  Signal(L[i], "timeout") \subseteq
                    [id : 1 .. Len(owner), to : 1 .. opened, outcome : Outcomes]
      <4>1. i \in 1 .. Len(L) /\ L[i] \in Trans
        BY LenProperties, ElementOfSeq
      <4>2. "timeout" \in Outcomes
        BY DEF Outcomes
      <4> QED
        BY <4>1, <4>2, SignalType
    <3> QED
      BY <2>1, <3>1 DEF NotifyAll
  <2>4. Len(m_transList') = 0 /\ m_transList' \in Seq(Trans)
    BY <2>1, EmptySeq
  <2>5. Typed'
    <3>1. \A i \in 1 .. Len(m_transList') : m_transList'[i].ctx \in 1 .. Len(m_chans')
      BY <2>4
    <3>2. m_isConnected' \in BOOLEAN /\ m_timer' \in BOOLEAN /\ m_numInTransit' \in Nat
      BY <2>1
    <3>3. written' \subseteq [id : Nat \ {0}, seq : SeqNums]
      BY <2>1
    <3> QED
      BY <1>2, <2>1, <2>3, <2>4, <3>1, <3>2, <3>3 DEF Typed
  <2>6. Window'
    BY <2>1, <2>2, <2>4 DEF Window
  <2> QED
    BY <2>1, <2>5, <2>6
<1>5. CASE ~RetriesUsedUp(L[1])
  <2>1. /\ m_transList' = AfterResend(L) /\ m_numInTransit' = n + 1
        /\ m_waitingForRetryResponse' = TRUE
        /\ m_cli_seq' = AfterResend(L)[1].cli_seq
        /\ written' = {Datagram(AfterResend(L)[1])}
        /\ m_timer' = TRUE /\ results' = signalled
        /\ UNCHANGED m_isConnected
    BY <1>5 DEF ResendOldestTransaction
  <2>2. /\ AfterResend(L) \in Seq(Trans)
        /\ Len(AfterResend(L)) = Len(L)
        /\ AfterResend(L)[1].sendCount = L[1].sendCount + 1
        /\ \A i \in 2 .. Len(L) : AfterResend(L)[i].sendCount = 0
        /\ \A i \in 1 .. Len(L) : /\ AfterResend(L)[i].id = L[i].id
                                  /\ AfterResend(L)[i].ctx = L[i].ctx
    BY AfterResendList
  <2>3. AfterResend(L)[1] \in Trans
    BY <1>1, <2>2, ElementOfSeq
  <2>4. m_cli_seq' \in SeqNums /\ written' \subseteq [id : Nat \ {0}, seq : SeqNums]
    BY <2>1, <2>3 DEF Datagram, Trans
  <2>5. m_transList'[1].sendCount \in 1 .. (MaxRetries + 1)
    <3>1. L[1].sendCount \in Nat /\ L[1].sendCount >= 1 /\ L[1].sendCount <= MaxRetries
      BY <1>3, <1>5 DEF RetriesUsedUp
    <3>2. m_transList'[1].sendCount = L[1].sendCount + 1
      BY <2>1, <2>2
    <3> QED
      BY <1>3, <3>1, <3>2
  <2>6. m_transList' # <<>>
    BY <1>1, <2>1, <2>2, EmptySeq
  <2>7. Typed'
    <3>1. m_transList' \in Seq(Trans)
          /\ \A i \in 1 .. Len(m_transList') : m_transList'[i].ctx \in 1 .. Len(m_chans')
      BY <1>2, <2>1, <2>2
    <3>2. /\ m_isConnected' \in BOOLEAN /\ m_timer' \in BOOLEAN /\ m_numInTransit' \in Nat
          /\ m_waitingForRetryResponse' \in BOOLEAN
      BY <2>1 DEF Typed
    <3>3. results' \subseteq [id : 1 .. Len(owner'), to : 1 .. opened', outcome : Outcomes]
      BY <1>2, <2>1
    <3>4. /\ opened' \in Nat /\ m_chans' \in Seq(0 .. opened')
          /\ owner' \in Seq(1 .. opened') /\ undefined' \in BOOLEAN
      BY <1>2 DEF Typed
    <3> QED
      BY <2>4, <3>1, <3>2, <3>3, <3>4 DEF Typed
  <2>8. Window'
    BY <2>1, <2>2, <2>5, <2>6 DEF Window
  <2> QED
    BY <2>1, <2>2, <2>7, <2>8
<1> QED
  BY <1>4, <1>5

--------------------------------------------------------------------------------
(* Each action keeps the invariant.                                          *)

\* The state left by an accepted connection: nothing pending, no timer.
LEMMA InitIInv == Init => IInv
<1> SUFFICES ASSUME Init PROVE IInv
  OBVIOUS
<1>1. m_cli_seq \in SeqNums
  BY SeqSpaceAssumption DEF Init, SeqNums
<1>2. \A S : <<>> \in Seq(S) /\ Len(<<>>) = 0
  BY EmptySeq
<1>3. Typed
  <2>1. m_transList \in Seq(Trans) /\ m_chans \in Seq(0 .. opened) /\ owner \in Seq(1 .. opened)
    BY <1>2 DEF Init
  <2>2. \A i \in 1 .. Len(m_transList) : m_transList[i].ctx \in 1 .. Len(m_chans)
    BY <1>2 DEF Init
  <2> QED
    BY <1>1, <2>1, <2>2 DEF Typed, Init
<1>4. Consecutive
  BY <1>2 DEF Init, Consecutive
<1>5. Window
  <2>1. WindowEnd(<<>>) = 0
    BY <1>2, PipelineAssumption DEF WindowEnd
  <2>2. SentOnce(<<>>, 0)
    BY <1>2 DEF SentOnce
  <2> QED
    BY <2>1, <2>2 DEF Init, Window
<1> QED
  BY <1>3, <1>4, <1>5 DEF IInv

\* Steps that leave the connection alone and grow neither owner nor results.
LEMMA QuietStep ==
    ASSUME IInv, written' = {}, undefined' \in BOOLEAN,
           UNCHANGED <<m_isConnected, m_transList, m_numInTransit, m_cli_seq, m_timer,
                       m_waitingForRetryResponse, m_chans, opened, owner, results>>
    PROVE  IInv'
<1>1. Typed'
  BY DEF IInv, Typed
<1>2. Consecutive'
  BY DEF IInv, Consecutive
<1>3. Window'
  BY DEF IInv, Window
<1> QED
  BY <1>1, <1>2, <1>3 DEF IInv

\* openChannel: a new channel, in an old slot or a new one, leaves the window alone.
LEMMA OpenChannelIInv ==
    ASSUME IInv, OpenChannel
    PROVE  IInv'
<1>1. /\ opened' = opened + 1 /\ written' = {}
      /\ UNCHANGED <<m_isConnected, m_transList, m_numInTransit, m_cli_seq, m_timer,
                     m_waitingForRetryResponse, owner, results, undefined>>
  BY DEF OpenChannel
<1>2. opened \in Nat /\ opened' \in Nat
  BY <1>1 DEF IInv, Typed
<1>3. m_chans \in Seq(0 .. opened') /\ owner \in Seq(1 .. opened')
  <2>1. 0 .. opened \subseteq 0 .. opened' /\ 1 .. opened \subseteq 1 .. opened'
    BY <1>1, <1>2
  <2> QED
    BY <2>1, SeqMonotonic DEF IInv, Typed
<1>4. m_chans' \in Seq(0 .. opened') /\ Len(m_chans) <= Len(m_chans') /\ Len(m_chans) \in Nat
  <2>1. m_chans \in [1 .. Len(m_chans) -> 0 .. opened'] /\ Len(m_chans) \in Nat
    BY <1>3, LenProperties
  <2>2. CASE FreeSlots = {}
    <3>1. m_chans' = Append(m_chans, opened')
      BY <1>1, <2>2 DEF OpenChannel
    <3>2. opened' \in 0 .. opened'
      BY <1>2
    <3> QED
      BY <1>3, <2>1, <3>1, <3>2, AppendProperties
  <2>3. CASE FreeSlots # {}
    <3> DEFINE slot == CHOOSE s \in FreeSlots : \A r \in FreeSlots : s <= r
    <3>1. m_chans' = [m_chans EXCEPT ![slot] = opened']
      BY <1>1, <2>3 DEF OpenChannel
    <3>2. m_chans' \in [1 .. Len(m_chans) -> 0 .. opened']
      <4>1. opened' \in 0 .. opened'
        BY <1>2
      <4>2. DOMAIN m_chans = 1 .. Len(m_chans) /\ \A k \in 1 .. Len(m_chans) : m_chans[k] \in 0 .. opened'
        BY <2>1
      <4>3. m_chans' = [k \in 1 .. Len(m_chans) |-> IF k = slot THEN opened' ELSE m_chans[k]]
        <5> HIDE DEF slot
        <5> QED
          BY <3>1, <4>2
      <4> QED
        <5> HIDE DEF slot
        <5> QED
          BY <4>1, <4>2, <4>3
    <3>3. m_chans' \in Seq(0 .. opened')
      BY <2>1, <3>2, SeqDef
    <3>5. Len(m_chans') = Len(m_chans)
      <4>1. Len(m_chans') \in Nat /\ DOMAIN m_chans' = 1 .. Len(m_chans')
        BY <3>3, LenProperties
      <4>2. DOMAIN m_chans' = 1 .. Len(m_chans)
        BY <3>2
      <4>3. \A a, b \in Nat : 1 .. a = 1 .. b => a = b
        OBVIOUS
      <4> QED
        BY <2>1, <4>1, <4>2, <4>3
    <3> QED
      BY <2>1, <3>3, <3>5
  <2> QED
    BY <2>2, <2>3
<1>5. results' \subseteq [id : 1 .. Len(owner'), to : 1 .. opened', outcome : Outcomes]
  BY <1>1, <1>2 DEF IInv, Typed
<1>6. \A i \in 1 .. Len(m_transList') : m_transList'[i].ctx \in 1 .. Len(m_chans')
  <2>1. \A i \in 1 .. Len(m_transList) : m_transList[i].ctx \in 1 .. Len(m_chans)
    BY DEF IInv, Typed
  <2>2. Len(m_chans') \in Nat
    BY <1>4, LenProperties
  <2> QED
    BY <1>1, <1>4, <2>1, <2>2
<1>7. Typed'
  BY <1>1, <1>2, <1>3, <1>4, <1>5, <1>6 DEF IInv, Typed
<1>8. Consecutive' /\ Window'
  BY <1>1 DEF IInv, Consecutive, Window
<1> QED
  BY <1>7, <1>8 DEF IInv

\* RwChannel::dispose: pending transactions keep referring to an existing slot.
LEMMA DisposeIInv ==
    ASSUME IInv, NEW s \in DOMAIN m_chans, Dispose(s)
    PROVE  IInv'
<1>1. /\ m_chans' = [m_chans EXCEPT ![s] = 0] /\ written' = {}
      /\ UNCHANGED <<m_isConnected, m_transList, m_numInTransit, m_cli_seq, m_timer,
                     m_waitingForRetryResponse, opened, owner, results, undefined>>
  BY DEF Dispose
<1>2. m_chans' \in Seq(0 .. opened') /\ Len(m_chans') = Len(m_chans)
  <2>1. m_chans \in Seq(0 .. opened) /\ opened \in Nat /\ 0 \in 0 .. opened
    BY DEF IInv, Typed
  <2>2. s \in 1 .. Len(m_chans)
    BY <2>1, LenProperties
  <2> QED
    BY <1>1, <2>1, <2>2, ExceptSeq
<1>3. Typed'
  BY <1>1, <1>2 DEF IInv, Typed
<1>4. Consecutive' /\ Window'
  BY <1>1 DEF IInv, Consecutive, Window
<1> QED
  BY <1>3, <1>4 DEF IInv

\* A request becomes finitely many transactions.
LEMMA NumPiecesType ==
    ASSUME NEW n \in RequestSizes
    PROVE  NumPieces(n) \in Nat
<1>1. n \in Nat /\ 0 \in Int /\ n - 1 \in Int
  BY SizesAssumption
<1>2. IsFiniteSet(0 .. (n - 1))
  BY <1>1, FS_Interval
<1>3. IsFiniteSet({o \in 0 .. (n - 1) : o % MaxPayloadWords = 0})
  BY <1>2, FS_Subset
<1> QED
  BY <1>3, FS_CardinalityType DEF NumPieces

\* The list with the transactions of a new request at its end.
LEMMA RwList ==
    ASSUME IInv, NEW s \in 1 .. Len(m_chans), NEW p \in Nat
    PROVE  /\ PushBack(s, p) \in Seq(Trans)
           /\ Len(PushBack(s, p)) = Len(m_transList) + p
           /\ \A i \in 1 .. Len(m_transList) : PushBack(s, p)[i] = m_transList[i]
           /\ \A i \in (Len(m_transList) + 1) .. Len(m_transList) + p :
                    PushBack(s, p)[i] = Transaction(Len(owner) + (i - Len(m_transList)), s)
<1> DEFINE new == [k \in 1 .. p |-> Transaction(Len(owner) + k, s)]
<1>1. m_transList \in Seq(Trans) /\ Len(m_transList) \in Nat
  BY LenProperties DEF IInv, Typed
<1>2. Len(owner) \in Nat /\ Len(m_chans) \in Nat
  BY LenProperties DEF IInv, Typed
<1>3. \A k \in 1 .. p : Transaction(Len(owner) + k, s) \in Trans
  BY <1>2, SeqSpaceAssumption DEF Transaction, Trans, SeqNums
<1>4. new \in Seq(Trans) /\ Len(new) = p
  <2>1. new \in [1 .. p -> Trans]
    BY <1>3
  <2> HIDE DEF new
  <2> QED
    BY <2>1, SeqOfFunction
<1>5. \A i \in 1 .. p : new[i] = Transaction(Len(owner) + i, s)
  OBVIOUS
<1> HIDE DEF new
<1>6. PushBack(s, p) = m_transList \o new
  BY DEF PushBack, new
<1>7. /\ m_transList \o new \in Seq(Trans)
      /\ Len(m_transList \o new) = Len(m_transList) + Len(new)
      /\ \A i \in 1 .. Len(m_transList) + Len(new) :
            (m_transList \o new)[i] = IF i <= Len(m_transList)
                                       THEN m_transList[i] ELSE new[i - Len(m_transList)]
  BY <1>1, <1>4, ConcatProperties
<1> QED
  BY <1>1, <1>4, <1>5, <1>6, <1>7

\* Gemini_comms::rw: the new pieces go to the end and the window is topped up,
\* or not, when the answer to a retry is awaited.
LEMMA RwIInv ==
    ASSUME IInv, NEW s \in DOMAIN m_chans, NEW numRegs \in RequestSizes, Rw(s, numRegs)
    PROVE  IInv'
<1> DEFINE p == NumPieces(numRegs)
           L == PushBack(s, p)
           asked == [k \in 1 .. p |-> m_chans[s]]
<1>1. /\ m_isConnected /\ m_chans[s] # 0
      /\ owner' = owner \o asked
      /\ UNCHANGED <<m_isConnected, m_waitingForRetryResponse, m_chans, opened,
                     results, undefined>>
  BY DEF Rw
<1>2. p \in Nat
  BY NumPiecesType
<1>3. s \in 1 .. Len(m_chans) /\ m_chans[s] \in 1 .. opened
  <2>1. s \in 1 .. Len(m_chans)
    BY LenProperties DEF IInv, Typed
  <2>2. m_chans[s] \in 0 .. opened
    BY <2>1, ElementOfSeq DEF IInv, Typed
  <2> QED
    BY <1>1, <2>1, <2>2 DEF IInv, Typed
<1>4. owner' \in Seq(1 .. opened') /\ Len(owner') = Len(owner) + p
  <2>1. asked \in [1 .. p -> 1 .. opened]
    BY <1>3
  <2>2. asked \in Seq(1 .. opened) /\ Len(asked) = p
    <3> HIDE DEF asked, p
    <3> QED
      BY <1>2, <2>1, SeqOfFunction
  <2> HIDE DEF asked
  <2> QED
    <3>1. owner \in Seq(1 .. opened) /\ opened' = opened
      BY <1>1 DEF IInv, Typed
    <3>2. owner \o asked \in Seq(1 .. opened) /\ Len(owner \o asked) = Len(owner) + Len(asked)
      BY <2>2, <3>1, ConcatProperties
    <3> QED
      BY <1>1, <2>2, <3>1, <3>2
<1>5. /\ L \in Seq(Trans) /\ Len(L) = Len(m_transList) + p
      /\ \A i \in 1 .. Len(m_transList) : L[i] = m_transList[i]
      /\ \A i \in (Len(m_transList) + 1) .. Len(L) :
                L[i] = Transaction(Len(owner) + (i - Len(m_transList)), s)
  <2> HIDE DEF p
  <2> QED
    BY <1>2, <1>3, RwList
<1>6. Len(m_transList) \in Nat /\ Len(owner) \in Nat /\ Len(L) \in Nat /\ PipelineLen \in Nat \ {0}
  BY <1>2, <1>5, LenProperties, PipelineAssumption DEF IInv, Typed
<1> HIDE DEF L, p, asked
\* The new list, before anything of it is sent.
<1>7. \A i \in 1 .. Len(L) : /\ L[i].ctx \in 1 .. Len(m_chans)
                             /\ L[i].id = Len(owner') - Len(L) + i
                             /\ i > Len(m_transList) => L[i].sendCount = 0
  <2> SUFFICES ASSUME NEW i \in 1 .. Len(L)
               PROVE  /\ L[i].ctx \in 1 .. Len(m_chans)
                      /\ L[i].id = Len(owner') - Len(L) + i
                      /\ i > Len(m_transList) => L[i].sendCount = 0
    OBVIOUS
  <2>1. CASE i <= Len(m_transList)
    <3>1. i \in 1 .. Len(m_transList)
      BY <1>6, <2>1
    <3>2. /\ m_transList[i].ctx \in 1 .. Len(m_chans)
          /\ m_transList[i].id = Len(owner) - Len(m_transList) + i
      BY <3>1 DEF IInv, Typed, Consecutive
    <3> QED
      BY <1>2, <1>4, <1>5, <1>6, <2>1, <3>1, <3>2
  <2>2. CASE i > Len(m_transList)
    <3>1. L[i] = Transaction(Len(owner) + (i - Len(m_transList)), s)
      BY <1>5, <1>6, <2>2
    <3> QED
      BY <1>2, <1>3, <1>4, <1>5, <1>6, <3>1 DEF Transaction
  <2> QED
    BY <1>6, <2>1, <2>2
<1>8. results' \subseteq [id : 1 .. Len(owner'), to : 1 .. opened', outcome : Outcomes]
  BY <1>1, <1>2, <1>4, <1>6 DEF IInv, Typed
<1>9. Len(L) <= Len(owner')
  BY <1>2, <1>4, <1>5, <1>6 DEF IInv, Consecutive
<1>10. CASE m_waitingForRetryResponse
  <2>1. /\ m_transList' = L /\ written' = {}
        /\ UNCHANGED <<m_numInTransit, m_cli_seq, m_timer>>
    BY <1>10 DEF Rw, L, p
  <2>2. Typed'
    BY <1>1, <1>4, <1>5, <1>7, <1>8, <2>1 DEF IInv, Typed
  <2>3. Consecutive'
    BY <1>7, <1>9, <2>1 DEF Consecutive
  <2>4. m_transList # <<>> /\ Len(m_transList) >= 1
    BY <1>1, <1>6, <1>10, EmptySeq DEF IInv, Window, Typed
  <2>5. m_transList' # <<>>
    BY <1>2, <1>5, <1>6, <2>1, <2>4, EmptySeq
  <2>6. m_transList'[1].sendCount \in 1 .. (MaxRetries + 1)
    BY <1>5, <1>6, <1>10, <2>1, <2>4 DEF IInv, Window
  <2>7. \A i \in 2 .. Len(m_transList') : m_transList'[i].sendCount = 0
    <3> SUFFICES ASSUME NEW i \in 2 .. Len(L) PROVE L[i].sendCount = 0
      BY <2>1
    <3>1. CASE i <= Len(m_transList)
      BY <1>5, <1>6, <1>10, <2>4, <3>1 DEF IInv, Window
    <3>2. CASE i > Len(m_transList)
      BY <1>6, <1>7, <3>2
    <3> QED
      BY <1>6, <3>1, <3>2
  <2>8. Window'
    BY <1>1, <1>10, <2>1, <2>4, <2>5, <2>6, <2>7 DEF IInv, Window
  <2> QED
    BY <2>2, <2>3, <2>8 DEF IInv
<1>11. CASE ~m_waitingForRetryResponse
  <2>1. TrySendTransactions(L, m_numInTransit, m_timer)
    BY <1>11 DEF Rw, L, p
  <2>2. /\ m_numInTransit = WindowEnd(m_transList) /\ SentOnce(m_transList, m_numInTransit)
        /\ m_timer \in BOOLEAN /\ m_cli_seq \in SeqNums
        /\ m_timer <=> m_transList # <<>>
    BY <1>11 DEF IInv, Window, Typed
  <2>3. m_numInTransit \in 0 .. Len(m_transList) /\ m_numInTransit <= PipelineLen
    BY <1>6, <2>2 DEF WindowEnd
  <2>4. SentOnce(L, m_numInTransit)
    <3>1. \A i \in 1 .. Len(m_transList) :
                L[i].sendCount = IF i <= m_numInTransit THEN 1 ELSE 0
      BY <1>5, <2>2 DEF SentOnce
    <3> QED
      BY <1>2, <1>5, <1>6, <1>7, <2>3, <3>1 DEF SentOnce
  <2>5. m_timer <=> m_numInTransit > 0
    <3>1. m_transList # <<>> <=> Len(m_transList) > 0
      BY <1>6, EmptySeq DEF IInv, Typed
    <3> QED
      BY <1>6, <2>2, <3>1 DEF WindowEnd
  <2>6. /\ m_transList' \in Seq(Trans)
        /\ Len(m_transList') = Len(L)
        /\ \A i \in 1 .. Len(L) : m_transList'[i].id = L[i].id /\ m_transList'[i].ctx = L[i].ctx
        /\ m_numInTransit' \in Nat
        /\ m_numInTransit' = WindowEnd(m_transList')
        /\ SentOnce(m_transList', m_numInTransit')
        /\ m_cli_seq' \in SeqNums
        /\ written' \subseteq [id : Nat \ {0}, seq : SeqNums]
        /\ m_timer' \in BOOLEAN
        /\ m_timer' <=> m_transList' # <<>>
    BY <1>5, <2>1, <2>2, <2>3, <2>4, <2>5, TrySendStep
  <2>7. Typed'
    BY <1>1, <1>4, <1>7, <1>8, <2>6 DEF IInv, Typed
  <2>8. Consecutive'
    BY <1>7, <1>9, <2>6 DEF Consecutive
  <2>9. Window'
    BY <1>1, <1>11, <2>6 DEF Window, WindowEnd, SentOnce
  <2> QED
    BY <2>7, <2>8, <2>9 DEF IInv
<1> QED
  BY <1>10, <1>11

\* RwChannel::rw on a failed connection only reports a timeout.
LEMMA RwNotConnectedIInv ==
    ASSUME IInv, NEW s \in DOMAIN m_chans, RwNotConnected(s)
    PROVE  IInv'
<1>1. /\ ~m_isConnected /\ m_chans[s] # 0
      /\ owner' = Append(owner, m_chans[s])
      /\ results' = results \cup
            {[id |-> Len(owner) + 1, to |-> m_chans[s], outcome |-> "timeout"]}
      /\ written' = {}
      /\ UNCHANGED <<m_isConnected, m_transList, m_numInTransit, m_cli_seq, m_timer,
                     m_waitingForRetryResponse, m_chans, opened, undefined>>
  BY DEF RwNotConnected
<1>2. m_chans[s] \in 1 .. opened
  <2>1. s \in 1 .. Len(m_chans)
    BY LenProperties DEF IInv, Typed
  <2>2. m_chans[s] \in 0 .. opened
    BY <2>1, ElementOfSeq DEF IInv, Typed
  <2> QED
    BY <1>1, <2>2 DEF IInv, Typed
<1>3. owner' \in Seq(1 .. opened') /\ Len(owner') = Len(owner) + 1 /\ Len(owner) \in Nat
  BY <1>1, <1>2, AppendProperties, LenProperties DEF IInv, Typed
<1>4. results' \subseteq [id : 1 .. Len(owner'), to : 1 .. opened', outcome : Outcomes]
  BY <1>1, <1>2, <1>3 DEF IInv, Typed, Outcomes
<1>5. Typed'
  BY <1>1, <1>3, <1>4 DEF IInv, Typed
<1>6. Len(m_transList) = 0
  BY <1>1, EmptySeq DEF IInv, Window
<1>7. Consecutive'
  BY <1>1, <1>3, <1>6 DEF Consecutive
<1>8. Window'
  BY <1>1 DEF IInv, Window
<1> QED
  BY <1>5, <1>7, <1>8 DEF IInv

\* What the invariant says of the oldest pending transaction.
LEMMA FrontFacts ==
    ASSUME IInv, m_transList # <<>>
    PROVE  /\ m_isConnected
           /\ Len(m_transList) \in Nat /\ Len(m_transList) >= 1 /\ Len(owner) \in Nat
           /\ \A i \in 1 .. Len(m_transList) :
                /\ m_transList[i] \in Trans
                /\ m_transList[i].ctx \in 1 .. Len(m_chans)
                /\ m_transList[i].id \in 1 .. Len(owner)
           /\ m_transList[1].sendCount \in 1 .. (MaxRetries + 1)
           /\ m_transList[1].sendCount > 1 => m_waitingForRetryResponse
<1>1. m_transList \in Seq(Trans)
  BY DEF IInv, Typed
<1>2. Len(m_transList) \in Nat /\ Len(m_transList) >= 1 /\ Len(owner) \in Nat
  BY <1>1, LenProperties, EmptySeq DEF IInv, Typed
<1>3. m_isConnected
  BY DEF IInv, Window
<1>4. \A i \in 1 .. Len(m_transList) :
            /\ m_transList[i] \in Trans
            /\ m_transList[i].ctx \in 1 .. Len(m_chans)
            /\ m_transList[i].id \in 1 .. Len(owner)
  <2> TAKE i \in 1 .. Len(m_transList)
  <2>1. m_transList[i] \in Trans
    BY <1>1, ElementOfSeq
  <2>2. m_transList[i].ctx \in 1 .. Len(m_chans)
    BY DEF IInv, Typed
  <2>3. m_transList[i].id = Len(owner) - Len(m_transList) + i /\ Len(m_transList) <= Len(owner)
    BY DEF IInv, Consecutive
  <2> QED
    BY <1>2, <2>1, <2>2, <2>3
<1>5. CASE m_waitingForRetryResponse
  BY <1>2, <1>3, <1>4, <1>5 DEF IInv, Window
<1>6. CASE ~m_waitingForRetryResponse
  <2>1. m_numInTransit >= 1 /\ SentOnce(m_transList, m_numInTransit)
    BY <1>2, <1>6, PipelineAssumption DEF IInv, Window, WindowEnd
  <2>2. m_transList[1].sendCount = 1
    BY <1>2, <2>1 DEF SentOnce
  <2> QED
    BY <1>2, <1>3, <1>4, <2>2, RetriesAssumption
<1> QED
  BY <1>5, <1>6

\* Going back to the front of the whole list.
LEMMA ResendFrontIInv ==
    ASSUME IInv, m_transList # <<>>,
           NEW STATE running, running \in BOOLEAN,
           m_waitingForRetryResponse => ~running,
           ResendOldestTransaction(m_transList, m_numInTransit, running, results),
           UNCHANGED vars1
    PROVE  IInv'
<1>1. /\ m_isConnected
      /\ \A i \in 1 .. Len(m_transList) :
            /\ m_transList[i].ctx \in 1 .. Len(m_chans)
            /\ m_transList[i].id \in 1 .. Len(owner)
      /\ m_transList[1].sendCount \in 1 .. (MaxRetries + 1)
      /\ m_transList[1].sendCount > 1 => m_waitingForRetryResponse /\ ~running
  BY FrontFacts
<1>2. Typed /\ Consecutive /\ m_transList \in Seq(Trans) /\ m_numInTransit \in Nat
      /\ results \subseteq [id : 1 .. Len(owner), to : 1 .. opened, outcome : Outcomes]
  BY DEF IInv, Typed
<1>3. /\ Typed' /\ Window'
      /\ \/ m_transList' = <<>>
         \/ /\ Len(m_transList') = Len(m_transList)
            /\ \A i \in 1 .. Len(m_transList) : m_transList'[i].id = m_transList[i].id
  BY <1>1, <1>2, ResendStep
<1>4. owner' = owner /\ Len(owner) \in Nat
  BY <1>2, LenProperties DEF vars1, Typed
<1>5. Consecutive'
  <2>1. CASE m_transList' = <<>>
    BY <1>4, <2>1, EmptySeq DEF Consecutive
  <2>2. CASE /\ Len(m_transList') = Len(m_transList)
             /\ \A i \in 1 .. Len(m_transList) : m_transList'[i].id = m_transList[i].id
    BY <1>2, <1>4, <2>2 DEF Consecutive
  <2> QED
    BY <1>3, <2>1, <2>2
<1> QED
  BY <1>3, <1>5 DEF IInv

\* onPktRxReady on anything but the expected reply: resend, give up or ignore.
LEMMA RxMismatchIInv ==
    ASSUME IInv, NEW pkt \in Packet, RxMismatch(pkt)
    PROVE  IInv'
<1>1. m_transList # <<>> /\ UNCHANGED vars1
  BY DEF RxMismatch, vars1
<1>2. CASE MayRetry
  <2>1. ~m_waitingForRetryResponse /\ m_timer \in BOOLEAN
    BY <1>2 DEF MayRetry, IInv, Typed
  <2>2. ResendOldestTransaction(m_transList, m_numInTransit, m_timer, results)
    BY <1>2 DEF RxMismatch
  <2> QED
    BY <1>1, <2>1, <2>2, ResendFrontIInv
<1>3. CASE ~MayRetry
  BY <1>1, <1>3, QuietStep DEF RxMismatch, vars1, IInv, Typed
<1> QED
  BY <1>2, <1>3

\* onPktTimeout: since the timer guards pending transactions there is one to resend.
LEMMA OnPktTimeoutIInv ==
    ASSUME IInv, OnPktTimeout
    PROVE  IInv'
<1>1. CASE m_transList # <<>>
  <2>1. /\ ResendOldestTransaction(m_transList, m_numInTransit, FALSE, results)
        /\ UNCHANGED vars1
    BY <1>1 DEF OnPktTimeout, ReadFrontOfEmptyList, vars1
  <2> QED
    BY <1>1, <2>1, ResendFrontIInv
<1>2. CASE m_transList = <<>>
  BY <1>2 DEF OnPktTimeout, IInv, Window
<1> QED
  BY <1>1, <1>2

\* When the oldest transaction is retired, what is left has the first
\* InFlightAfterReply transactions in flight.
LEMMA RetireFront ==
    ASSUME IInv, m_transList # <<>>
    PROVE  /\ Retire(m_transList) \in Seq(Trans)
           /\ Len(Retire(m_transList)) = Len(m_transList) - 1
           /\ \A i \in 1 .. Len(Retire(m_transList)) :
                    Retire(m_transList)[i] = m_transList[i + 1]
           /\ SentOnce(Retire(m_transList), InFlightAfterReply)
           /\ InFlightAfterReply \in Nat
           /\ InFlightAfterReply <= PipelineLen
<1> DEFINE rest == Retire(m_transList)
<1>1. m_transList \in Seq(Trans) /\ Len(m_transList) \in Nat /\ Len(m_transList) >= 1
  BY FrontFacts DEF IInv, Typed
<1>2. /\ rest \in Seq(Trans) /\ Len(rest) = Len(m_transList) - 1
      /\ \A i \in 1 .. Len(rest) : rest[i] = m_transList[i + 1]
  BY <1>1, HeadTailProperties DEF Retire
<1>3. PipelineLen \in Nat \ {0}
  BY PipelineAssumption
<1> HIDE DEF rest
<1>4. CASE m_waitingForRetryResponse
  <2>1. InFlightAfterReply = 0
    BY <1>4 DEF InFlightAfterReply
  <2>2. \A i \in 2 .. Len(m_transList) : m_transList[i].sendCount = 0
    BY <1>4 DEF IInv, Window
  <2>3. \A i \in 1 .. Len(rest) : rest[i].sendCount = 0
    BY <1>1, <1>2, <2>2
  <2>4. SentOnce(rest, 0)
    BY <1>1, <1>2, <2>3 DEF SentOnce
  <2> QED
    BY <1>2, <1>3, <2>1, <2>4 DEF rest
<1>5. CASE ~m_waitingForRetryResponse
  <2>1. InFlightAfterReply = m_numInTransit - 1
    BY <1>5 DEF InFlightAfterReply
  <2>2. m_numInTransit = WindowEnd(m_transList) /\ SentOnce(m_transList, m_numInTransit)
    BY <1>5 DEF IInv, Window
  <2>3. m_numInTransit \in 1 .. Len(m_transList) /\ m_numInTransit <= PipelineLen
    BY <1>1, <1>3, <2>2 DEF WindowEnd
  <2>4. SentOnce(rest, m_numInTransit - 1)
    <3>1. ASSUME NEW i \in 1 .. Len(rest)
          PROVE  rest[i].sendCount = IF i <= m_numInTransit - 1 THEN 1 ELSE 0
      <4>1. i + 1 \in 1 .. Len(m_transList) /\ rest[i] = m_transList[i + 1]
        BY <1>1, <1>2
      <4>2. m_transList[i + 1].sendCount = IF i + 1 <= m_numInTransit THEN 1 ELSE 0
        BY <2>2, <4>1 DEF SentOnce
      <4>3. i + 1 <= m_numInTransit <=> i <= m_numInTransit - 1
        BY <1>1, <2>3
      <4> QED
        BY <4>1, <4>2, <4>3
    <3> QED
      BY <1>1, <1>2, <2>3, <3>1 DEF SentOnce
  <2> QED
    BY <1>2, <1>3, <2>1, <2>3, <2>4 DEF rest
<1> QED
  BY <1>4, <1>5

\* onPktRxReady on the expected reply: the rest of the list is a window again,
\* or its front is resent because its deadline has passed.
LEMMA RxReplyIInv ==
    ASSUME IInv, NEW pkt \in Packet, NEW expired \in BOOLEAN, RxReply(pkt, expired)
    PROVE  IInv'
<1> DEFINE rest == Retire(m_transList)
           nextSent == rest # <<>> /\ rest[1].sendCount > 0
           signalled == results \cup Signal(m_transList[1], pkt.op)
           n == InFlightAfterReply
<1>1. /\ m_transList # <<>> /\ pkt.op \in {"ACK", "NACKP"}
      /\ UNCHANGED <<m_chans, opened, owner, undefined>>
  BY DEF RxReply
<1>2. /\ m_isConnected
      /\ Len(m_transList) \in Nat /\ Len(m_transList) >= 1 /\ Len(owner) \in Nat
      /\ \A i \in 1 .. Len(m_transList) :
            /\ m_transList[i] \in Trans
            /\ m_transList[i].ctx \in 1 .. Len(m_chans)
            /\ m_transList[i].id \in 1 .. Len(owner)
  BY <1>1, FrontFacts
<1>3. Typed /\ Consecutive /\ m_cli_seq \in SeqNums
  BY DEF IInv, Typed
<1>4. signalled \subseteq [id : 1 .. Len(owner), to : 1 .. opened, outcome : Outcomes]
  <2>1. m_transList[1] \in Trans /\ m_transList[1].ctx \in 1 .. Len(m_chans)
        /\ m_transList[1].id \in 1 .. Len(owner) /\ pkt.op \in Outcomes
    BY <1>1, <1>2 DEF Outcomes
  <2>2. Signal(m_transList[1], pkt.op) \subseteq
            [id : 1 .. Len(owner), to : 1 .. opened, outcome : Outcomes]
    BY <1>3, <2>1, SignalType
  <2> QED
    BY <1>3, <2>2 DEF Typed
<1>5. /\ rest \in Seq(Trans) /\ Len(rest) = Len(m_transList) - 1
      /\ \A i \in 1 .. Len(rest) : rest[i] = m_transList[i + 1]
      /\ SentOnce(rest, n) /\ n \in Nat /\ n <= PipelineLen
  BY <1>1, RetireFront
<1>6. nextSent <=> n > 0
  <2>1. rest # <<>> <=> Len(rest) >= 1
    BY <1>2, <1>5, EmptySeq
  <2> QED
    BY <1>2, <1>5, <2>1 DEF SentOnce
<1>7. /\ \/ /\ nextSent /\ expired
            /\ ResendOldestTransaction(rest, n, FALSE, signalled)
         \/ /\ m_waitingForRetryResponse' = FALSE
            /\ results' = signalled
            /\ TrySendTransactions(rest, n, nextSent)
            /\ UNCHANGED m_isConnected
  BY DEF RxReply
<1> HIDE DEF rest, signalled, n
\* What is left are still the last transactions submitted.
<1>8. /\ Len(rest) <= Len(owner)
      /\ \A i \in 1 .. Len(rest) : /\ rest[i].id = Len(owner) - Len(rest) + i
                                   /\ rest[i].ctx \in 1 .. Len(m_chans)
                                   /\ rest[i].id \in 1 .. Len(owner)
  <2>1. Len(m_transList) <= Len(owner)
    BY <1>3 DEF Consecutive
  <2>2. ASSUME NEW i \in 1 .. Len(rest)
        PROVE  /\ rest[i].id = Len(owner) - Len(rest) + i
               /\ rest[i].ctx \in 1 .. Len(m_chans)
               /\ rest[i].id \in 1 .. Len(owner)
    <3>1. i + 1 \in 1 .. Len(m_transList) /\ rest[i] = m_transList[i + 1]
      BY <1>2, <1>5
    <3>2. m_transList[i + 1].id = Len(owner) - Len(m_transList) + (i + 1)
      BY <1>3, <3>1 DEF Consecutive
    <3>3. /\ rest[i].id = m_transList[i + 1].id
          /\ rest[i].ctx \in 1 .. Len(m_chans)
          /\ rest[i].id \in 1 .. Len(owner)
      BY <1>2, <3>1
    <3>4. Len(rest) = Len(m_transList) - 1 /\ Len(m_transList) \in Nat /\ Len(owner) \in Nat
      BY <1>2, <1>5
    <3>5. Len(owner) - Len(m_transList) + (i + 1) = Len(owner) - Len(rest) + i
      BY <3>4
    <3> QED
      BY <3>2, <3>3, <3>5
  <2>3. Len(rest) <= Len(owner)
    BY <1>2, <1>5, <2>1
  <2> QED
    BY <2>2, <2>3
<1>9. CASE nextSent /\ expired /\ ResendOldestTransaction(rest, n, FALSE, signalled)
  <2>1. rest # <<>> /\ rest[1].sendCount = 1 /\ Len(rest) >= 1
    BY <1>2, <1>5, <1>6, <1>9, EmptySeq DEF SentOnce
  <2>2. rest[1].sendCount \in 1 .. (MaxRetries + 1) /\ ~(rest[1].sendCount > 1)
    BY <2>1, RetriesAssumption
  <2>3. UNCHANGED vars1
    BY <1>1 DEF vars1
  <2>4. /\ Typed' /\ Window'
        /\ \/ m_transList' = <<>>
           \/ /\ Len(m_transList') = Len(rest)
              /\ \A i \in 1 .. Len(rest) : m_transList'[i].id = rest[i].id
    BY <1>2, <1>3, <1>4, <1>5, <1>8, <1>9, <2>1, <2>2, <2>3, ResendStep
  <2>5. Consecutive'
    <3>1. CASE m_transList' = <<>>
      BY <1>1, <1>2, <3>1, EmptySeq DEF Consecutive
    <3>2. CASE /\ Len(m_transList') = Len(rest)
               /\ \A i \in 1 .. Len(rest) : m_transList'[i].id = rest[i].id
      BY <1>1, <1>8, <3>2 DEF Consecutive
    <3> QED
      BY <2>4, <3>1, <3>2
  <2> QED
    BY <2>4, <2>5 DEF IInv
<1>10. CASE /\ m_waitingForRetryResponse' = FALSE
            /\ results' = signalled
            /\ TrySendTransactions(rest, n, nextSent)
            /\ UNCHANGED m_isConnected
  <2> DEFINE running == nextSent
  <2>1. running \in BOOLEAN /\ (running <=> n > 0) /\ TrySendTransactions(rest, n, running)
    BY <1>6, <1>10
  <2> HIDE DEF running
  <2>2. /\ m_transList' \in Seq(Trans)
        /\ Len(m_transList') = Len(rest)
        /\ \A i \in 1 .. Len(rest) : /\ m_transList'[i].id = rest[i].id
                                     /\ m_transList'[i].ctx = rest[i].ctx
        /\ m_numInTransit' \in Nat
        /\ m_numInTransit' = WindowEnd(m_transList')
        /\ SentOnce(m_transList', m_numInTransit')
        /\ m_cli_seq' \in SeqNums
        /\ written' \subseteq [id : Nat \ {0}, seq : SeqNums]
        /\ m_timer' \in BOOLEAN
        /\ m_timer' <=> m_transList' # <<>>
    BY <1>3, <1>5, <2>1, TrySendStep
  <2>3. \A i \in 1 .. Len(m_transList') : m_transList'[i].ctx \in 1 .. Len(m_chans')
    BY <1>1, <1>8, <2>2
  <2>4. Typed'
    BY <1>1, <1>3, <1>4, <1>10, <2>2, <2>3 DEF Typed
  <2>5. Consecutive'
    BY <1>1, <1>8, <2>2 DEF Consecutive
  <2>6. Window'
    BY <1>2, <1>10, <2>2 DEF Window
  <2> QED
    BY <2>4, <2>5, <2>6 DEF IInv
<1> QED
  BY <1>7, <1>9, <1>10

\* Every step keeps the inductive invariant.
LEMMA StepIInv == IInv /\ [Next]_vars => IInv'
<1> SUFFICES ASSUME IInv, [Next]_vars
             PROVE  IInv'
  OBVIOUS
<1>1. CASE OpenChannel
  BY <1>1, OpenChannelIInv
<1>2. ASSUME NEW s \in DOMAIN m_chans, Dispose(s) PROVE IInv'
  BY <1>2, DisposeIInv
<1>3. ASSUME NEW s \in DOMAIN m_chans, RwNotConnected(s) PROVE IInv'
  BY <1>3, RwNotConnectedIInv
<1>4. ASSUME NEW s \in DOMAIN m_chans, NEW n \in RequestSizes, Rw(s, n) PROVE IInv'
  BY <1>4, RwIInv
<1>5. CASE OnPktTimeout
  BY <1>5, OnPktTimeoutIInv
<1>6. ASSUME NEW pkt \in Packet, NEW expired \in BOOLEAN, OnPktRxReady(pkt, expired)
      PROVE  IInv'
  <2>1. CASE RxMalformed(pkt)
    BY <2>1, QuietStep DEF RxMalformed, IInv, Typed
  <2>2. CASE RxEmptyList(pkt)
    BY <2>2, QuietStep DEF RxEmptyList, ReadFrontOfEmptyList
  <2>3. CASE RxMismatch(pkt)
    BY <2>3, RxMismatchIInv
  <2>4. CASE RxUnexpected(pkt)
    BY <2>4, QuietStep DEF RxUnexpected, IInv, Typed
  <2>5. CASE RxReply(pkt, expired)
    BY <2>5, RxReplyIInv
  <2> QED
    BY <1>6, <2>1, <2>2, <2>3, <2>4, <2>5 DEF OnPktRxReady
<1>7. CASE UNCHANGED vars
  BY <1>7 DEF vars, IInv, Typed, Consecutive, Window
<1> QED
  BY <1>1, <1>2, <1>3, <1>4, <1>5, <1>6, <1>7 DEF Next, UserNext

\* The inductive invariant holds throughout.
THEOREM Invariant == Spec => []IInv
<1>1. Init => IInv
  BY InitIInv
<1>2. IInv /\ [Next]_vars => IInv'
  BY StepIInv
<1> QED
  BY <1>1, <1>2, PTL DEF Spec

--------------------------------------------------------------------------------
(* What follows from it.                                                     *)

\* Every variable always has its type; in particular the unsigned counter
\* m_numInTransit never wraps below zero.
THEOREM TypeCorrect == Spec => []TypeOK
<1>1. IInv => TypeOK
  <2> SUFFICES ASSUME Typed PROVE TypeOK
    BY DEF IInv
  <2> DEFINE T == [id : Nat \ {0}, ctx : 1 .. Len(m_chans), sendCount : Nat, cli_seq : SeqNums]
  <2>1. m_transList \in Seq(Trans) /\ Len(m_transList) \in Nat
        /\ m_transList \in [1 .. Len(m_transList) -> Trans]
    BY LenProperties DEF Typed
  <2>2. ASSUME NEW i \in 1 .. Len(m_transList)
        PROVE  m_transList[i] \in T
    BY <2>1, <2>2 DEF Typed, Trans
  <2>3. m_transList \in [1 .. Len(m_transList) -> T]
    BY <2>1, <2>2
  <2>4. m_transList \in Seq(T)
    <3> HIDE DEF T
    <3> QED
      BY <2>1, <2>3, SeqOfFunction
  <2> QED
    BY <2>4 DEF Typed, TypeOK
<1> QED
  BY <1>1, Invariant, PTL

\* In every behaviour, m_numInTransit counts the transactions sent, they are
\* the oldest, and they fit the pipeline.
THEOREM WindowCorrect == Spec => []WindowAccounting
<1>1. IInv => WindowAccounting
  <2> SUFFICES ASSUME IInv, ~m_waitingForRetryResponse PROVE WindowAccounting
    BY DEF WindowAccounting
  <2>1. /\ m_numInTransit = WindowEnd(m_transList) /\ SentOnce(m_transList, m_numInTransit)
        /\ m_transList \in Seq(Trans)
    BY DEF IInv, Window, Typed
  <2>2. Len(m_transList) \in Nat /\ DOMAIN m_transList = 1 .. Len(m_transList)
    BY <2>1, LenProperties
  <2> QED
    <3>1. \A i \in 1 .. Len(m_transList) :
                m_transList[i].sendCount > 0 <=> i <= m_numInTransit
      BY <2>1 DEF SentOnce
    <3>2. /\ m_numInTransit <= PipelineLen
          /\ m_numInTransit < PipelineLen => m_numInTransit = Len(m_transList)
          /\ m_numInTransit <= Len(m_transList)
      <4>1. m_numInTransit = IF Len(m_transList) < PipelineLen THEN Len(m_transList)
                                                               ELSE PipelineLen
        BY <2>1 DEF WindowEnd
      <4>2. PipelineLen \in Nat /\ Len(m_transList) \in Nat
        BY <2>2, PipelineAssumption
      <4> QED
        BY <4>1, <4>2
    <3> QED
      BY <2>2, <3>1, <3>2 DEF WindowAccounting
<1> QED
  BY <1>1, Invariant, PTL

\* While a retry is pending only the oldest transaction is marked as sent.
THEOREM RetryWindowCorrect == Spec => []RetryWindow
<1>1. IInv => RetryWindow
  <2> SUFFICES ASSUME IInv, m_isConnected, m_waitingForRetryResponse PROVE RetryWindow
    BY DEF RetryWindow
  <2>1. m_transList # <<>> /\ m_transList \in Seq(Trans)
    BY DEF IInv, Window, Typed
  <2>2. Len(m_transList) \in Nat /\ DOMAIN m_transList = 1 .. Len(m_transList)
    BY <2>1, LenProperties
  <2>3. ASSUME NEW i \in 1 .. Len(m_transList)
        PROVE  m_transList[i].sendCount > 0 <=> i = 1
    <3>1. CASE i = 1
      BY <2>1, <3>1 DEF IInv, Window
    <3>2. CASE i # 1
      BY <2>1, <2>2, <3>2 DEF IInv, Window
    <3> QED
      BY <3>1, <3>2
  <2> QED
    BY <2>1, <2>2, <2>3 DEF RetryWindow
<1> QED
  BY <1>1, Invariant, PTL

\* The timer runs exactly while something is pending.
THEOREM TimerCorrect == Spec => []TimerGuardsPending
<1>1. IInv => TimerGuardsPending
  BY DEF IInv, Window, TimerGuardsPending
<1> QED
  BY <1>1, Invariant, PTL

--------------------------------------------------------------------------------
(* Sequence numbers.                                                         *)

\* The id of the oldest pending transaction, less one: all the ids up to this
\* one have been retired.
Retired == Len(owner) - Len(m_transList)

\* The number a transaction was sent under is the one its id gives it, and
\* m_cli_seq is the number of the last transaction sent.
Numbering ==
    /\ \A d \in written : d.seq = NumberOf(d.id)
    /\ \A i \in 1 .. Len(m_transList) :
            m_transList[i].sendCount > 0 => m_transList[i].cli_seq = NumberOf(m_transList[i].id)
    /\ ~m_waitingForRetryResponse => m_cli_seq = NumberOf(Retired + m_numInTransit)
    /\ m_isConnected /\ m_waitingForRetryResponse => m_cli_seq = NumberOf(Retired + 1)

\* The k-th number after that of id is the number of id + k.
LEMMA NumberOfNext ==
    ASSUME NEW id \in Nat, NEW k \in Nat
    PROVE  SeqPlus(NumberOf(id), k) = NumberOf(id + k)
<1>1. id + 1 \in Nat
  OBVIOUS
<1>2. SeqPlus((id + 1) % SeqSpace, k) = ((id + 1) + k) % SeqSpace
  <2> HIDE DEF SeqPlus
  <2> QED
    BY ONLY <1>1, SeqPlusOfMod
<1>3. (id + 1) + k = (id + k) + 1
  OBVIOUS
<1> QED
  BY <1>2, <1>3 DEF NumberOf

\* Filling the pipeline numbers each transaction by its id, if m_cli_seq is the
\* number of the last one in flight.
LEMMA TrySendNumbers ==
    ASSUME NEW STATE L, L \in Seq(Trans), NEW STATE n, SentOnce(L, n), n <= PipelineLen,
           NEW STATE base, base \in Nat,
           \A i \in 1 .. Len(L) : L[i].id = base + i,
           \A i \in 1 .. Len(L) : L[i].sendCount > 0 => L[i].cli_seq = NumberOf(L[i].id),
           m_cli_seq \in SeqNums, m_cli_seq = NumberOf(base + n),
           NEW STATE running,
           TrySendTransactions(L, n, running)
    PROVE  /\ \A d \in written' : d.seq = NumberOf(d.id)
           /\ \A i \in 1 .. Len(L) : m_transList'[i].sendCount > 0 =>
                    m_transList'[i].cli_seq = NumberOf(m_transList'[i].id)
           /\ m_cli_seq' = NumberOf(base + m_numInTransit')
<1> DEFINE A == AfterTrySend(L, n)
<1>1. /\ ToSend(L, n) = (n + 1) .. WindowEnd(L)
      /\ Cardinality(ToSend(L, n)) = WindowEnd(L) - n
      /\ WindowEnd(L) \in n .. Len(L)
  BY ToSendIsInterval
<1>2. n \in Nat /\ Len(L) \in Nat /\ n <= Len(L) /\ WindowEnd(L) \in Nat
  BY <1>1, LenProperties DEF SentOnce
<1>3. /\ SentOnce(A, WindowEnd(L)) /\ Len(A) = Len(L)
      /\ \A i \in 1 .. Len(L) :
            /\ A[i].id = L[i].id
            /\ A[i].cli_seq = IF n < i /\ i <= WindowEnd(L) THEN SeqPlus(m_cli_seq, i - n)
                                                            ELSE L[i].cli_seq
  BY AfterTrySendList
<1> HIDE DEF A
<1>4. ASSUME NEW i \in 1 .. Len(L), i <= WindowEnd(L)
      PROVE  A[i].cli_seq = NumberOf(A[i].id)
  <2>1. CASE i <= n
    <3>1. L[i].sendCount = 1
      BY <2>1 DEF SentOnce
    <3> QED
      BY <1>2, <1>3, <2>1, <3>1
  <2>2. CASE n < i
    <3>1. SeqPlus(NumberOf(base + n), i - n) = NumberOf((base + n) + (i - n))
      <4>1. base + n \in Nat /\ i - n \in Nat
        BY <1>2, <2>2
      <4> QED
        BY <4>1, NumberOfNext
    <3>2. (base + n) + (i - n) = L[i].id
      BY <1>2
    <3> QED
      BY <1>3, <1>4, <2>2, <3>1, <3>2
  <2> QED
    BY <1>2, <2>1, <2>2
<1>5. \A i \in 1 .. Len(L) : A[i].sendCount > 0 => A[i].cli_seq = NumberOf(A[i].id)
  <2> SUFFICES ASSUME NEW i \in 1 .. Len(L), A[i].sendCount > 0
               PROVE  A[i].cli_seq = NumberOf(A[i].id)
    OBVIOUS
  <2>1. i <= WindowEnd(L)
    BY <1>3 DEF SentOnce
  <2> QED
    BY <1>4, <2>1
<1>6. \A d \in written' : d.seq = NumberOf(d.id)
  <2>1. \A i \in ToSend(L, n) : Datagram(A[i]).seq = NumberOf(Datagram(A[i]).id)
    <3> SUFFICES ASSUME NEW i \in ToSend(L, n) PROVE A[i].cli_seq = NumberOf(A[i].id)
      BY DEF Datagram
    <3>1. i \in 1 .. Len(L) /\ i <= WindowEnd(L)
      BY <1>1, <1>2
    <3> QED
      BY <1>4, <3>1
  <2>2. written' = {Datagram(A[i]) : i \in ToSend(L, n)}
    BY DEF TrySendTransactions, A
  <2> QED
    BY <2>1, <2>2
<1>7. m_cli_seq' = NumberOf(base + m_numInTransit')
  <2>1. m_cli_seq' = SeqPlus(NumberOf(base + n), WindowEnd(L) - n)
        /\ m_numInTransit' = n + (WindowEnd(L) - n)
    BY <1>1 DEF TrySendTransactions
  <2>2. base + n \in Nat /\ WindowEnd(L) - n \in Nat
    BY <1>1, <1>2
  <2>3. SeqPlus(NumberOf(base + n), WindowEnd(L) - n) = NumberOf((base + n) + (WindowEnd(L) - n))
    BY <2>2, NumberOfNext
  <2>4. (base + n) + (WindowEnd(L) - n) = base + m_numInTransit'
    BY <1>2, <2>1
  <2> QED
    BY <2>1, <2>3, <2>4
<1>8. m_transList' = A
  BY DEF TrySendTransactions, A
<1> QED
  BY <1>5, <1>6, <1>7, <1>8

\* Going back to the front of L reuses the front's number.
LEMMA ResendNumbers ==
    ASSUME NEW STATE L, L \in Seq(Trans), L # <<>>,
           L[1].cli_seq = NumberOf(L[1].id),
           NEW STATE n, NEW STATE running, NEW STATE signalled,
           ResendOldestTransaction(L, n, running, signalled)
    PROVE  /\ \A d \in written' : d.seq = NumberOf(d.id)
           /\ \/ m_transList' = <<>> /\ ~m_isConnected' /\ UNCHANGED m_waitingForRetryResponse
              \/ /\ m_waitingForRetryResponse'
                 /\ m_transList' # <<>> /\ Len(m_transList') = Len(L)
                 /\ m_cli_seq' = NumberOf(L[1].id)
                 /\ \A i \in 1 .. Len(L) : m_transList'[i].sendCount > 0 =>
                        m_transList'[i].cli_seq = NumberOf(m_transList'[i].id)
<1>1. CASE RetriesUsedUp(L[1])
  BY <1>1 DEF ResendOldestTransaction, CloseConnection
<1>2. CASE ~RetriesUsedUp(L[1])
  <2>1. /\ m_transList' = AfterResend(L) /\ m_waitingForRetryResponse' = TRUE
        /\ m_cli_seq' = AfterResend(L)[1].cli_seq
        /\ written' = {Datagram(AfterResend(L)[1])}
    BY <1>2 DEF ResendOldestTransaction
  <2>2. /\ AfterResend(L) \in Seq(Trans)
        /\ Len(AfterResend(L)) = Len(L) /\ Len(L) >= 1 /\ Len(L) \in Nat
        /\ \A i \in 2 .. Len(L) : AfterResend(L)[i].sendCount = 0
        /\ \A i \in 1 .. Len(L) : /\ AfterResend(L)[i].id = L[i].id
                                  /\ AfterResend(L)[i].cli_seq = L[i].cli_seq
    BY AfterResendList, LenProperties
  <2>3. AfterResend(L) # <<>>
    BY <2>2, EmptySeq
  <2>4. ASSUME NEW i \in 1 .. Len(L), AfterResend(L)[i].sendCount > 0
        PROVE  AfterResend(L)[i].cli_seq = NumberOf(AfterResend(L)[i].id)
    <3>1. i = 1
      BY <2>2, <2>4
    <3> QED
      BY <2>2, <3>1
  <2>5. AfterResend(L)[1].id = L[1].id /\ AfterResend(L)[1].cli_seq = L[1].cli_seq
    BY <2>2
  <2>6. \A d \in written' : d.seq = NumberOf(d.id)
    BY <2>1, <2>5 DEF Datagram
  <2> QED
    BY <2>1, <2>2, <2>3, <2>4, <2>5, <2>6
<1> QED
  BY <1>1, <1>2

\* Steps that submit nothing and send nothing.
LEMMA QuietNumbering ==
    ASSUME Numbering, written' = {},
           UNCHANGED <<m_isConnected, m_transList, m_numInTransit, m_cli_seq,
                       m_waitingForRetryResponse, owner>>
    PROVE  Numbering'
  BY DEF Numbering, Retired

\* Gemini_comms::rw: new pieces are numbered on from the last one in flight.
LEMMA RwNumbering ==
    ASSUME IInv, Numbering, NEW s \in DOMAIN m_chans, NEW numRegs \in RequestSizes,
           Rw(s, numRegs)
    PROVE  Numbering'
<1> DEFINE p == NumPieces(numRegs)
           L == PushBack(s, p)
<1>1. p \in Nat /\ s \in 1 .. Len(m_chans)
  BY NumPiecesType, LenProperties DEF IInv, Typed
<1>2. /\ L \in Seq(Trans) /\ Len(L) = Len(m_transList) + p
      /\ \A i \in 1 .. Len(m_transList) : L[i] = m_transList[i]
      /\ \A i \in (Len(m_transList) + 1) .. Len(m_transList) + p :
                L[i] = Transaction(Len(owner) + (i - Len(m_transList)), s)
  <2> HIDE DEF p
  <2> QED
    BY <1>1, RwList
<1>3. /\ Len(m_transList) \in Nat /\ Len(owner) \in Nat /\ Len(L) \in Nat
      /\ Len(m_transList) <= Len(owner) /\ PipelineLen \in Nat \ {0}
  BY <1>1, <1>2, LenProperties, PipelineAssumption DEF IInv, Typed, Consecutive
<1>4. UNCHANGED <<m_isConnected, m_waitingForRetryResponse>> /\ m_isConnected
  BY DEF Rw
<1>5. Len(owner') = Len(owner) + p /\ Retired \in Nat
  <2> DEFINE asked == [k \in 1 .. p |-> m_chans[s]]
  <2>1. asked \in Seq({m_chans[s]}) /\ Len(asked) = p
    <3>1. asked \in [1 .. p -> {m_chans[s]}]
      OBVIOUS
    <3> HIDE DEF asked, p
    <3> QED
      BY <1>1, <3>1, SeqOfFunction
  <2>2. owner' = owner \o asked
    BY DEF Rw
  <2> HIDE DEF asked, p
  <2> DEFINE S == (1 .. opened) \cup {m_chans[s]}
  <2>3. owner \in Seq(S) /\ asked \in Seq(S)
    <3>1. (1 .. opened) \subseteq S /\ {m_chans[s]} \subseteq S
      OBVIOUS
    <3> HIDE DEF S
    <3> QED
      BY <2>1, <3>1, SeqMonotonic DEF IInv, Typed
  <2>4. Len(owner \o asked) = Len(owner) + Len(asked)
    <3> HIDE DEF S
    <3> QED
      BY <2>3, ConcatProperties
  <2> QED
    BY <1>3, <2>1, <2>2, <2>4 DEF Retired
<1> HIDE DEF L, p
<1>6. \A i \in 1 .. Len(L) :
            /\ L[i].id = Retired + i
            /\ L[i].sendCount > 0 => L[i].cli_seq = NumberOf(L[i].id)
            /\ i > Len(m_transList) => L[i].sendCount = 0
  <2> SUFFICES ASSUME NEW i \in 1 .. Len(L)
               PROVE  /\ L[i].id = Retired + i
                      /\ L[i].sendCount > 0 => L[i].cli_seq = NumberOf(L[i].id)
                      /\ i > Len(m_transList) => L[i].sendCount = 0
    OBVIOUS
  <2>1. CASE i <= Len(m_transList)
    <3>1. i \in 1 .. Len(m_transList) /\ L[i] = m_transList[i]
      BY <1>2, <1>3, <2>1
    <3> QED
      BY <1>3, <2>1, <3>1 DEF IInv, Consecutive, Numbering, Retired
  <2>2. CASE i > Len(m_transList)
    <3>1. L[i] = Transaction(Len(owner) + (i - Len(m_transList)), s)
      BY <1>1, <1>2, <1>3, <2>2
    <3>2. L[i].sendCount = 0 /\ L[i].id = Len(owner) + (i - Len(m_transList))
      BY <3>1 DEF Transaction
    <3> QED
      BY <1>3, <3>2 DEF Retired
  <2> QED
    BY <1>3, <2>1, <2>2
<1>7. CASE m_waitingForRetryResponse
  <2>1. m_transList' = L /\ written' = {} /\ UNCHANGED <<m_numInTransit, m_cli_seq>>
    BY <1>7 DEF Rw, L, p
  <2>2. Retired' = Retired
    <3>1. Len(m_transList') = Len(m_transList) + p
      BY <1>2, <2>1
    <3>2. Len(owner') = Len(owner) + p
      BY <1>5
    <3> QED
      BY <1>1, <1>3, <3>1, <3>2 DEF Retired
  <2>3. m_cli_seq' = NumberOf(Retired' + 1)
    BY <1>4, <1>7, <2>1, <2>2 DEF Numbering
  <2> QED
    BY <1>4, <1>6, <1>7, <2>1, <2>3 DEF Numbering
<1>8. CASE ~m_waitingForRetryResponse
  <2>1. TrySendTransactions(L, m_numInTransit, m_timer)
    BY <1>8 DEF Rw, L, p
  <2>2. m_numInTransit = WindowEnd(m_transList) /\ SentOnce(m_transList, m_numInTransit)
        /\ m_cli_seq \in SeqNums
    BY <1>8 DEF IInv, Window, Typed
  <2>3. m_numInTransit \in 0 .. Len(m_transList) /\ m_numInTransit <= PipelineLen
    BY <1>3, <2>2 DEF WindowEnd
  <2>4. SentOnce(L, m_numInTransit)
    <3>1. \A i \in 1 .. Len(m_transList) :
                L[i].sendCount = IF i <= m_numInTransit THEN 1 ELSE 0
      BY <1>2, <2>2 DEF SentOnce
    <3> QED
      BY <1>1, <1>2, <1>3, <1>6, <2>3, <3>1 DEF SentOnce
  <2>5. m_cli_seq = NumberOf(Retired + m_numInTransit)
    BY <1>8 DEF Numbering
  <2>6. /\ \A d \in written' : d.seq = NumberOf(d.id)
        /\ \A i \in 1 .. Len(L) : m_transList'[i].sendCount > 0 =>
                    m_transList'[i].cli_seq = NumberOf(m_transList'[i].id)
        /\ m_cli_seq' = NumberOf(Retired + m_numInTransit')
    BY <1>2, <1>5, <1>6, <2>1, <2>2, <2>3, <2>4, <2>5, TrySendNumbers
  <2>7. Len(m_transList') = Len(L)
    <3>1. m_transList' = AfterTrySend(L, m_numInTransit)
      BY <2>1 DEF TrySendTransactions
    <3> QED
      BY <1>2, <2>2, <2>3, <2>4, <3>1, AfterTrySendList
  <2>8. Retired' = Retired
    BY <1>1, <1>2, <1>3, <1>5, <2>7 DEF Retired
  <2> QED
    BY <1>4, <1>8, <2>6, <2>7, <2>8 DEF Numbering
<1> QED
  BY <1>7, <1>8

\* The front has been sent, so it carries its number.
LEMMA ResendFrontNumbering ==
    ASSUME IInv, Numbering, m_transList # <<>>,
           NEW STATE running,
           ResendOldestTransaction(m_transList, m_numInTransit, running, results),
           UNCHANGED vars1
    PROVE  Numbering'
<1>1. /\ Len(m_transList) \in Nat /\ Len(m_transList) >= 1 /\ m_transList \in Seq(Trans)
      /\ m_transList[1].sendCount \in 1 .. (MaxRetries + 1)
      /\ m_transList[1].sendCount > 1 => m_waitingForRetryResponse
  BY FrontFacts DEF IInv, Typed
<1>2. m_transList[1].cli_seq = NumberOf(m_transList[1].id)
  <2>1. m_transList[1].sendCount > 0
    BY <1>1, RetriesAssumption
  <2> QED
    BY <1>1, <2>1 DEF Numbering
<1>3. m_transList[1].id = Retired + 1
  BY <1>1 DEF IInv, Consecutive, Retired
<1>4. owner' = owner
  BY DEF vars1
<1>5. /\ \A d \in written' : d.seq = NumberOf(d.id)
      /\ \/ m_transList' = <<>> /\ ~m_isConnected' /\ UNCHANGED m_waitingForRetryResponse
         \/ /\ m_waitingForRetryResponse'
            /\ m_transList' # <<>> /\ Len(m_transList') = Len(m_transList)
            /\ m_cli_seq' = NumberOf(m_transList[1].id)
            /\ \A i \in 1 .. Len(m_transList) : m_transList'[i].sendCount > 0 =>
                   m_transList'[i].cli_seq = NumberOf(m_transList'[i].id)
  BY <1>1, <1>2, ResendNumbers
<1>6. CASE m_transList' = <<>> /\ ~m_isConnected' /\ UNCHANGED m_waitingForRetryResponse
  <2>1. m_waitingForRetryResponse
    <3>1. RetriesUsedUp(m_transList[1])
      <4>1. CASE ~RetriesUsedUp(m_transList[1])
        <5>1. m_isConnected' = m_isConnected
          BY <4>1 DEF ResendOldestTransaction
        <5> QED
          BY <1>6, <5>1, FrontFacts
      <4> QED
        BY <4>1
    <3> QED
      BY <1>1, <3>1, RetriesAssumption DEF RetriesUsedUp
  <2>2. Len(m_transList') = 0
    BY <1>6, EmptySeq
  <2> QED
    BY <1>5, <1>6, <2>1, <2>2 DEF Numbering
<1>7. CASE /\ m_waitingForRetryResponse'
           /\ m_transList' # <<>> /\ Len(m_transList') = Len(m_transList)
           /\ m_cli_seq' = NumberOf(m_transList[1].id)
           /\ \A i \in 1 .. Len(m_transList) : m_transList'[i].sendCount > 0 =>
                  m_transList'[i].cli_seq = NumberOf(m_transList'[i].id)
  <2>1. Retired' = Retired
    BY <1>4, <1>7 DEF Retired
  <2> QED
    BY <1>3, <1>5, <1>7, <2>1 DEF Numbering
<1> QED
  BY <1>5, <1>6, <1>7

\* onPktRxReady on the expected reply: the transactions that follow the retired
\* one are sent under the numbers of their places.
LEMMA RxReplyNumbering ==
    ASSUME IInv, Numbering, NEW pkt \in Packet, NEW expired \in BOOLEAN,
           RxReply(pkt, expired)
    PROVE  Numbering'
<1> DEFINE rest == Retire(m_transList)
           nextSent == rest # <<>> /\ rest[1].sendCount > 0
           signalled == results \cup Signal(m_transList[1], pkt.op)
           n == InFlightAfterReply
<1>1. m_transList # <<>> /\ UNCHANGED <<m_chans, opened, owner, undefined>>
  BY DEF RxReply
<1>2. /\ m_isConnected
      /\ Len(m_transList) \in Nat /\ Len(m_transList) >= 1 /\ Len(owner) \in Nat
  BY <1>1, FrontFacts
<1>3. /\ rest \in Seq(Trans) /\ Len(rest) = Len(m_transList) - 1
      /\ \A i \in 1 .. Len(rest) : rest[i] = m_transList[i + 1]
      /\ SentOnce(rest, n) /\ n \in Nat /\ n <= PipelineLen
  BY <1>1, RetireFront
<1>4. /\ \/ /\ nextSent /\ expired
            /\ ResendOldestTransaction(rest, n, FALSE, signalled)
         \/ /\ m_waitingForRetryResponse' = FALSE
            /\ TrySendTransactions(rest, n, nextSent)
            /\ UNCHANGED m_isConnected
  BY DEF RxReply
<1> HIDE DEF rest, n
<1>5. Retired \in Nat /\ Retired + 1 = Len(owner) - Len(rest)
  BY <1>2, <1>3 DEF Retired, IInv, Consecutive
<1>6. \A i \in 1 .. Len(rest) :
            /\ rest[i].id = (Retired + 1) + i
            /\ rest[i].sendCount > 0 => rest[i].cli_seq = NumberOf(rest[i].id)
  <2> TAKE i \in 1 .. Len(rest)
  <2>1. i + 1 \in 1 .. Len(m_transList) /\ rest[i] = m_transList[i + 1]
    BY <1>2, <1>3
  <2>2. m_transList[i + 1].id = Retired + (i + 1)
    BY <1>2, <2>1 DEF IInv, Consecutive, Retired
  <2>3. m_transList[i + 1].sendCount > 0 =>
            m_transList[i + 1].cli_seq = NumberOf(m_transList[i + 1].id)
    BY <2>1 DEF Numbering
  <2> QED
    BY <1>2, <1>5, <2>1, <2>2, <2>3
\* m_cli_seq is the number of the last transaction in flight.
<1>7. m_cli_seq = NumberOf((Retired + 1) + n) /\ m_cli_seq \in SeqNums
  <2>1. CASE m_waitingForRetryResponse
    <3>1. n = 0
      BY <2>1 DEF n, InFlightAfterReply
    <3> QED
      BY <1>2, <1>5, <2>1, <3>1 DEF Numbering, IInv, Typed
  <2>2. CASE ~m_waitingForRetryResponse
    <3>1. n = m_numInTransit - 1 /\ m_numInTransit \in Nat
      BY <2>2 DEF n, InFlightAfterReply, IInv, Typed
    <3>2. (Retired + 1) + n = Retired + m_numInTransit
      BY <1>5, <3>1
    <3> QED
      BY <2>2, <3>2 DEF Numbering, IInv, Typed
  <2> QED
    BY <2>1, <2>2
<1>8. CASE nextSent /\ expired /\ ResendOldestTransaction(rest, n, FALSE, signalled)
  <2>1. rest # <<>> /\ rest[1].sendCount = 1 /\ Len(rest) >= 1
    BY <1>2, <1>3, <1>8, EmptySeq DEF SentOnce
  <2>2. rest[1].cli_seq = NumberOf(rest[1].id) /\ rest[1].id = Retired + 2
    BY <1>2, <1>3, <1>5, <1>6, <2>1
  <2> HIDE DEF signalled
  <2>3. /\ \A d \in written' : d.seq = NumberOf(d.id)
        /\ \/ m_transList' = <<>> /\ ~m_isConnected' /\ UNCHANGED m_waitingForRetryResponse
           \/ /\ m_waitingForRetryResponse'
              /\ m_transList' # <<>> /\ Len(m_transList') = Len(rest)
              /\ m_cli_seq' = NumberOf(rest[1].id)
              /\ \A i \in 1 .. Len(rest) : m_transList'[i].sendCount > 0 =>
                     m_transList'[i].cli_seq = NumberOf(m_transList'[i].id)
    BY <1>3, <1>8, <2>1, <2>2, ResendNumbers
  <2>4. ~RetriesUsedUp(rest[1])
    BY <2>1, RetriesAssumption DEF RetriesUsedUp
  <2>5. m_isConnected'
    BY <1>2, <1>8, <2>4 DEF ResendOldestTransaction
  <2>6. Retired' + 1 = Retired + 2
    BY <1>1, <1>5, <2>3, <2>5 DEF Retired
  <2> QED
    BY <2>2, <2>3, <2>5, <2>6 DEF Numbering
<1>9. CASE /\ m_waitingForRetryResponse' = FALSE
           /\ TrySendTransactions(rest, n, nextSent)
           /\ UNCHANGED m_isConnected
  <2> DEFINE base == Retired + 1
             running == nextSent
  <2>1. base \in Nat /\ TrySendTransactions(rest, n, running)
    BY <1>5, <1>9
  <2>2. /\ \A i \in 1 .. Len(rest) : rest[i].id = base + i
        /\ m_cli_seq = NumberOf(base + n)
    BY <1>6, <1>7
  <2>3. base = Len(owner) - Len(rest)
    BY <1>5
  <2> HIDE DEF base, running
  <2>4. /\ \A d \in written' : d.seq = NumberOf(d.id)
        /\ \A i \in 1 .. Len(rest) : m_transList'[i].sendCount > 0 =>
                    m_transList'[i].cli_seq = NumberOf(m_transList'[i].id)
        /\ m_cli_seq' = NumberOf(base + m_numInTransit')
    BY <1>3, <1>6, <1>7, <2>1, <2>2, TrySendNumbers
  <2>5. Len(m_transList') = Len(rest)
    <3>1. m_transList' = AfterTrySend(rest, n)
      BY <2>1 DEF TrySendTransactions
    <3> QED
      BY <1>3, <1>7, <3>1, AfterTrySendList
  <2>6. Retired' = base
    BY <1>1, <2>3, <2>5 DEF Retired
  <2> QED
    BY <1>9, <2>4, <2>5, <2>6 DEF Numbering
<1> QED
  BY <1>4, <1>8, <1>9

\* Every step keeps the numbering.
LEMMA StepNumbering == IInv /\ Numbering /\ [Next]_vars => Numbering'
<1> SUFFICES ASSUME IInv, Numbering, [Next]_vars
             PROVE  Numbering'
  OBVIOUS
<1>1. CASE OpenChannel
  BY <1>1, QuietNumbering DEF OpenChannel
<1>2. ASSUME NEW s \in DOMAIN m_chans, Dispose(s) PROVE Numbering'
  BY <1>2, QuietNumbering DEF Dispose
<1>3. ASSUME NEW s \in DOMAIN m_chans, RwNotConnected(s) PROVE Numbering'
  <2>1. /\ ~m_isConnected /\ written' = {}
        /\ UNCHANGED <<m_isConnected, m_transList, m_numInTransit, m_cli_seq,
                       m_waitingForRetryResponse>>
    BY <1>3 DEF RwNotConnected
  <2>2. m_waitingForRetryResponse /\ Len(m_transList) = 0
    BY <2>1, EmptySeq DEF IInv, Window
  <2> QED
    BY <2>1, <2>2 DEF Numbering
<1>4. ASSUME NEW s \in DOMAIN m_chans, NEW n \in RequestSizes, Rw(s, n) PROVE Numbering'
  BY <1>4, RwNumbering
<1>5. CASE OnPktTimeout
  <2>1. m_transList # <<>>
    BY <1>5 DEF OnPktTimeout, IInv, Window
  <2>2. /\ ResendOldestTransaction(m_transList, m_numInTransit, FALSE, results)
        /\ UNCHANGED vars1
    BY <1>5, <2>1 DEF OnPktTimeout, ReadFrontOfEmptyList, vars1
  <2> QED
    BY <2>1, <2>2, ResendFrontNumbering
<1>6. ASSUME NEW pkt \in Packet, NEW expired \in BOOLEAN, OnPktRxReady(pkt, expired)
      PROVE  Numbering'
  <2>1. CASE RxMalformed(pkt)
    BY <2>1, QuietNumbering DEF RxMalformed
  <2>2. CASE RxEmptyList(pkt)
    BY <2>2, QuietNumbering DEF RxEmptyList, ReadFrontOfEmptyList
  <2>3. CASE RxMismatch(pkt)
    <3>1. m_transList # <<>> /\ UNCHANGED vars1
      BY <2>3 DEF RxMismatch, vars1
    <3>2. CASE MayRetry
      <4>1. ResendOldestTransaction(m_transList, m_numInTransit, m_timer, results)
        BY <2>3, <3>2 DEF RxMismatch
      <4> QED
        BY <3>1, <4>1, ResendFrontNumbering
    <3>3. CASE ~MayRetry
      BY <2>3, <3>1, <3>3, QuietNumbering DEF RxMismatch, vars1
    <3> QED
      BY <3>2, <3>3
  <2>4. CASE RxUnexpected(pkt)
    BY <2>4, QuietNumbering DEF RxUnexpected
  <2>5. CASE RxReply(pkt, expired)
    BY <2>5, RxReplyNumbering
  <2> QED
    BY <1>6, <2>1, <2>2, <2>3, <2>4, <2>5 DEF OnPktRxReady
<1>7. CASE UNCHANGED vars
  BY <1>7 DEF vars, Numbering, Retired
<1> QED
  BY <1>1, <1>2, <1>3, <1>4, <1>5, <1>6, <1>7 DEF Next, UserNext

\* However often the window is rewound, a transaction is only ever transmitted
\* under the number its place in the order of submission gives it.
THEOREM NumberedCorrect == Spec => []NumberedBySubmission
<1>1. Init => Numbering
  <2> SUFFICES ASSUME Init PROVE Numbering
    OBVIOUS
  <2>1. Len(m_transList) = 0 /\ Len(owner) = 0 /\ m_numInTransit = 0
        /\ m_cli_seq = 1 % SeqSpace /\ ~m_waitingForRetryResponse /\ written = {}
    BY EmptySeq DEF Init
  <2>2. Retired + m_numInTransit = 0
    BY <2>1 DEF Retired
  <2> QED
    BY <2>1, <2>2 DEF Numbering, NumberOf
<1>2. IInv /\ Numbering /\ [Next]_vars => Numbering'
  BY StepNumbering
<1>3. IInv /\ Numbering => NumberedBySubmission
  <2>1. IInv => DOMAIN m_transList = 1 .. Len(m_transList)
    BY LenProperties DEF IInv, Typed
  <2> QED
    BY <2>1 DEF Numbering, NumberedBySubmission
<1> QED
  BY <1>1, <1>2, <1>3, Invariant, PTL DEF Spec

--------------------------------------------------------------------------------
(* The loops of rw and trySendTransactions.                                  *)

\* A set of natural numbers that is not empty has a least element.
LEMMA LeastElement ==
    ASSUME NEW S \in SUBSET Nat, S # {}
    PROVE  \E x \in S : \A y \in S : x <= y
<1>1. \E x \in S : \A y \in S : ~ (<<y, x>> \in OpToRel(<, Nat))
  BY NatLessThanWellFounded, WFMin
<1>2. \A x, y \in Nat : x < y => <<x, y>> \in OpToRel(<, Nat)
  BY DEF OpToRel
<1>3. \E x \in S : \A y \in S : ~ (y < x)
  BY <1>1, <1>2, Zenon
<1> QED
  BY <1>3

\* Induction over the turns of a loop, from the least turn that breaks it.
LEMMA LoopInduction ==
    ASSUME NEW n \in Nat, NEW S, 0 \in S, \A i \in 0 .. (n - 1) : i \in S => i + 1 \in S
    PROVE  \A i \in 0 .. n : i \in S
<1> DEFINE T == {i \in 0 .. n : i \notin S}
<1> SUFFICES ASSUME T # {} PROVE FALSE
  OBVIOUS
<1>1. PICK x \in T : \A y \in T : x <= y
  <2>1. T \in SUBSET Nat
    OBVIOUS
  <2> HIDE DEF T
  <2> QED
    BY <2>1, LeastElement
<1>2. x \in 0 .. n /\ x # 0 /\ x - 1 \in 0 .. (n - 1) /\ x - 1 \in 0 .. n /\ (x - 1) + 1 = x
  BY <1>1
<1>3. x - 1 \in S
  BY <1>1, <1>2
<1> QED
  BY <1>1, <1>2, <1>3

\* The offsets at which the pieces of a request of n registers start.
Offsets(n) == {o \in 0 .. (n - 1) : o % MaxPayloadWords = 0}

LEMMA OffsetsFinite ==
    ASSUME NEW n \in Nat
    PROVE  IsFiniteSet(Offsets(n)) /\ Cardinality(Offsets(n)) \in Nat
<1>1. IsFiniteSet(0 .. (n - 1))
  BY FS_Interval
<1>2. IsFiniteSet(Offsets(n))
  BY <1>1, FS_Subset DEF Offsets
<1> QED
  BY <1>2, FS_CardinalityType

\* Adding one payload does not change what is left over.
LEMMA NextOffset ==
    ASSUME NEW o \in Nat, o >= MaxPayloadWords
    PROVE  o - MaxPayloadWords \in Nat /\ (o - MaxPayloadWords) % MaxPayloadWords = o % MaxPayloadWords
<1> DEFINE m == MaxPayloadWords
           q == (o - m) \div m
           r == (o - m) % m
<1>1. m \in Nat \ {0} /\ o - m \in Nat
  BY PayloadAssumption
<1>2. o - m = m * q + r /\ q \in Int /\ r \in 0 .. (m - 1)
  BY <1>1
<1>3. o = m * (q + 1) + r /\ q + 1 \in Int
  BY <1>1, <1>2
<1>4. (m * (q + 1) + r) % m = r
  <2> HIDE DEF q, r, m
  <2> QED BY <1>1, <1>2, <1>3, ModUnique
<1> QED
  BY <1>1, <1>3, <1>4

\* The loop of rw takes one piece off the request; so does the closed form.
LEMMA NumPiecesTurn ==
    ASSUME NEW n \in Nat
    PROVE  NumPieces(n) =
                IF n = 0 THEN 0
                ELSE 1 + NumPieces(IF n > MaxPayloadWords THEN n - MaxPayloadWords ELSE 0)
<1> DEFINE m == MaxPayloadWords
           rest == IF n > m THEN n - m ELSE 0
<1>0. m \in Nat \ {0} /\ rest \in Nat
  BY PayloadAssumption
<1>1. \A k \in Nat : NumPieces(k) = Cardinality(Offsets(k))
  BY DEF NumPieces, Offsets
<1>2. CASE n = 0
  <2>1. Offsets(n) = {}
    BY <1>2 DEF Offsets
  <2> QED
    BY <1>1, <1>2, <2>1, FS_EmptySet
<1>3. CASE n # 0
  <2> DEFINE later == Offsets(n) \ {0}
  <2>1. 0 \in Offsets(n)
    <3>1. 0 % m = 0
      BY <1>0
    <3> QED
      BY <1>3, <3>1 DEF Offsets
  <2>2. IsFiniteSet(later) /\ Cardinality(Offsets(n)) = Cardinality(later) + 1
    <3>1. IsFiniteSet(Offsets(n)) /\ Cardinality(Offsets(n)) \in Nat
      BY OffsetsFinite
    <3>2. IsFiniteSet(later) /\ Cardinality(later) = Cardinality(Offsets(n)) - 1
      BY <2>1, <3>1, FS_RemoveElement
    <3> HIDE DEF later
    <3> QED
      BY <3>1, <3>2
  <2>3. \A o \in later : o \in Nat /\ o >= m /\ o < n /\ o % m = 0
    <3> TAKE o \in later
    <3>1. o \in Nat /\ o # 0 /\ o < n /\ o % m = 0
      BY DEF Offsets
    <3>2. o < m => o % m = o
      BY <1>0, <3>1
    <3> QED
      BY <1>0, <3>1, <3>2
  <2>4. \A o \in later : o - m \in Offsets(rest)
    <3> TAKE o \in later
    <3>1. o \in Nat /\ o >= m /\ o < n /\ o % m = 0
      BY <2>3
    <3>2. o - m \in Nat /\ (o - m) % m = 0
      BY <3>1, NextOffset
    <3>3. o - m \in 0 .. (rest - 1)
      BY <1>0, <3>1, <3>2
    <3> QED
      BY <3>2, <3>3 DEF Offsets
  <2>5. \A o \in Offsets(rest) : o \in Nat /\ o + m \in later
    <3> TAKE o \in Offsets(rest)
    <3>1. o \in Nat /\ o % m = 0 /\ o < rest
      BY <1>0 DEF Offsets
    <3>2. o + m \in Nat /\ o + m >= m /\ (o + m) - m = o
      BY <1>0, <3>1
    <3>3. (o + m) % m = 0
      BY <3>1, <3>2, NextOffset
    <3>4. o + m \in 0 .. (n - 1) /\ o + m # 0
      BY <1>0, <3>1
    <3> QED
      BY <3>1, <3>3, <3>4 DEF Offsets
  <2> DEFINE shift == [o \in later |-> o - m]
  <2>6. shift \in Bijection(later, Offsets(rest))
    <3>1. shift \in [later -> Offsets(rest)]
      BY <2>4
    <3>2. \A a, b \in later : shift[a] = shift[b] => a = b
      BY <1>0, <2>3
    <3>3. \A o \in Offsets(rest) : \E a \in later : shift[a] = o
      <4> TAKE o \in Offsets(rest)
      <4>1. o \in Nat /\ o + m \in later /\ (o + m) - m = o
        BY <1>0, <2>5
      <4> QED
        BY <4>1
    <3> HIDE DEF shift, later
    <3> QED
      BY <3>1, <3>2, <3>3 DEF Bijection, Injection, IsInjective, Surjection
  <2>7. Cardinality(later) = Cardinality(Offsets(rest))
    <3> HIDE DEF shift, later
    <3> QED
      BY <2>2, <2>6, FS_Bijection DEF ExistsBijection
  <2>8. Cardinality(Offsets(rest)) \in Nat
    BY <1>0, OffsetsFinite
  <2>9. NumPieces(n) = 1 + Cardinality(Offsets(rest))
    BY <1>1, <2>2, <2>7, <2>8
  <2> QED
    BY <1>0, <1>1, <1>3, <2>9
<1> QED
  BY <1>2, <1>3

\* The pieces of a request are its first piece and those of what is left after it.
LEMMA PiecesTurn ==
    ASSUME NEW base \in Nat, NEW n \in Nat \ {0}
    PROVE  /\ RegsSent(n) \in 1 .. n
           /\ PiecesOf(base, n) = <<Regs(base, RegsSent(n))>>
                                        \o PiecesOf(base + RegsSent(n), n - RegsSent(n))
<1> DEFINE m == MaxPayloadWords
           sent == RegsSent(n)
           rest == n - sent
           p == NumPieces(rest)
           Piece(b, l, k) == Regs(b + (k - 1) * m,
                                  IF (k - 1) * m + m <= l THEN m ELSE l - (k - 1) * m)
           first == Regs(base, sent)
           more == PiecesOf(base + sent, rest)
<1>1. m \in Nat \ {0} /\ sent \in 1 .. n /\ rest \in Nat
      /\ rest = (IF n > m THEN n - m ELSE 0)
  BY PayloadAssumption DEF RegsSent
<1>2. NumPieces(n) = 1 + p
  BY <1>1, NumPiecesTurn
<1>3. p \in Nat
  <2>1. NumPieces(rest) = Cardinality(Offsets(rest))
    BY DEF NumPieces, Offsets
  <2> QED
    BY <1>1, <2>1, OffsetsFinite
<1>4. PiecesOf(base, n) = [k \in 1 .. (1 + p) |-> Piece(base, n, k)]
  BY <1>2 DEF PiecesOf
<1>5. more = [k \in 1 .. p |-> Piece(base + sent, rest, k)]
  BY DEF PiecesOf
<1>6. Piece(base, n, 1) = first
  BY <1>1 DEF RegsSent
<1>7. ASSUME NEW k \in 1 .. p
      PROVE  Piece(base, n, k + 1) = Piece(base + sent, rest, k)
  <2>1. rest # 0 /\ sent = m /\ rest = n - m
    <3>1. rest # 0
      <4>1. NumPieces(0) = 0
        BY NumPiecesTurn
      <4> QED
        BY <1>7, <4>1
    <3> QED
      BY <1>1, <3>1 DEF RegsSent
  <2>2. ((k + 1) - 1) * m = (k - 1) * m + m /\ (k - 1) * m \in Int
    BY <1>1, <1>3
  <2> DEFINE start == (k - 1) * m
  <2>3. base + ((k + 1) - 1) * m = (base + sent) + start
    <3> HIDE DEF start, m, sent, rest
    <3> QED
      BY <1>1, <2>1, <2>2 DEF start
  <2>4. (((k + 1) - 1) * m + m <= n <=> start + m <= rest)
        /\ n - ((k + 1) - 1) * m = rest - start
    <3> HIDE DEF start, m, sent, rest
    <3> QED
      BY <1>1, <2>1, <2>2 DEF start
  <2> QED
    BY <2>3, <2>4
<1> HIDE DEF m, sent, rest, p, Piece, first
<1>8. more \in Seq({more[k] : k \in 1 .. p}) /\ Len(more) = p
  BY <1>3, <1>5, SeqOfFunction
<1>9. <<first>> \o more = [k \in 1 .. (1 + p) |-> IF k = 1 THEN first ELSE more[k - 1]]
  <2> DEFINE S == {first} \cup {more[k] : k \in 1 .. p}
  <2>1. <<first>> \in Seq(S) /\ Len(<<first>>) = 1 /\ <<first>>[1] = first
    <3>1. first \in S
      OBVIOUS
    <3> HIDE DEF S
    <3> QED
      BY <3>1
  <2>2. more \in Seq(S)
    <3>1. \A k \in 1 .. p : more[k] \in S
      OBVIOUS
    <3>2. more = [k \in 1 .. p |-> more[k]]
      BY <1>5
    <3> HIDE DEF S, more
    <3> QED
      BY <1>3, <3>1, <3>2
  <2> HIDE DEF S, more
  <2>3. /\ <<first>> \o more \in Seq(S) /\ Len(<<first>> \o more) = 1 + p
        /\ \A k \in 1 .. (1 + p) : (<<first>> \o more)[k] = IF k <= 1 THEN <<first>>[k] ELSE more[k - 1]
    BY <1>8, <2>1, <2>2, ConcatProperties
  <2>4. DOMAIN (<<first>> \o more) = 1 .. (1 + p)
    BY <2>3, LenProperties
  <2> DEFINE both == <<first>> \o more
  <2>5. both = [k \in DOMAIN both |-> both[k]]
    BY <2>3
  <2>6. \A k \in 1 .. (1 + p) : both[k] = IF k = 1 THEN first ELSE more[k - 1]
    BY <1>3, <2>1, <2>3
  <2> HIDE DEF both
  <2> QED
    BY <2>4, <2>5, <2>6 DEF both
<1>10. ASSUME NEW k \in 1 .. (1 + p)
       PROVE  Piece(base, n, k) = IF k = 1 THEN first ELSE more[k - 1]
  <2>1. CASE k = 1
    BY <1>6, <2>1
  <2>2. CASE k # 1
    <3>1. k - 1 \in 1 .. p /\ (k - 1) + 1 = k
      BY <1>3, <2>2
    <3>2. more[k - 1] = Piece(base + sent, rest, k - 1)
      BY <1>5, <3>1
    <3>3. Piece(base, n, (k - 1) + 1) = Piece(base + sent, rest, k - 1)
      BY <1>7, <3>1
    <3> QED
      BY <2>2, <3>1, <3>2, <3>3
  <2> QED
    BY <2>1, <2>2
<1> HIDE DEF more
<1>11. PiecesOf(base, n) = <<first>> \o more
  BY <1>4, <1>9, <1>10
<1> QED
  BY <1>1, <1>11 DEF more, first, sent, rest

\* Hence the loop makes these pieces of every request, from the shortest one of
\* which it would not.
LEMMA SplitLoopIs ==
    \A base, n \in Nat : SplitLoop[Regs(base, n)] = PiecesOf(base, n)
<1> DEFINE Rqs == [base : Nat, numRegs : Nat]
           Turn(f, base, n) ==
                IF n = 0 THEN <<>>
                ELSE <<Regs(base, RegsSent(n))>> \o f[Regs(base + RegsSent(n), n - RegsSent(n))]
           Loops(f) == f = [rq \in Rqs |-> Turn(f, rq.base, rq.numRegs)]
           closed == [rq \in Rqs |-> PiecesOf(rq.base, rq.numRegs)]
<1>1. SplitLoop = CHOOSE f : Loops(f)
  BY DEF SplitLoop, AnyRegs
<1>2. \A base, n \in Nat : n # 0 =>
            base + RegsSent(n) \in Nat /\ n - RegsSent(n) \in Nat /\ n - RegsSent(n) < n
  BY PayloadAssumption DEF RegsSent
<1>3. \A base \in Nat : PiecesOf(base, 0) = <<>>
  <2>1. NumPieces(0) = 0
    BY NumPiecesTurn
  <2> QED
    BY <2>1 DEF PiecesOf
<1>4. \A base, n \in Nat : /\ Regs(base, n) \in Rqs
                           /\ Regs(base, n).base = base /\ Regs(base, n).numRegs = n
  BY DEF Regs
<1>5. Loops(closed)
  <2>1. ASSUME NEW base \in Nat, NEW n \in Nat
        PROVE  PiecesOf(base, n) = Turn(closed, base, n)
    <3>1. CASE n = 0
      BY <1>3, <3>1
    <3>2. CASE n # 0
      <4> DEFINE next == Regs(base + RegsSent(n), n - RegsSent(n))
      <4>1. next \in Rqs /\ next.base = base + RegsSent(n) /\ next.numRegs = n - RegsSent(n)
        BY <1>2, <1>4, <3>2
      <4>2. closed[next] = PiecesOf(base + RegsSent(n), n - RegsSent(n))
        <5> HIDE DEF next, Rqs
        <5> QED
          BY <4>1
      <4> HIDE DEF next, closed
      <4>3. Turn(closed, base, n) = <<Regs(base, RegsSent(n))>> \o closed[next]
        BY <3>2 DEF next
      <4> QED
        BY <3>2, <4>2, <4>3, PiecesTurn
    <3> QED
      BY <3>1, <3>2
  <2>2. \A rq \in Rqs : rq.base \in Nat /\ rq.numRegs \in Nat
    OBVIOUS
  <2> HIDE DEF Turn, Rqs
  <2>3. \A rq \in Rqs : PiecesOf(rq.base, rq.numRegs) = Turn(closed, rq.base, rq.numRegs)
    <3> HIDE DEF closed
    <3> QED
      BY <2>1, <2>2
  <2>4. closed = [rq \in Rqs |-> Turn(closed, rq.base, rq.numRegs)]
    <3> DEFINE other == [rq \in Rqs |-> Turn(closed, rq.base, rq.numRegs)]
    <3>1. \A rq \in Rqs : closed[rq] = other[rq]
      BY <2>3
    <3> QED
      BY <2>3
  <2> QED
    BY <2>4
<1>6. Loops(SplitLoop)
  <2> HIDE DEF Loops, closed
  <2> QED
    BY <1>1, <1>5
<1>7. \A base, n \in Nat : SplitLoop[Regs(base, n)] = Turn(SplitLoop, base, n)
  <2> HIDE DEF Turn, Rqs
  <2> QED
    BY <1>4, <1>6
<1> DEFINE differ == {n \in Nat : \E base \in Nat : SplitLoop[Regs(base, n)] # PiecesOf(base, n)}
<1> HIDE DEF Loops
<1>8. ASSUME differ # {} PROVE FALSE
  <2>1. differ \in SUBSET Nat
    OBVIOUS
  <2>2. PICK n \in differ : \A k \in differ : n <= k
    <3> HIDE DEF differ
    <3> QED
      BY <1>8, <2>1, LeastElement
  <2>3. PICK base \in Nat : SplitLoop[Regs(base, n)] # PiecesOf(base, n)
    BY <2>2
  <2>4. CASE n = 0
    BY <1>3, <1>7, <2>3, <2>4
  <2>5. CASE n # 0
    <3> DEFINE rest == n - RegsSent(n)
               next == base + RegsSent(n)
    <3>1. rest \in Nat /\ next \in Nat /\ rest < n /\ n \in Nat
      BY <1>2, <2>2, <2>5
    <3>2. SplitLoop[Regs(base, n)] = <<Regs(base, RegsSent(n))>> \o SplitLoop[Regs(next, rest)]
      BY <1>7, <2>5, <3>1
    <3> HIDE DEF rest, next
    <3>3. rest \notin differ
      <4> HIDE DEF differ
      <4> QED
        BY <2>1, <2>2, <3>1
    <3>4. SplitLoop[Regs(next, rest)] = PiecesOf(next, rest)
      BY <3>1, <3>3
    <3> QED
      BY <2>3, <2>5, <3>1, <3>2, <3>4, PiecesTurn DEF rest, next
  <2> QED
    BY <2>4, <2>5
<1> QED
  BY <1>8

\* What trySendTransactions has sent after its first i turns, of the transactions
\* not sent before.
SentBy(L, n, i) == {j \in ToSend(L, n) : j <= i}
UnsentUpTo(L, i) == {j \in Unsent(L) : j <= i}

AfterTurns(L, n, i) ==
    [list |-> [j \in DOMAIN L |-> IF j \in SentBy(L, n, i)
                                  THEN Sent(L[j], SeqPlus(m_cli_seq, Rank(L, j)))
                                  ELSE L[j]],
     inTransit |-> n + Cardinality(SentBy(L, n, i)),
     seq |-> SeqPlus(m_cli_seq, Cardinality(SentBy(L, n, i)))]

LEMMA TurnSets ==
    ASSUME NEW L, L \in Seq(Trans), NEW n \in Nat, NEW i \in 0 .. Len(L)
    PROVE  /\ IsFiniteSet(UnsentUpTo(L, i)) /\ Cardinality(UnsentUpTo(L, i)) \in Nat
           /\ IsFiniteSet(SentBy(L, n, i)) /\ Cardinality(SentBy(L, n, i)) \in Nat
           /\ SentBy(L, n, i) \subseteq UnsentUpTo(L, i)
           /\ Rank(L, i) = Cardinality(UnsentUpTo(L, i))
<1>1. DOMAIN L = 1 .. Len(L) /\ Len(L) \in Nat
  BY LenProperties
<1>2. IsFiniteSet(1 .. Len(L))
  BY <1>1, FS_Interval
<1>3. UnsentUpTo(L, i) \subseteq 1 .. Len(L) /\ SentBy(L, n, i) \subseteq UnsentUpTo(L, i)
  BY <1>1 DEF UnsentUpTo, Unsent, SentBy, ToSend
<1>4. IsFiniteSet(UnsentUpTo(L, i))
  BY <1>2, <1>3, FS_Subset
<1>5. IsFiniteSet(SentBy(L, n, i))
  BY <1>3, <1>4, FS_Subset
<1> QED
  BY <1>3, <1>4, <1>5, FS_CardinalityType DEF Rank, UnsentUpTo

\* Earlier transactions have lower ranks.
LEMMA RankGrows ==
    ASSUME NEW L, L \in Seq(Trans), NEW i \in 0 .. Len(L), NEW j \in 0 .. Len(L), i <= j
    PROVE  Rank(L, i) <= Rank(L, j)
<1>1. UnsentUpTo(L, i) \subseteq UnsentUpTo(L, j)
  BY LenProperties DEF UnsentUpTo, Unsent
<1> QED
  BY <1>1, TurnSets, FS_Subset

\* What the i-th turn adds: nothing for a transaction sent before.
LEMMA TurnAdds ==
    ASSUME NEW L, L \in Seq(Trans), NEW n \in Nat, NEW i \in 1 .. Len(L)
    PROVE  /\ i - 1 \in 0 .. Len(L) /\ i \in 0 .. Len(L)
           /\ i \notin SentBy(L, n, i - 1) /\ i \notin UnsentUpTo(L, i - 1)
           /\ SentBy(L, n, i) = SentBy(L, n, i - 1) \cup ({i} \cap ToSend(L, n))
           /\ UnsentUpTo(L, i) = UnsentUpTo(L, i - 1) \cup ({i} \cap Unsent(L))
<1>1. DOMAIN L = 1 .. Len(L) /\ Len(L) \in Nat
  BY LenProperties
<1>2. ToSend(L, n) \subseteq 1 .. Len(L) /\ Unsent(L) \subseteq 1 .. Len(L)
  BY <1>1 DEF ToSend, Unsent
<1>3. \A j \in 1 .. Len(L) : j <= i <=> j <= i - 1 \/ j = i
  BY <1>1
<1>4. ~(i <= i - 1) /\ i <= i
  BY <1>1
<1> QED
  BY <1>1, <1>2, <1>3, <1>4 DEF SentBy, UnsentUpTo

\* With room in the pipeline, all that came before has been sent.
LEMMA FullOrAllSent ==
    ASSUME NEW L, L \in Seq(Trans), NEW n \in Nat
    PROVE  \A i \in 0 .. Len(L) : \/ SentBy(L, n, i) = UnsentUpTo(L, i)
                                  \/ n + Cardinality(SentBy(L, n, i)) >= PipelineLen
<1> DEFINE good == {i \in 0 .. Len(L) : \/ SentBy(L, n, i) = UnsentUpTo(L, i)
                                        \/ n + Cardinality(SentBy(L, n, i)) >= PipelineLen}
<1>1. DOMAIN L = 1 .. Len(L) /\ Len(L) \in Nat /\ PipelineLen \in Nat
  BY LenProperties, PipelineAssumption
<1>2. 0 \in good
  <2>1. SentBy(L, n, 0) = {} /\ UnsentUpTo(L, 0) = {}
    BY <1>1 DEF SentBy, UnsentUpTo, ToSend, Unsent
  <2>2. SentBy(L, n, 0) = UnsentUpTo(L, 0)
    BY ONLY <2>1
  <2>3. 0 \in 0 .. Len(L)
    BY <1>1
  <2> QED
    BY <2>2, <2>3
<1>3. ASSUME NEW k \in 0 .. (Len(L) - 1), k \in good PROVE k + 1 \in good
  <2> DEFINE i == k + 1
  <2>1. i \in 1 .. Len(L) /\ i - 1 = k /\ k \in 0 .. Len(L) /\ i \in 0 .. Len(L)
    BY <1>1
  <2> HIDE DEF i
  <2>2. /\ SentBy(L, n, i) = SentBy(L, n, k) \cup ({i} \cap ToSend(L, n))
        /\ UnsentUpTo(L, i) = UnsentUpTo(L, k) \cup ({i} \cap Unsent(L))
        /\ i \notin UnsentUpTo(L, k)
    <3>1. /\ SentBy(L, n, i) = SentBy(L, n, i - 1) \cup ({i} \cap ToSend(L, n))
          /\ UnsentUpTo(L, i) = UnsentUpTo(L, i - 1) \cup ({i} \cap Unsent(L))
          /\ i \notin UnsentUpTo(L, i - 1)
      BY <2>1, TurnAdds
    <3> QED
      BY <2>1, <3>1
  <2>3. /\ \A j \in 0 .. Len(L) :
            /\ IsFiniteSet(UnsentUpTo(L, j)) /\ Cardinality(UnsentUpTo(L, j)) \in Nat
            /\ IsFiniteSet(SentBy(L, n, j)) /\ Cardinality(SentBy(L, n, j)) \in Nat
            /\ SentBy(L, n, j) \subseteq UnsentUpTo(L, j)
            /\ Rank(L, j) = Cardinality(UnsentUpTo(L, j))
    BY TurnSets
  <2>4. CASE i \notin Unsent(L)
    <3>1. i \notin ToSend(L, n)
      BY <2>4 DEF ToSend
    <3>2. SentBy(L, n, i) = SentBy(L, n, k) /\ UnsentUpTo(L, i) = UnsentUpTo(L, k)
      BY <2>2, <2>4, <3>1
    <3> QED
      BY <1>3, <2>1, <3>2 DEF i
  <2>5. CASE i \in ToSend(L, n)
    <3>1. \A j \in UnsentUpTo(L, i) : j \in ToSend(L, n) /\ j <= i
      <4> TAKE j \in UnsentUpTo(L, i)
      <4>1. j \in Unsent(L) /\ j <= i /\ j \in 0 .. Len(L)
        BY <1>1 DEF UnsentUpTo, Unsent
      <4>2. Rank(L, j) <= Rank(L, i)
        BY <2>1, <4>1, RankGrows
      <4>3. n + Rank(L, i) <= PipelineLen
        BY <2>5 DEF ToSend
      <4>4. Rank(L, i) \in Nat /\ Rank(L, j) \in Nat
        BY <2>1, <2>3, <4>1
      <4> QED
        BY <1>1, <4>1, <4>2, <4>3, <4>4 DEF ToSend
    <3>2. SentBy(L, n, i) = UnsentUpTo(L, i)
      BY <2>1, <2>3, <3>1 DEF SentBy
    <3> QED
      BY <2>1, <3>2 DEF i
  <2>6. CASE i \in Unsent(L) /\ i \notin ToSend(L, n)
    <3>1. SentBy(L, n, i) = SentBy(L, n, k)
      BY <2>2, <2>6
    <3>2. ~(n + Rank(L, i) <= PipelineLen)
      BY <2>6 DEF ToSend
    <3>3. Cardinality(UnsentUpTo(L, i)) = Cardinality(UnsentUpTo(L, k)) + 1
      <4>1. UnsentUpTo(L, i) = UnsentUpTo(L, k) \cup {i}
        BY <2>2, <2>6
      <4>2. IsFiniteSet(UnsentUpTo(L, k)) /\ i \notin UnsentUpTo(L, k)
        BY <2>1, <2>2, <2>3
      <4> QED
        BY <4>1, <4>2, FS_AddElement
    <3>4. CASE SentBy(L, n, k) = UnsentUpTo(L, k)
      <4>1. n + Cardinality(SentBy(L, n, i)) >= PipelineLen
        BY <1>1, <2>1, <2>3, <3>1, <3>2, <3>3, <3>4
      <4> QED
        BY <2>1, <4>1 DEF i
    <3>5. CASE n + Cardinality(SentBy(L, n, k)) >= PipelineLen
      BY <2>1, <3>1, <3>5 DEF i
    <3> QED
      BY <1>3, <3>4, <3>5
  <2> QED
    BY <2>4, <2>5, <2>6
<1> HIDE DEF good
<1>4. \A i \in 0 .. Len(L) : i \in good
  BY <1>1, <1>2, <1>3, LoopInduction
<1> QED
  BY <1>4 DEF good

\* Counting on from a sequence number.
LEMMA SeqPlusNext ==
    ASSUME NEW k \in Nat, m_cli_seq \in SeqNums
    PROVE  SeqPlus(SeqPlus(m_cli_seq, k), 1) = SeqPlus(m_cli_seq, k + 1)
<1>1. m_cli_seq + k \in Nat /\ (m_cli_seq + k) + 1 = m_cli_seq + (k + 1)
  BY SeqSpaceAssumption DEF SeqNums
<1>2. SeqPlus((m_cli_seq + k) % SeqSpace, 1) = ((m_cli_seq + k) + 1) % SeqSpace
  <2>1. 1 \in Nat
    OBVIOUS
  <2> HIDE DEF SeqPlus
  <2> QED
    BY ONLY <1>1, <2>1, SeqPlusOfMod
<1> QED
  BY <1>1, <1>2 DEF SeqPlus

\* One turn of the code's loop takes one closed form to the next.
LEMMA TurnIs ==
    ASSUME NEW L, L \in Seq(Trans), NEW n \in Nat, NEW i \in 1 .. Len(L), m_cli_seq \in SeqNums
    PROVE  AfterTurns(L, n, i) = TrySendTurn(AfterTurns(L, n, i - 1), i)
<1> DEFINE k == i - 1
           before == AfterTurns(L, n, k)
<1>1. DOMAIN L = 1 .. Len(L) /\ Len(L) \in Nat /\ PipelineLen \in Nat
  BY LenProperties, PipelineAssumption
<1>2. /\ k \in 0 .. Len(L) /\ i \in 0 .. Len(L)
      /\ i \notin SentBy(L, n, k) /\ i \notin UnsentUpTo(L, k)
      /\ SentBy(L, n, i) = SentBy(L, n, k) \cup ({i} \cap ToSend(L, n))
      /\ UnsentUpTo(L, i) = UnsentUpTo(L, k) \cup ({i} \cap Unsent(L))
  BY TurnAdds
<1>3. /\ Cardinality(SentBy(L, n, k)) \in Nat /\ IsFiniteSet(SentBy(L, n, k))
      /\ Cardinality(UnsentUpTo(L, k)) \in Nat /\ IsFiniteSet(UnsentUpTo(L, k))
      /\ SentBy(L, n, k) \subseteq UnsentUpTo(L, k)
      /\ Rank(L, i) = Cardinality(UnsentUpTo(L, i))
  BY <1>2, TurnSets
<1>4. \/ SentBy(L, n, k) = UnsentUpTo(L, k)
      \/ n + Cardinality(SentBy(L, n, k)) >= PipelineLen
  BY <1>2, FullOrAllSent
<1> HIDE DEF k
<1>5. /\ before.list[i] = L[i]
      /\ before.inTransit = n + Cardinality(SentBy(L, n, k))
      /\ before.seq = SeqPlus(m_cli_seq, Cardinality(SentBy(L, n, k)))
  BY <1>1, <1>2 DEF AfterTurns
<1>6. i \in Unsent(L) <=> L[i].sendCount = 0
  BY <1>1 DEF Unsent
<1>7. CASE i \notin Unsent(L)
  <2>1. SentBy(L, n, i) = SentBy(L, n, k)
    BY <1>2, <1>7 DEF ToSend
  <2>2. TrySendTurn(before, i) = before
    BY <1>5, <1>6, <1>7 DEF TrySendTurn
  <2> QED
    BY <2>1, <2>2 DEF AfterTurns, k
<1>8. ASSUME i \in Unsent(L)
      PROVE  Rank(L, i) = Cardinality(UnsentUpTo(L, k)) + 1
  <2>1. UnsentUpTo(L, i) = UnsentUpTo(L, k) \cup {i}
    BY <1>2, <1>8
  <2>2. Cardinality(UnsentUpTo(L, i)) = Cardinality(UnsentUpTo(L, k)) + 1
    <3>1. IsFiniteSet(UnsentUpTo(L, k)) /\ i \notin UnsentUpTo(L, k)
      BY <1>2, <1>3 DEF k
    <3> QED
      BY <2>1, <3>1, FS_AddElement
  <2> QED
    BY <1>3, <2>2
<1>9. CASE i \in Unsent(L) /\ i \notin ToSend(L, n)
  <2>1. SentBy(L, n, i) = SentBy(L, n, k)
    BY <1>2, <1>9
  <2>2. ~(n + Rank(L, i) <= PipelineLen)
    BY <1>9 DEF ToSend
  <2>3. before.inTransit >= PipelineLen
    BY <1>1, <1>3, <1>4, <1>5, <1>8, <1>9, <2>2
  <2>4. TrySendTurn(before, i) = before
    BY <2>3 DEF TrySendTurn
  <2> QED
    BY <2>1, <2>4 DEF AfterTurns, k
<1>10. CASE i \in ToSend(L, n)
  <2>1. i \in Unsent(L) /\ n + Rank(L, i) <= PipelineLen
    BY <1>10 DEF ToSend
  <2>2. SentBy(L, n, i) = SentBy(L, n, k) \cup {i}
    BY <1>2, <1>10
  <2>3. Cardinality(SentBy(L, n, i)) = Cardinality(SentBy(L, n, k)) + 1
    BY <1>2, <1>3, <2>2, FS_AddElement
  <2>4. SentBy(L, n, k) = UnsentUpTo(L, k)
    <3>1. UnsentUpTo(L, k) \subseteq SentBy(L, n, k)
      <4> SUFFICES ASSUME NEW j \in UnsentUpTo(L, k) PROVE j \in SentBy(L, n, k)
        OBVIOUS
      <4>1. j \in Unsent(L) /\ j <= k /\ j \in 0 .. Len(L)
        BY <1>1 DEF UnsentUpTo, Unsent
      <4>2. Rank(L, j) <= Rank(L, i)
        BY <1>1, <1>2, <4>1, RankGrows DEF k
      <4>3. Rank(L, i) \in Nat /\ Rank(L, j) \in Nat
        BY <1>2, <4>1, TurnSets
      <4> QED
        BY <1>1, <2>1, <4>1, <4>2, <4>3 DEF SentBy, ToSend
    <3> QED
      BY <1>3, <3>1
  <2>5. Rank(L, i) = Cardinality(SentBy(L, n, k)) + 1
    BY <1>8, <2>1, <2>4
  <2>6. ~(before.inTransit >= PipelineLen)
    BY <1>1, <1>3, <1>5, <2>1, <2>5
  <2>7. SeqPlus(before.seq, 1) = SeqPlus(m_cli_seq, Cardinality(SentBy(L, n, k)) + 1)
    BY <1>3, <1>5, SeqPlusNext
  <2>8. TrySendTurn(before, i) =
            [list |-> [before.list EXCEPT ![i] = Sent(L[i], SeqPlus(m_cli_seq, Rank(L, i)))],
             inTransit |-> n + Cardinality(SentBy(L, n, i)),
             seq |-> SeqPlus(m_cli_seq, Cardinality(SentBy(L, n, i)))]
    <3>1. [before.list EXCEPT ![i] = Sent(@, SeqPlus(before.seq, 1))] =
            [before.list EXCEPT ![i] = Sent(L[i], SeqPlus(m_cli_seq, Rank(L, i)))]
      BY <1>5, <2>5, <2>7
    <3>2. before.inTransit + 1 = n + Cardinality(SentBy(L, n, i))
      BY <1>3, <1>5, <2>3
    <3>3. SeqPlus(before.seq, 1) = SeqPlus(m_cli_seq, Cardinality(SentBy(L, n, i)))
      BY <2>3, <2>7
    <3>4. ~(before.list[i].sendCount # 0)
      BY <1>5, <1>6, <2>1
    <3> HIDE DEF before
    <3> QED
      BY <2>6, <3>1, <3>2, <3>3, <3>4 DEF TrySendTurn
  <2> DEFINE list(s) == [j \in DOMAIN L |-> IF j \in s
                                            THEN Sent(L[j], SeqPlus(m_cli_seq, Rank(L, j)))
                                            ELSE L[j]]
  <2>9. [list(SentBy(L, n, k)) EXCEPT ![i] = Sent(L[i], SeqPlus(m_cli_seq, Rank(L, i)))]
            = list(SentBy(L, n, i))
    BY <1>1, <2>2
  <2>10. before.list = list(SentBy(L, n, k))
    BY DEF AfterTurns
  <2>11. AfterTurns(L, n, i) =
            [list |-> list(SentBy(L, n, i)),
             inTransit |-> n + Cardinality(SentBy(L, n, i)),
             seq |-> SeqPlus(m_cli_seq, Cardinality(SentBy(L, n, i)))]
    BY DEF AfterTurns
  <2> HIDE DEF list, before
  <2> QED
    BY <2>8, <2>9, <2>10, <2>11 DEF before, k
<1> QED
  BY <1>7, <1>9, <1>10

\* So the whole loop is the closed form.
LEMMA TrySendLoopIs ==
    ASSUME NEW L, L \in Seq(Trans), NEW n \in Nat, m_cli_seq \in SeqNums
    PROVE  TrySendLoop(L, n) = [list |-> AfterTrySend(L, n),
                                inTransit |-> n + Cardinality(ToSend(L, n)),
                                seq |-> SeqPlus(m_cli_seq, Cardinality(ToSend(L, n)))]
<1> DEFINE first == [list |-> L, inTransit |-> n, seq |-> m_cli_seq]
           Loops(f) == f = [i \in 0 .. Len(L) |->
                                IF i = 0 THEN first ELSE TrySendTurn(f[i - 1], i)]
           turn == CHOOSE f : Loops(f)
           closed == [i \in 0 .. Len(L) |-> AfterTurns(L, n, i)]
<1>1. DOMAIN L = 1 .. Len(L) /\ Len(L) \in Nat
  BY LenProperties
<1>2. TrySendLoop(L, n) = turn[Len(L)]
  BY DEF TrySendLoop
<1>3. AfterTurns(L, n, 0) = first
  <2>1. SentBy(L, n, 0) = {} /\ Cardinality({}) = 0
    BY <1>1, FS_EmptySet DEF SentBy, ToSend, Unsent
  <2>2. n + 0 = n /\ SeqPlus(m_cli_seq, 0) = m_cli_seq
    <3>1. m_cli_seq \in Nat /\ m_cli_seq < SeqSpace /\ SeqSpace \in Nat \ {0}
      BY SeqSpaceAssumption DEF SeqNums
    <3>2. m_cli_seq + 0 = SeqSpace * 0 + m_cli_seq
      BY <3>1
    <3>3. (SeqSpace * 0 + m_cli_seq) % SeqSpace = m_cli_seq
      BY <3>1, ModUnique
    <3> QED
      BY <3>2, <3>3 DEF SeqPlus
  <2>3. [j \in DOMAIN L |-> L[j]] = L
    BY <1>1
  <2> QED
    BY <2>1, <2>2, <2>3 DEF AfterTurns
<1>4. \A i \in 1 .. Len(L) : AfterTurns(L, n, i) = TrySendTurn(AfterTurns(L, n, i - 1), i)
  BY TurnIs
<1>5. Loops(closed)
  <2>1. \A i \in 0 .. Len(L) : i # 0 => i \in 1 .. Len(L) /\ i - 1 \in 0 .. Len(L)
    BY <1>1
  <2> HIDE DEF first
  <2> QED
    BY <1>3, <1>4, <2>1
<1>6. Loops(turn)
  <2> HIDE DEF Loops, closed
  <2> QED
    BY <1>5
<1> DEFINE good == {i \in 0 .. Len(L) : turn[i] = AfterTurns(L, n, i)}
<1> HIDE DEF first, turn
<1>7. 0 \in good
  BY <1>1, <1>3, <1>6
<1>8. ASSUME NEW i \in 0 .. (Len(L) - 1), i \in good PROVE i + 1 \in good
  <2>1. i + 1 \in 1 .. Len(L) /\ (i + 1) - 1 = i /\ i + 1 \in 0 .. Len(L) /\ i + 1 # 0
    BY <1>1
  <2>2. turn[i + 1] = TrySendTurn(turn[i], i + 1)
    BY <1>6, <2>1
  <2>3. turn[i] = AfterTurns(L, n, i)
    BY <1>8
  <2>4. AfterTurns(L, n, i + 1) = TrySendTurn(AfterTurns(L, n, i), i + 1)
    BY <1>4, <2>1
  <2> QED
    BY <2>1, <2>2, <2>3, <2>4
<1>9. Len(L) \in good
  <2> HIDE DEF good
  <2>1. \A i \in 0 .. Len(L) : i \in good
    BY <1>1, <1>7, <1>8, LoopInduction
  <2> QED
    BY <1>1, <2>1
<1>10. SentBy(L, n, Len(L)) = ToSend(L, n)
  BY <1>1 DEF SentBy, ToSend, Unsent
<1>11. AfterTurns(L, n, Len(L)) = [list |-> AfterTrySend(L, n),
                                   inTransit |-> n + Cardinality(ToSend(L, n)),
                                   seq |-> SeqPlus(m_cli_seq, Cardinality(ToSend(L, n)))]
  BY <1>10 DEF AfterTurns, AfterTrySend
<1> QED
  BY <1>2, <1>9, <1>11

\* The closed forms in the actions do what the loops of rw and trySendTransactions do:
\* a request is split into pieces that cover it, and the pipeline is filled in order,
\* one number each, whatever is in the list and in flight.
THEOREM LoopsCorrect == Spec => []LoopsAgree
<1> SUFFICES IInv => LoopsAgree
  BY Invariant, PTL
<1> SUFFICES ASSUME IInv PROVE LoopsAgree
  OBVIOUS
<1>1. m_transList \in Seq(Trans) /\ m_cli_seq \in SeqNums
  BY DEF IInv, Typed
<1>2. \A base \in {0, MaxPayloadWords}, n \in RequestSizes :
            SplitLoop[Regs(base, n)] = PiecesOf(base, n)
  BY SizesAssumption, PayloadAssumption, SplitLoopIs
<1>3. ASSUME NEW n \in 0 .. PipelineLen,
             NEW L \in {m_transList} \cup (IF m_transList = <<>> THEN {}
                                           ELSE {AfterResend(m_transList)})
      PROVE  TrySendLoop(L, n) = [list |-> AfterTrySend(L, n),
                                  inTransit |-> n + Cardinality(ToSend(L, n)),
                                  seq |-> SeqPlus(m_cli_seq, Cardinality(ToSend(L, n)))]
  <2>1. n \in Nat
    BY PipelineAssumption
  <2>2. L \in Seq(Trans)
    BY <1>1, AfterResendList
  <2> QED
    BY <1>1, <2>1, <2>2, TrySendLoopIs
<1> QED
  BY <1>2, <1>3 DEF LoopsAgree

--------------------------------------------------------------------------------
(* Slots and channels.                                                       *)

\* A channel is open in one slot.
OneSlotEach ==
    \A s, r \in 1 .. Len(m_chans) : m_chans[s] = m_chans[r] /\ m_chans[s] # 0 => s = r

\* The slot of a transaction holds the channel that asked, or is empty and that channel
\* is not open any more.
Addressed(t) ==
    \/ m_chans[t.ctx] = owner[t.id]
    \/ m_chans[t.ctx] = 0 /\ owner[t.id] \notin OpenChannels

Slots ==
    /\ OneSlotEach
    /\ \A i \in 1 .. Len(m_transList) : Addressed(m_transList[i])

\* The numbers and slots of the list stay those of L.
SameTransactions(L) ==
    /\ Len(m_transList') = Len(L)
    /\ \A i \in 1 .. Len(L) : /\ m_transList'[i].id = L[i].id
                              /\ m_transList'[i].ctx = L[i].ctx

Queue(L) == [i \in DOMAIN L |-> L[i].id]

\* What the invariant says of the variables used here.
LEMMA Facts ==
    ASSUME IInv
    PROVE  /\ opened \in Nat
           /\ Len(m_chans) \in Nat /\ DOMAIN m_chans = 1 .. Len(m_chans)
           /\ \A s \in 1 .. Len(m_chans) : m_chans[s] \in 0 .. opened
           /\ Len(owner) \in Nat /\ DOMAIN owner = 1 .. Len(owner)
           /\ \A id \in 1 .. Len(owner) : owner[id] \in 1 .. opened
           /\ Len(m_transList) \in Nat /\ DOMAIN m_transList = 1 .. Len(m_transList)
           /\ \A i \in 1 .. Len(m_transList) :
                /\ m_transList[i].id = Len(owner) - Len(m_transList) + i
                /\ m_transList[i].id \in 1 .. Len(owner)
                /\ m_transList[i].ctx \in 1 .. Len(m_chans)
<1>1. /\ m_chans \in Seq(0 .. opened) /\ owner \in Seq(1 .. opened)
      /\ m_transList \in Seq(Trans) /\ opened \in Nat
  BY DEF IInv, Typed
<1>2. /\ Len(m_chans) \in Nat /\ DOMAIN m_chans = 1 .. Len(m_chans)
      /\ Len(owner) \in Nat /\ DOMAIN owner = 1 .. Len(owner)
      /\ Len(m_transList) \in Nat /\ DOMAIN m_transList = 1 .. Len(m_transList)
  BY <1>1, LenProperties
<1>3. /\ \A s \in 1 .. Len(m_chans) : m_chans[s] \in 0 .. opened
      /\ \A id \in 1 .. Len(owner) : owner[id] \in 1 .. opened
  BY <1>1, ElementOfSeq
<1>4. ASSUME NEW i \in 1 .. Len(m_transList)
      PROVE  /\ m_transList[i].id = Len(owner) - Len(m_transList) + i
             /\ m_transList[i].id \in 1 .. Len(owner)
             /\ m_transList[i].ctx \in 1 .. Len(m_chans)
  <2>1. m_transList[i].id = Len(owner) - Len(m_transList) + i
        /\ Len(m_transList) <= Len(owner)
    BY DEF IInv, Consecutive
  <2>2. m_transList[i].ctx \in 1 .. Len(m_chans)
    BY DEF IInv, Typed
  <2> QED
    BY <1>2, <2>1, <2>2
<1> QED
  BY <1>1, <1>2, <1>3, <1>4

LEMMA OpenChannelsAre ==
    ASSUME IInv
    PROVE  \A c : c \in OpenChannels <=> c # 0 /\ \E s \in 1 .. Len(m_chans) : m_chans[s] = c
  BY Facts DEF OpenChannels

\* The numbers of the list are determined by its length.
LEMMA QueueIs ==
    ASSUME IInv
    PROVE  Queue(m_transList) =
                [i \in 1 .. Len(m_transList) |-> Len(owner) - Len(m_transList) + i]
  BY Facts DEF Queue

\* The signal of a pending transaction is what the service reports.
LEMMA SignalIsReport ==
    ASSUME IInv, Slots, NEW i \in 1 .. Len(m_transList), NEW outcome
    PROVE  Signal(m_transList[i], outcome) = Service!Report(m_transList[i].id, outcome)
<1> DEFINE t == m_transList[i]
<1>1. /\ t.id \in 1 .. Len(owner) /\ t.ctx \in 1 .. Len(m_chans)
      /\ owner[t.id] \in 1 .. opened /\ opened \in Nat
  BY Facts
<1>2. Addressed(t)
  BY DEF Slots
<1>3. {m_chans[t.ctx]} \ {0} = {owner[t.id]} \cap OpenChannels
  <2>1. CASE m_chans[t.ctx] = owner[t.id]
    <3>1. owner[t.id] # 0
      BY <1>1
    <3>2. owner[t.id] \in OpenChannels
      BY <1>1, <2>1, <3>1, OpenChannelsAre
    <3> QED
      BY <2>1, <3>1, <3>2
  <2>2. CASE m_chans[t.ctx] = 0 /\ owner[t.id] \notin OpenChannels
    BY <2>2
  <2> QED
    BY <1>2, <2>1, <2>2 DEF Addressed
<1> HIDE DEF t
<1>4. Signal(t, outcome) = Service!Report(t.id, outcome)
  BY <1>3 DEF Signal, Service!Report
<1> QED
  BY <1>4 DEF t

--------------------------------------------------------------------------------
(* Steps on the list.                                                        *)

\* Sending changes neither numbers nor slots.
LEMMA TrySendSame ==
    ASSUME NEW STATE L, L \in Seq(Trans), NEW STATE n, SentOnce(L, n), n <= PipelineLen,
           m_cli_seq \in SeqNums, NEW STATE running, TrySendTransactions(L, n, running)
    PROVE  SameTransactions(L)
<1>1. m_transList' = AfterTrySend(L, n)
  BY DEF TrySendTransactions
<1>2. /\ Len(AfterTrySend(L, n)) = Len(L)
      /\ \A i \in 1 .. Len(L) : /\ AfterTrySend(L, n)[i].id = L[i].id
                                /\ AfterTrySend(L, n)[i].ctx = L[i].ctx
  BY AfterTrySendList
<1> QED
  BY <1>1, <1>2 DEF SameTransactions

\* Neither does going back to the oldest one, unless the connection is given up.
LEMMA ResendSame ==
    ASSUME NEW STATE L, L \in Seq(Trans), L # <<>>, NEW STATE n, NEW STATE running,
           NEW STATE signalled, ResendOldestTransaction(L, n, running, signalled)
    PROVE  \/ /\ RetriesUsedUp(L[1]) /\ CloseConnection(L, n, signalled)
           \/ /\ ~ RetriesUsedUp(L[1]) /\ SameTransactions(L)
              /\ results' = signalled /\ UNCHANGED m_isConnected
<1>1. /\ Len(AfterResend(L)) = Len(L)
      /\ \A i \in 1 .. Len(L) : /\ AfterResend(L)[i].id = L[i].id
                                /\ AfterResend(L)[i].ctx = L[i].ctx
  BY AfterResendList
<1>2. CASE m_transList' = AfterResend(L)
  BY <1>1, <1>2 DEF SameTransactions, ResendOldestTransaction
<1> QED
  BY <1>2 DEF ResendOldestTransaction

\* The channels stay, and the list stays the same.
LEMMA SameSlots ==
    ASSUME IInv, Slots, SameTransactions(m_transList), UNCHANGED <<m_chans, owner>>
    PROVE  Slots'
<1>1. OpenChannels' = OpenChannels
  BY DEF OpenChannels
<1>2. OneSlotEach'
  BY DEF Slots, OneSlotEach
<1>3. ASSUME NEW i \in 1 .. Len(m_transList')
      PROVE  Addressed(m_transList[i])'
  <2>1. i \in 1 .. Len(m_transList) /\ m_transList'[i].id = m_transList[i].id
        /\ m_transList'[i].ctx = m_transList[i].ctx
    BY <1>3 DEF SameTransactions
  <2>2. Addressed(m_transList[i])
    BY <2>1 DEF Slots
  <2> QED
    BY <1>1, <2>1, <2>2 DEF Addressed
<1> QED
  BY <1>2, <1>3 DEF Slots

\* Nothing the service knows of has changed.
ServiceStutters == UNCHANGED Service!vars

LEMMA SameQueue ==
    ASSUME IInv, IInv', Len(m_transList') = Len(m_transList), UNCHANGED owner
    PROVE  Queue(m_transList)' = Queue(m_transList)
<1>1. Queue(m_transList) = [i \in 1 .. Len(m_transList) |-> Len(owner) - Len(m_transList) + i]
  BY QueueIs
<1>2. /\ DOMAIN m_transList' = 1 .. Len(m_transList')
      /\ \A i \in 1 .. Len(m_transList') :
            m_transList'[i].id = Len(owner') - Len(m_transList') + i
  <2>1. m_transList' \in Seq(Trans)
    BY DEF IInv, Typed
  <2>2. DOMAIN m_transList' = 1 .. Len(m_transList')
    BY <2>1, LenProperties
  <2> QED
    BY <2>2 DEF IInv, Consecutive
<1>3. Queue(m_transList)' =
        [i \in 1 .. Len(m_transList') |-> Len(owner') - Len(m_transList') + i]
  BY <1>2 DEF Queue
<1> QED
  BY <1>1, <1>3

LEMMA StutterStep ==
    ASSUME IInv, IInv', Len(m_transList') = Len(m_transList),
           UNCHANGED <<m_isConnected, m_chans, opened, owner, results>>
    PROVE  ServiceStutters
<1>1. Queue(m_transList)' = Queue(m_transList)
  BY SameQueue
<1>2. OpenChannels' = OpenChannels
  BY DEF OpenChannels
<1> QED
  BY <1>1, <1>2 DEF ServiceStutters, Service!vars, Queue

--------------------------------------------------------------------------------
(* The user's steps.                                                         *)

\* openChannel never takes a slot that a pending transaction refers to.
LEMMA OpenChannelStep ==
    ASSUME IInv, IInv', Slots, OpenChannel
    PROVE  Slots' /\ Service!Open
<1> DEFINE c == opened + 1
           N == Len(m_chans)
<1>1. /\ opened < MaxOpens /\ opened' = c
      /\ UNCHANGED <<m_isConnected, m_transList, owner, results>>
  BY DEF OpenChannel
<1>2. /\ opened \in Nat /\ N \in Nat /\ DOMAIN m_chans = 1 .. N
      /\ \A s \in 1 .. N : m_chans[s] \in 0 .. opened /\ m_chans[s] # c
      /\ \A i \in 1 .. Len(m_transList) : /\ m_transList[i].ctx \in 1 .. N
                                          /\ m_transList[i].id \in 1 .. Len(owner)
      /\ \A id \in 1 .. Len(owner) : owner[id] \in 1 .. opened /\ owner[id] # c
      /\ DOMAIN m_transList = 1 .. Len(m_transList)
  BY Facts
<1>3. \E slot \in 1 .. Len(m_chans') :
            /\ m_chans'[slot] = c
            /\ \A s \in 1 .. Len(m_chans') : s # slot => s \in 1 .. N /\ m_chans'[s] = m_chans[s]
            /\ \A s \in 1 .. N : s \in 1 .. Len(m_chans')
            /\ slot \in 1 .. N => m_chans[slot] = 0
            /\ \A i \in 1 .. Len(m_transList) : m_transList[i].ctx # slot
  <2>1. m_chans \in Seq(0 .. opened)
    BY DEF IInv, Typed
  <2>2. CASE FreeSlots = {}
    <3>1. m_chans' = Append(m_chans, c)
      BY <2>2 DEF OpenChannel
    <3>2. /\ Len(m_chans') = N + 1
          /\ \A s \in 1 .. N : m_chans'[s] = m_chans[s]
          /\ m_chans'[N + 1] = c
      BY <2>1, <3>1, AppendProperties
    <3> HIDE DEF N, c
    <3>3. /\ N + 1 \in 1 .. (N + 1) /\ N + 1 \notin 1 .. N
          /\ \A s \in 1 .. (N + 1) : s # N + 1 => s \in 1 .. N
          /\ \A s \in 1 .. N : s \in 1 .. (N + 1)
      BY <1>2
    <3>4. \A i \in 1 .. Len(m_transList) : m_transList[i].ctx # N + 1
      BY <1>2, <3>3
    <3> QED
      BY <3>2, <3>3, <3>4
  <2>3. CASE FreeSlots # {}
    <3> DEFINE slot == CHOOSE s \in FreeSlots : \A r \in FreeSlots : s <= r
    <3>1. FreeSlots \in SUBSET Nat
      BY <1>2 DEF FreeSlots
    <3>2. slot \in FreeSlots
      BY <2>3, <3>1, LeastElement
    <3>3. m_chans' = [m_chans EXCEPT ![slot] = c]
      BY <2>3 DEF OpenChannel
    <3> HIDE DEF slot
    <3>4. /\ slot \in 1 .. N /\ m_chans[slot] = 0
          /\ \A i \in 1 .. Len(m_transList) : m_transList[i].ctx # slot
      BY <1>2, <3>2 DEF FreeSlots
    <3>5. DOMAIN m_chans' = 1 .. N /\ m_chans'[slot] = c
          /\ \A s \in 1 .. N : s # slot => m_chans'[s] = m_chans[s]
      BY <1>2, <3>3, <3>4
    <3>6. 1 .. N = 1 .. Len(m_chans')
      <4>1. m_chans' \in Seq(0 .. opened')
        BY DEF IInv, Typed
      <4> QED
        BY <3>5, <4>1, LenProperties
    <3> HIDE DEF N, c
    <3> QED
      BY <3>4, <3>5, <3>6
  <2> QED
    BY <2>2, <2>3
<1>4. PICK slot \in 1 .. Len(m_chans') :
            /\ m_chans'[slot] = c
            /\ \A s \in 1 .. Len(m_chans') : s # slot => s \in 1 .. N /\ m_chans'[s] = m_chans[s]
            /\ \A s \in 1 .. N : s \in 1 .. Len(m_chans')
            /\ slot \in 1 .. N => m_chans[slot] = 0
            /\ \A i \in 1 .. Len(m_transList) : m_transList[i].ctx # slot
  BY <1>3
<1>5. c # 0 /\ c \in Nat
  BY <1>2
<1> HIDE DEF c, N
<1>6. DOMAIN m_chans' = 1 .. Len(m_chans')
  <2>1. m_chans' \in Seq(0 .. opened')
    BY DEF IInv, Typed
  <2> QED
    BY <2>1, LenProperties
<1>7. OpenChannels' = OpenChannels \cup {c}
  <2>1. ASSUME NEW d PROVE d \in OpenChannels' => d \in OpenChannels \cup {c}
    BY <1>2, <1>4, <1>6 DEF OpenChannels
  <2>2. ASSUME NEW d \in OpenChannels PROVE d \in OpenChannels'
    BY <1>2, <1>4, <1>6 DEF OpenChannels
  <2>3. c \in OpenChannels'
    BY <1>4, <1>5, <1>6 DEF OpenChannels
  <2> QED
    BY <2>1, <2>2, <2>3
<1>8. OneSlotEach'
  BY <1>2, <1>4 DEF Slots, OneSlotEach
<1>9. ASSUME NEW i \in 1 .. Len(m_transList)
      PROVE  Addressed(m_transList[i])'
  <2>1. /\ m_chans'[m_transList[i].ctx] = m_chans[m_transList[i].ctx]
        /\ owner[m_transList[i].id] # c
    BY <1>2, <1>4
  <2>2. Addressed(m_transList[i])
    BY DEF Slots
  <2> QED
    BY <1>1, <1>7, <2>1, <2>2 DEF Addressed
<1>10. Slots'
  BY <1>1, <1>8, <1>9 DEF Slots
<1>11. Service!Open
  BY <1>1, <1>7 DEF Service!Open, c
<1> QED
  BY <1>10, <1>11

LEMMA DisposeStep ==
    ASSUME IInv, Slots, NEW s \in DOMAIN m_chans, Dispose(s)
    PROVE  Slots' /\ m_chans[s] \in OpenChannels /\ Service!Dispose(m_chans[s])
<1>1. /\ m_chans' = [m_chans EXCEPT ![s] = 0] /\ m_chans[s] # 0
      /\ UNCHANGED <<m_isConnected, m_transList, opened, owner, results>>
  BY DEF Dispose
<1>2. /\ DOMAIN m_chans = 1 .. Len(m_chans) /\ Len(m_chans) \in Nat
      /\ \A i \in 1 .. Len(m_transList) : m_transList[i].ctx \in 1 .. Len(m_chans)
  BY Facts
<1>3. /\ m_chans'[s] = 0 /\ \A r \in DOMAIN m_chans : r # s => m_chans'[r] = m_chans[r]
      /\ DOMAIN m_chans' = DOMAIN m_chans
  BY <1>1
<1>4. Len(m_chans') = Len(m_chans)
  <2>1. m_chans \in Seq(0 .. opened) /\ opened \in Nat /\ 0 \in 0 .. opened
    BY DEF IInv, Typed
  <2> QED
    BY <1>1, <1>2, <2>1, ExceptSeq
<1>5. \A r \in DOMAIN m_chans : m_chans[r] = m_chans[s] => r = s
  BY <1>1, <1>2 DEF Slots, OneSlotEach
<1>6. OpenChannels' = OpenChannels \ {m_chans[s]}
  <2>1. ASSUME NEW d PROVE d \in OpenChannels' => d \in OpenChannels \ {m_chans[s]}
    BY <1>3, <1>5 DEF OpenChannels
  <2>2. ASSUME NEW d \in OpenChannels, d # m_chans[s] PROVE d \in OpenChannels'
    BY <1>3, <2>2 DEF OpenChannels
  <2> QED
    BY <2>1, <2>2
<1>7. m_chans[s] \in OpenChannels
  BY <1>1 DEF OpenChannels
<1>8. OneSlotEach'
  BY <1>2, <1>3, <1>4 DEF Slots, OneSlotEach
<1>9. ASSUME NEW i \in 1 .. Len(m_transList)
      PROVE  Addressed(m_transList[i])'
  <2>1. Addressed(m_transList[i]) /\ m_transList[i].ctx \in DOMAIN m_chans
    BY <1>2 DEF Slots
  <2>2. CASE m_transList[i].ctx = s
    BY <1>1, <1>3, <1>6, <2>1, <2>2 DEF Addressed
  <2>3. CASE m_transList[i].ctx # s
    BY <1>1, <1>3, <1>6, <2>1, <2>3 DEF Addressed
  <2> QED
    BY <2>2, <2>3
<1>10. Slots'
  BY <1>1, <1>8, <1>9 DEF Slots
<1>11. Service!Dispose(m_chans[s])
  BY <1>1, <1>6 DEF Service!Dispose
<1> QED
  BY <1>7, <1>10, <1>11

\* RwChannel::rw on a failed connection.
LEMMA RefuseStep ==
    ASSUME IInv, Slots, NEW s \in DOMAIN m_chans, RwNotConnected(s)
    PROVE  Slots' /\ m_chans[s] \in OpenChannels /\ Service!Refuse(m_chans[s])
<1>1. /\ ~m_isConnected /\ m_chans[s] # 0 /\ Len(owner) < MaxTrans
      /\ owner' = Append(owner, m_chans[s])
      /\ results' = results \cup
            {[id |-> Len(owner) + 1, to |-> m_chans[s], outcome |-> "timeout"]}
      /\ UNCHANGED <<m_isConnected, m_transList, m_chans, opened>>
  BY DEF RwNotConnected
<1>2. Len(m_transList) = 0
  BY <1>1, EmptySeq DEF IInv, Window
<1>3. Slots'
  BY <1>1, <1>2 DEF Slots, OneSlotEach
<1>4. m_chans[s] \in OpenChannels /\ OpenChannels' = OpenChannels
  BY <1>1 DEF OpenChannels
<1>5. Service!Refuse(m_chans[s])
  BY <1>1, <1>4 DEF Service!Refuse
<1> QED
  BY <1>3, <1>4, <1>5

\* The numbers of the list after a step.
LEMMA QueueAfter ==
    ASSUME IInv'
    PROVE  Queue(m_transList)' =
                [i \in 1 .. Len(m_transList') |-> Len(owner') - Len(m_transList') + i]
<1>1. m_transList' \in Seq(Trans)
  BY DEF IInv, Typed
<1>2. DOMAIN m_transList' = 1 .. Len(m_transList')
  BY <1>1, LenProperties
<1>3. \A i \in 1 .. Len(m_transList') :
            m_transList'[i].id = Len(owner') - Len(m_transList') + i
  BY DEF IInv, Consecutive
<1> QED
  BY <1>2, <1>3 DEF Queue

\* The queue is a sequence of numbers.
LEMMA QueueType ==
    ASSUME IInv
    PROVE  /\ Queue(m_transList) \in Seq(Int)
           /\ Len(Queue(m_transList)) = Len(m_transList)
           /\ \A i \in 1 .. Len(m_transList) :
                Queue(m_transList)[i] = Len(owner) - Len(m_transList) + i
<1>1. Queue(m_transList) = [i \in 1 .. Len(m_transList) |-> Len(owner) - Len(m_transList) + i]
  BY QueueIs
<1>2. Len(owner) \in Nat /\ Len(m_transList) \in Nat
  BY Facts
<1>3. Queue(m_transList) \in [1 .. Len(m_transList) -> Int]
  BY <1>1, <1>2
<1>4. Queue(m_transList) \in Seq(Int) /\ Len(Queue(m_transList)) = Len(m_transList)
  BY <1>2, <1>3, SeqOfFunction
<1> QED
  BY <1>1, <1>4

\* New requests go to its end.
LEMMA QueueGrows ==
    ASSUME IInv, NEW p \in Nat
    PROVE  Queue(m_transList) \o [k \in 1 .. p |-> Len(owner) + k] =
                [i \in 1 .. (Len(m_transList) + p) |-> Len(owner) - Len(m_transList) + i]
<1> DEFINE Q == Queue(m_transList)
           N == [k \in 1 .. p |-> Len(owner) + k]
           n == Len(m_transList)
           F == [i \in 1 .. (n + p) |-> Len(owner) - n + i]
<1>1. n \in Nat /\ Len(owner) \in Nat
  BY Facts
<1>2. Q \in Seq(Int) /\ Len(Q) = n /\ \A i \in 1 .. n : Q[i] = Len(owner) - n + i
  BY QueueType
<1>3. N \in [1 .. p -> Int] /\ \A k \in 1 .. p : N[k] = Len(owner) + k
  BY <1>1
<1>4. DOMAIN F = 1 .. (n + p) /\ \A i \in 1 .. (n + p) : F[i] = Len(owner) - n + i
  OBVIOUS
<1>5. F = [i \in 1 .. (n + p) |-> F[i]]
  OBVIOUS
<1> HIDE DEF Q, N, n, F
<1>6. N \in Seq(Int) /\ Len(N) = p
  BY <1>3, SeqOfFunction
<1>7. /\ Q \o N \in Seq(Int) /\ Len(Q \o N) = n + p
      /\ \A i \in 1 .. (n + p) : (Q \o N)[i] = IF i <= n THEN Q[i] ELSE N[i - n]
  BY <1>2, <1>6, ConcatProperties
<1>8. ASSUME NEW i \in 1 .. (n + p)
      PROVE  (Q \o N)[i] = F[i]
  <2>1. i \in Int /\ F[i] = Len(owner) - n + i
    BY <1>4
  <2>2. CASE i <= n
    <3>1. i \in 1 .. n
      BY <1>1, <2>1, <2>2
    <3>2. (Q \o N)[i] = Q[i]
      BY <1>7, <2>2
    <3> QED
      BY ONLY <1>2, <2>1, <3>1, <3>2
  <2>3. CASE ~(i <= n)
    <3>1. i - n \in 1 .. p
      BY <1>1, <2>1, <2>3
    <3>2. (Q \o N)[i] = N[i - n]
      BY <1>7, <2>3
    <3>3. N[i - n] = Len(owner) + (i - n)
      BY ONLY <1>3, <3>1
    <3>4. Len(owner) + (i - n) = Len(owner) - n + i
      BY ONLY <1>1, <2>1
    <3> QED
      BY ONLY <2>1, <3>2, <3>3, <3>4
  <2> QED
    BY <2>2, <2>3
<1>9. Q \o N \in [1 .. (n + p) -> Int]
  BY <1>7, LenProperties
<1>10. Q \o N = F
  BY <1>5, <1>8, <1>9
<1> QED
  BY <1>10 DEF Q, N, n, F

\* The oldest leaves it.
LEMMA QueueShrinks ==
    ASSUME IInv, m_transList # <<>>
    PROVE  Tail(Queue(m_transList)) =
                [i \in 1 .. (Len(m_transList) - 1) |-> Len(owner) - (Len(m_transList) - 1) + i]
<1> DEFINE Q == Queue(m_transList)
           n == Len(m_transList)
           F == [i \in 1 .. (n - 1) |-> Len(owner) - (n - 1) + i]
<1>1. n \in Nat /\ n >= 1 /\ Len(owner) \in Nat
  BY FrontFacts
<1>2. Q \in Seq(Int) /\ Len(Q) = n /\ \A i \in 1 .. n : Q[i] = Len(owner) - n + i
  BY QueueType
<1>3. F = [i \in 1 .. (n - 1) |-> F[i]]
      /\ \A i \in 1 .. (n - 1) : F[i] = Len(owner) - (n - 1) + i
  OBVIOUS
<1> HIDE DEF Q, n, F
<1>4. Q # <<>>
  BY <1>1, <1>2, EmptySeq
<1>5. /\ Tail(Q) \in Seq(Int) /\ Len(Tail(Q)) = n - 1
      /\ \A i \in 1 .. (n - 1) : Tail(Q)[i] = Q[i + 1]
  BY <1>2, <1>4, HeadTailProperties
<1>6. ASSUME NEW i \in 1 .. (n - 1)
      PROVE  Tail(Q)[i] = F[i]
  <2>1. i \in Int /\ i + 1 \in 1 .. n
    BY <1>1
  <2>2. Tail(Q)[i] = Q[i + 1] /\ F[i] = Len(owner) - (n - 1) + i
    BY <1>3, <1>5
  <2>3. Q[i + 1] = Len(owner) - n + (i + 1)
    BY ONLY <1>2, <2>1
  <2>4. Len(owner) - n + (i + 1) = Len(owner) - (n - 1) + i
    BY ONLY <1>1, <2>1
  <2> QED
    BY ONLY <2>2, <2>3, <2>4
<1>7. Tail(Q) \in [1 .. (n - 1) -> Int]
  BY <1>5, LenProperties
<1>8. Tail(Q) = F
  BY <1>3, <1>6, <1>7
<1> QED
  BY <1>8 DEF Q, n, F

\* A new transaction refers to the slot of the channel, and was not sent yet.
LEMMA NewTransaction ==
    \A id, slot : /\ Transaction(id, slot).id = id
                  /\ Transaction(id, slot).ctx = slot
                  /\ Transaction(id, slot).sendCount = 0
  BY DEF Transaction

\* What rw makes of the list, the owners and the window.
LEMMA RequestList ==
    ASSUME IInv, NEW s \in DOMAIN m_chans, NEW numRegs \in RequestSizes, Rw(s, numRegs)
    PROVE  LET p == NumPieces(numRegs)
               L == PushBack(s, p)
           IN  /\ p \in Nat
               /\ SameTransactions(L)
               /\ Len(L) = Len(m_transList) + p
               /\ \A i \in 1 .. Len(m_transList) : L[i] = m_transList[i]
               /\ \A i \in (Len(m_transList) + 1) .. Len(L) :
                        L[i].ctx = s /\ L[i].id = Len(owner) + (i - Len(m_transList))
               /\ Len(owner') = Len(owner) + p
               /\ \A id \in 1 .. Len(owner) : owner'[id] = owner[id]
               /\ \A id \in (Len(owner) + 1) .. (Len(owner) + p) : owner'[id] = m_chans[s]
<1> DEFINE p == NumPieces(numRegs)
           L == PushBack(s, p)
           asked == [k \in 1 .. p |-> m_chans[s]]
<1>1. p \in Nat /\ s \in 1 .. Len(m_chans)
  BY NumPiecesType, Facts
<1>2. /\ L \in Seq(Trans) /\ Len(L) = Len(m_transList) + p
      /\ \A i \in 1 .. Len(m_transList) : L[i] = m_transList[i]
      /\ \A i \in (Len(m_transList) + 1) .. Len(m_transList) + p :
                L[i] = Transaction(Len(owner) + (i - Len(m_transList)), s)
  <2> HIDE DEF p
  <2> QED
    BY <1>1, RwList
<1>3. /\ Len(m_transList) \in Nat /\ Len(owner) \in Nat /\ PipelineLen \in Nat
      /\ m_chans[s] \in 0 .. opened /\ opened \in Nat
  BY <1>1, Facts, PipelineAssumption
<1>4. /\ asked \in Seq(0 .. opened) /\ Len(asked) = p
      /\ \A k \in 1 .. p : asked[k] = m_chans[s]
  <2>1. asked \in [1 .. p -> 0 .. opened] /\ \A k \in 1 .. p : asked[k] = m_chans[s]
    BY <1>3
  <2> HIDE DEF asked, p
  <2> QED
    BY <1>1, <2>1, SeqOfFunction
<1>5. owner \in Seq(0 .. opened)
  <2>1. 1 .. opened \subseteq 0 .. opened /\ owner \in Seq(1 .. opened)
    BY <1>3 DEF IInv, Typed
  <2> QED
    BY <2>1, SeqMonotonic
<1>6. owner' = owner \o asked
  BY DEF Rw
<1>7. SameTransactions(L)
  <2>1. CASE m_waitingForRetryResponse
    <3>1. m_transList' = L
      BY <2>1 DEF Rw
    <3> HIDE DEF L
    <3> QED
      BY <3>1 DEF SameTransactions
  <2>2. CASE ~ m_waitingForRetryResponse
    <3>1. TrySendTransactions(L, m_numInTransit, m_timer)
      BY <2>2 DEF Rw
    <3>2. /\ m_numInTransit = WindowEnd(m_transList) /\ SentOnce(m_transList, m_numInTransit)
          /\ m_cli_seq \in SeqNums
      BY <2>2 DEF IInv, Window, Typed
    <3>3. m_numInTransit \in 0 .. Len(m_transList) /\ m_numInTransit <= PipelineLen
      BY <1>3, <3>2 DEF WindowEnd
    <3> HIDE DEF L, p
    <3>4. SentOnce(L, m_numInTransit)
      <4>1. \A i \in 1 .. Len(m_transList) :
                  L[i].sendCount = IF i <= m_numInTransit THEN 1 ELSE 0
        BY <1>2, <3>2 DEF SentOnce
      <4>2. \A i \in (Len(m_transList) + 1) .. Len(m_transList) + p : L[i].sendCount = 0
        BY <1>2, NewTransaction
      <4> QED
        BY <1>1, <1>2, <1>3, <3>3, <4>1, <4>2 DEF SentOnce
    <3> QED
      BY <1>2, <3>1, <3>2, <3>3, <3>4, TrySendSame
  <2> QED
    BY <2>1, <2>2
<1> HIDE DEF L, p, asked
<1>8. \A i \in (Len(m_transList) + 1) .. Len(L) :
            L[i].ctx = s /\ L[i].id = Len(owner) + (i - Len(m_transList))
  BY <1>2, NewTransaction
<1>9. /\ Len(owner') = Len(owner) + p
      /\ \A i \in 1 .. (Len(owner) + p) :
            owner'[i] = IF i <= Len(owner) THEN owner[i] ELSE asked[i - Len(owner)]
  BY <1>4, <1>5, <1>6, ConcatProperties
<1>10. /\ \A id \in 1 .. Len(owner) : owner'[id] = owner[id]
       /\ \A id \in (Len(owner) + 1) .. (Len(owner) + p) : owner'[id] = m_chans[s]
  BY <1>1, <1>3, <1>4, <1>9
<1> QED
  BY <1>1, <1>2, <1>7, <1>8, <1>9, <1>10 DEF L, p

\* RwChannel::rw while connected: the transactions belong to whoever asked.  A
\* request for no register changes nothing the service knows of.
LEMMA RequestStep ==
    ASSUME IInv, IInv', Slots, NEW s \in DOMAIN m_chans, NEW numRegs \in RequestSizes,
           Rw(s, numRegs)
    PROVE  /\ Slots' /\ m_chans[s] \in OpenChannels
           /\ \/ ServiceStutters
              \/ \E p \in 1 .. MaxTrans : Service!Request(m_chans[s], p)
<1> DEFINE p == NumPieces(numRegs)
           L == PushBack(s, p)
<1>1. /\ p \in Nat
      /\ SameTransactions(L)
      /\ Len(L) = Len(m_transList) + p
      /\ \A i \in 1 .. Len(m_transList) : L[i] = m_transList[i]
      /\ \A i \in (Len(m_transList) + 1) .. Len(L) :
               L[i].ctx = s /\ L[i].id = Len(owner) + (i - Len(m_transList))
      /\ Len(owner') = Len(owner) + p
      /\ \A id \in 1 .. Len(owner) : owner'[id] = owner[id]
      /\ \A id \in (Len(owner) + 1) .. (Len(owner) + p) : owner'[id] = m_chans[s]
  BY RequestList
<1>2. /\ m_isConnected /\ m_chans[s] # 0 /\ Len(owner) + p <= MaxTrans
      /\ owner' = owner \o [k \in 1 .. p |-> m_chans[s]]
      /\ UNCHANGED <<m_isConnected, m_chans, opened, results>>
  BY DEF Rw
<1>3. /\ Len(m_transList) \in Nat /\ Len(owner) \in Nat
      /\ \A i \in 1 .. Len(m_transList) : m_transList[i].id \in 1 .. Len(owner)
  BY Facts
<1>4. m_chans[s] \in OpenChannels /\ OpenChannels' = OpenChannels
  BY <1>2 DEF OpenChannels
<1>5. QED
  <2> HIDE DEF L
  <2>1. Slots'
    <3>1. OneSlotEach'
      BY <1>2 DEF Slots, OneSlotEach
    <3>2. ASSUME NEW i \in 1 .. Len(m_transList')
          PROVE  Addressed(m_transList[i])'
      <4> HIDE DEF p
      <4>1. i \in 1 .. Len(L) /\ m_transList'[i].id = L[i].id /\ m_transList'[i].ctx = L[i].ctx
        BY <1>1 DEF SameTransactions
      <4>2. CASE i <= Len(m_transList)
        <5>1. i \in 1 .. Len(m_transList)
          BY <1>3, <4>1, <4>2
        <5>2. /\ m_transList'[i].id = m_transList[i].id
              /\ m_transList'[i].ctx = m_transList[i].ctx
              /\ owner'[m_transList[i].id] = owner[m_transList[i].id]
          BY <1>1, <1>3, <4>1, <5>1
        <5>3. Addressed(m_transList[i])
          BY <5>1 DEF Slots
        <5> QED
          BY <1>2, <1>4, <5>2, <5>3 DEF Addressed
      <4>3. CASE ~ (i <= Len(m_transList))
        <5>1. i \in (Len(m_transList) + 1) .. Len(L)
          BY <1>1, <1>3, <4>1, <4>3
        <5>2. /\ m_transList'[i].ctx = s
              /\ m_transList'[i].id = Len(owner) + (i - Len(m_transList))
          BY <1>1, <4>1, <5>1
        <5>3. m_transList'[i].id \in (Len(owner) + 1) .. (Len(owner) + p)
          BY <1>1, <1>3, <5>1, <5>2
        <5> QED
          BY <1>1, <1>2, <5>2, <5>3 DEF Addressed
      <4> QED
        BY <4>2, <4>3
    <3> QED
      BY <3>1, <3>2 DEF Slots
  <2>2. /\ Len(m_transList') = Len(m_transList) + p
        /\ Len(owner') - Len(m_transList') = Len(owner) - Len(m_transList)
    <3> HIDE DEF p
    <3>1. Len(m_transList') = Len(L)
      BY <1>1 DEF SameTransactions
    <3> QED
      BY <1>1, <1>3, <3>1
  <2>3. Queue(m_transList)' = Queue(m_transList) \o [k \in 1 .. p |-> Len(owner) + k]
    <3> HIDE DEF p
    <3>1. Queue(m_transList)' =
                [i \in 1 .. (Len(m_transList) + p) |-> Len(owner) - Len(m_transList) + i]
      BY <2>2, QueueAfter
    <3> QED
      BY <1>1, <3>1, QueueGrows
  <2>4. CASE p = 0
    <3>1. Len(m_transList') = Len(m_transList)
      BY <1>3, <2>2, <2>4
    <3>2. owner' = owner
      <4> DEFINE asked == [k \in 1 .. p |-> m_chans[s]]
      <4>1. asked = <<>>
        <5>1. asked \in [1 .. 0 -> {m_chans[s]}]
          BY <2>4
        <5> HIDE DEF asked
        <5>2. asked \in Seq({m_chans[s]}) /\ Len(asked) = 0
          BY <5>1, SeqOfFunction
        <5> QED
          BY <5>2, EmptySeq
      <4>2. owner' = owner \o asked /\ owner \in Seq(1 .. opened)
        BY <1>2 DEF IInv, Typed
      <4> HIDE DEF asked
      <4> QED
        BY <4>1, <4>2, ConcatEmptySeq
    <3> QED
      BY <1>2, <2>1, <1>4, <3>1, <3>2, StutterStep
  <2>5. CASE p # 0
    <3>1. p \in 1 .. MaxTrans
      <4> HIDE DEF p
      <4> QED
        BY <1>1, <1>2, <1>3, <2>5, BoundsAssumption
    <3>2. Service!Request(m_chans[s], p)
      <4> HIDE DEF p
      <4> QED
        BY <1>2, <1>4, <2>3 DEF Service!Request, Queue
    <3> QED
      BY <1>4, <2>1, <3>1, <3>2
  <2> QED
    BY <2>4, <2>5

--------------------------------------------------------------------------------
(* The network's and the timer's steps.                                      *)

\* Giving up the whole list.
LEMMA GiveUpStep ==
    ASSUME IInv, Slots, m_transList # <<>>,
           CloseConnection(m_transList, m_numInTransit, results),
           UNCHANGED vars1
    PROVE  Slots' /\ Service!GiveUp
<1>1. /\ m_isConnected' = FALSE /\ m_transList' = <<>>
      /\ results' = results \cup NotifyAll(m_transList)
      /\ UNCHANGED <<m_chans, opened, owner>>
  BY DEF CloseConnection, vars1
<1>2. /\ m_isConnected /\ Len(m_transList) \in Nat /\ Len(m_transList) >= 1
      /\ DOMAIN m_transList = 1 .. Len(m_transList)
  BY FrontFacts, Facts
<1>3. Slots'
  <2>1. Len(m_transList') = 0
    BY <1>1, EmptySeq
  <2> QED
    BY <1>1, <2>1 DEF Slots, OneSlotEach
<1>4. Queue(m_transList) # <<>>
  BY <1>2, QueueType, EmptySeq
<1>5. Queue(m_transList)' = <<>>
  <2>1. DOMAIN <<>> = {}
    BY EmptySeq, LenProperties
  <2>2. Queue(m_transList)' = [i \in {} |-> m_transList'[i].id]
    BY <1>1, <2>1 DEF Queue
  <2>3. Queue(m_transList)' \in [1 .. 0 -> Int]
    BY <2>2
  <2>4. Queue(m_transList)' \in Seq(Int) /\ Len(Queue(m_transList)') = 0
    <3> DEFINE q == Queue(m_transList)'
    <3>1. q \in [1 .. 0 -> Int]
      BY <2>3
    <3> HIDE DEF q
    <3>2. q \in Seq(Int) /\ Len(q) = 0
      BY <3>1, SeqOfFunction
    <3> QED
      BY <3>2 DEF q
  <2> QED
    BY <2>4, EmptySeq
<1>6. NotifyAll(m_transList) =
            UNION {Service!Report(Queue(m_transList)[i], "timeout") :
                        i \in DOMAIN Queue(m_transList)}
  <2>1. DOMAIN Queue(m_transList) = DOMAIN m_transList
    BY DEF Queue
  <2>2. \A i \in DOMAIN m_transList : Queue(m_transList)[i] = m_transList[i].id
    BY DEF Queue
  <2>3. \A i \in DOMAIN m_transList :
            Signal(m_transList[i], "timeout") = Service!Report(Queue(m_transList)[i], "timeout")
    BY <1>2, <2>2, SignalIsReport
  <2> QED
    BY <2>1, <2>3 DEF NotifyAll
<1>7. OpenChannels' = OpenChannels
  BY <1>1 DEF OpenChannels
<1>8. Service!GiveUp
  BY <1>1, <1>2, <1>4, <1>5, <1>6, <1>7 DEF Service!GiveUp, Queue
<1> QED
  BY <1>3, <1>8

\* Going back to the oldest transaction is no business of the service, unless
\* the connection is given up.
LEMMA ResendFrontStep ==
    ASSUME IInv, IInv', Slots, m_transList # <<>>, NEW STATE running,
           ResendOldestTransaction(m_transList, m_numInTransit, running, results),
           UNCHANGED vars1
    PROVE  Slots' /\ (ServiceStutters \/ Service!GiveUp)
<1>1. m_transList \in Seq(Trans) /\ UNCHANGED <<m_chans, opened, owner>>
  BY DEF IInv, Typed, vars1
<1>2. CASE CloseConnection(m_transList, m_numInTransit, results)
  BY <1>2, GiveUpStep
<1>3. CASE /\ SameTransactions(m_transList)
           /\ results' = results /\ UNCHANGED m_isConnected
  <2>1. Slots'
    BY <1>1, <1>3, SameSlots
  <2>2. Len(m_transList') = Len(m_transList)
    BY <1>3 DEF SameTransactions
  <2>3. ServiceStutters
    BY <1>1, <1>3, <2>2, StutterStep
  <2> QED
    BY <2>1, <2>3
<1> QED
  BY <1>1, <1>2, <1>3, ResendSame

\* The reply to the oldest transaction, whether or not the next one is late.
LEMMA ReplyStep ==
    ASSUME IInv, IInv', Slots, NEW pkt \in Packet, NEW expired \in BOOLEAN,
           RxReply(pkt, expired)
    PROVE  Slots' /\ pkt.op \in {"ACK", "NACKP"} /\ Service!Answer(pkt.op)
<1> DEFINE rest == Retire(m_transList)
           nextSent == rest # <<>> /\ rest[1].sendCount > 0
           signalled == results \cup Signal(m_transList[1], pkt.op)
           n == InFlightAfterReply
<1>1. /\ pkt.op \in {"ACK", "NACKP"} /\ m_transList # <<>>
      /\ UNCHANGED <<m_chans, opened, owner, undefined>>
  BY DEF RxReply
<1>2. /\ Len(m_transList) \in Nat /\ Len(m_transList) >= 1 /\ Len(owner) \in Nat
  BY <1>1, FrontFacts
<1>3. /\ rest \in Seq(Trans) /\ Len(rest) = Len(m_transList) - 1
      /\ \A i \in 1 .. Len(rest) : rest[i] = m_transList[i + 1]
      /\ SentOnce(rest, n) /\ n \in Nat /\ n <= PipelineLen
  BY <1>1, RetireFront
<1>4. \/ /\ nextSent /\ expired
         /\ ResendOldestTransaction(rest, n, FALSE, signalled)
      \/ /\ results' = signalled
         /\ TrySendTransactions(rest, n, nextSent)
         /\ UNCHANGED m_isConnected
  BY DEF RxReply
<1>5. m_cli_seq \in SeqNums
  BY DEF IInv, Typed
<1> HIDE DEF rest, n
<1>6. SameTransactions(rest) /\ results' = signalled /\ UNCHANGED m_isConnected
  <2>1. CASE nextSent /\ expired /\ ResendOldestTransaction(rest, n, FALSE, signalled)
    <3>1. rest # <<>> /\ rest[1].sendCount = 1
      <4>1. rest # <<>>
        BY <2>1
      <4>2. Len(rest) >= 1
        BY <1>2, <1>3, <4>1, EmptySeq
      <4> QED
        BY <1>2, <1>3, <2>1, <4>1, <4>2 DEF SentOnce
    <3>2. ~ RetriesUsedUp(rest[1])
      BY <3>1, RetriesAssumption DEF RetriesUsedUp
    <3> DEFINE running == FALSE
    <3>3. ResendOldestTransaction(rest, n, running, signalled)
      BY <2>1
    <3> HIDE DEF signalled, running
    <3> QED
      BY <1>3, <3>1, <3>2, <3>3, ResendSame
  <2>2. CASE /\ results' = signalled
             /\ TrySendTransactions(rest, n, nextSent)
             /\ UNCHANGED m_isConnected
    <3> DEFINE running == nextSent
    <3>1. TrySendTransactions(rest, n, running)
      BY <2>2
    <3> HIDE DEF running
    <3>2. SameTransactions(rest)
      BY <1>3, <1>5, <3>1, TrySendSame
    <3> QED
      BY <2>2, <3>2
  <2> QED
    BY <1>4, <2>1, <2>2
<1>7. Slots'
  <2>1. OpenChannels' = OpenChannels
    BY <1>1 DEF OpenChannels
  <2>2. OneSlotEach'
    BY <1>1 DEF Slots, OneSlotEach
  <2>3. ASSUME NEW i \in 1 .. Len(m_transList')
        PROVE  Addressed(m_transList[i])'
    <3>1. /\ i + 1 \in 1 .. Len(m_transList)
          /\ m_transList'[i].id = m_transList[i + 1].id
          /\ m_transList'[i].ctx = m_transList[i + 1].ctx
      <4>1. i \in 1 .. Len(rest) /\ m_transList'[i].id = rest[i].id
            /\ m_transList'[i].ctx = rest[i].ctx
        BY <1>6 DEF SameTransactions
      <4>2. rest[i] = m_transList[i + 1]
        BY <1>3, <4>1
      <4>3. i + 1 \in 1 .. Len(m_transList)
        <5>1. Len(rest) = Len(m_transList) - 1 /\ i \in 1 .. Len(rest)
          BY <1>3, <4>1
        <5> QED
          BY ONLY <1>2, <5>1
      <4> QED
        BY <4>1, <4>2, <4>3
    <3>2. Addressed(m_transList[i + 1])
      BY <3>1 DEF Slots
    <3> QED
      BY <1>1, <2>1, <3>1, <3>2 DEF Addressed
  <2> QED
    BY <2>2, <2>3 DEF Slots
<1>8. Queue(m_transList)' = Tail(Queue(m_transList))
  <2>1. Len(m_transList') = Len(m_transList) - 1
    BY <1>3, <1>6 DEF SameTransactions
  <2> QED
    BY <1>1, <2>1, QueueAfter, QueueShrinks
<1>9. Queue(m_transList) # <<>>
  BY <1>2, QueueType, EmptySeq
<1>10. Signal(m_transList[1], pkt.op) = Service!Report(Queue(m_transList)[1], pkt.op)
  <2>1. 1 \in 1 .. Len(m_transList) /\ 1 \in DOMAIN m_transList
    BY <1>2, Facts
  <2>2. Queue(m_transList)[1] = m_transList[1].id
    BY <2>1 DEF Queue
  <2> QED
    BY <2>1, <2>2, SignalIsReport
<1>11. OpenChannels' = OpenChannels
  BY <1>1 DEF OpenChannels
<1>12. Service!Answer(pkt.op)
  BY <1>1, <1>6, <1>8, <1>9, <1>10, <1>11 DEF Service!Answer, Queue
<1> QED
  BY <1>1, <1>7, <1>12

\* Packets that are ignored, or read from an empty list.
LEMMA IgnoredStep ==
    ASSUME IInv, IInv', Slots,
           UNCHANGED <<m_isConnected, m_transList, m_chans, opened, owner, results>>
    PROVE  Slots' /\ ServiceStutters
<1>1. SameTransactions(m_transList)
  BY DEF SameTransactions
<1> QED
  BY <1>1, SameSlots, StutterStep

--------------------------------------------------------------------------------
(* The refinement.                                                           *)

LEMMA InitSlots == Init => Slots /\ Service!Init
<1> SUFFICES ASSUME Init PROVE Slots /\ Service!Init
  OBVIOUS
<1>1. m_transList = <<>> /\ m_chans = <<>> /\ Len(m_transList) = 0 /\ Len(m_chans) = 0
  BY EmptySeq DEF Init
<1>2. Slots
  BY <1>1 DEF Slots, OneSlotEach
<1>3. DOMAIN m_transList = {} /\ DOMAIN m_chans = {}
  <2>1. m_transList \in Seq({}) /\ m_chans \in Seq({})
    BY <1>1, EmptySeq
  <2> QED
    BY <1>1, <2>1, LenProperties
<1>4. OpenChannels = {}
  BY <1>3 DEF OpenChannels
<1>5. Queue(m_transList) = <<>>
  <2> DEFINE q == Queue(m_transList)
  <2>1. q \in [1 .. 0 -> Int]
    BY <1>3 DEF Queue
  <2> HIDE DEF q
  <2>2. q \in Seq(Int) /\ Len(q) = 0
    BY <2>1, SeqOfFunction
  <2>3. q = <<>>
    BY <2>2, EmptySeq
  <2> QED
    BY <2>3 DEF q
<1>6. Service!Init
  BY <1>4, <1>5 DEF Service!Init, Init, Queue
<1> QED
  BY <1>2, <1>6

\* Every step of the client keeps the slots right, and is a step of the
\* service or none of its business.
LEMMA StepService ==
    IInv /\ IInv' /\ Slots /\ [Next]_vars => Slots' /\ [Service!Next]_(Service!vars)
<1> SUFFICES ASSUME IInv, IInv', Slots, [Next]_vars
             PROVE  Slots' /\ [Service!Next]_(Service!vars)
  OBVIOUS
<1> DEFINE Goal == Slots' /\ (ServiceStutters \/ Service!Next)
<1>1. ASSUME OpenChannel PROVE Goal
  BY <1>1, OpenChannelStep DEF Service!Next
<1>2. ASSUME NEW s \in DOMAIN m_chans, Dispose(s) PROVE Goal
  BY <1>2, DisposeStep DEF Service!Next
<1>3. ASSUME NEW s \in DOMAIN m_chans, RwNotConnected(s) PROVE Goal
  BY <1>3, RefuseStep DEF Service!Next
<1>4. ASSUME NEW s \in DOMAIN m_chans, NEW n \in RequestSizes, Rw(s, n) PROVE Goal
  BY <1>4, RequestStep DEF Service!Next
<1>5. ASSUME OnPktTimeout PROVE Goal
  <2>1. m_transList # <<>>
    BY <1>5 DEF OnPktTimeout, IInv, Window
  <2>2. /\ ResendOldestTransaction(m_transList, m_numInTransit, FALSE, results)
        /\ UNCHANGED vars1
    BY <1>5, <2>1 DEF OnPktTimeout, ReadFrontOfEmptyList, vars1
  <2>3. Slots' /\ (ServiceStutters \/ Service!GiveUp)
    <3> DEFINE running == FALSE
    <3>1. ResendOldestTransaction(m_transList, m_numInTransit, running, results)
      BY <2>2
    <3> HIDE DEF running
    <3> QED
      BY <2>1, <2>2, <3>1, ResendFrontStep
  <2> QED
    BY <2>3 DEF Service!Next
<1>6. ASSUME NEW pkt \in Packet, NEW expired \in BOOLEAN, OnPktRxReady(pkt, expired)
      PROVE  Goal
  <2>1. CASE RxMalformed(pkt)
    BY <2>1, IgnoredStep DEF RxMalformed
  <2>2. CASE RxEmptyList(pkt)
    BY <2>2, IgnoredStep DEF RxEmptyList, ReadFrontOfEmptyList
  <2>3. CASE RxMismatch(pkt)
    <3>1. m_transList # <<>> /\ UNCHANGED vars1
      BY <2>3 DEF RxMismatch, vars1
    <3>2. CASE MayRetry
      <4>1. ResendOldestTransaction(m_transList, m_numInTransit, m_timer, results)
        BY <2>3, <3>2 DEF RxMismatch
      <4>2. Slots' /\ (ServiceStutters \/ Service!GiveUp)
        BY <3>1, <4>1, ResendFrontStep
      <4> QED
        BY <4>2 DEF Service!Next
    <3>3. CASE ~ MayRetry
      BY <2>3, <3>3, IgnoredStep DEF RxMismatch
    <3> QED
      BY <3>2, <3>3
  <2>4. CASE RxUnexpected(pkt)
    BY <2>4, IgnoredStep DEF RxUnexpected
  <2>5. CASE RxReply(pkt, expired)
    BY <2>5, ReplyStep DEF Service!Next
  <2> QED
    BY <1>6, <2>1, <2>2, <2>3, <2>4, <2>5 DEF OnPktRxReady
<1>7. ASSUME UNCHANGED vars PROVE Goal
  BY <1>7, IgnoredStep DEF vars
<1>8. Goal
  BY <1>1, <1>2, <1>3, <1>4, <1>5, <1>6, <1>7 DEF Next, UserNext
<1> QED
  BY <1>8 DEF ServiceStutters

\* Slots and pending transactions agree in every state.
LEMMA SlotsCorrect == Spec => []Slots
<1>1. IInv /\ IInv' /\ Slots /\ [Next]_vars => Slots'
  BY StepService
<1>2. Init => Slots
  BY InitSlots
<1> QED
  BY <1>1, <1>2, Invariant, PTL DEF Spec

\* Whatever the network does and the user asks, the connection does what the
\* register service promises: requests are answered in order, once, to whoever
\* asked, and are all reported as timed out when the connection is given up.
THEOREM ServiceImplemented == Spec => ImplementsService
<1>1. IInv /\ IInv' /\ Slots /\ [Next]_vars => [Service!Next]_(Service!vars)
  BY StepService
<1>2. Init => Service!Init
  BY InitSlots
<1>3. Spec => Service!Spec
  BY <1>1, <1>2, Invariant, SlotsCorrect, PTL DEF Spec, Service!Spec
<1> QED
  BY <1>3 DEF ImplementsService

--------------------------------------------------------------------------------
(* Who gets which result.                                                    *)

\* The oldest pending transaction is preceded by the retired ones.
Counted ==
    /\ Len(owner) \in Nat /\ Len(m_transList) \in 0 .. Len(owner) /\ opened \in Nat
    /\ owner \in Seq(1 .. opened) /\ Queue(m_transList) \in Seq(Int)
    /\ \A id \in 1 .. Len(owner) : owner[id] \in 1 .. opened
    /\ \A r \in results : r.id \in 1 .. Len(owner)
    /\ Len(Queue(m_transList)) = Len(m_transList)
    /\ Pending = (Len(owner) - Len(m_transList) + 1) .. Len(owner)

LEMMA CountedIs == IInv => Counted
<1> SUFFICES ASSUME IInv PROVE Counted
  OBVIOUS
<1>1. /\ Len(owner) \in Nat /\ Len(m_transList) \in Nat /\ opened \in Nat
      /\ DOMAIN owner = 1 .. Len(owner) /\ DOMAIN m_transList = 1 .. Len(m_transList)
      /\ \A id \in 1 .. Len(owner) : owner[id] \in 1 .. opened
      /\ \A i \in 1 .. Len(m_transList) :
            m_transList[i].id = Len(owner) - Len(m_transList) + i
  BY Facts
<1>2. Len(m_transList) <= Len(owner)
  BY DEF IInv, Consecutive
<1>3. \A r \in results : r.id \in 1 .. Len(owner)
  BY DEF IInv, Typed
<1>4. Pending = (Len(owner) - Len(m_transList) + 1) .. Len(owner)
  <2> DEFINE n == Len(m_transList)
             m == Len(owner)
  <2>1. Pending = {m - n + i : i \in 1 .. n}
    BY <1>1 DEF Pending
  <2>2. n \in Nat /\ m \in Nat /\ n <= m
    BY <1>1, <1>2
  <2> HIDE DEF n, m
  <2>3. \A x \in (m - n + 1) .. m : x - (m - n) \in 1 .. n /\ m - n + (x - (m - n)) = x
    BY <2>2
  <2>4. \A i \in 1 .. n : m - n + i \in (m - n + 1) .. m
    BY <2>2
  <2>5. {m - n + i : i \in 1 .. n} = (m - n + 1) .. m
    BY <2>3, <2>4
  <2> QED
    BY <2>1, <2>5 DEF n, m
<1>5. owner \in Seq(1 .. opened)
  BY DEF IInv, Typed
<1> QED
  BY <1>1, <1>2, <1>3, <1>4, <1>5, QueueType DEF Counted

\* Every result so far went to whoever asked, and every retired transaction
\* has a result unless its channel was disposed.
Delivered ==
    /\ \A r \in results : r.to = owner[r.id]
    /\ \A id \in 1 .. Len(owner) :
            \/ id > Len(owner) - Len(m_transList)
            \/ owner[id] \notin OpenChannels
            \/ \E r \in results : r.id = id /\ r.to = owner[id]

\* Steps that add results only, for the transactions they retire.
LEMMA RetiringDelivers ==
    ASSUME Counted, Counted', Delivered, UNCHANGED <<owner, opened>>,
           OpenChannels' \cap (1 .. opened) \subseteq OpenChannels,
           NEW New, results' = results \cup New,
           \A r \in New : r.id \in 1 .. Len(owner) /\ r.to = owner[r.id],
           \A id \in (Len(owner) - Len(m_transList) + 1) .. (Len(owner) - Len(m_transList')) :
                owner[id] \in OpenChannels => \E r \in New : r.id = id /\ r.to = owner[id]
    PROVE  Delivered'
<1>1. \A r \in results' : r.to = owner'[r.id]
  BY DEF Delivered
<1>2. ASSUME NEW id \in 1 .. Len(owner'), ~ (id > Len(owner') - Len(m_transList')),
             owner'[id] \in OpenChannels'
      PROVE  \E r \in results' : r.id = id /\ r.to = owner'[id]
  <2>1. /\ id \in 1 .. Len(owner) /\ owner'[id] = owner[id]
        /\ Len(owner) \in Nat /\ Len(m_transList) \in Nat /\ Len(m_transList') \in Nat
    BY DEF Counted
  <2>2. owner[id] \in OpenChannels
    BY <1>2, <2>1 DEF Counted
  <2>3. CASE id > Len(owner) - Len(m_transList)
    <3>1. id \in (Len(owner) - Len(m_transList) + 1) .. (Len(owner) - Len(m_transList'))
      BY <1>2, <2>1, <2>3
    <3> QED
      BY <2>1, <2>2, <3>1
  <2>4. CASE ~ (id > Len(owner) - Len(m_transList))
    BY <2>1, <2>2, <2>4 DEF Delivered
  <2> QED
    BY <2>3, <2>4
<1> QED
  BY <1>1, <1>2 DEF Delivered

\* Each step of the service delivers.
LEMMA OpenDelivers ==
    ASSUME Counted, Counted', Delivered, Service!Open
    PROVE  Delivered'
<1>1. /\ OpenChannels' = OpenChannels \cup {opened + 1} /\ opened' = opened + 1
      /\ Queue(m_transList)' = Queue(m_transList) /\ owner' = owner /\ results' = results
  BY DEF Service!Open, Queue
<1>2. Len(m_transList') = Len(m_transList)
  BY <1>1 DEF Counted
<1>3. \A id \in 1 .. Len(owner) : owner[id] # opened + 1
  BY DEF Counted
<1> QED
  BY <1>1, <1>2, <1>3 DEF Delivered

LEMMA DisposeDelivers ==
    ASSUME Counted, Counted', Delivered, NEW c, Service!Dispose(c)
    PROVE  Delivered'
<1>1. /\ OpenChannels' = OpenChannels \ {c}
      /\ Queue(m_transList)' = Queue(m_transList) /\ owner' = owner /\ results' = results
  BY DEF Service!Dispose, Queue
<1>2. Len(m_transList') = Len(m_transList)
  BY <1>1 DEF Counted
<1> QED
  BY <1>1, <1>2 DEF Delivered

LEMMA RequestDelivers ==
    ASSUME Counted, Counted', Delivered, NEW c, NEW p \in Nat, Service!Request(c, p)
    PROVE  Delivered'
<1> DEFINE asked == [k \in 1 .. p |-> c]
           new == [k \in 1 .. p |-> Len(owner) + k]
           S == (1 .. opened) \cup {c}
<1>1. /\ OpenChannels' = OpenChannels /\ results' = results
      /\ Queue(m_transList)' = Queue(m_transList) \o new /\ owner' = owner \o asked
  BY DEF Service!Request, Queue
<1>2. asked \in [1 .. p -> S] /\ new \in [1 .. p -> Int]
  BY DEF Counted
<1>3. (1 .. opened) \subseteq S
  OBVIOUS
<1> HIDE DEF asked, new, S
<1>4. asked \in Seq(S) /\ Len(asked) = p /\ new \in Seq(Int) /\ Len(new) = p
  BY <1>2, SeqOfFunction
<1>5. owner \in Seq(S)
  BY <1>3, SeqMonotonic DEF Counted
<1>6. /\ Len(owner') = Len(owner) + p
      /\ \A i \in 1 .. (Len(owner) + p) :
            owner'[i] = IF i <= Len(owner) THEN owner[i] ELSE asked[i - Len(owner)]
  BY <1>1, <1>4, <1>5, ConcatProperties
<1>7. Len(Queue(m_transList)') = Len(Queue(m_transList)) + p
  <2> DEFINE Q == Queue(m_transList)
             R == Queue(m_transList)'
  <2>1. R = Q \o new /\ Q \in Seq(Int)
    BY <1>1 DEF Counted
  <2> HIDE DEF Q, R
  <2>2. Len(R) = Len(Q) + p
    BY <1>4, <2>1, ConcatProperties
  <2> QED
    BY <2>2 DEF Q, R
<1>8. Len(m_transList') = Len(m_transList) + p
  BY <1>7 DEF Counted
<1>9. /\ Len(owner) \in Nat /\ Len(m_transList) \in Nat
      /\ Len(owner') - Len(m_transList') = Len(owner) - Len(m_transList)
  BY <1>6, <1>8 DEF Counted
<1>10. \A id \in 1 .. Len(owner) : owner'[id] = owner[id]
  BY <1>6, <1>9
<1>11. \A r \in results' : r.to = owner'[r.id]
  BY <1>1, <1>10 DEF Delivered, Counted
<1>12. ASSUME NEW id \in 1 .. Len(owner'), ~ (id > Len(owner') - Len(m_transList')),
              owner'[id] \in OpenChannels'
       PROVE  \E r \in results' : r.id = id /\ r.to = owner'[id]
  <2>1. id \in 1 .. Len(owner) /\ ~ (id > Len(owner) - Len(m_transList))
    BY <1>6, <1>9, <1>12
  <2> QED
    BY <1>1, <1>10, <1>12, <2>1 DEF Delivered
<1> QED
  BY <1>11, <1>12 DEF Delivered

LEMMA RefuseDelivers ==
    ASSUME Counted, Counted', Delivered, NEW c, c \in 1 .. opened, Service!Refuse(c),
           Len(m_transList) = 0
    PROVE  Delivered'
<1> DEFINE told == [id |-> Len(owner) + 1, to |-> c, outcome |-> "timeout"]
<1>1. /\ OpenChannels' = OpenChannels /\ results' = results \cup {told}
      /\ Queue(m_transList)' = Queue(m_transList) /\ owner' = Append(owner, c)
  BY DEF Service!Refuse, Queue
<1>2. told.id = Len(owner) + 1 /\ told.to = c
  OBVIOUS
<1> HIDE DEF told
<1>3. /\ Len(owner') = Len(owner) + 1 /\ owner'[Len(owner) + 1] = c
      /\ \A id \in 1 .. Len(owner) : owner'[id] = owner[id]
  BY <1>1, AppendProperties DEF Counted
<1>4. Len(m_transList') = Len(m_transList) /\ Len(owner) \in Nat /\ Len(m_transList) \in Nat
  BY <1>1 DEF Counted
<1>5. \A r \in results' : r.to = owner'[r.id]
  BY <1>1, <1>2, <1>3 DEF Delivered, Counted
<1>6. ASSUME NEW id \in 1 .. Len(owner'), ~ (id > Len(owner') - Len(m_transList')),
             owner'[id] \in OpenChannels'
      PROVE  \E r \in results' : r.id = id /\ r.to = owner'[id]
  <2>1. CASE id = Len(owner) + 1
    BY <1>1, <1>2, <1>3, <2>1
  <2>2. CASE id # Len(owner) + 1
    <3>1. id \in 1 .. Len(owner) /\ owner'[id] = owner[id] /\ owner[id] \in OpenChannels
      BY <1>1, <1>3, <1>4, <1>6, <2>2
    <3>2. CASE ~ (id > Len(owner) - Len(m_transList))
      BY <1>1, <3>1, <3>2 DEF Delivered
    <3>3. CASE id > Len(owner) - Len(m_transList)
      BY <1>4, <3>1, <3>3
    <3> QED
      BY <3>2, <3>3
  <2> QED
    BY <2>1, <2>2
<1> QED
  BY <1>5, <1>6 DEF Delivered

LEMMA AnswerDelivers ==
    ASSUME IInv, Counted, Counted', Delivered, NEW outcome, Service!Answer(outcome)
    PROVE  Delivered'
<1> DEFINE Q == Queue(m_transList)
           R == Queue(m_transList)'
           New == Service!Report(Q[1], outcome)
<1>1. /\ Q # <<>> /\ R = Tail(Q) /\ results' = results \cup New
      /\ UNCHANGED <<owner, opened>> /\ OpenChannels' = OpenChannels
  BY DEF Service!Answer, Queue
<1>2. /\ Q \in Seq(Int) /\ Len(Q) = Len(m_transList) /\ Len(R) = Len(m_transList')
      /\ \A i \in 1 .. Len(m_transList) : Q[i] = Len(owner) - Len(m_transList) + i
  BY QueueType DEF Counted
<1>3. \A r \in New : r.id = Q[1] /\ r.to = owner[Q[1]]
  BY DEF Service!Report
<1>4. owner[Q[1]] \in OpenChannels => \E r \in New : r.id = Q[1] /\ r.to = owner[Q[1]]
  <2>1. [id |-> Q[1], to |-> owner[Q[1]], outcome |-> outcome].id = Q[1]
        /\ [id |-> Q[1], to |-> owner[Q[1]], outcome |-> outcome].to = owner[Q[1]]
    OBVIOUS
  <2> QED
    BY <2>1 DEF Service!Report
<1> HIDE DEF Q, R, New
<1>5. Len(Q) >= 1 /\ Len(R) = Len(Q) - 1
  BY <1>1, <1>2, HeadTailProperties, EmptySeq, LenProperties
<1>6. /\ Q[1] = Len(owner) - Len(m_transList) + 1
      /\ Len(m_transList') = Len(m_transList) - 1
      /\ Len(owner) \in Nat /\ Len(m_transList) \in 0 .. Len(owner)
  BY <1>2, <1>5 DEF Counted
<1>7. Q[1] \in 1 .. Len(owner)
      /\ \A id \in (Len(owner) - Len(m_transList) + 1) .. (Len(owner) - Len(m_transList')) :
            id = Q[1]
  BY <1>2, <1>5, <1>6
<1> QED
  BY <1>1, <1>3, <1>4, <1>7, RetiringDelivers

LEMMA GiveUpDelivers ==
    ASSUME IInv, Counted, Counted', Delivered, Service!GiveUp
    PROVE  Delivered'
<1> DEFINE Q == Queue(m_transList)
           R == Queue(m_transList)'
           New == UNION {Service!Report(Q[i], "timeout") : i \in DOMAIN Q}
<1>1. /\ R = <<>> /\ results' = results \cup New
      /\ UNCHANGED <<owner, opened>> /\ OpenChannels' = OpenChannels
  BY DEF Service!GiveUp, Queue
<1>2. /\ Q \in Seq(Int) /\ Len(Q) = Len(m_transList) /\ Len(R) = Len(m_transList')
      /\ \A i \in 1 .. Len(m_transList) : Q[i] = Len(owner) - Len(m_transList) + i
  BY QueueType DEF Counted
<1>3. DOMAIN Q = 1 .. Len(m_transList)
  <2> HIDE DEF Q
  <2> QED
    BY <1>2, LenProperties
<1>4. \A r \in New : \E i \in 1 .. Len(m_transList) : r.id = Q[i] /\ r.to = owner[Q[i]]
  BY <1>3 DEF Service!Report
<1>5. ASSUME NEW i \in 1 .. Len(m_transList), owner[Q[i]] \in OpenChannels
      PROVE  \E r \in New : r.id = Q[i] /\ r.to = owner[Q[i]]
  <2> DEFINE r == [id |-> Q[i], to |-> owner[Q[i]], outcome |-> "timeout"]
  <2>1. r \in Service!Report(Q[i], "timeout")
    BY <1>5 DEF Service!Report
  <2>2. r.id = Q[i] /\ r.to = owner[Q[i]]
    OBVIOUS
  <2>3. r \in New
    BY <1>3, <2>1
  <2> QED
    BY <2>2, <2>3
<1> HIDE DEF Q, R, New
<1>6. /\ Len(m_transList') = 0
      /\ Len(owner) \in Nat /\ Len(m_transList) \in 0 .. Len(owner)
  BY <1>1, <1>2, EmptySeq DEF Counted
<1>7. \A i \in 1 .. Len(m_transList) : Q[i] \in 1 .. Len(owner)
  BY <1>2, <1>6
<1>8. \A id \in (Len(owner) - Len(m_transList) + 1) .. (Len(owner) - Len(m_transList')) :
            \E i \in 1 .. Len(m_transList) : id = Q[i]
  <2> SUFFICES ASSUME NEW id \in (Len(owner) - Len(m_transList) + 1) .. Len(owner)
               PROVE  \E i \in 1 .. Len(m_transList) : id = Q[i]
    BY <1>6
  <2> DEFINE i == id - (Len(owner) - Len(m_transList))
  <2>1. i \in 1 .. Len(m_transList) /\ Len(owner) - Len(m_transList) + i = id
    BY <1>6
  <2> HIDE DEF i
  <2> QED
    BY <1>2, <2>1
<1>9. \A r \in New : r.id \in 1 .. Len(owner) /\ r.to = owner[r.id]
  BY <1>4, <1>7
<1>10. \A id \in (Len(owner) - Len(m_transList) + 1) .. (Len(owner) - Len(m_transList')) :
            owner[id] \in OpenChannels => \E r \in New : r.id = id /\ r.to = owner[id]
  BY <1>5, <1>8
<1> QED
  BY <1>1, <1>9, <1>10, RetiringDelivers

LEMMA StutterDelivers ==
    ASSUME Counted, Counted', Delivered, UNCHANGED Service!vars
    PROVE  Delivered'
<1>1. /\ OpenChannels' = OpenChannels /\ UNCHANGED <<owner, opened, results>>
      /\ Queue(m_transList)' = Queue(m_transList)
  BY DEF Service!vars, Queue
<1>2. Len(m_transList') = Len(m_transList)
  BY <1>1 DEF Counted
<1> QED
  BY <1>1, <1>2 DEF Delivered

\* Whatever the step is for the service, it delivers.
LEMMA StepDelivers ==
    IInv /\ Counted /\ Counted' /\ Delivered /\ [Service!Next]_(Service!vars) => Delivered'
<1> SUFFICES ASSUME IInv, Counted, Counted', Delivered, [Service!Next]_(Service!vars)
             PROVE  Delivered'
  OBVIOUS
<1>1. CASE Service!Open
  BY <1>1, OpenDelivers
<1>2. ASSUME NEW c \in OpenChannels,
             Service!Dispose(c) \/ Service!Refuse(c) \/ \E n \in 1 .. MaxTrans : Service!Request(c, n)
      PROVE  Delivered'
  <2>1. CASE Service!Dispose(c)
    BY <2>1, DisposeDelivers
  <2>2. CASE Service!Refuse(c)
    <3>1. Len(m_transList) = 0
      <4>1. ~ m_isConnected
        BY <2>2 DEF Service!Refuse
      <4> QED
        BY <4>1, EmptySeq DEF IInv, Window
    <3>2. c \in 1 .. opened
      BY Facts DEF OpenChannels
    <3> QED
      BY <2>2, <3>1, <3>2, RefuseDelivers
  <2>3. ASSUME NEW n \in 1 .. MaxTrans, Service!Request(c, n) PROVE Delivered'
    <3>1. n \in Nat
      BY BoundsAssumption
    <3> QED
      BY <2>3, <3>1, RequestDelivers
  <2> QED
    BY <1>2, <2>1, <2>2, <2>3
<1>3. ASSUME NEW outcome \in {"ACK", "NACKP"}, Service!Answer(outcome) PROVE Delivered'
  BY <1>3, AnswerDelivers
<1>4. CASE Service!GiveUp
  BY <1>4, GiveUpDelivers
<1>5. CASE UNCHANGED Service!vars
  BY <1>5, StutterDelivers
<1> QED
  BY <1>1, <1>2, <1>3, <1>4, <1>5 DEF Service!Next

LEMMA DeliveredCorrect == Spec => []Delivered
<1>1. Init => Delivered
  <2> SUFFICES ASSUME Init PROVE Delivered
    OBVIOUS
  <2>1. results = {} /\ Len(owner) = 0
    BY EmptySeq DEF Init
  <2> QED
    BY <2>1 DEF Delivered
<1>2. IInv /\ IInv' /\ Slots /\ [Next]_vars => [Service!Next]_(Service!vars)
  BY StepService
<1>3. IInv => Counted
  BY CountedIs
<1>4. IInv /\ Counted /\ Counted' /\ Delivered /\ [Service!Next]_(Service!vars) => Delivered'
  BY StepDelivers
<1> QED
  BY <1>1, <1>2, <1>3, <1>4, Invariant, SlotsCorrect, PTL DEF Spec

\* A result only ever reaches the channel that asked, although slots are reused
\* while transactions of disposed channels are pending.
THEOREM ChannelsIsolated == Spec => []ChannelIsolation
<1>1. IInv /\ Slots /\ Delivered => ChannelIsolation
  <2> SUFFICES ASSUME IInv, Slots, Delivered PROVE ChannelIsolation
    OBVIOUS
  <2>1. DOMAIN m_transList = 1 .. Len(m_transList)
    BY Facts
  <2> QED
    BY <2>1 DEF Slots, Addressed, Delivered, ChannelIsolation
<1> QED
  BY <1>1, Invariant, SlotsCorrect, DeliveredCorrect, PTL

\* No transaction is retired without its result, unless its channel is gone.
THEOREM ResultsDelivered == Spec => []NoResultLost
<1>1. IInv /\ Delivered => NoResultLost
  <2> SUFFICES ASSUME IInv, Delivered, NEW id \in DOMAIN owner
               PROVE  \/ id \in Pending
                      \/ owner[id] \notin OpenChannels
                      \/ \E r \in results : r.id = id /\ r.to = owner[id]
    BY DEF NoResultLost
  <2>1. id \in 1 .. Len(owner) /\ Counted
    BY Facts, CountedIs
  <2>2. id > Len(owner) - Len(m_transList) => id \in Pending
    BY <2>1 DEF Counted
  <2> QED
    BY <2>1, <2>2 DEF Delivered
<1> QED
  BY <1>1, Invariant, DeliveredCorrect, PTL

--------------------------------------------------------------------------------
(* Giving up.                                                                *)

RetriedEnough ==
    /\ m_isConnected /\ ~m_isConnected' => m_transList[1].sendCount = MaxRetries + 1
    /\ \A i \in DOMAIN m_transList' : m_transList'[i].sendCount <= MaxRetries + 1

\* What the invariant says of the number of transmissions.
LEMMA SendCounts ==
    IInv => \A i \in DOMAIN m_transList : m_transList[i].sendCount <= MaxRetries + 1
<1> SUFFICES ASSUME IInv, NEW i \in 1 .. Len(m_transList)
             PROVE  m_transList[i].sendCount <= MaxRetries + 1
  BY Facts
<1>1. Len(m_transList) \in Nat /\ MaxRetries \in Nat \ {0}
  BY Facts, RetriesAssumption
<1>2. CASE m_waitingForRetryResponse
  <2>1. m_transList # <<>>
    BY <1>1, EmptySeq
  <2>2. /\ m_transList[1].sendCount \in 1 .. (MaxRetries + 1)
        /\ \A j \in 2 .. Len(m_transList) : m_transList[j].sendCount = 0
    BY <1>2, <2>1 DEF IInv, Window
  <2> QED
    BY <1>1, <2>2
<1>3. CASE ~ m_waitingForRetryResponse
  <2>1. m_transList[i].sendCount = 0 \/ m_transList[i].sendCount = 1
    BY <1>3 DEF IInv, Window, SentOnce
  <2> QED
    BY <1>1, <2>1
<1> QED
  BY <1>2, <1>3

\* Only going back to an oldest transaction sent too often closes the connection.
LEMMA ClosingStep ==
    ASSUME IInv, [Next]_vars, m_isConnected, ~ m_isConnected'
    PROVE  m_transList # <<>> /\ RetriesUsedUp(m_transList[1])
<1>1. ASSUME NEW STATE running, m_transList # <<>>,
             ResendOldestTransaction(m_transList, m_numInTransit, running, results)
      PROVE  m_transList # <<>> /\ RetriesUsedUp(m_transList[1])
  BY <1>1 DEF ResendOldestTransaction
<1>2. CASE OnPktTimeout
  <2>1. /\ m_transList # <<>>
        /\ ResendOldestTransaction(m_transList, m_numInTransit, FALSE, results)
    BY <1>2 DEF OnPktTimeout, ReadFrontOfEmptyList
  <2> QED
    BY <2>1 DEF ResendOldestTransaction
<1>3. ASSUME NEW pkt \in Packet, NEW expired \in BOOLEAN, OnPktRxReady(pkt, expired)
      PROVE  m_transList # <<>> /\ RetriesUsedUp(m_transList[1])
  <2>1. CASE RxMismatch(pkt)
    BY <2>1, <1>1 DEF RxMismatch
  <2>2. CASE RxReply(pkt, expired)
    <3> DEFINE rest == Retire(m_transList)
               signalled == results \cup Signal(m_transList[1], pkt.op)
    <3>1. /\ m_transList # <<>> /\ rest # <<>> /\ rest[1].sendCount > 0
          /\ ResendOldestTransaction(rest, InFlightAfterReply, FALSE, signalled)
      BY <2>2 DEF RxReply
    <3>2. /\ rest \in Seq(Trans) /\ SentOnce(rest, InFlightAfterReply)
          /\ InFlightAfterReply \in Nat
      BY <3>1, RetireFront
    <3> HIDE DEF rest, signalled
    <3>3. Len(rest) \in Nat /\ Len(rest) >= 1
      BY <3>1, <3>2, LenProperties, EmptySeq
    <3>4. rest[1].sendCount = 1
      BY <3>1, <3>2, <3>3 DEF SentOnce
    <3>5. RetriesUsedUp(rest[1])
      BY <3>1 DEF ResendOldestTransaction
    <3> QED
      BY <3>4, <3>5, RetriesAssumption DEF RetriesUsedUp
  <2> QED
    BY <1>3, <2>1, <2>2 DEF OnPktRxReady, RxMalformed, RxEmptyList, ReadFrontOfEmptyList,
                            RxUnexpected
<1>4. CASE UserNext
  BY <1>4 DEF UserNext, OpenChannel, Dispose, RwNotConnected, Rw
<1>5. CASE UNCHANGED vars
  BY <1>5 DEF vars
<1> QED
  BY <1>2, <1>3, <1>4, <1>5 DEF Next

\* The connection is only given up after the oldest transaction has been sent
\* MaxRetries + 1 times, and none is sent more often.
THEOREM GivenUpLate == Spec => GiveUpOnlyAfterRetries
<1> DEFINE Few == \A i \in DOMAIN m_transList : m_transList[i].sendCount <= MaxRetries + 1
<1>1. IInv => Few
  BY SendCounts
<1>2. IInv /\ Few' /\ [Next]_vars => RetriedEnough
  <2> SUFFICES ASSUME IInv, Few', [Next]_vars PROVE RetriedEnough
    OBVIOUS
  <2>1. ASSUME m_isConnected, ~ m_isConnected'
        PROVE  m_transList[1].sendCount = MaxRetries + 1
    <3>1. m_transList # <<>> /\ RetriesUsedUp(m_transList[1])
      BY <2>1, ClosingStep
    <3>2. m_transList[1].sendCount \in 1 .. (MaxRetries + 1)
      BY <3>1, FrontFacts
    <3> QED
      BY <3>1, <3>2, RetriesAssumption DEF RetriesUsedUp
  <2> QED
    BY <2>1 DEF RetriedEnough
<1>3. RetriedEnough <=>
        /\ m_isConnected /\ ~m_isConnected' => m_transList[1].sendCount = MaxRetries + 1
        /\ \A i \in DOMAIN m_transList' : m_transList'[i].sendCount <= MaxRetries + 1
  BY DEF RetriedEnough
<1> QED
  BY <1>1, <1>2, <1>3, Invariant, PTL DEF Spec, GiveUpOnlyAfterRetries

================================================================================
