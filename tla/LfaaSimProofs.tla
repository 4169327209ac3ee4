----------------------------- MODULE LfaaSimProofs -----------------------------
(***************************************************************************)
(* Proofs about lfaa-sim, for every file of headers, every rate of the     *)
(* clock and any number of repetitions: types, the payload buffers, the    *)
(* exact schedule and how early a packet may be.                           *)
(***************************************************************************)
EXTENDS LfaaSim, FiniteSetTheorems, SequenceTheorems, TLAPS

--------------------------------------------------------------------------------
(* Division and the carry.                                                   *)

\* Division with remainder.
LEMMA DivMod ==
    ASSUME NEW d \in Nat \ {0}, NEW n \in Int
    PROVE  /\ n = d * (n \div d) + (n % d)
           /\ n % d \in 0 .. (d - 1)
           /\ n \div d \in Int
  OBVIOUS

\* A number below the divisor is its own remainder.
LEMMA ModSmall ==
    ASSUME NEW d \in Nat \ {0}, NEW n \in 0 .. (d - 1)
    PROVE  n % d = n
  OBVIOUS

\* A quotient and a remainder determine the quotient.
LEMMA DivUnique ==
    ASSUME NEW d \in Nat \ {0}, NEW q \in Int, NEW r \in 0 .. (d - 1)
    PROVE  (d * q + r) \div d = q
  OBVIOUS

\* The quotient of a natural number is one.
LEMMA DivNat ==
    ASSUME NEW d \in Nat \ {0}, NEW n \in Nat
    PROVE  n \div d \in Nat
<1>1. n = d * (n \div d) + (n % d) /\ n % d \in 0 .. (d - 1) /\ n \div d \in Int
  BY DivMod
<1>2. \A q \in Int : q < 0 => d * q + (d - 1) < 0
  OBVIOUS
<1> QED
  BY <1>1, <1>2

Time == [sec : Nat, usec : Nat]

\* A time in seconds and microseconds is a number of microseconds.
LEMMA UsType ==
    ASSUME NEW t \in Time
    PROVE  Us(t) \in Nat
  BY TimeAssumption DEF Us, Time

\* Timeval and Us are inverse.
LEMMA UsOfTimeval ==
    ASSUME NEW us \in Nat
    PROVE  /\ Timeval(us) \in [sec : Nat, usec : 0 .. UsPerSec]
           /\ Us(Timeval(us)) = us
<1>1. UsPerSec \in Nat \ {0}
  BY TimeAssumption
<1>2. /\ us = UsPerSec * (us \div UsPerSec) + (us % UsPerSec)
      /\ us % UsPerSec \in 0 .. (UsPerSec - 1)
  BY <1>1, DivMod
<1>3. us \div UsPerSec \in Nat
  BY <1>1, DivNat
<1> QED
  BY <1>1, <1>2, <1>3 DEF Timeval, Us

\* The carry moves no time, and leaves at most a full second of microseconds.
LEMMA CarryKeeps ==
    ASSUME NEW t \in Time
    PROVE  /\ Carry(t) \in [sec : Nat, usec : 0 .. UsPerSec]
           /\ Us(Carry(t)) = Us(t)
<1>1. UsPerSec \in Nat \ {0} /\ t = [sec |-> t.sec, usec |-> t.usec]
      /\ t.sec \in Nat /\ t.usec \in Nat
  BY TimeAssumption DEF Time
<1>2. CASE t.usec <= UsPerSec
  BY <1>1, <1>2 DEF Carry
<1>3. CASE ~ (t.usec <= UsPerSec)
  <2> DEFINE q == (t.usec - 1) \div UsPerSec
             r == (t.usec - 1) % UsPerSec
  <2>1. t.usec - 1 \in Nat
    BY <1>1, <1>3
  <2>2. t.usec - 1 = UsPerSec * q + r /\ r \in 0 .. (UsPerSec - 1)
    BY <1>1, <2>1, DivMod
  <2>3. q \in Nat
    BY <1>1, <2>1, DivNat
  <2>4. Carry(t) = [sec |-> t.sec + q, usec |-> r + 1]
    BY <1>3 DEF Carry
  <2> HIDE DEF q, r
  <2>5. (t.sec + q) * UsPerSec + (r + 1) = t.sec * UsPerSec + t.usec
    BY <1>1, <2>2, <2>3
  <2> QED
    BY <1>1, <2>2, <2>3, <2>4, <2>5 DEF Us
<1> QED
  BY <1>2, <1>3

--------------------------------------------------------------------------------
(* Types.                                                                    *)

\* Where the program is in its loops.
Control ==
    /\ IsFiniteSet(in_use)
    /\ pc = "load" => i = 0 /\ rpt = 0 /\ chanl_cnt = 0 /\ due = <<>>
    /\ pc # "load" => stage = "ready"
    /\ pc = "next" => i < n_pkts
    /\ pc \in {"select", "waiting", "send"} => i \in 1 .. n_pkts
    /\ pc \in {"next", "select", "waiting", "send"} => rpt <= repeats
    /\ m_is_data_ok => stage = "ready" /\ Len(hdr) = m_num_pkts

TInv == TypeOK /\ Control

LEMMA InitTypes == Init => TInv
<1> SUFFICES ASSUME Init PROVE TInv
  OBVIOUS
<1> USE DEF Init, TxInit
<1>1. UsPerSec \in Nat \ {0} /\ Starts \subseteq Nat /\ MaxPkts \in Nat /\ Width \in Nat \ {0}
      /\ DefaultChans \in Nat
  BY TimeAssumption, SizesAssumption
<1>2. Timeval(0) \in [sec : Nat, usec : 0 .. UsPerSec]
  BY UsOfTimeval
<1>3. Timeval(0) \in [sec : Int, usec : Int]
  BY <1>1, <1>2
<1>4. hdr \in Seq(Headers) /\ Len(hdr) = 0 /\ due \in Seq(Nat)
  OBVIOUS
<1>5. m_iovec \in [1 .. m_num_pkts -> [buf : {"none", "zero", "payload"}, at : Nat, len : Nat]]
  BY DEF NoPayload
<1>6. m_send_dly_us \in [1 .. m_num_pkts -> Nat]
  OBVIOUS
<1>7. TypeOK
  <2>1. /\ m_num_pkts \in 0 .. MaxPkts /\ m_num_pkts \in Nat /\ Len(hdr) <= m_num_pkts
        /\ now \in Nat
    BY <1>1, <1>4
  <2>2. last_send_ns \in 0 .. (Width - 1)
    BY <1>1
  <2>3. /\ stage \in {"load", "ready", "undefined"} /\ m_is_data_ok \in BOOLEAN
        /\ pc \in {"load", "next", "select", "waiting", "send", "done", "aborted"}
    OBVIOUS
  <2>4. /\ n_pkts \in 0 .. m_num_pkts /\ repeats \in Nat /\ rpt \in 0 .. (repeats + 1)
        /\ i \in 0 .. n_pkts /\ chanl_cnt \in Nat /\ deadline \in Nat /\ start \in Nat
    BY <2>1
  <2>5. /\ send_time \in [sec : Nat, usec : 0 .. UsPerSec]
        /\ waitTime \in [sec : Int, usec : Int]
        /\ m_num_freq_chans \in Nat
    BY <1>1, <1>2, <1>3
  <2> QED
    BY <2>1, <2>2, <2>3, <2>4, <2>5, <1>4, <1>5, <1>6 DEF TypeOK
<1>8. Control
  BY FS_EmptySet DEF Control
<1> QED
  BY <1>7, <1>8 DEF TInv

\* What a header says fits its fields.
LEMMA HeaderFields ==
    ASSUME NEW h \in Headers
    PROVE  /\ h.offset \in Nat /\ h.len \in Nat /\ h.time \in 0 .. (Width - 1)
           /\ DelayUs(h) \in Nat \/ last_send_ns \notin Int
<1>1. NsPerUs \in Nat \ {0} /\ Width \in Nat \ {0}
  BY SizesAssumption
<1>2. h.offset \in Nat /\ h.len \in Nat /\ h.time \in 0 .. (Width - 1)
  BY <1>1, HeadersAssumption DEF NullOffset
<1>3. ASSUME last_send_ns \in Int PROVE DelayUs(h) \in Nat
  <2>1. (h.time - last_send_ns) % Width \in Nat
    BY <1>1, <1>2, <1>3, DivMod
  <2>2. ((h.time - last_send_ns) % Width) \div NsPerUs \in Nat
    BY <1>1, <2>1, DivNat
  <2> QED
    BY <2>2 DEF DelayUs
<1> QED
  BY <1>2, <1>3

LEMMA LoadHeaderTypes ==
    ASSUME TInv, NEW h \in Headers, LoadHeader(h), UNCHANGED <<mainVars, now>>
    PROVE  TInv'
<1> USE DEF TInv, LoadHeader
<1>1. NsPerUs \in Nat \ {0} /\ Width \in Nat \ {0}
  BY SizesAssumption
<1>2. /\ h.offset \in Nat /\ h.len \in Nat /\ h.time \in 0 .. (Width - 1)
      /\ DelayUs(h) \in Nat
  <2>1. last_send_ns \in Int
    BY <1>1 DEF TypeOK
  <2> QED
    BY <2>1, HeaderFields
<1>3. hdr' \in Seq(Headers) /\ Len(hdr') = Len(hdr) + 1 /\ Len(hdr) \in Nat
  BY DEF TypeOK
<1>4. m_num_pkts \in Nat /\ Len(hdr) + 1 \in 1 .. m_num_pkts
  <2>1. MaxPkts \in Nat
    BY SizesAssumption
  <2>2. m_num_pkts \in 0 .. MaxPkts /\ Len(hdr) < m_num_pkts
    BY DEF TypeOK
  <2> QED
    BY ONLY <1>3, <2>1, <2>2
<1>5. m_iovec' \in [1 .. m_num_pkts -> [buf : {"none", "zero", "payload"}, at : Nat, len : Nat]]
  <2>1. Payload(h) \in [buf : {"none", "zero", "payload"}, at : Nat, len : Nat]
    BY <1>2 DEF Payload
  <2> QED
    BY <1>4, <2>1 DEF TypeOK
<1>6. m_send_dly_us' \in [1 .. m_num_pkts -> Nat]
  BY <1>2, <1>4 DEF TypeOK
<1>7. last_send_ns' \in 0 .. (Width - 1)
  <2>1. last_send_ns + DelayUs(h) * NsPerUs \in Int
    BY <1>1, <1>2 DEF TypeOK
  <2>2. (last_send_ns + DelayUs(h) * NsPerUs) % Width \in 0 .. (Width - 1)
    BY <1>1, <2>1, DivMod
  <2> QED
    BY <1>2, <2>2 DEF LastSendNs
<1>8. TypeOK'
  <2>1. UNCHANGED <<stage, m_num_pkts, m_num_freq_chans, m_is_data_ok>>
    OBVIOUS
  <2>2. UNCHANGED <<pc, now, n_pkts, repeats, rpt, i, chanl_cnt, send_time, waitTime,
                    deadline, start, due>>
    BY DEF mainVars
  <2>3. Len(hdr') <= m_num_pkts
    BY <1>3, <1>4
  <2> QED
    BY <1>3, <1>5, <1>6, <1>7, <2>1, <2>2, <2>3 DEF TypeOK
<1>9. Control'
  <2>1. IsFiniteSet(in_use')
    BY FS_AddElement DEF Control
  <2>2. pc = "load" /\ ~ m_is_data_ok
    BY DEF Control
  <2> QED
    BY <2>1, <2>2 DEF Control, mainVars
<1> QED
  BY <1>8, <1>9

\* The other steps of loading.
LEMMA LoadTypes ==
    ASSUME TInv, Load
    PROVE  TInv'
<1> USE DEF TInv
<1>1. CASE \E h \in Headers : LoadHeader(h)
  BY <1>1, LoadHeaderTypes DEF Load
<1>2. CASE HeaderFileFails \/ DataFileFails \/ LoadDone \/ \E h \in Headers : RefuseHeader(h)
  <2>1. /\ UNCHANGED <<m_num_pkts, hdr, m_iovec, m_send_dly_us, last_send_ns, in_use>>
        /\ UNCHANGED <<pc, now, n_pkts, repeats, rpt, i, chanl_cnt, send_time, waitTime,
                       deadline, start, due>>
    BY <1>2 DEF Load, mainVars, HeaderFileFails, DataFileFails, LoadDone, RefuseHeader
  <2>2. stage = "load" /\ stage' \in {"load", "ready", "undefined"}
    BY <1>2 DEF HeaderFileFails, DataFileFails, LoadDone, RefuseHeader
  <2>3. Cardinality(in_use) \in Nat
    BY FS_CardinalityType DEF Control
  <2>4. m_num_freq_chans' \in Nat /\ m_is_data_ok' \in BOOLEAN
    BY <1>2, <2>3 DEF TypeOK, HeaderFileFails, DataFileFails, LoadDone, RefuseHeader
  <2>5. m_is_data_ok' => stage' = "ready" /\ Len(hdr') = m_num_pkts'
    BY <1>2, <2>1, <2>2
       DEF Control, HeaderFileFails, DataFileFails, LoadDone, RefuseHeader
  <2>6. TypeOK'
    BY <2>1, <2>2, <2>4 DEF TypeOK
  <2>7. Control'
    BY <2>1, <2>2, <2>5 DEF Control
  <2> QED
    BY <2>6, <2>7
<1> QED
  BY <1>1, <1>2 DEF Load, TxNext

\* What NextPacket and the steps after it rely on.
LEMMA PacketFacts ==
    ASSUME TInv, pc \in {"next", "select", "waiting", "send"}
    PROVE  /\ i \in Nat /\ n_pkts \in Nat /\ n_pkts <= m_num_pkts /\ m_num_pkts \in Nat
           /\ rpt \in Nat /\ repeats \in Nat /\ rpt <= repeats
           /\ send_time \in Time /\ Us(send_time) \in Nat
           /\ pc = "next" => /\ i + 1 \in 1 .. n_pkts
                             /\ m_send_dly_us[i + 1] \in Nat
<1>1. MaxPkts \in Nat /\ UsPerSec \in Nat \ {0}
  BY SizesAssumption, TimeAssumption
<1>2. /\ m_num_pkts \in 0 .. MaxPkts /\ n_pkts \in 0 .. m_num_pkts /\ i \in 0 .. n_pkts
      /\ rpt \in 0 .. (repeats + 1) /\ repeats \in Nat
      /\ send_time \in [sec : Nat, usec : 0 .. UsPerSec]
      /\ m_send_dly_us \in [1 .. m_num_pkts -> Nat]
  BY DEF TInv, TypeOK
<1>3. rpt <= repeats /\ (pc = "next" => i < n_pkts)
  BY DEF TInv, Control
<1>4. send_time \in Time
  BY <1>1, <1>2 DEF Time
<1>5. Us(send_time) \in Nat
  BY <1>4, UsType
<1>6. m_num_pkts \in Nat /\ n_pkts \in Nat /\ n_pkts <= m_num_pkts /\ i \in Nat /\ rpt \in Nat
  BY <1>1, <1>2
<1>7. pc = "next" => i + 1 \in 1 .. n_pkts /\ i + 1 \in 1 .. m_num_pkts
  BY <1>3, <1>6
<1> QED
  BY <1>2, <1>3, <1>4, <1>5, <1>6, <1>7

\* The new send time: carried or not, it is the delay later.
LEMMA NextSendTime ==
    ASSUME TInv, pc = "next"
    PROVE  LET t == Carry([send_time EXCEPT !.usec = @ + m_send_dly_us[i + 1]])
           IN  /\ t \in [sec : Nat, usec : 0 .. UsPerSec]
               /\ Us(t) = Us(send_time) + m_send_dly_us[i + 1]
<1> DEFINE d == m_send_dly_us[i + 1]
           u == [send_time EXCEPT !.usec = @ + d]
<1>1. send_time \in Time /\ d \in Nat
  BY PacketFacts
<1>2. u \in Time /\ u.sec = send_time.sec /\ u.usec = send_time.usec + d
  BY <1>1 DEF Time
<1>3. Us(u) = Us(send_time) + d
  <2>1. UsPerSec \in Nat
    BY TimeAssumption
  <2> HIDE DEF u, d
  <2> QED
    BY <1>1, <1>2, <2>1 DEF Us, Time
<1> HIDE DEF u
<1>4. Carry(u) \in [sec : Nat, usec : 0 .. UsPerSec] /\ Us(Carry(u)) = Us(u)
  BY <1>2, CarryKeeps
<1> QED
  BY <1>3, <1>4 DEF u

LEMMA StartSendingTypes ==
    ASSUME TInv, StartSending
    PROVE  TInv'
<1> USE DEF TInv, StartSending
<1>1. MaxPkts \in Nat /\ FixedPkts \subseteq Nat /\ Repeats \subseteq Nat
  BY SizesAssumption, TimeAssumption
<1>2. m_num_pkts \in Nat /\ now \in Nat
  BY <1>1 DEF TypeOK
<1>3. n_pkts' \in 0 .. m_num_pkts /\ repeats' \in Nat
  BY <1>1, <1>2
<1>4. send_time' \in [sec : Nat, usec : 0 .. UsPerSec]
  BY <1>2, UsOfTimeval
<1>5. /\ UNCHANGED <<stage, m_num_pkts, hdr, m_iovec, m_send_dly_us, last_send_ns, in_use,
                     m_num_freq_chans, m_is_data_ok>>
      /\ UNCHANGED <<now, rpt, i, chanl_cnt, waitTime, deadline, due>>
  BY DEF txVars
<1>6. i = 0 /\ rpt = 0 /\ stage = "ready"
  BY DEF Control
<1>7. TypeOK'
  <2>1. pc' \in {"next", "done"} /\ start' \in Nat
    BY <1>2
  <2>2. rpt' \in 0 .. (repeats' + 1) /\ i' \in 0 .. n_pkts'
    <3>1. rpt' = 0 /\ i' = 0
      BY <1>5, <1>6
    <3> HIDE DEF StartSending
    <3>2. repeats' \in Nat
      BY <1>3
    <3>3. n_pkts' \in Nat
      BY <1>2, <1>3
    <3>4. 0 \in 0 .. (repeats' + 1)
      <4>1. \A n \in Nat : 0 \in 0 .. (n + 1)
        OBVIOUS
      <4> QED
        BY ONLY <3>2, <4>1
    <3>5. 0 \in 0 .. n_pkts'
      BY <3>3
    <3> QED
      BY <3>1, <3>4, <3>5
  <2>3. UNCHANGED <<stage, m_num_pkts, hdr, m_iovec, m_send_dly_us, last_send_ns,
                    m_num_freq_chans, m_is_data_ok>>
    BY <1>5
  <2> HIDE DEF StartSending
  <2> QED
    BY <2>1, <2>2, <2>3, <1>3, <1>4, <1>5 DEF TypeOK
<1>8. Control'
  <2>1. (pc' = "next" => i' < n_pkts' /\ rpt' <= repeats') /\ pc' \in {"next", "done"}
    BY <1>2, <1>3, <1>5, <1>6
  <2> QED
    BY <2>1, <1>5, <1>6 DEF Control
<1> QED
  BY <1>7, <1>8

LEMMA NextPacketTypes ==
    ASSUME TInv, NextPacket
    PROVE  TInv'
<1> USE DEF TInv, NextPacket
<1>1. UsPerSec \in Nat \ {0} /\ chanl_cnt \in Nat /\ now \in Nat
  BY TimeAssumption DEF TypeOK
<1>2. /\ i \in Nat /\ n_pkts \in Nat /\ i + 1 \in 1 .. n_pkts /\ rpt <= repeats
  BY PacketFacts
<1>3. send_time' \in [sec : Nat, usec : 0 .. UsPerSec]
  BY NextSendTime
<1>4. WaitTime(send_time', Timeval(now)) \in [sec : Int, usec : Int]
  <2>1. Timeval(now) \in [sec : Nat, usec : 0 .. UsPerSec]
    BY <1>1, UsOfTimeval
  <2> QED
    BY <1>1, <1>3, <2>1 DEF WaitTime
<1>5. /\ UNCHANGED <<stage, m_num_pkts, hdr, m_iovec, m_send_dly_us, last_send_ns, in_use,
                     m_num_freq_chans, m_is_data_ok>>
      /\ UNCHANGED <<now, n_pkts, repeats, rpt, deadline, start, due>>
  BY DEF txVars
<1>6. pc' \in {"select", "send"} /\ chanl_cnt' \in Nat /\ i' \in 1 .. n_pkts
  BY <1>1, <1>2
<1>7. waitTime' \in [sec : Int, usec : Int]
  BY <1>4 DEF TypeOK
<1>8. TypeOK'
  <2>1. i' \in 0 .. n_pkts
    BY <1>6
  <2>2. TypeOK
    OBVIOUS
  <2> HIDE DEF NextPacket, TInv
  <2> QED
    BY <1>3, <1>5, <1>6, <1>7, <2>1, <2>2 DEF TypeOK
<1>9. Control'
  BY <1>2, <1>5, <1>6 DEF Control
<1> QED
  BY <1>8, <1>9

LEMMA SelectTypes ==
    ASSUME TInv, Select \/ SelectReturns
    PROVE  TInv'
<1> USE DEF TInv
<1>1. /\ UNCHANGED <<stage, m_num_pkts, hdr, m_iovec, m_send_dly_us, last_send_ns, in_use,
                     m_num_freq_chans, m_is_data_ok>>
      /\ UNCHANGED <<now, n_pkts, repeats, rpt, i, chanl_cnt, send_time, start, due>>
      /\ pc \in {"select", "waiting"} /\ pc' \in {"aborted", "waiting", "send"}
  BY DEF txVars, Select, SelectReturns
<1>2. waitTime' \in [sec : Int, usec : Int] /\ deadline' \in Nat
  <2>1. UsPerSec \in Nat \ {0} /\ now \in Nat /\ deadline \in Nat
        /\ waitTime \in [sec : Int, usec : Int]
    BY TimeAssumption DEF TypeOK
  <2>2. CASE SelectReturns
    <3>1. Timeval(0) \in [sec : Nat, usec : 0 .. UsPerSec]
      BY UsOfTimeval
    <3> QED
      BY <2>1, <2>2, <3>1 DEF SelectReturns
  <2>3. CASE Select
    <3>1. CASE waitTime.sec < 0 \/ waitTime.usec < 0
      BY <2>1, <2>3, <3>1 DEF Select
    <3>2. CASE ~ (waitTime.sec < 0 \/ waitTime.usec < 0)
      <4>1. waitTime \in Time
        BY <2>1, <3>2 DEF Time
      <4>2. Us(waitTime) \in Nat
        BY <4>1, UsType
      <4> QED
        BY <2>1, <2>3, <3>2, <4>2 DEF Select
    <3> QED
      BY <3>1, <3>2
  <2> QED
    BY <2>2, <2>3
<1>3. TypeOK'
  BY <1>1, <1>2 DEF TypeOK
<1>4. Control'
  BY <1>1 DEF Control
<1> QED
  BY <1>3, <1>4

LEMMA SendMsgTypes ==
    ASSUME TInv, SendMsg
    PROVE  TInv'
<1> USE DEF TInv, SendMsg
<1>1. /\ UNCHANGED <<stage, m_num_pkts, hdr, m_iovec, m_send_dly_us, last_send_ns, in_use,
                     m_num_freq_chans, m_is_data_ok>>
      /\ UNCHANGED <<now, n_pkts, repeats, chanl_cnt, send_time, waitTime, deadline, start>>
  BY DEF txVars
<1>2. /\ rpt \in Nat /\ repeats \in Nat /\ rpt <= repeats /\ i \in 1 .. n_pkts /\ n_pkts \in Nat
      /\ Us(send_time) \in Nat
  BY PacketFacts DEF Control
<1>3. due' \in Seq(Nat)
  BY <1>2 DEF TypeOK
<1>4. /\ pc' \in {"next", "done"} /\ i' \in 0 .. n_pkts /\ rpt' \in 0 .. (repeats + 1)
      /\ pc' = "next" => i' < n_pkts /\ rpt' <= repeats
  BY <1>2
<1>5. TypeOK'
  <2>1. TypeOK
    OBVIOUS
  <2> HIDE DEF SendMsg, TInv
  <2> QED
    BY <1>1, <1>3, <1>4, <2>1 DEF TypeOK
<1>6. Control'
  BY <1>1, <1>4 DEF Control
<1> QED
  BY <1>5, <1>6

LEMMA TickTypes ==
    ASSUME TInv, Tick
    PROVE  TInv'
<1>1. /\ UNCHANGED <<stage, m_num_pkts, hdr, m_iovec, m_send_dly_us, last_send_ns, in_use,
                     m_num_freq_chans, m_is_data_ok>>
      /\ UNCHANGED <<pc, n_pkts, repeats, rpt, i, chanl_cnt, send_time, waitTime, deadline,
                     start, due>>
  BY DEF Tick, txVars, mainVars
<1>2. now' \in Nat
  BY TimeAssumption DEF Tick, TInv, TypeOK
<1> QED
  BY <1>1, <1>2 DEF TInv, TypeOK, Control

LEMMA SocketFailsTypes ==
    ASSUME TInv, SocketFails
    PROVE  TInv'
<1>1. /\ UNCHANGED <<stage, m_num_pkts, hdr, m_iovec, m_send_dly_us, last_send_ns, in_use,
                     m_num_freq_chans, m_is_data_ok>>
      /\ UNCHANGED <<now, n_pkts, repeats, rpt, i, chanl_cnt, send_time, waitTime, deadline,
                     start, due>>
      /\ stage = "ready" /\ pc' = "aborted"
  BY DEF SocketFails, txVars
<1>2. TypeOK'
  BY <1>1 DEF TInv, TypeOK
<1>3. Control'
  BY <1>1 DEF TInv, Control
<1> QED
  BY <1>2, <1>3 DEF TInv

LEMMA StepTypes == TInv /\ [Next]_vars => TInv'
<1> SUFFICES ASSUME TInv, [Next]_vars PROVE TInv'
  OBVIOUS
<1>1. CASE UNCHANGED vars
  BY <1>1 DEF vars, TInv, TypeOK, Control
<1> QED
  BY <1>1, LoadTypes, SocketFailsTypes, StartSendingTypes, NextPacketTypes, SelectTypes, SendMsgTypes, TickTypes
     DEF Next, Program

\* Every variable keeps its type: the carried microseconds stay within a second, and no
\* delay or index leaves its array.
THEOREM TypeCorrect == Spec => []TypeOK
<1>1. Spec => []TInv
  BY InitTypes, StepTypes, PTL DEF Spec
<1>2. TInv => TypeOK
  BY DEF TInv
<1> QED
  BY <1>1, <1>2, PTL

--------------------------------------------------------------------------------
(* The payload buffers.                                                      *)

\* An accepted header names a place inside the data file, or few enough zeros, unless it
\* is of a kind that is not checked.
LEMMA AcceptedWithin ==
    ASSUME NEW h \in Headers, ~ Outside(h)
    PROVE  Within(Payload(h)) <=> ~ Unchecked(h)
<1>1. /\ Width \in Nat \ {0} /\ PayloadLen \in Nat /\ ZeroLen \in Nat /\ PayloadLen < Width
  BY SizesAssumption
<1>2. h.offset \in Nat /\ h.len \in Nat
  BY HeaderFields
<1>3. CASE h.offset = NullOffset
  BY <1>1, <1>2, <1>3 DEF Within, Payload, Unchecked
<1>4. CASE h.offset # NullOffset /\ h.offset + h.len < Width
  <2>1. h.offset + h.len \in 0 .. (Width - 1)
    BY <1>1, <1>2, <1>4
  <2>2. (h.offset + h.len) % Width = h.offset + h.len
    BY <1>1, <2>1, ModSmall
  <2>3. h.offset + h.len <= PayloadLen
    BY <1>1, <1>2, <1>4, <2>2 DEF Outside
  <2> QED
    BY <1>1, <1>2, <1>4, <2>3 DEF Within, Payload, Unchecked
<1>5. CASE h.offset # NullOffset /\ h.offset + h.len >= Width
  BY <1>1, <1>2, <1>5 DEF Within, Payload, Unchecked
<1> QED
  BY <1>1, <1>2, <1>3, <1>4, <1>5

\* Of all messages, exactly those are read from outside the data file's buffer or the
\* zeros whose header was accepted although it asks for more zeros than there are, or
\* for data beyond 2^64: whichever headers a file holds and whichever file failed.
THEOREM PayloadCorrect == Spec => []PayloadInside
<1>1. Init => PayloadInside
  <2> SUFFICES ASSUME Init, NEW k \in 1 .. m_num_pkts
               PROVE  Within(m_iovec[k]) /\ ~(k \in 1 .. Len(hdr))
    BY DEF PayloadInside
  <2>1. m_iovec[k] = NoPayload /\ hdr = <<>>
    BY DEF Init, TxInit
  <2> QED
    BY <2>1 DEF NoPayload, Within
<1>2. ASSUME TInv, PayloadInside, [Next]_vars
      PROVE  PayloadInside'
  <2>1. CASE \E h \in Headers : LoadHeader(h)
    <3>1. PICK h \in Headers : LoadHeader(h)
      BY <2>1
    <3>2. /\ m_num_pkts' = m_num_pkts
          /\ m_iovec' = [m_iovec EXCEPT ![Len(hdr) + 1] = Payload(h)]
          /\ hdr' = Append(hdr, h)
          /\ Within(Payload(h)) <=> ~ Unchecked(h)
      BY <3>1, AcceptedWithin DEF LoadHeader
    <3>3. DOMAIN m_iovec = 1 .. m_num_pkts /\ hdr \in Seq(Headers) /\ Len(hdr) \in Nat
      BY <1>2 DEF TInv, TypeOK
    <3>4. /\ Len(hdr') = Len(hdr) + 1 /\ hdr'[Len(hdr) + 1] = h
          /\ \A k \in 1 .. Len(hdr) : hdr'[k] = hdr[k]
      BY <3>2, <3>3
    <3>5. ASSUME NEW k \in 1 .. m_num_pkts
          PROVE  Within(m_iovec'[k]) <=> ~(k \in 1 .. Len(hdr') /\ Unchecked(hdr'[k]))
      <4>1. CASE k = Len(hdr) + 1
        <5>1. m_iovec'[k] = Payload(h) /\ hdr'[k] = h /\ k \in 1 .. Len(hdr')
          BY <3>2, <3>3, <3>4, <4>1
        <5> QED
          BY <3>2, <5>1
      <4>2. CASE k # Len(hdr) + 1
        <5>1. m_iovec'[k] = m_iovec[k] /\ (k \in 1 .. Len(hdr') <=> k \in 1 .. Len(hdr))
          BY <3>2, <3>3, <3>4, <4>2
        <5>2. Within(m_iovec[k]) <=> ~(k \in 1 .. Len(hdr) /\ Unchecked(hdr[k]))
          BY <1>2 DEF PayloadInside
        <5> QED
          BY <3>4, <5>1, <5>2
      <4> QED
        BY <4>1, <4>2
    <3> QED
      BY <3>2, <3>5 DEF PayloadInside, Within, Unchecked
  <2>2. CASE ~ \E h \in Headers : LoadHeader(h)
    <3>1. UNCHANGED <<m_num_pkts, m_iovec, hdr>>
      BY <1>2, <2>2
         DEF Next, Program, Load, TxNext, HeaderFileFails, DataFileFails, LoadDone, RefuseHeader,
             SocketFails, StartSending, NextPacket, Select, SelectReturns, SendMsg, Tick, txVars, vars
    <3> QED
      BY <1>2, <3>1 DEF PayloadInside, Within, Unchecked
  <2> QED
    BY <2>1, <2>2
<1>3. Spec => []TInv
  BY InitTypes, StepTypes, PTL DEF Spec
<1> QED
  BY <1>1, <1>2, <1>3, PTL DEF Spec

--------------------------------------------------------------------------------
(* The schedule.                                                             *)

\* RelativeUs for the headers H, and send times in order.
Rel(H, k) == (H[k].time - H[1].time) \div NsPerUs
InOrder(H) == \A j, k \in 1 .. Len(H) : j <= k => H[j].time <= H[k].time

\* The k-th delay is the difference of two relative send times.
Delay(H, k) == IF k = 1 THEN 0 ELSE Rel(H, k) - Rel(H, k - 1)

\* After the last header read: the send time the next delay is measured from is that of
\* the last packet, rounded down.
Measured(H, last) ==
    /\ last = H[1].time + NsPerUs * Rel(H, Len(H))
    /\ H[Len(H)].time - last \in 0 .. (NsPerUs - 1)

Measuring ==
    Sorted => /\ hdr # <<>> => Measured(hdr, last_send_ns)
              /\ \A k \in 1 .. Len(hdr) : m_send_dly_us[k] = Delay(hdr, k)

LEMMA RelType ==
    ASSUME NEW H \in Seq(Headers), NEW k \in 1 .. Len(H)
    PROVE  /\ H[k].time \in 0 .. (Width - 1) /\ H[1].time \in 0 .. (Width - 1)
           /\ Rel(H, k) \in Int
           /\ k = 1 => Rel(H, k) = 0
<1>1. NsPerUs \in Nat \ {0} /\ Width \in Nat \ {0} /\ 1 \in 1 .. Len(H)
  BY SizesAssumption
<1>2. H[k] \in Headers /\ H[1] \in Headers
  BY <1>1, ElementOfSeq
<1>3. H[k].time \in 0 .. (Width - 1) /\ H[1].time \in 0 .. (Width - 1)
  BY <1>2, HeadersAssumption
<1>4. H[k].time - H[1].time \in Int
  BY <1>1, <1>3
<1>5. (H[k].time - H[1].time) \div NsPerUs \in Int
  BY <1>1, <1>4, DivMod
<1>6. 0 \div NsPerUs = 0
  BY <1>1
<1> QED
  BY <1>3, <1>4, <1>5, <1>6 DEF Rel

\* The headers before the last one are what they were.
LEMMA AppendHeader ==
    ASSUME NEW H \in Seq(Headers), NEW h \in Headers
    PROVE  LET G == Append(H, h)
           IN  /\ G \in Seq(Headers) /\ Len(G) = Len(H) + 1 /\ Len(H) \in Nat
               /\ G[Len(G)] = h
               /\ \A k \in 1 .. Len(H) : G[k] = H[k] /\ Rel(G, k) = Rel(H, k)
                                         /\ Delay(G, k) = Delay(H, k)
<1> DEFINE G == Append(H, h)
<1>1. /\ G \in Seq(Headers) /\ Len(G) = Len(H) + 1 /\ Len(H) \in Nat
      /\ G[Len(H) + 1] = h /\ \A k \in 1 .. Len(H) : G[k] = H[k]
  OBVIOUS
<1> HIDE DEF G
<1>2. ASSUME NEW k \in 1 .. Len(H)
      PROVE  Rel(G, k) = Rel(H, k)
  <2>1. 1 \in 1 .. Len(H)
    BY <1>1
  <2> QED
    BY <1>1, <2>1 DEF Rel
<1>3. ASSUME NEW k \in 1 .. Len(H)
      PROVE  Delay(G, k) = Delay(H, k)
  <2>1. k # 1 => k - 1 \in 1 .. Len(H)
    BY <1>1
  <2> QED
    BY <1>2, <2>1 DEF Delay
<1> QED
  BY <1>1, <1>2, <1>3 DEF G

\* One more header: t0, prev and next are the times of the first packet and of the last
\* two, last is p microseconds after t0, and q the delay of the new packet.
OneMore(t0, p, last, prev, next, q) ==
    /\ t0 \in Int /\ p \in Int /\ last \in 0 .. (Width - 1)
    /\ prev \in Int /\ next \in 0 .. (Width - 1)
    /\ last = t0 + NsPerUs * p /\ prev - last \in 0 .. (NsPerUs - 1) /\ prev <= next
    /\ q = ((next - last) % Width) \div NsPerUs

LEMMA Remainder ==
    ASSUME NEW t0, NEW p, NEW last, NEW prev, NEW next, NEW q,
           OneMore(t0, p, last, prev, next, q)
    PROVE  /\ q \in Nat
           /\ (next - t0) \div NsPerUs = p + q
           /\ (last + q * NsPerUs) % Width = t0 + NsPerUs * (p + q)
           /\ next - (t0 + NsPerUs * (p + q)) \in 0 .. (NsPerUs - 1)
<1> DEFINE N == NsPerUs
           W == Width
<1> DEFINE r == (next - last) % N
<1>0. /\ N \in Nat \ {0} /\ W \in Nat \ {0} /\ t0 \in Int /\ p \in Int
      /\ last \in 0 .. (W - 1) /\ prev \in Int /\ next \in 0 .. (W - 1)
      /\ last = t0 + N * p /\ prev - last \in 0 .. (N - 1) /\ prev <= next
      /\ q = ((next - last) % W) \div N
  BY SizesAssumption DEF OneMore
<1> HIDE DEF N, W
<1>1. next - last \in 0 .. (W - 1) /\ next - last \in Nat
  BY <1>0
<1>2. q = (next - last) \div N
  BY <1>0, <1>1, ModSmall
<1>3. q \in Nat
  BY <1>0, <1>1, <1>2, DivNat
<1>4. next - last = N * q + r /\ r \in 0 .. (N - 1)
  <2> DEFINE m == next - last
  <2>1. m \in Int /\ q = m \div N /\ r = m % N
    BY <1>0, <1>1, <1>2
  <2> HIDE DEF m, r
  <2>2. m = N * (m \div N) + (m % N) /\ m % N \in 0 .. (N - 1)
    BY <1>0, <2>1, DivMod
  <2>3. m = N * q + r /\ r \in 0 .. (N - 1)
    BY <2>1, <2>2
  <2> QED
    BY <2>3 DEF m
<1> HIDE DEF r
<1>5. N * (p + q) = N * p + N * q /\ q * N = N * q /\ N * q \in Nat /\ N * p \in Int
  BY <1>0, <1>3
<1>6. next - t0 = N * (p + q) + r /\ p + q \in Int
  BY <1>0, <1>3, <1>4, <1>5
<1>7. (next - t0) \div N = p + q
  BY <1>0, <1>4, <1>6, DivUnique
<1>8. last + q * N = next - r /\ last + q * N \in 0 .. (W - 1)
  BY <1>0, <1>4, <1>5
<1>9. (last + q * N) % W = last + q * N
  BY <1>0, <1>8, ModSmall
<1>10. last + q * N = t0 + N * (p + q)
  BY <1>0, <1>5
<1> QED
  BY <1>0, <1>3, <1>4, <1>7, <1>8, <1>9, <1>10 DEF N, W

\* One more header, not earlier than the one before: the remainder is carried on.
LEMMA MeasureNext ==
    ASSUME NEW H \in Seq(Headers), H # <<>>, NEW h \in Headers, NEW last \in 0 .. (Width - 1),
           Measured(H, last), H[Len(H)].time <= h.time,
           NEW q, q = ((h.time - last) % Width) \div NsPerUs
    PROVE  /\ q = Delay(Append(H, h), Len(H) + 1)
           /\ Measured(Append(H, h), (last + q * NsPerUs) % Width)
<1> DEFINE G == Append(H, h)
           p == Rel(H, Len(H))
           t0 == H[1].time
           prev == H[Len(H)].time
<1>1. NsPerUs \in Nat \ {0} /\ Width \in Nat \ {0}
  BY SizesAssumption
<1>2. Len(H) \in Nat \ {0} /\ Len(H) \in 1 .. Len(H) /\ 1 \in 1 .. Len(H)
  <2>1. Len(H) \in Nat \ {0}
    BY EmptySeq, LenProperties
  <2> QED
    BY <2>1
<1>3. /\ prev \in 0 .. (Width - 1) /\ t0 \in 0 .. (Width - 1) /\ p \in Int
      /\ h.time \in 0 .. (Width - 1)
  BY <1>2, RelType, HeaderFields
<1>4. last = t0 + NsPerUs * p /\ prev - last \in 0 .. (NsPerUs - 1) /\ prev <= h.time
  BY DEF Measured
<1>5. /\ Len(G) = Len(H) + 1 /\ G[Len(G)] = h /\ G[1] = H[1] /\ Rel(G, Len(H)) = p
  <2>1. /\ G \in Seq(Headers) /\ Len(G) = Len(H) + 1 /\ G[Len(G)] = h
        /\ \A k \in 1 .. Len(H) : G[k] = H[k] /\ Rel(G, k) = Rel(H, k)
    BY AppendHeader
  <2> QED
    BY <1>2, <2>1
<1>6. Rel(G, Len(H) + 1) = (h.time - t0) \div NsPerUs
  BY <1>5 DEF Rel
<1> HIDE DEF G, p, t0, prev
<1>7. /\ q \in Nat
      /\ (h.time - t0) \div NsPerUs = p + q
      /\ (last + q * NsPerUs) % Width = t0 + NsPerUs * (p + q)
      /\ h.time - (t0 + NsPerUs * (p + q)) \in 0 .. (NsPerUs - 1)
  <2>1. OneMore(t0, p, last, prev, h.time, q)
    BY <1>1, <1>3, <1>4 DEF OneMore
  <2> QED
    BY <2>1, Remainder
<1>8. Delay(G, Len(H) + 1) = q
  <2>1. Len(H) + 1 # 1 /\ (Len(H) + 1) - 1 = Len(H)
    BY <1>2
  <2>2. Delay(G, Len(H) + 1) = (p + q) - p
    BY <1>5, <1>6, <1>7, <2>1 DEF Delay
  <2> QED
    BY <1>3, <1>7, <2>2
<1>9. Measured(G, (last + q * NsPerUs) % Width)
  BY <1>5, <1>6, <1>7 DEF Measured, t0
<1> QED
  BY <1>8, <1>9 DEF G

LEMMA LoadHeaderMeasuring ==
    ASSUME TInv, Measuring, NEW h \in Headers, LoadHeader(h)
    PROVE  Measuring'
<1> SUFFICES ASSUME Sorted'
             PROVE  /\ hdr' # <<>> => Measured(hdr', last_send_ns')
                    /\ \A k \in 1 .. Len(hdr') : m_send_dly_us'[k] = Delay(hdr', k)
  BY DEF Measuring
<1>1. /\ NsPerUs \in Nat \ {0} /\ Width \in Nat \ {0}
      /\ hdr \in Seq(Headers) /\ hdr' = Append(hdr, h)
      /\ m_send_dly_us \in [1 .. m_num_pkts -> Nat] /\ last_send_ns \in 0 .. (Width - 1)
      /\ last_send_ns \in Int
  BY SizesAssumption DEF TInv, TypeOK, LoadHeader
<1>2. /\ hdr' \in Seq(Headers) /\ Len(hdr') = Len(hdr) + 1 /\ Len(hdr) \in Nat
      /\ hdr'[Len(hdr) + 1] = h
      /\ \A k \in 1 .. Len(hdr) : hdr'[k] = hdr[k] /\ Delay(hdr', k) = Delay(hdr, k)
  <2> HIDE DEF Delay
  <2>1. LET G == Append(hdr, h)
        IN  /\ G \in Seq(Headers) /\ Len(G) = Len(hdr) + 1 /\ Len(hdr) \in Nat
            /\ G[Len(G)] = h
            /\ \A k \in 1 .. Len(hdr) : G[k] = hdr[k] /\ Rel(G, k) = Rel(hdr, k)
                                         /\ Delay(G, k) = Delay(hdr, k)
    BY <1>1, AppendHeader
  <2> QED
    BY <1>1, <2>1
<1>3. Sorted
  BY <1>2 DEF Sorted
<1>4. /\ \A k \in 1 .. Len(hdr) : m_send_dly_us[k] = Delay(hdr, k)
      /\ hdr # <<>> => Measured(hdr, last_send_ns)
  BY <1>3 DEF Measuring
<1>5. /\ m_send_dly_us'[Len(hdr) + 1] = DelayUs(h)
      /\ \A k \in 1 .. Len(hdr) : m_send_dly_us'[k] = m_send_dly_us[k]
  <2>1. Len(hdr) + 1 \in 1 .. m_num_pkts /\ m_num_pkts \in Nat
    <3>1. MaxPkts \in Nat
      BY SizesAssumption
    <3>2. m_num_pkts \in 0 .. MaxPkts /\ Len(hdr) < m_num_pkts
      BY DEF TInv, TypeOK, LoadHeader
    <3> QED
      BY ONLY <1>2, <3>1, <3>2
  <2>2. m_send_dly_us' = [m_send_dly_us EXCEPT ![Len(hdr) + 1] = DelayUs(h)]
    BY DEF LoadHeader
  <2>3. \A k \in 1 .. Len(hdr) : k # Len(hdr) + 1
    BY <1>2
  <2>4. \A k \in 1 .. Len(hdr) : k \in 1 .. m_num_pkts
    BY <1>2, <2>1
  <2> QED
    BY <1>1, <2>1, <2>2, <2>3, <2>4
<1>6. /\ DelayUs(h) = Delay(hdr', Len(hdr) + 1)
      /\ Measured(hdr', last_send_ns')
  <2>1. CASE hdr = <<>>
    <3>1. Len(hdr) = 0 /\ Len(hdr') = 1 /\ hdr'[1] = h
      BY <1>2, <2>1
    <3>2. h.time \in 0 .. (Width - 1) /\ Rel(hdr', 1) = 0
      <4>1. 1 \in 1 .. Len(hdr')
        BY <3>1
      <4> QED
        BY <1>2, <4>1, RelType, HeaderFields
    <3>3. last_send_ns' = h.time /\ DelayUs(h) = 0
      BY <2>1 DEF LoadHeader, LastSendNs, DelayUs
    <3>4. h.time = h.time + NsPerUs * 0 /\ h.time - h.time \in 0 .. (NsPerUs - 1)
      BY <1>1, <3>2
    <3> QED
      BY <3>1, <3>2, <3>3, <3>4 DEF Measured, Delay
  <2>2. CASE hdr # <<>>
    <3> DEFINE q == DelayUs(h)
    <3>1. q = ((h.time - last_send_ns) % Width) \div NsPerUs
      BY <2>2 DEF DelayUs
    <3>2. last_send_ns' = (last_send_ns + q * NsPerUs) % Width
      BY <2>2 DEF LoadHeader, LastSendNs
    <3>3. hdr[Len(hdr)].time <= h.time
      <4>1. Len(hdr) \in 1 .. Len(hdr') /\ Len(hdr) + 1 \in 1 .. Len(hdr') /\ Len(hdr) \in 1 .. Len(hdr)
            /\ Len(hdr) <= Len(hdr) + 1
        <5>1. Len(hdr) \in Nat \ {0}
          BY <1>1, <2>2, EmptySeq, LenProperties
        <5> QED
          BY <1>2, <5>1
      <4>2. hdr'[Len(hdr)].time <= hdr'[Len(hdr) + 1].time
        BY <4>1 DEF Sorted
      <4> QED
        BY <1>2, <4>1, <4>2
    <3> HIDE DEF q
    <3>4. /\ q = Delay(Append(hdr, h), Len(hdr) + 1)
          /\ Measured(Append(hdr, h), (last_send_ns + q * NsPerUs) % Width)
      BY <1>1, <1>4, <2>2, <3>1, <3>3, MeasureNext
    <3> QED
      BY <1>1, <3>2, <3>4 DEF q
  <2> QED
    BY <2>1, <2>2
<1>7. ASSUME NEW k \in 1 .. Len(hdr')
      PROVE  m_send_dly_us'[k] = Delay(hdr', k)
  <2>1. k \in 1 .. Len(hdr) \/ k = Len(hdr) + 1
    BY <1>2, <1>7
  <2> QED
    BY <1>2, <1>4, <1>5, <1>6, <2>1
<1> QED
  BY <1>6, <1>7

\* No other step touches headers or delays.
LEMMA OtherMeasuring ==
    ASSUME [Next]_vars, ~ \E h \in Headers : LoadHeader(h)
    PROVE  UNCHANGED <<m_num_pkts, hdr, m_send_dly_us, last_send_ns>>
  BY DEF Next, Program, Load, TxNext, HeaderFileFails, DataFileFails, LoadDone, RefuseHeader,
         SocketFails, StartSending, NextPacket, Select, SelectReturns, SendMsg, Tick, txVars, vars

LEMMA StepMeasuring ==
    ASSUME TInv, Measuring, [Next]_vars
    PROVE  Measuring'
<1>1. CASE \E h \in Headers : LoadHeader(h)
  BY <1>1, LoadHeaderMeasuring
<1>2. CASE ~ \E h \in Headers : LoadHeader(h)
  BY <1>2, OtherMeasuring DEF Measuring, Sorted
<1> QED
  BY <1>1, <1>2

\* When packet k of repetition r is due.
DueAt(r, k) == start + r * RelativeUs(n_pkts) + (IF k = 0 THEN 0 ELSE RelativeUs(k))

\* With the data loaded, the relative send times are numbers, and the delays their steps.
LEMMA ScheduleFacts ==
    ASSUME TInv, Measuring, m_is_data_ok, Sorted, NEW k \in 1 .. m_num_pkts
    PROVE  /\ RelativeUs(k) \in Int
           /\ k = 1 => RelativeUs(k) = 0 /\ m_send_dly_us[k] = 0
           /\ k # 1 => m_send_dly_us[k] = RelativeUs(k) - RelativeUs(k - 1)
<1>1. hdr \in Seq(Headers) /\ Len(hdr) = m_num_pkts
  BY DEF TInv, TypeOK, Control
<1>2. RelativeUs(k) = Rel(hdr, k) /\ RelativeUs(k - 1) = Rel(hdr, k - 1)
  BY DEF RelativeUs, Rel
<1>3. Rel(hdr, k) \in Int /\ (k = 1 => Rel(hdr, k) = 0)
  BY <1>1, RelType
<1>4. m_send_dly_us[k] = Delay(hdr, k)
  BY <1>1 DEF Measuring
<1> QED
  BY <1>2, <1>3, <1>4 DEF Delay

LEMMA NextPacketSchedule ==
    ASSUME TInv, Measuring, ScheduleExact, NextPacket
    PROVE  ScheduleExact'
<1> SUFFICES ASSUME m_is_data_ok, Sorted
             PROVE  Us(send_time') = start + rpt * RelativeUs(n_pkts) + RelativeUs(i + 1)
  <2>1. /\ UNCHANGED <<m_is_data_ok, hdr, start, rpt, n_pkts>> /\ i' = i + 1
    BY DEF NextPacket, txVars
  <2>2. i \in Nat
    BY PacketFacts DEF NextPacket
  <2>3. i' # 0
    BY <2>1, <2>2
  <2> QED
    BY <2>1, <2>3 DEF ScheduleExact, Sorted, RelativeUs, Us
<1> DEFINE d == m_send_dly_us[i + 1]
           R == RelativeUs(n_pkts)
           A == IF i = 0 THEN 0 ELSE RelativeUs(i)
           B == RelativeUs(i + 1)
<1>1. pc = "next"
  BY DEF NextPacket
<1>2. /\ i \in Nat /\ n_pkts \in Nat /\ n_pkts <= m_num_pkts /\ m_num_pkts \in Nat /\ rpt \in Nat
      /\ i + 1 \in 1 .. n_pkts
  BY <1>1, PacketFacts
<1>3. n_pkts \in 1 .. m_num_pkts /\ i + 1 \in 1 .. m_num_pkts /\ (i # 0 => i \in 1 .. m_num_pkts)
  BY <1>2
<1>4. Us(send_time') = Us(send_time) + d
  BY <1>1, NextSendTime DEF NextPacket
<1>5. Us(send_time) = start + rpt * R + A
  BY <1>1 DEF ScheduleExact
<1>6. R \in Int /\ A \in Int /\ B \in Int
  BY <1>3, ScheduleFacts
<1>7. d = B - A
  <2>1. CASE i = 0
    <3>1. i + 1 = 1
      BY <2>1
    <3>2. B = 0 /\ d = 0
      BY <1>3, <3>1, ScheduleFacts
    <3> QED
      BY <2>1, <3>2
  <2>2. CASE i # 0
    <3>1. i + 1 # 1 /\ (i + 1) - 1 = i
      BY <1>2, <2>2
    <3>2. d = RelativeUs(i + 1) - RelativeUs(i)
      <4> HIDE DEF d
      <4>1. m_send_dly_us[i + 1] = RelativeUs(i + 1) - RelativeUs((i + 1) - 1)
        BY <1>3, <3>1, ScheduleFacts
      <4> QED
        BY <3>1, <4>1 DEF d
    <3> QED
      BY <2>2, <3>2
  <2> QED
    BY <2>1, <2>2
<1>8. start \in Nat /\ rpt * R \in Int
  BY <1>2, <1>6 DEF TInv, TypeOK
<1> HIDE DEF d, R, A, B
<1>9. Us(send_time') = start + rpt * R + B
  BY <1>4, <1>5, <1>6, <1>7, <1>8
<1> QED
  BY <1>9 DEF R, B

LEMMA SendMsgSchedule ==
    ASSUME TInv, Measuring, ScheduleExact, SendMsg
    PROVE  ScheduleExact'
<1>1. pc = "send" /\ UNCHANGED <<m_is_data_ok, hdr, start, n_pkts, send_time>>
  BY DEF SendMsg, txVars
<1>2. CASE i < n_pkts
  BY <1>1, <1>2 DEF SendMsg, ScheduleExact, Sorted, RelativeUs, Us
<1>3. CASE ~ (i < n_pkts)
  <2> SUFFICES ASSUME m_is_data_ok, Sorted
               PROVE  Us(send_time) = start + (rpt + 1) * RelativeUs(n_pkts) + 0
    BY <1>1, <1>3 DEF SendMsg, ScheduleExact, Sorted, RelativeUs, Us
  <2> DEFINE R == RelativeUs(n_pkts)
  <2>1. /\ i \in 1 .. n_pkts /\ n_pkts \in Nat /\ n_pkts <= m_num_pkts /\ m_num_pkts \in Nat
        /\ rpt \in Nat
    BY <1>1, PacketFacts DEF TInv, Control
  <2>2. i = n_pkts /\ i # 0 /\ n_pkts \in 1 .. m_num_pkts
    BY <1>3, <2>1
  <2>3. R \in Int
    BY <2>2, ScheduleFacts
  <2>4. Us(send_time) = start + rpt * R + R
    BY <1>1, <2>2 DEF ScheduleExact
  <2>5. start \in Nat
    BY DEF TInv, TypeOK
  <2> HIDE DEF R
  <2>6. rpt * R \in Int /\ (rpt + 1) * R = rpt * R + R
    BY <2>1, <2>3
  <2>7. Us(send_time) = start + (rpt + 1) * R + 0
    BY <2>3, <2>4, <2>5, <2>6
  <2> QED
    BY <2>7 DEF R
<1> QED
  BY <1>2, <1>3

LEMMA StartSchedule ==
    ASSUME TInv, Measuring, StartSending
    PROVE  ScheduleExact'
<1> SUFFICES ASSUME m_is_data_ok, Sorted, pc' = "next"
             PROVE  Us(Timeval(now)) = now + 0 * RelativeUs(n_pkts)' + 0
  BY DEF StartSending, txVars, TInv, Control, ScheduleExact, Sorted, RelativeUs, Us
<1>1. now \in Nat /\ n_pkts' \in 0 .. m_num_pkts /\ n_pkts' # 0
  <2>1. (StartSending => TInv') /\ StartSending
    BY StartSendingTypes
  <2>2. n_pkts' \in 0 .. m_num_pkts' /\ m_num_pkts' = m_num_pkts
    BY <2>1 DEF TInv, TypeOK, StartSending, txVars
  <2>3. now \in Nat /\ n_pkts' # 0
    BY DEF TInv, TypeOK, StartSending
  <2> QED
    BY <2>2, <2>3
<1>2. RelativeUs(n_pkts)' \in Int
  <2>1. MaxPkts \in Nat /\ m_num_pkts \in 0 .. MaxPkts
    BY SizesAssumption DEF TInv, TypeOK
  <2>2. n_pkts' \in 1 .. m_num_pkts
    BY <1>1, <2>1
  <2>3. RelativeUs(n_pkts)' = RelativeUs(n_pkts')
    BY DEF RelativeUs, StartSending, txVars
  <2> QED
    BY <2>2, <2>3, ScheduleFacts
<1>3. Us(Timeval(now)) = now
  BY <1>1, UsOfTimeval
<1> QED
  BY <1>1, <1>2, <1>3

\* With headers in order of time, every packet is due exactly when its header says,
\* through all repetitions: no remainder is lost or counted twice.
THEOREM ScheduleCorrect == Spec => []ScheduleExact
<1>1. Init => Measuring /\ ScheduleExact
  BY DEF Init, TxInit, Measuring, ScheduleExact
<1>2. ASSUME TInv, Measuring, ScheduleExact, [Next]_vars
      PROVE  ScheduleExact'
  <2>1. CASE NextPacket \/ SendMsg \/ StartSending
    BY <1>2, <2>1, NextPacketSchedule, SendMsgSchedule, StartSchedule
  <2>2. CASE SocketFails \/ Select \/ SelectReturns \/ Tick \/ UNCHANGED vars
    <3>1. UNCHANGED <<m_is_data_ok, hdr, start, rpt, n_pkts, i, send_time>>
      BY <2>2 DEF SocketFails, Select, SelectReturns, Tick, vars, txVars, mainVars
    <3>2. pc' \in {"next", "select", "waiting", "send"} => pc \in {"next", "select", "waiting", "send"}
      BY <2>2 DEF SocketFails, Select, SelectReturns, Tick, vars, mainVars
    <3> QED
      BY <1>2, <3>1, <3>2 DEF ScheduleExact, Sorted, RelativeUs, Us
  <2>3. CASE Load
    <3>1. pc' = "load"
      <4>1. stage = "load" /\ pc' = pc
        BY <2>3 DEF Load, TxNext, HeaderFileFails, DataFileFails, LoadDone, LoadHeader,
                    RefuseHeader, mainVars
      <4> QED
        BY <1>2, <4>1 DEF TInv, Control
    <3> QED
      BY <3>1 DEF ScheduleExact
  <2> QED
    BY <1>2, <2>1, <2>2, <2>3 DEF Next, Program
<1>3. TInv /\ Measuring /\ ScheduleExact /\ [Next]_vars => (TInv /\ Measuring /\ ScheduleExact)'
  BY <1>2, StepTypes, StepMeasuring
<1>4. Init => TInv
  BY InitTypes
<1> QED
  BY <1>1, <1>3, <1>4, PTL DEF Spec

--------------------------------------------------------------------------------
(* How early a packet may be.                                                *)

\* When the comparison says that a packet is not due later, it is due.
LEMMA NotLater ==
    ASSUME NEW t \in [sec : Nat, usec : 0 .. UsPerSec], NEW us \in Nat, ~ Later(t, Timeval(us))
    PROVE  Us(t) <= us
<1> DEFINE ts == Timeval(us)
<1>1. UsPerSec \in Nat \ {0}
  BY TimeAssumption
<1>2. ts \in [sec : Nat, usec : 0 .. UsPerSec] /\ Us(ts) = us
  BY UsOfTimeval
<1> HIDE DEF ts
<1>3. /\ t.sec \in Nat /\ t.usec \in 0 .. UsPerSec /\ ts.sec \in Nat /\ ts.usec \in 0 .. UsPerSec
  BY <1>2
<1>4. t.sec < ts.sec \/ (t.sec = ts.sec /\ t.usec <= ts.usec)
  BY <1>1, <1>3 DEF Later, ts
<1>5. us = ts.sec * UsPerSec + ts.usec /\ Us(t) = t.sec * UsPerSec + t.usec
  BY <1>2 DEF Us
<1>6. CASE t.sec < ts.sec
  <2>1. (t.sec + 1) * UsPerSec <= ts.sec * UsPerSec
    BY <1>1, <1>3, <1>6
  <2>2. (t.sec + 1) * UsPerSec = t.sec * UsPerSec + UsPerSec
    BY <1>1, <1>3
  <2> QED
    BY <1>1, <1>3, <1>5, <2>1, <2>2
<1>7. CASE t.sec = ts.sec /\ t.usec <= ts.usec
  BY <1>1, <1>3, <1>5, <1>7
<1> QED
  BY <1>4, <1>6, <1>7

\* The difference with borrow is the difference.
LEMMA WaitTimeIsDifference ==
    ASSUME NEW t \in [sec : Nat, usec : 0 .. UsPerSec], NEW us \in Nat
    PROVE  Us(WaitTime(t, Timeval(us))) + us = Us(t)
<1> DEFINE ts == Timeval(us)
<1>1. UsPerSec \in Nat \ {0}
  BY TimeAssumption
<1>2. ts \in [sec : Nat, usec : 0 .. UsPerSec] /\ Us(ts) = us
  BY UsOfTimeval
<1> HIDE DEF ts
<1>3. /\ t.sec \in Nat /\ t.usec \in Nat /\ ts.sec \in Nat /\ ts.usec \in Nat
  BY <1>1, <1>2
<1>4. us = ts.sec * UsPerSec + ts.usec /\ Us(t) = t.sec * UsPerSec + t.usec
  BY <1>2 DEF Us
<1>5. /\ (t.sec - ts.sec) * UsPerSec = t.sec * UsPerSec - ts.sec * UsPerSec
      /\ (t.sec - ts.sec - 1) * UsPerSec = t.sec * UsPerSec - ts.sec * UsPerSec - UsPerSec
  BY <1>1, <1>3
<1>6. t.sec * UsPerSec \in Nat /\ ts.sec * UsPerSec \in Nat
  BY <1>1, <1>3
<1>7. CASE t.usec > ts.usec
  BY <1>1, <1>3, <1>4, <1>5, <1>6, <1>7 DEF WaitTime, Us, ts
<1>8. CASE ~ (t.usec > ts.usec)
  BY <1>1, <1>3, <1>4, <1>5, <1>6, <1>8 DEF WaitTime, Us, ts
<1> QED
  BY <1>7, <1>8

\* Of the first n packets, those sent before the last chanl_cnt were due.
Caught(n) == \A k \in 1 .. Len(due) : k + chanl_cnt <= n => due[k] <= now

Pacing ==
    /\ LessThanARoundEarly
    /\ \A k \in 1 .. Len(due) : due[k] <= Us(send_time)
    /\ chanl_cnt = 0 \/ chanl_cnt < m_num_freq_chans
    /\ pc \in {"next", "done"} => Caught(Len(due))
    /\ pc = "send" => /\ Caught(Len(due) + 1)
                      /\ chanl_cnt = 0 => Us(send_time) <= now
    /\ pc \in {"select", "waiting"} => chanl_cnt = 0
    /\ pc = "select" => Us(send_time) <= Us(waitTime) + now
    /\ pc = "waiting" => Us(send_time) <= deadline

LEMMA PacingTypes ==
    ASSUME TInv
    PROVE  /\ now \in Nat /\ chanl_cnt \in Nat /\ m_num_freq_chans \in Nat /\ deadline \in Nat
           /\ due \in Seq(Nat) /\ Len(due) \in Nat
           /\ Us(send_time) \in Nat
           /\ \A k \in 1 .. Len(due) : due[k] \in Nat
<1>1. /\ now \in Nat /\ chanl_cnt \in Nat /\ m_num_freq_chans \in Nat /\ deadline \in Nat
      /\ due \in Seq(Nat) /\ send_time \in [sec : Nat, usec : 0 .. UsPerSec]
  BY DEF TInv, TypeOK
<1>2. send_time \in Time
  BY <1>1, TimeAssumption DEF Time
<1> QED
  BY <1>1, <1>2, UsType, ElementOfSeq, LenProperties

LEMMA NextPacketPacing ==
    ASSUME TInv, Pacing, NextPacket
    PROVE  Pacing'
<1>1. /\ now \in Nat /\ chanl_cnt \in Nat /\ m_num_freq_chans \in Nat
      /\ Len(due) \in Nat /\ Us(send_time) \in Nat
      /\ \A k \in 1 .. Len(due) : due[k] \in Nat
  BY PacingTypes
<1>2. pc = "next" /\ UNCHANGED <<due, now, m_num_freq_chans>>
  BY DEF NextPacket, txVars
<1>3. /\ send_time' \in [sec : Nat, usec : 0 .. UsPerSec]
      /\ Us(send_time') \in Nat /\ Us(send_time) <= Us(send_time')
  <2>1. /\ send_time' \in [sec : Nat, usec : 0 .. UsPerSec]
        /\ Us(send_time') = Us(send_time) + m_send_dly_us[i + 1]
    BY <1>2, NextSendTime DEF NextPacket
  <2>2. m_send_dly_us[i + 1] \in Nat
    BY <1>2, PacketFacts
  <2> QED
    BY <1>1, <2>1, <2>2
<1>4. \A k \in 1 .. Len(due) : due[k] <= Us(send_time')
  BY <1>1, <1>3 DEF Pacing
<1>5. LessThanARoundEarly'
  BY <1>2 DEF Pacing, LessThanARoundEarly
<1>6. CASE ~ (chanl_cnt + 1 >= m_num_freq_chans)
  <2>1. pc' = "send" /\ chanl_cnt' = chanl_cnt + 1
    BY <1>6 DEF NextPacket
  <2>2. chanl_cnt' < m_num_freq_chans /\ chanl_cnt' # 0
    BY <1>1, <1>6, <2>1
  <2>3. Caught(Len(due) + 1)'
    <3>1. ASSUME NEW k \in 1 .. Len(due), k + (chanl_cnt + 1) <= Len(due) + 1
          PROVE  due[k] <= now
      <4>1. k + chanl_cnt <= Len(due)
        BY <1>1, <3>1
      <4> QED
        BY <1>2, <4>1 DEF Pacing, Caught
    <3> QED
      BY <1>2, <2>1, <3>1 DEF Caught
  <2> QED
    BY <1>2, <1>4, <1>5, <2>1, <2>2, <2>3 DEF Pacing, Us
<1>7. CASE chanl_cnt + 1 >= m_num_freq_chans
  <2>1. chanl_cnt' = 0
    BY <1>7 DEF NextPacket
  <2>2. CASE Later(send_time', Timeval(now))
    <3>1. pc' = "select" /\ waitTime' = WaitTime(send_time', Timeval(now))
      BY <1>7, <2>2 DEF NextPacket
    <3>2. Us(waitTime') + now = Us(send_time')
      BY <1>1, <1>3, <3>1, WaitTimeIsDifference
    <3>3. Us(send_time') <= Us(waitTime') + now
      BY <1>3, <3>2
    <3> QED
      BY <1>2, <1>4, <1>5, <2>1, <3>1, <3>3 DEF Pacing, Us
  <2>3. CASE ~ Later(send_time', Timeval(now))
    <3>1. pc' = "send"
      BY <1>7, <2>3 DEF NextPacket
    <3>2. Us(send_time') <= now
      BY <1>1, <1>3, <2>3, NotLater
    <3>3. \A k \in 1 .. Len(due) : due[k] <= now
      BY <1>1, <1>3, <1>4, <3>2
    <3>4. Caught(Len(due) + 1)'
      BY <1>2, <3>3 DEF Caught
    <3> QED
      BY <1>2, <1>4, <1>5, <2>1, <3>1, <3>2, <3>4 DEF Pacing, Us
  <2> QED
    BY <2>2, <2>3
<1> QED
  BY <1>6, <1>7

LEMMA SelectPacing ==
    ASSUME TInv, Pacing, Select \/ SelectReturns
    PROVE  Pacing'
<1>1. /\ now \in Nat /\ Len(due) \in Nat /\ Us(send_time) \in Nat /\ deadline \in Nat
      /\ \A k \in 1 .. Len(due) : due[k] \in Nat
  BY PacingTypes
<1>2. UNCHANGED <<due, now, chanl_cnt, send_time, m_num_freq_chans>> /\ chanl_cnt = 0
  BY DEF Select, SelectReturns, txVars, Pacing
<1>3. LessThanARoundEarly'
  BY <1>2 DEF Pacing, LessThanARoundEarly
<1>4. CASE Select
  <2>1. pc = "select" /\ pc' \in {"waiting", "aborted"}
        /\ (pc' = "waiting" => deadline' = now + Us(waitTime))
    BY <1>4 DEF Select
  <2>2. Us(waitTime) \in Int
    BY TimeAssumption DEF TInv, TypeOK, Us
  <2>3. pc' = "waiting" => Us(send_time) <= deadline'
    BY <1>1, <2>1, <2>2 DEF Pacing
  <2> QED
    BY <1>2, <1>3, <2>1, <2>3 DEF Pacing, Us
<1>5. CASE SelectReturns
  <2>1. pc = "waiting" /\ pc' = "send" /\ now >= deadline
    BY <1>5 DEF SelectReturns
  <2>2. Us(send_time) <= now
    BY <1>1, <2>1 DEF Pacing
  <2>3. \A k \in 1 .. Len(due) : due[k] <= now
    BY <1>1, <2>2 DEF Pacing
  <2>4. Caught(Len(due) + 1)'
    BY <1>2, <2>3 DEF Caught
  <2> QED
    BY <1>2, <1>3, <2>1, <2>2, <2>4 DEF Pacing, Us
<1> QED
  BY <1>4, <1>5

LEMMA SendMsgPacing ==
    ASSUME TInv, Pacing, SendMsg
    PROVE  Pacing'
<1>1. /\ now \in Nat /\ chanl_cnt \in Nat /\ m_num_freq_chans \in Nat /\ due \in Seq(Nat)
      /\ Len(due) \in Nat /\ Us(send_time) \in Nat
      /\ \A k \in 1 .. Len(due) : due[k] \in Nat
  BY PacingTypes
<1>2. /\ pc = "send" /\ pc' \in {"next", "done"} /\ due' = Append(due, Us(send_time))
      /\ UNCHANGED <<now, chanl_cnt, send_time, m_num_freq_chans>>
  BY DEF SendMsg, txVars
<1>3. /\ Len(due') = Len(due) + 1 /\ due'[Len(due) + 1] = Us(send_time)
      /\ \A k \in 1 .. Len(due) : due'[k] = due[k]
  BY <1>1, <1>2
<1>4. \A k \in 1 .. Len(due') : k \in 1 .. Len(due) \/ k = Len(due) + 1
  BY <1>1, <1>3
<1>5. \A k \in 1 .. Len(due') : due'[k] <= Us(send_time)
  <2>1. Us(send_time) <= Us(send_time)
    BY <1>1
  <2> QED
    BY <1>3, <1>4, <2>1 DEF Pacing
<1>6. ASSUME NEW k \in 1 .. Len(due'), k + chanl_cnt <= Len(due')
      PROVE  due'[k] <= now
  <2>1. CASE k \in 1 .. Len(due)
    <3>1. k + chanl_cnt <= Len(due) + 1
      BY <1>3, <1>6
    <3> QED
      BY <1>2, <1>3, <2>1, <3>1 DEF Pacing, Caught
  <2>2. CASE k = Len(due) + 1
    <3>1. chanl_cnt = 0
      BY <1>1, <1>3, <1>6, <2>2
    <3> QED
      BY <1>2, <1>3, <2>2, <3>1 DEF Pacing
  <2> QED
    BY <1>4, <2>1, <2>2
<1>7. ASSUME NEW k \in 1 .. Len(due'), k + m_num_freq_chans <= Len(due') + 1
      PROVE  due'[k] <= now
  <2>1. chanl_cnt = 0 \/ chanl_cnt < m_num_freq_chans
    BY DEF Pacing
  <2>2. Len(due') \in Nat
    BY <1>1, <1>3
  <2>3. k + chanl_cnt <= Len(due')
    BY <1>1, <1>7, <2>1, <2>2
  <2> QED
    BY <1>6, <2>3
<1>8. Caught(Len(due))' /\ LessThanARoundEarly'
  BY <1>2, <1>6, <1>7 DEF Caught, LessThanARoundEarly
<1> QED
  BY <1>2, <1>5, <1>8 DEF Pacing, Us

\* Time only helps.
LEMMA TickPacing ==
    ASSUME TInv, Pacing, Tick
    PROVE  Pacing'
<1>1. /\ now \in Nat /\ Len(due) \in Nat /\ Us(send_time) \in Nat /\ deadline \in Nat
      /\ \A k \in 1 .. Len(due) : due[k] \in Nat
  BY PacingTypes
<1>2. now' \in Nat /\ now <= now'
  BY <1>1, TimeAssumption DEF Tick
<1>3. UNCHANGED <<pc, due, chanl_cnt, send_time, waitTime, deadline, m_num_freq_chans>>
  BY DEF Tick, mainVars, txVars
<1>4. Us(waitTime) \in Int
  BY TimeAssumption DEF TInv, TypeOK, Us
<1>5. \A k \in 1 .. Len(due) : due[k] <= now => due[k] <= now'
  BY <1>1, <1>2
<1>6. LessThanARoundEarly' /\ \A n : Caught(n) => Caught(n)'
  BY <1>3, <1>5 DEF Pacing, LessThanARoundEarly, Caught
<1>7. /\ Us(send_time) <= now => Us(send_time) <= now'
      /\ Us(send_time) <= Us(waitTime) + now => Us(send_time) <= Us(waitTime) + now'
  BY <1>1, <1>2, <1>4
<1>8. /\ Caught(Len(due)) => Caught(Len(due))'
      /\ Caught(Len(due) + 1) => Caught(Len(due) + 1)'
  BY <1>3, <1>5 DEF Caught
<1> QED
  BY <1>3, <1>6, <1>7, <1>8 DEF Pacing, Us

\* Before the first packet there is nothing to be early.
LEMMA QuietPacing ==
    ASSUME due' = <<>>, chanl_cnt' = 0, pc' \in {"load", "next", "done", "aborted"}
    PROVE  Pacing'
  BY DEF Pacing, LessThanARoundEarly, Caught

LEMMA StepPacing ==
    ASSUME TInv, Pacing, [Next]_vars
    PROVE  Pacing'
<1>1. CASE NextPacket \/ Select \/ SelectReturns \/ SendMsg \/ Tick
  BY <1>1, NextPacketPacing, SelectPacing, SendMsgPacing, TickPacing
<1>2. CASE Load
  <2>1. pc = "load"
    BY <1>2 DEF Load, TxNext, HeaderFileFails, DataFileFails, LoadDone, LoadHeader, RefuseHeader,
                TInv, Control
  <2> QED
    BY <1>2, <2>1, QuietPacing DEF Load, mainVars, TInv, Control
<1>3. CASE SocketFails \/ StartSending
  <2>1. pc' \in {"next", "done", "aborted"} /\ due' = <<>> /\ chanl_cnt' = 0
    BY <1>3 DEF SocketFails, StartSending, TInv, Control
  <2> QED
    BY <2>1, QuietPacing
<1>4. CASE UNCHANGED vars
  BY <1>4 DEF vars, Pacing, LessThanARoundEarly, Caught, Us
<1> QED
  BY <1>1, <1>2, <1>3, <1>4 DEF Next, Program

\* Of the packets whose time has not come, fewer than a round have been sent, however
\* long the program or the network is held up.
THEOREM PacingCorrect == Spec => []LessThanARoundEarly
<1>1. Init => TInv /\ Pacing
  BY InitTypes DEF Init, Pacing, LessThanARoundEarly, Caught
<1>2. TInv /\ Pacing /\ [Next]_vars => (TInv /\ Pacing)'
  BY StepTypes, StepPacing
<1>3. Pacing => LessThanARoundEarly
  BY DEF Pacing
<1> QED
  BY <1>1, <1>2, <1>3, PTL DEF Spec

================================================================================
