------------------------------ MODULE LfaaTxData ------------------------------
(***************************************************************************)
(* Lfaa_tx_data: the packets lfaa-sim is to send.  load_header_file makes  *)
(* room for one message per header; load_data_file walks the headers,      *)
(* points each message at its payload and turns absolute send times in     *)
(* nanoseconds into delays in whole microseconds, carrying the remainder.  *)
(* Its caller ignores whether either of them failed.                       *)
(*                                                                         *)
(* A header is chosen when it is read: those after a refused one are never *)
(* looked at.                                                              *)
(***************************************************************************)
EXTENDS Integers, Sequences, FiniteSets

CONSTANTS
    NsPerUs,        \* nanoseconds in a microsecond (1000)
    Width,          \* 2^64, the range of the code's unsigned arithmetic
    PayloadLen,     \* size of the data file in bytes
    ZeroLen,        \* size of m_zero (8192)
    DefaultChans,   \* initial m_num_freq_chans (16)
    Headers,        \* the headers a file may hold
    MaxPkts         \* bound on the number of headers

\* The offset that stands for "no data in the file" (0xffffffffffffffff).
NullOffset == Width - 1

ASSUME SizesAssumption ==
    /\ NsPerUs \in Nat \ {0}
    /\ Width \in Nat \ {0}
    /\ {PayloadLen, ZeroLen, DefaultChans, MaxPkts} \subseteq Nat
    /\ PayloadLen < Width

\* A header holds any numbers that fit its fields.
ASSUME HeadersAssumption ==
    \A h \in Headers :
        /\ h.offset \in 0 .. NullOffset /\ h.time \in 0 .. (Width - 1)
        /\ h.len \in 0 .. (Width - 1)

VARIABLES
    stage,              \* "load", "ready" (main may start) or "undefined"
    m_num_pkts,
    hdr,                \* headers read so far
    m_iovec,            \* second iovec entry of each message
    m_send_dly_us,
    last_send_ns,
    in_use,             \* channels of the stations seen so far
    m_num_freq_chans,
    m_is_data_ok

txVars == <<stage, m_num_pkts, hdr, m_iovec, m_send_dly_us, last_send_ns, in_use,
            m_num_freq_chans, m_is_data_ok>>

NoPayload == [buf |-> "none", at |-> 0, len |-> 0]

--------------------------------------------------------------------------------

\* load_header_file succeeded; make_unique clears what it allocates.
TxInit ==
    /\ stage = "load"
    /\ m_num_pkts \in 0 .. MaxPkts
    /\ hdr = <<>>
    /\ m_iovec = [k \in 1 .. m_num_pkts |-> NoPayload]
    /\ m_send_dly_us = [k \in 1 .. m_num_pkts |-> 0]
    /\ last_send_ns = 0
    /\ in_use = {}
    /\ m_num_freq_chans = DefaultChans
    /\ m_is_data_ok = FALSE

\* load_header_file failed: m_num_pkts has no value, and there are no messages.
HeaderFileFails ==
    /\ stage = "load" /\ hdr = <<>>
    /\ stage' = "undefined"
    /\ UNCHANGED <<m_num_pkts, hdr, m_iovec, m_send_dly_us, last_send_ns, in_use,
                   m_num_freq_chans, m_is_data_ok>>

\* The data file cannot be read: load_data_file returns before the first header.
DataFileFails ==
    /\ stage = "load" /\ hdr = <<>>
    /\ stage' = "ready"
    /\ UNCHANGED <<m_num_pkts, hdr, m_iovec, m_send_dly_us, last_send_ns, in_use,
                   m_num_freq_chans, m_is_data_ok>>

\* Mutant of Outside: only the first byte is looked at.
StartsOutside(h) == h.offset # NullOffset /\ h.offset % Width > PayloadLen

\* The end of the payload lies beyond the end of the data file.
Outside(h) == h.offset # NullOffset /\ (h.offset + h.len) % Width > PayloadLen

Payload(h) ==
    [buf |-> IF h.offset = NullOffset THEN "zero" ELSE "payload",
     at  |-> IF h.offset = NullOffset THEN 0 ELSE h.offset,
     len |-> h.len]

\* Microseconds from the last send time to that of h, in unsigned arithmetic.
DelayUs(h) == IF hdr = <<>> THEN 0 ELSE ((h.time - last_send_ns) % Width) \div NsPerUs

\* Mutant of LastSendNs: the remainder is dropped.
HeaderTime(h) == h.time

\* The send time the next delay is measured from: it moves on by the delay, not to
\* the time of h, so that what the division drops is counted next time.
LastSendNs(h) ==
    IF hdr = <<>> THEN h.time ELSE (last_send_ns + DelayUs(h) * NsPerUs) % Width

\* One turn of the loop of load_data_file that accepts its header.
LoadHeader(h) ==
    /\ stage = "load" /\ Len(hdr) < m_num_pkts
    /\ ~ Outside(h)
    /\ hdr' = Append(hdr, h)
    /\ in_use' = in_use \union {h.chan}
    /\ m_iovec' = [m_iovec EXCEPT ![Len(hdr) + 1] = Payload(h)]
    /\ m_send_dly_us' = [m_send_dly_us EXCEPT ![Len(hdr) + 1] = DelayUs(h)]
    /\ last_send_ns' = LastSendNs(h)
    /\ UNCHANGED <<stage, m_num_pkts, m_num_freq_chans, m_is_data_ok>>

\* "Error in header info": the loop is left; the messages from here on keep an empty
\* payload and no delay, and the number of channels its default.
RefuseHeader(h) ==
    /\ stage = "load" /\ Len(hdr) < m_num_pkts
    /\ Outside(h)
    /\ stage' = "ready"
    /\ UNCHANGED <<m_num_pkts, hdr, m_iovec, m_send_dly_us, last_send_ns, in_use,
                   m_num_freq_chans, m_is_data_ok>>

\* All headers are read.
LoadDone ==
    /\ stage = "load" /\ Len(hdr) = m_num_pkts
    /\ stage' = "ready"
    /\ m_is_data_ok' = TRUE
    /\ m_num_freq_chans' = Cardinality(in_use)
    /\ UNCHANGED <<m_num_pkts, hdr, m_iovec, m_send_dly_us, last_send_ns, in_use>>

TxNext ==
    \/ HeaderFileFails \/ DataFileFails \/ LoadDone
    \/ \E h \in Headers : LoadHeader(h) \/ RefuseHeader(h)

--------------------------------------------------------------------------------

\* Send times in the order of the file.  Otherwise a delay is a difference taken
\* around 2^64: hundreds of thousands of years.
Sorted == \A j, k \in 1 .. Len(hdr) : j <= k => hdr[j].time <= hdr[k].time

\* Whole microseconds from the send time of the first packet to that of the k-th.
RelativeUs(k) == (hdr[k].time - hdr[1].time) \div NsPerUs

\* sendmsg reads message v from within the data file's buffer or m_zero.
Within(v) ==
    CASE v.buf = "payload" -> v.at + v.len <= PayloadLen
      [] v.buf = "zero"    -> v.len <= ZeroLen
      [] v.buf = "none"    -> v.len = 0

\* The headers whose payload load_data_file does not check: zeros are not compared
\* with m_zero, and a sum of offset and length that passes 2^64 starts over from 0.
Unchecked(h) ==
    \/ h.offset = NullOffset /\ h.len > ZeroLen
    \/ h.offset # NullOffset /\ h.offset + h.len >= Width

\* Whether the data was loaded, refused half way or not read at all, and whichever
\* headers came before: a message is read from outside its buffer when its header is of
\* one of the two kinds that are not checked and was accepted, and only then.
PayloadInside ==
    \A k \in 1 .. m_num_pkts :
        Within(m_iovec[k]) <=> ~(k \in 1 .. Len(hdr) /\ Unchecked(hdr[k]))

================================================================================
