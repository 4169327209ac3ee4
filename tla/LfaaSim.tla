-------------------------------- MODULE LfaaSim --------------------------------
(***************************************************************************)
(* main of lfaa-sim: sends the packets of Lfaa_tx_data at the times their  *)
(* headers ask for.  The time each packet is due is kept in send_time, in  *)
(* seconds and microseconds; the clock is only looked at, and waited for   *)
(* with select, once for every m_num_freq_chans packets.                   *)
(*                                                                         *)
(* The clock is in microseconds and goes on between any two steps; finer   *)
(* time is rounded down by the program, which makes waits longer only.     *)
(* select that is interrupted leaves the time that remains in waitTime     *)
(* (Linux), and the loop around it waits for that: the deadline stays.     *)
(***************************************************************************)
EXTENDS LfaaTxData

CONSTANTS
    UsPerSec,       \* microseconds in a second (1000000)
    Repeats,        \* values of the option -r
    FixedPkts,      \* values of the option -z (0: send all packets)
    Starts,         \* times at which the program may start
    Ticks,          \* by how much the clock may advance at once
    MaxNow          \* bound on the clock, unless somebody waits for it

ASSUME TimeAssumption ==
    /\ UsPerSec \in Nat \ {0}
    /\ {Repeats, FixedPkts, Starts} \subseteq SUBSET Nat
    /\ Ticks \subseteq Nat \ {0}
    /\ MaxNow \in Nat

VARIABLES
    pc,             \* "load", "next", "select", "waiting", "send", "done" or "aborted"
    now,            \* the monotonic clock
    n_pkts, repeats,
    rpt, i,         \* repetitions finished, packets of this one taken up
    chanl_cnt,
    send_time,      \* [sec, usec]
    waitTime,       \* [sec, usec]
    deadline,       \* when select returns
    start,          \* history: the time sending began
    due             \* history: the times at which the packets sent were due

mainVars == <<pc, n_pkts, repeats, rpt, i, chanl_cnt, send_time, waitTime, deadline, start, due>>
vars == <<stage, m_num_pkts, hdr, m_iovec, m_send_dly_us, last_send_ns, in_use,
          m_num_freq_chans, m_is_data_ok, pc, now, n_pkts, repeats, rpt, i, chanl_cnt,
          send_time, waitTime, deadline, start, due>>

\* A struct timeval as a number of microseconds, and the other way round.
Us(t) == t.sec * UsPerSec + t.usec
Timeval(us) == [sec |-> us \div UsPerSec, usec |-> us % UsPerSec]

\* Mutant of Carry: no carry.
CarryNothing(t) == t

\* The loop that carries microseconds into seconds.  It stops at a full second:
\* usec ends up in 0 .. UsPerSec.
Carry(t) ==
    IF t.usec <= UsPerSec THEN t
    ELSE [sec |-> t.sec + (t.usec - 1) \div UsPerSec, usec |-> ((t.usec - 1) % UsPerSec) + 1]

\* Mutant of Later: microseconds are not looked at.
LaterSecond(t, ts) == t.sec > ts.sec

\* The test for send_time being later than the clock, ts_now.
Later(t, ts) == t.sec > ts.sec \/ (t.sec = ts.sec /\ t.usec > ts.usec)

\* Mutant of WaitTime: no borrow.
WaitTimeNoBorrow(t, ts) == [sec |-> t.sec - ts.sec, usec |-> t.usec - ts.usec]

\* The difference of the two, with borrow.
WaitTime(t, ts) ==
    IF t.usec > ts.usec
    THEN [sec |-> t.sec - ts.sec, usec |-> t.usec - ts.usec]
    ELSE [sec |-> t.sec - ts.sec - 1, usec |-> (UsPerSec + t.usec) - ts.usec]

--------------------------------------------------------------------------------

Init ==
    /\ TxInit
    /\ pc = "load" /\ now \in Starts
    /\ n_pkts = 0 /\ repeats = 0 /\ rpt = 0 /\ i = 0 /\ chanl_cnt = 0
    /\ send_time = Timeval(0) /\ waitTime = Timeval(0) /\ deadline = 0
    /\ start = 0 /\ due = <<>>

\* The calls of load_header_file and load_data_file.
Load == TxNext /\ UNCHANGED <<mainVars, now>>

\* No socket: main ends before it looks at the clock.
SocketFails ==
    /\ pc = "load" /\ stage = "ready"
    /\ pc' = "aborted"
    /\ UNCHANGED <<txVars, now, n_pkts, repeats, rpt, i, chanl_cnt, send_time, waitTime,
                   deadline, start, due>>

\* main, from the files to the loop over the packets.
StartSending ==
    /\ pc = "load" /\ stage = "ready"
    /\ \E z \in FixedPkts : n_pkts' = IF z > 0 /\ z < m_num_pkts THEN z ELSE m_num_pkts
    /\ repeats' \in Repeats
    /\ pc' = IF n_pkts' = 0 THEN "done" ELSE "next"
    /\ start' = now /\ send_time' = Timeval(now)
    /\ UNCHANGED <<txVars, now, rpt, i, chanl_cnt, waitTime, deadline, due>>

\* The loop takes up the next packet: when it is due, and whether to wait for that.
NextPacket ==
    /\ pc = "next"
    /\ i' = i + 1
    /\ send_time' = Carry([send_time EXCEPT !.usec = @ + m_send_dly_us[i + 1]])
    /\ IF chanl_cnt + 1 >= m_num_freq_chans
       THEN /\ chanl_cnt' = 0
            /\ IF Later(send_time', Timeval(now))
               THEN pc' = "select" /\ waitTime' = WaitTime(send_time', Timeval(now))
               ELSE pc' = "send" /\ UNCHANGED waitTime
       ELSE chanl_cnt' = chanl_cnt + 1 /\ pc' = "send" /\ UNCHANGED waitTime
    /\ UNCHANGED <<txVars, now, n_pkts, repeats, rpt, deadline, start, due>>

\* select refuses a negative time, which ends the program; else it starts to wait.
Select ==
    /\ pc = "select"
    /\ IF waitTime.sec < 0 \/ waitTime.usec < 0
       THEN pc' = "aborted" /\ UNCHANGED deadline
       ELSE pc' = "waiting" /\ deadline' = now + Us(waitTime)
    /\ UNCHANGED <<txVars, now, n_pkts, repeats, rpt, i, chanl_cnt, send_time, waitTime,
                   start, due>>

\* select leaves no time in waitTime.
SelectReturns ==
    /\ pc = "waiting" /\ now >= deadline
    /\ pc' = "send"
    /\ waitTime' = Timeval(0) /\ deadline' = 0
    /\ UNCHANGED <<txVars, now, n_pkts, repeats, rpt, i, chanl_cnt, send_time, start, due>>

\* sendmsg, whose result nobody looks at, and the ends of both loops.
SendMsg ==
    /\ pc = "send"
    /\ due' = Append(due, Us(send_time))
    /\ IF i < n_pkts
       THEN pc' = "next" /\ UNCHANGED <<rpt, i>>
       ELSE /\ i' = 0 /\ rpt' = rpt + 1
            /\ pc' = IF rpt < repeats THEN "next" ELSE "done"
    /\ UNCHANGED <<txVars, now, n_pkts, repeats, chanl_cnt, send_time, waitTime, deadline,
                   start>>

\* Time passes.  Before sending starts only its phase in a second matters: see Starts.
Tick ==
    /\ pc # "load"
    /\ \E d \in Ticks :
        /\ now + d <= MaxNow \/ (pc = "waiting" /\ now < deadline)
        /\ now' = now + d
    /\ UNCHANGED <<txVars, mainVars>>

Program == Load \/ SocketFails \/ StartSending \/ NextPacket \/ Select \/ SelectReturns \/ SendMsg

Next == Program \/ Tick

Spec == Init /\ [][Next]_vars

\* The program is not suspended for ever, and neither is the clock.
FairSpec == Spec /\ WF_vars(Program) /\ WF_vars(Tick)

--------------------------------------------------------------------------------

TypeOK ==
    /\ stage \in {"load", "ready", "undefined"}
    /\ m_num_pkts \in 0 .. MaxPkts
    /\ hdr \in Seq(Headers) /\ Len(hdr) <= m_num_pkts
    /\ m_iovec \in [1 .. m_num_pkts -> [buf : {"none", "zero", "payload"}, at : Nat, len : Nat]]
    /\ m_send_dly_us \in [1 .. m_num_pkts -> Nat]
    /\ last_send_ns \in 0 .. (Width - 1)
    /\ m_num_freq_chans \in Nat
    /\ m_is_data_ok \in BOOLEAN
    /\ pc \in {"load", "next", "select", "waiting", "send", "done", "aborted"}
    /\ now \in Nat /\ start \in Nat /\ deadline \in Nat
    /\ n_pkts \in 0 .. m_num_pkts /\ repeats \in Nat
    /\ rpt \in 0 .. (repeats + 1) /\ i \in 0 .. n_pkts
    /\ chanl_cnt \in Nat
    /\ send_time \in [sec : Nat, usec : 0 .. UsPerSec]
    /\ waitTime \in [sec : Int, usec : Int]
    /\ due \in Seq(Nat)

\* When the headers could be loaded and are in order of time, each packet is due
\* exactly as long after the start as its header says, to the microsecond, and every
\* repetition begins where the one before ended: no remainder of a delay is lost or
\* counted twice, however many packets and repetitions there are.
ScheduleExact ==
    pc \in {"next", "select", "waiting", "send"} /\ m_is_data_ok /\ Sorted =>
        Us(send_time) = start + rpt * RelativeUs(n_pkts) + (IF i = 0 THEN 0 ELSE RelativeUs(i))

\* The sender is never a round of packets ahead of the clock: of the packets whose
\* time has not come, fewer than m_num_freq_chans have been sent.  The clock is only
\* looked at once a round, with a comparison and a subtraction done by hand.
LessThanARoundEarly ==
    \A k \in 1 .. Len(due) : k + m_num_freq_chans <= Len(due) + 1 => due[k] <= now

\* With send times in order, all packets are sent: no wait is refused by select or
\* has no end, whatever failed before.
AllSent ==
    (pc = "next" /\ (m_is_data_ok => Sorted)) ~>
        (pc = "done" /\ Len(due) = n_pkts * (repeats + 1))

================================================================================
