------------------------------- MODULE GeminiCnx -------------------------------
(***************************************************************************)
(* Gemini_comms while it connects: udpConnect and the two slots it         *)
(* connects to the timer and the socket.  There is one Gemini_comms for    *)
(* each window, and so one for each member of Connections.                 *)
(*                                                                         *)
(* Nothing is assumed of the network or the FPGA: any packet may arrive    *)
(* while the slot for it is connected.  The result is reported by a signal *)
(* whose slots run before the one that emits it returns; it is always the  *)
(* last thing done, so a slot of this module is one action.                *)
(***************************************************************************)
EXTENDS Naturals, Sequences

CONSTANTS
    Connections,
    MaxRetries      \* m_maxRetries (GEM_RETRIES)

\* With no retries allowed, udpConnect would report TIMEOUT before it returns, that is
\* inside the constructor of Fpga_window, and nobody would hear the window close.
ASSUME RetriesAssumption == MaxRetries \in Nat \ {0}

VARIABLES
    m_isConnected,
    m_cnxRetryCount,
    timer,          \* m_timer is running
    slots,          \* what socket and timer are connected to: "none", "cnx" or "pkt"
    cnx_result      \* history: the results reported, in order

cnxVars == <<m_isConnected, m_cnxRetryCount, timer, slots, cnx_result>>

Results == {"OK", "FAIL_TEMP", "FAIL_PERM", "TIMEOUT"}

\* What a packet is taken for.  "ignored" is another version, an ACK with a server
\* number other than 1, or another operation; a packet too short for its payload is
\* only warned about.
Packets == {"ACK", "NACKT", "NACKP", "ignored"}

CnxInit ==
    /\ m_isConnected = [c \in Connections |-> FALSE]
    /\ m_cnxRetryCount = [c \in Connections |-> 0]
    /\ timer = [c \in Connections |-> FALSE]
    /\ slots = [c \in Connections |-> "none"]
    /\ cnx_result = [c \in Connections |-> <<>>]

Emit(c, result) == cnx_result' = [cnx_result EXCEPT ![c] = Append(@, result)]

\* udpConnect, with the call of onCnxTimeout that sends the first request.
UdpConnect(c) ==
    \/ /\ m_isConnected[c]
       /\ Emit(c, "OK")
       /\ UNCHANGED <<m_isConnected, m_cnxRetryCount, timer, slots>>
    \/ /\ ~ m_isConnected[c]
       /\ slots' = [slots EXCEPT ![c] = "cnx"]
       /\ timer' = [timer EXCEPT ![c] = TRUE]
       /\ m_cnxRetryCount' = [m_cnxRetryCount EXCEPT ![c] = 1]
       /\ UNCHANGED <<m_isConnected, cnx_result>>

\* Mutant of CnxRetry: one request more than allowed.
CnxRetryOneTooMany(c) ==
    /\ timer[c] /\ slots[c] = "cnx"
    /\ m_cnxRetryCount[c] <= MaxRetries
    /\ m_cnxRetryCount' = [m_cnxRetryCount EXCEPT ![c] = @ + 1]
    /\ UNCHANGED <<m_isConnected, timer, slots, cnx_result>>

\* The timer is single-shot; onCnxTimeout starts it again with the next request.
CnxRetry(c) ==
    /\ timer[c] /\ slots[c] = "cnx"
    /\ m_cnxRetryCount[c] < MaxRetries
    /\ m_cnxRetryCount' = [m_cnxRetryCount EXCEPT ![c] = @ + 1]
    /\ UNCHANGED <<m_isConnected, timer, slots, cnx_result>>

CnxGiveUp(c) ==
    /\ timer[c] /\ slots[c] = "cnx"
    /\ m_cnxRetryCount[c] >= MaxRetries
    /\ timer' = [timer EXCEPT ![c] = FALSE]
    /\ slots' = [slots EXCEPT ![c] = "none"]
    /\ Emit(c, "TIMEOUT")
    /\ UNCHANGED <<m_isConnected, m_cnxRetryCount>>

\* Mutant of OnCnxAck: the slots are left connected and the timer running.
OnCnxAckKeepsSlots(c) ==
    /\ m_isConnected' = [m_isConnected EXCEPT ![c] = TRUE]
    /\ Emit(c, "OK")
    /\ UNCHANGED <<m_cnxRetryCount, timer, slots>>

\* onCnxRxReady.  On an ACK the slots of the data phase take over; see
\* GeminiComms for those.
OnCnxAck(c) ==
    /\ timer' = [timer EXCEPT ![c] = FALSE]
    /\ slots' = [slots EXCEPT ![c] = "pkt"]
    /\ m_isConnected' = [m_isConnected EXCEPT ![c] = TRUE]
    /\ Emit(c, "OK")
    /\ UNCHANGED m_cnxRetryCount

OnCnxNack(c, result) ==
    /\ timer' = [timer EXCEPT ![c] = FALSE]
    /\ slots' = [slots EXCEPT ![c] = "none"]
    /\ Emit(c, result)
    /\ UNCHANGED <<m_isConnected, m_cnxRetryCount>>

OnCnxRxReady(c, pkt) ==
    /\ slots[c] = "cnx"
    /\ \/ pkt = "ACK" /\ OnCnxAck(c)
       \/ pkt = "NACKT" /\ OnCnxNack(c, "FAIL_TEMP")
       \/ pkt = "NACKP" /\ OnCnxNack(c, "FAIL_PERM")
       \/ pkt = "ignored" /\ UNCHANGED cnxVars

\* The destructor, for a set of connections.
Destroy(C) ==
    /\ timer' = [c \in Connections |-> timer[c] /\ c \notin C]
    /\ slots' = [c \in Connections |-> IF c \in C THEN "none" ELSE slots[c]]
    /\ UNCHANGED <<m_isConnected, m_cnxRetryCount, cnx_result>>

--------------------------------------------------------------------------------

\* A connection as its owner sees it.
Outcome(c) ==
    CASE Len(cnx_result[c]) > 1 -> "reported twice"
      [] Len(cnx_result[c]) = 1 -> cnx_result[c][1]
      [] cnx_result[c] = <<>> ->
            IF slots[c] = "cnx" THEN "trying"
            ELSE IF m_cnxRetryCount[c] = 0 THEN "idle" ELSE "abandoned"

================================================================================
