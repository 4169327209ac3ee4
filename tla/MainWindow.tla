------------------------------- MODULE MainWindow -------------------------------
(***************************************************************************)
(* MainWindow with the list of announced FPGAs (EventModel) and the        *)
(* windows it opens, from the request to open one to their deletion.  Each *)
(* window connects (GeminiCnx), stays hidden meanwhile, and is shown when  *)
(* that succeeds; FpgaWindow says what it does then.                       *)
(*                                                                         *)
(* Dialogs and message boxes run an event loop inside the slot that opens  *)
(* them.  They are modal: the user can reach the topmost only.  Timers and *)
(* packets are served in every loop, so that boxes pile up: loops is the   *)
(* stack of slots that wait for one.                                       *)
(***************************************************************************)
EXTENDS GeminiCnx, EventModel

CONSTANTS
    Fpgas,          \* addresses and ports of register servers
    Masks           \* event masks they publish

ASSUME MasksAssumption == Masks \subseteq SUBSET Events

Windows == Connections      \* one Gemini_comms each

VARIABLES
    m_fpga_windows, \* sequence of windows
    fpga,           \* m_addr and m_port of each window
    state,          \* "none", "hidden", "shown", "closed" or "deleted"
    level,          \* depth of the loop in which deleteLater was called
    loops,          \* the nested loops: [kind, win]
    running         \* the application's loop runs

guiVars == <<m_fpga_windows, fpga, state, level, loops, running>>
vars == <<cnxVars, eventVars, guiVars>>

NoFpga == "no FPGA"
NoWindow == 0
InList == Range(m_fpga_windows)

Loop(kind, w) == [kind |-> kind, win |-> w]
Top == Last(loops)
Above(kind) == loops # <<>> /\ Top.kind = kind

Init ==
    /\ CnxInit /\ EventInit
    /\ m_fpga_windows = <<>>
    /\ fpga = [w \in Windows |-> NoFpga]
    /\ state = [w \in Windows |-> "none"]
    /\ level = [w \in Windows |-> 0]
    /\ loops = <<>> /\ running = TRUE

--------------------------------------------------------------------------------
(* Opening a window.                                                         *)

\* The user asks for a window, from the menu or by a click on a row of the list:
\* openFPGA starts and shows its dialog.
OpenDialog ==
    /\ Input
    /\ loops' = Append(loops, Loop("open", NoWindow))
    /\ UNCHANGED <<cnxVars, m_pub_info, items, editable, typed, heard, seen, m_fpga_windows, fpga,
                   state, level, running>>

AtMenu == running /\ loops = <<>>

OnOpenFPGA_fromMenu == AtMenu /\ OpenDialog

\* A click in the list clears something, or opens the FPGA of the row; in column 4 and
\* beyond it does nothing.
OnOpenFPGA_fromModel(row, col) ==
    /\ AtMenu
    /\ \/ Reset(row, col) /\ UNCHANGED <<cnxVars, guiVars>>
       \/ col < 2 /\ OpenDialog

\* The user types into a cell of the list.
TypeOverCell(row, col) == AtMenu /\ TypeOver(row, col) /\ UNCHANGED <<cnxVars, guiVars>>

\* The loop on top ends and its slot goes on.
Return == loops' = Front(loops)

\* The dialog is cancelled, or what is in it is not valid.
DialogRefused ==
    /\ running /\ Above("open")
    /\ Return
    /\ UNCHANGED <<cnxVars, eventVars, m_fpga_windows, fpga, state, level, running>>

\* The file cannot be read, or it cannot be parsed: a message box follows.
FileRefused ==
    /\ running /\ Above("open")
    /\ loops' = Append(Front(loops), Loop("message", NoWindow))
    /\ UNCHANGED <<cnxVars, eventVars, m_fpga_windows, fpga, state, level, running>>

\* Mutant of HasWindow: windows that are not shown yet are passed over.
HasShownWindow(f) == \E w \in InList : fpga[w] = f /\ state[w] = "shown"

\* isSameFPGA for any window of the list.  Such a window is raised, which shows
\* nothing while it is hidden.
HasWindow(f) == \E w \in InList : fpga[w] = f

RaiseWindow(f) ==
    /\ running /\ Above("open")
    /\ HasWindow(f)
    /\ Return
    /\ UNCHANGED <<cnxVars, eventVars, m_fpga_windows, fpga, state, level, running>>

\* A new window, whose constructor calls udpConnect.
NewWindow(f, w) ==
    /\ running /\ Above("open")
    /\ ~ HasWindow(f)
    /\ state[w] = "none" /\ \A v \in Windows : v < w => state[v] # "none"
    /\ Return
    /\ state' = [state EXCEPT ![w] = "hidden"]
    /\ fpga' = [fpga EXCEPT ![w] = f]
    /\ m_fpga_windows' = Append(m_fpga_windows, w)
    /\ UdpConnect(w)
    /\ UNCHANGED <<eventVars, level, running>>

--------------------------------------------------------------------------------
(* The windows' connections.                                                 *)

\* onConnectResult: the window is shown, or a box with the reason is.
OnConnectResult(w, isOk) ==
    /\ IF isOk
       THEN state' = [state EXCEPT ![w] = "shown"] /\ UNCHANGED loops
       ELSE loops' = Append(loops, Loop("failure", w)) /\ UNCHANGED state
    /\ UNCHANGED <<m_fpga_windows, fpga, level, running>>

\* A slot of the connection runs: what it reports is handled before it returns.
Reported(w) == Len(cnx_result[w]) < Len(cnx_result'[w])
Handled(w) ==
    /\ IF Reported(w) THEN OnConnectResult(w, Last(cnx_result'[w]) = "OK")
                      ELSE UNCHANGED guiVars
    /\ UNCHANGED eventVars

OnCnxTimeout(w) == running /\ (CnxRetry(w) \/ CnxGiveUp(w)) /\ Handled(w)
OnCnxPacket(w, pkt) == running /\ OnCnxRxReady(w, pkt) /\ Handled(w)

\* The connection fails later on (GeminiComms).  A closed window may hear of it
\* as long as it is not deleted.
OnCnxFailed(w) ==
    /\ running
    /\ m_isConnected[w] /\ state[w] \in {"shown", "closed"}
    /\ m_isConnected' = [m_isConnected EXCEPT ![w] = FALSE]
    /\ loops' = Append(loops, Loop("failure", w))
    /\ UNCHANGED <<m_cnxRetryCount, timer, slots, cnx_result, eventVars, m_fpga_windows, fpga,
                   state, level, running>>

--------------------------------------------------------------------------------
(* Closing and deleting.                                                     *)

\* closeEvent of the window and onFpgaWinClose, in a loop of the given depth.  A window
\* closed before is neither in the list nor connected to the slot any more.
CloseWindow(w, depth) ==
    /\ m_fpga_windows' = RemoveFirst(m_fpga_windows, w)
    /\ state' = [state EXCEPT ![w] = "closed"]
    /\ level' = IF state[w] = "closed" THEN level ELSE [level EXCEPT ![w] = depth]
    /\ UNCHANGED <<cnxVars, eventVars, fpga, running>>

\* The user closes a window.
CloseEvent(w) ==
    /\ AtMenu
    /\ state[w] = "shown"
    /\ CloseWindow(w, 0)
    /\ UNCHANGED loops

\* The user closes a box; after a failure the slot closes its window.
DismissMessage ==
    /\ running /\ Above("message")
    /\ Return
    /\ UNCHANGED <<cnxVars, eventVars, m_fpga_windows, fpga, state, level, running>>

\* Mutant of DismissFailure: the window is not closed.
DismissFailureOnly ==
    /\ running /\ Above("failure")
    /\ Return
    /\ UNCHANGED <<cnxVars, eventVars, m_fpga_windows, fpga, state, level, running>>

DismissFailure ==
    /\ running /\ Above("failure")
    /\ Return
    /\ CloseWindow(Top.win, Len(loops) - 1)

\* Qt deletes the window when control is back in the loop deleteLater was called in,
\* never in a loop nested in it.  The window calls deleteLater of its connection, which
\* has nobody to report to from then on.
DeleteWindow(w) ==
    /\ running
    /\ state[w] = "closed" /\ Len(loops) <= level[w]
    /\ state' = [state EXCEPT ![w] = "deleted"]
    /\ level' = [level EXCEPT ![w] = 0]
    /\ Destroy({w})
    /\ UNCHANGED <<eventVars, m_fpga_windows, fpga, loops, running>>

\* The main window is closed: the application's loop ends, and the destructor deletes
\* the windows in the list.  No timer or packet is served any more.
Quit ==
    /\ AtMenu
    /\ running' = FALSE
    /\ state' = [w \in Windows |-> IF w \in InList THEN "deleted" ELSE state[w]]
    /\ Destroy(Windows)
    /\ UNCHANGED <<eventVars, m_fpga_windows, fpga, level, loops>>

--------------------------------------------------------------------------------

\* A packet for the list arrives, whichever loop is running.
RecvData(s, mask) == running /\ Announce(s, mask) /\ UNCHANGED <<cnxVars, guiVars>>

User ==
    \/ OnOpenFPGA_fromMenu
    \/ \E row \in DOMAIN items, col \in 0 .. 3 :
        OnOpenFPGA_fromModel(row, col) \/ TypeOverCell(row, col)
    \/ DialogRefused \/ FileRefused
    \/ \E f \in Fpgas : RaiseWindow(f) \/ \E w \in Windows : NewWindow(f, w)
    \/ \E w \in Windows : CloseEvent(w)
    \/ DismissMessage \/ DismissFailure
    \/ Quit

Next ==
    \/ User
    \/ \E w \in Windows :
        \/ OnCnxTimeout(w) \/ OnCnxFailed(w) \/ DeleteWindow(w)
        \/ \E pkt \in Packets : OnCnxPacket(w, pkt)
    \/ \E s \in Sources, mask \in Masks : RecvData(s, mask)

Spec == Init /\ [][Next]_vars

\* A QTimer that runs fires; the user closes message boxes.
FairSpec ==
    /\ Spec
    /\ \A w \in Windows : WF_vars(OnCnxTimeout(w))
    /\ WF_vars(DismissMessage \/ DismissFailure)

--------------------------------------------------------------------------------
(* Properties.                                                               *)

TypeOK ==
    /\ m_isConnected \in [Connections -> BOOLEAN]
    /\ m_cnxRetryCount \in [Connections -> 0 .. MaxRetries]
    /\ timer \in [Connections -> BOOLEAN]
    /\ slots \in [Connections -> {"none", "cnx", "pkt"}]
    /\ cnx_result \in [Connections -> Seq(Results)]
    /\ m_fpga_windows \in Seq(Windows)
    /\ fpga \in [Windows -> Fpgas \union {NoFpga}]
    /\ state \in [Windows -> {"none", "hidden", "shown", "closed", "deleted"}]
    /\ level \in [Windows -> Nat]
    /\ loops \in Seq([kind : {"open", "message", "failure"}, win : Windows \union {NoWindow}])
    /\ running \in BOOLEAN

\* An FPGA never has two windows, although the list changes while the dialog of
\* openFPGA is up, and a window is in the list before anything can be seen of it.
OneWindowPerFpga ==
    \A j, k \in DOMAIN m_fpga_windows :
        fpga[m_fpga_windows[j]] = fpga[m_fpga_windows[k]] => j = k

\* Each connection reports exactly one result, in bounded time.
Cnx == INSTANCE Connector WITH outcome <- [c \in Connections |-> Outcome(c)],
                               attempts <- m_cnxRetryCount
ImplementsConnector == Cnx!Spec

\* A window that nobody can see does not stay in the list, where it would keep its
\* FPGA from being opened ever after: it is shown, or leaves the list.
Ghost(w) == running /\ w \in InList /\ state[w] # "shown"
NoGhostWindow == \A w \in Windows : Ghost(w) ~> ~ Ghost(w)

================================================================================
