--------------------------- MODULE MainWindowProofs ----------------------------
(***************************************************************************)
(* Proofs about the main window and its connections, for any number of     *)
(* windows, FPGAs, event sources and retries: types, one window per FPGA,  *)
(* the list of events, and that each connection reports one result.        *)
(***************************************************************************)
EXTENDS MainWindow, SequenceTheorems, WellFoundedInduction, TLAPS

--------------------------------------------------------------------------------
(* Sequences.                                                                *)

\* A set of natural numbers that is not empty has a least element.
LEMMA LeastElement ==
    ASSUME NEW S \in SUBSET Nat, S # {}
    PROVE  \E x \in S : \A y \in S : x <= y
<1>1. \E x \in S : \A y \in S : ~ (<<y, x>> \in OpToRel(<, Nat))
  BY NatLessThanWellFounded, WFMin
<1>2. \A x, y \in Nat : x < y => <<x, y>> \in OpToRel(<, Nat)
  BY DEF OpToRel
<1>3. \E x \in S : \A y \in S : ~ (y < x)
  BY <1>1, <1>2, Zenon
<1> QED
  BY <1>3

LEMMA MinIsElement ==
    ASSUME NEW S \in SUBSET Nat, S # {}
    PROVE  Min(S) \in S
  BY LeastElement DEF Min

\* What is left when the k-th element is taken out.
LEMMA RemoveAtParts ==
    ASSUME NEW S, NEW s \in Seq(S), NEW k \in 1 .. Len(s)
    PROVE  /\ RemoveAt(s, k) \in Seq(S)
           /\ Len(RemoveAt(s, k)) = Len(s) - 1
           /\ \A j \in 1 .. (Len(s) - 1) :
                RemoveAt(s, k)[j] = IF j < k THEN s[j] ELSE s[j + 1]
<1> DEFINE a == SubSeq(s, 1, k - 1)
           b == SubSeq(s, k + 1, Len(s))
<1>1. Len(s) \in Nat
  BY LenProperties
<1>2. /\ a \in Seq(S) /\ Len(a) = k - 1
      /\ \A j \in 1 .. (k - 1) : a[j] = s[j]
  BY <1>1, SubSeqProperties
<1>3. /\ b \in Seq(S) /\ Len(b) = Len(s) - k
      /\ \A j \in 1 .. (Len(s) - k) : b[j] = s[k + j]
  BY <1>1, SubSeqProperties
<1> HIDE DEF a, b
<1>4. /\ a \o b \in Seq(S) /\ Len(a \o b) = Len(s) - 1
      /\ \A j \in 1 .. (Len(s) - 1) :
            (a \o b)[j] = IF j <= k - 1 THEN a[j] ELSE b[j - (k - 1)]
  <2>1. /\ a \o b \in Seq(S) /\ Len(a \o b) = Len(a) + Len(b)
        /\ \A j \in 1 .. (Len(a) + Len(b)) :
                (a \o b)[j] = IF j <= Len(a) THEN a[j] ELSE b[j - Len(a)]
    BY <1>2, <1>3, ConcatProperties
  <2>2. Len(a) + Len(b) = Len(s) - 1
    BY <1>1, <1>2, <1>3
  <2> QED
    BY <1>2, <2>1, <2>2
<1>5. ASSUME NEW j \in 1 .. (Len(s) - 1)
      PROVE  (a \o b)[j] = IF j < k THEN s[j] ELSE s[j + 1]
  <2>1. CASE j < k
    BY <1>1, <1>2, <1>4, <2>1
  <2>2. CASE ~ (j < k)
    <3>1. j - (k - 1) \in 1 .. (Len(s) - k) /\ k + (j - (k - 1)) = j + 1 /\ ~ (j <= k - 1)
      BY <1>1, <2>2
    <3> QED
      BY <1>3, <1>4, <2>2, <3>1
  <2> QED
    BY <2>1, <2>2
<1> QED
  BY <1>4, <1>5 DEF RemoveAt, a, b

\* Taking out the first occurrence of e leaves elements of s, in their order.
LEMMA RemoveFirstParts ==
    ASSUME NEW S, NEW s \in Seq(S), NEW e
    PROVE  \/ RemoveFirst(s, e) = s
           \/ \E k \in 1 .. Len(s) : s[k] = e /\ RemoveFirst(s, e) = RemoveAt(s, k)
<1>1. CASE \E j \in 1 .. Len(s) : s[j] = e
  <2> DEFINE I == {j \in 1 .. Len(s) : s[j] = e}
             k == SelectInSeq(s, LAMBDA v : v = e)
  <2>1. I # {} /\ I \in SUBSET Nat
    BY <1>1
  <2>2. k = Min(I)
    BY <2>1 DEF SelectInSeq
  <2>3. Min(I) \in I
    BY <2>1, MinIsElement
  <2>4. k \in 1 .. Len(s) /\ s[k] = e
    BY <2>2, <2>3
  <2>5. RemoveFirst(s, e) = RemoveAt(s, k)
    BY <1>1 DEF RemoveFirst
  <2> QED
    BY <2>4, <2>5
<1>2. CASE ~ \E j \in 1 .. Len(s) : s[j] = e
  BY <1>2 DEF RemoveFirst
<1> QED
  BY <1>1, <1>2

LEMMA RemoveFirstType ==
    ASSUME NEW S, NEW s \in Seq(S), NEW e
    PROVE  RemoveFirst(s, e) \in Seq(S)
  BY RemoveFirstParts, RemoveAtParts

\* The sequence without its last element.
LEMMA FrontType ==
    ASSUME NEW S, NEW s \in Seq(S), s # <<>>
    PROVE  /\ Front(s) \in Seq(S) /\ Len(Front(s)) = Len(s) - 1 /\ Last(s) \in S
           /\ Len(s) \in Nat \ {0}
<1>1. Len(s) \in Nat \ {0}
  BY EmptySeq, LenProperties
<1>2. Front(s) \in Seq(S) /\ Len(Front(s)) = Len(s) - 1
  <2>1. 1 \in 1 .. (Len(s) + 1) /\ Len(s) - 1 \in 0 .. Len(s)
    BY <1>1
  <2>2. /\ SubSeq(s, 1, Len(s) - 1) \in Seq(S)
        /\ Len(SubSeq(s, 1, Len(s) - 1)) = IF 1 <= Len(s) - 1 THEN (Len(s) - 1) - 1 + 1 ELSE 0
    BY <2>1, SubSeqProperties
  <2>3. (IF 1 <= Len(s) - 1 THEN (Len(s) - 1) - 1 + 1 ELSE 0) = Len(s) - 1
    <3>1. \A n \in Nat \ {0} : (IF 1 <= n - 1 THEN (n - 1) - 1 + 1 ELSE 0) = n - 1
      OBVIOUS
    <3> QED
      BY ONLY <1>1, <3>1
  <2>4. Front(s) = SubSeq(s, 1, Len(s) - 1)
    BY DEF Front
  <2> QED
    BY <2>2, <2>3, <2>4
<1>3. Len(s) \in 1 .. Len(s)
  BY <1>1
<1> QED
  BY <1>1, <1>2, <1>3, ElementOfSeq DEF Last

--------------------------------------------------------------------------------
(* Types.                                                                    *)

LoopRec == [kind : {"open", "message", "failure"}, win : Windows \union {NoWindow}]

CnxTypes ==
    /\ m_isConnected \in [Connections -> BOOLEAN]
    /\ m_cnxRetryCount \in [Connections -> 0 .. MaxRetries]
    /\ timer \in [Connections -> BOOLEAN]
    /\ slots \in [Connections -> {"none", "cnx", "pkt"}]
    /\ cnx_result \in [Connections -> Seq(Results)]

GuiTypes ==
    /\ m_fpga_windows \in Seq(Windows)
    /\ fpga \in [Windows -> Fpgas \union {NoFpga}]
    /\ state \in [Windows -> {"none", "hidden", "shown", "closed", "deleted"}]
    /\ level \in [Windows -> Nat]
    /\ loops \in Seq(LoopRec)
    /\ running \in BOOLEAN

LEMMA TypeOKParts == TypeOK <=> CnxTypes /\ GuiTypes
  BY DEF TypeOK, CnxTypes, GuiTypes, LoopRec

LEMMA TypeOKNext ==
    ASSUME CnxTypes', GuiTypes'
    PROVE  TypeOK'
  BY DEF TypeOK, CnxTypes, GuiTypes, LoopRec

LEMMA EmitType ==
    ASSUME CnxTypes, NEW c \in Connections, NEW r \in Results, Emit(c, r)
    PROVE  cnx_result' \in [Connections -> Seq(Results)]
<1>1. cnx_result[c] \in Seq(Results)
  BY DEF CnxTypes
<1>2. Append(cnx_result[c], r) \in Seq(Results)
  BY <1>1, AppendProperties
<1> QED
  BY <1>2 DEF CnxTypes, Emit

LEMMA UdpConnectTypes ==
    ASSUME CnxTypes, NEW c \in Connections, UdpConnect(c)
    PROVE  CnxTypes'
<1>1. CASE m_isConnected[c]
  <2>1. "OK" \in Results
    BY DEF Results
  <2>2. Emit(c, "OK") /\ UNCHANGED <<m_isConnected, m_cnxRetryCount, timer, slots>>
    BY <1>1 DEF UdpConnect
  <2> QED
    BY <2>1, <2>2, EmitType DEF CnxTypes
<1>2. CASE ~ m_isConnected[c]
  <2>1. 1 \in 0 .. MaxRetries
    BY RetriesAssumption
  <2> QED
    BY <1>2, <2>1 DEF UdpConnect, CnxTypes
<1> QED
  BY <1>1, <1>2

LEMMA CnxTimeoutTypes ==
    ASSUME CnxTypes, NEW c \in Connections, CnxRetry(c) \/ CnxGiveUp(c)
    PROVE  CnxTypes'
<1>1. CASE CnxRetry(c)
  <2>1. m_cnxRetryCount[c] + 1 \in 0 .. MaxRetries
    BY <1>1, RetriesAssumption DEF CnxTypes, CnxRetry
  <2> QED
    BY <1>1, <2>1 DEF CnxTypes, CnxRetry
<1>2. CASE CnxGiveUp(c)
  <2>1. "TIMEOUT" \in Results
    BY DEF Results
  <2>2. cnx_result' \in [Connections -> Seq(Results)]
    BY <1>2, <2>1, EmitType DEF CnxGiveUp
  <2> QED
    BY <1>2, <2>2 DEF CnxTypes, CnxGiveUp
<1> QED
  BY <1>1, <1>2

LEMMA OnCnxRxReadyTypes ==
    ASSUME CnxTypes, NEW c \in Connections, NEW pkt, OnCnxRxReady(c, pkt)
    PROVE  CnxTypes'
<1>1. {"OK", "FAIL_TEMP", "FAIL_PERM"} \subseteq Results
  BY DEF Results
<1>2. CASE OnCnxAck(c)
  <2>1. cnx_result' \in [Connections -> Seq(Results)]
    BY <1>1, <1>2, EmitType DEF OnCnxAck
  <2> QED
    BY <1>2, <2>1 DEF CnxTypes, OnCnxAck
<1>3. ASSUME NEW r \in Results, OnCnxNack(c, r)
      PROVE  CnxTypes'
  <2>1. cnx_result' \in [Connections -> Seq(Results)]
    BY <1>3, EmitType DEF OnCnxNack
  <2> QED
    BY <1>3, <2>1 DEF CnxTypes, OnCnxNack
<1>4. CASE UNCHANGED cnxVars
  BY <1>4 DEF CnxTypes, cnxVars
<1> QED
  BY <1>1, <1>2, <1>3, <1>4 DEF OnCnxRxReady

LEMMA DestroyTypes ==
    ASSUME CnxTypes, NEW C, Destroy(C)
    PROVE  CnxTypes'
  BY DEF CnxTypes, Destroy

LEMMA InitTypes == Init => TypeOK
<1> SUFFICES ASSUME Init PROVE TypeOK
  OBVIOUS
<1>1. CnxTypes
  BY RetriesAssumption DEF Init, CnxInit, CnxTypes
<1>2. GuiTypes
  BY DEF Init, GuiTypes
<1> QED
  BY <1>1, <1>2, TypeOKParts

\* Pushing a loop, and ending the one on top.
LEMMA PushType ==
    ASSUME GuiTypes, NEW k \in {"open", "message", "failure"},
           NEW w \in Windows \union {NoWindow}
    PROVE  Append(loops, Loop(k, w)) \in Seq(LoopRec)
<1>1. Loop(k, w) \in LoopRec
  BY DEF Loop, LoopRec
<1> QED
  BY <1>1, AppendProperties DEF GuiTypes

LEMMA TopType ==
    ASSUME GuiTypes, NEW k, Above(k)
    PROVE  /\ Front(loops) \in Seq(LoopRec) /\ Top \in LoopRec
           /\ Len(loops) - 1 \in Nat
<1>1. loops # <<>> /\ loops \in Seq(LoopRec)
  BY DEF Above, GuiTypes
<1> QED
  BY <1>1, FrontType DEF Top

LEMMA OpenDialogTypes ==
    ASSUME TypeOK, OpenDialog
    PROVE  TypeOK'
<1>1. loops' \in Seq(LoopRec)
  BY PushType, TypeOKParts DEF OpenDialog
<1>2. CnxTypes' /\ GuiTypes'
  <2>1. CnxTypes /\ GuiTypes
    BY TypeOKParts
  <2>2. UNCHANGED <<m_isConnected, m_cnxRetryCount, timer, slots, cnx_result>>
    BY DEF OpenDialog, cnxVars
  <2> QED
    BY <1>1, <2>1, <2>2 DEF OpenDialog, CnxTypes, GuiTypes
<1> QED
  BY <1>2, TypeOKNext

\* A step of the list of events only.
LEMMA StillTypes ==
    ASSUME TypeOK, UNCHANGED <<cnxVars, guiVars>>
    PROVE  TypeOK'
<1>1. CnxTypes /\ GuiTypes
  BY TypeOKParts
<1>2. CnxTypes'
  BY <1>1 DEF cnxVars, CnxTypes
<1>3. GuiTypes'
  BY <1>1 DEF guiVars, GuiTypes
<1> QED
  BY <1>2, <1>3, TypeOKNext

LEMMA FromModelTypes ==
    ASSUME TypeOK, NEW row, NEW col, OnOpenFPGA_fromModel(row, col) \/ TypeOverCell(row, col)
    PROVE  TypeOK'
<1>1. CASE UNCHANGED <<cnxVars, guiVars>>
  BY <1>1, StillTypes
<1> QED
  BY <1>1, OpenDialogTypes DEF OnOpenFPGA_fromModel, TypeOverCell

\* The ends of openFPGA that open no window, and of a message.
LEMMA RefusedTypes ==
    ASSUME TypeOK,
           \/ DialogRefused \/ FileRefused \/ DismissMessage
           \/ \E f \in Fpgas : RaiseWindow(f)
    PROVE  TypeOK'
<1>1. /\ UNCHANGED <<cnxVars, m_fpga_windows, fpga, state, level, running>>
      /\ \E k \in {"open", "message"} : Above(k)
      /\ loops' \in {Front(loops), Append(Front(loops), Loop("message", NoWindow))}
  BY DEF DialogRefused, FileRefused, RaiseWindow, DismissMessage, Return
<1>2. Front(loops) \in Seq(LoopRec)
  BY <1>1, TopType, TypeOKParts
<1>3. Append(Front(loops), Loop("message", NoWindow)) \in Seq(LoopRec)
  <2>1. Loop("message", NoWindow) \in LoopRec
    BY DEF Loop, LoopRec
  <2> QED
    BY <1>2, <2>1, AppendProperties
<1>4. loops' \in Seq(LoopRec)
  BY <1>1, <1>2, <1>3
<1>5. UNCHANGED <<m_isConnected, m_cnxRetryCount, timer, slots, cnx_result>>
  BY <1>1 DEF cnxVars
<1>6. CnxTypes /\ GuiTypes
  BY TypeOKParts
<1>7. CnxTypes'
  BY <1>5, <1>6 DEF CnxTypes
<1>8. GuiTypes'
  BY <1>1, <1>4, <1>6 DEF GuiTypes
<1> QED
  BY <1>7, <1>8, TypeOKNext

LEMMA NewWindowTypes ==
    ASSUME TypeOK, NEW f \in Fpgas, NEW w \in Windows, NewWindow(f, w)
    PROVE  TypeOK'
<1>1. CnxTypes /\ GuiTypes
  BY TypeOKParts
<1>2. CnxTypes'
  BY <1>1, UdpConnectTypes DEF NewWindow, Windows
<1>3. loops' \in Seq(LoopRec)
  BY <1>1, TopType DEF NewWindow, Return
<1>4. m_fpga_windows' \in Seq(Windows)
  BY <1>1, AppendProperties DEF NewWindow, GuiTypes
<1>5. GuiTypes'
  BY <1>1, <1>3, <1>4 DEF NewWindow, GuiTypes
<1> QED
  BY <1>2, <1>5, TypeOKNext

LEMMA HandledTypes ==
    ASSUME GuiTypes, NEW w \in Windows, Handled(w)
    PROVE  GuiTypes'
<1>1. CASE UNCHANGED guiVars
  BY <1>1 DEF guiVars, GuiTypes
<1>2. ASSUME NEW isOk, OnConnectResult(w, isOk)
      PROVE  GuiTypes'
  <2>1. Append(loops, Loop("failure", w)) \in Seq(LoopRec)
    BY PushType
  <2> QED
    BY <1>2, <2>1 DEF OnConnectResult, GuiTypes
<1> QED
  BY <1>1, <1>2 DEF Handled

LEMMA CnxSlotTypes ==
    ASSUME TypeOK, NEW w \in Windows,
           OnCnxTimeout(w) \/ \E pkt \in Packets : OnCnxPacket(w, pkt)
    PROVE  TypeOK'
<1>1. CnxTypes /\ GuiTypes
  BY TypeOKParts
<1>2. GuiTypes'
  BY <1>1, HandledTypes DEF OnCnxTimeout, OnCnxPacket
<1>3. CnxTypes'
  BY <1>1, CnxTimeoutTypes, OnCnxRxReadyTypes DEF OnCnxTimeout, OnCnxPacket, Windows
<1> QED
  BY <1>2, <1>3, TypeOKNext

LEMMA OnCnxFailedTypes ==
    ASSUME TypeOK, NEW w \in Windows, OnCnxFailed(w)
    PROVE  TypeOK'
<1>1. CnxTypes /\ GuiTypes
  BY TypeOKParts
<1>2. loops' \in Seq(LoopRec)
  BY <1>1, PushType DEF OnCnxFailed
<1>3. GuiTypes'
  BY <1>1, <1>2 DEF OnCnxFailed, GuiTypes
<1>4. CnxTypes'
  BY <1>1 DEF OnCnxFailed, CnxTypes
<1> QED
  BY <1>3, <1>4, TypeOKNext

LEMMA CloseWindowTypes ==
    ASSUME TypeOK, NEW w, NEW depth \in Nat, CloseWindow(w, depth), loops' \in Seq(LoopRec)
    PROVE  TypeOK'
<1>1. CnxTypes /\ GuiTypes
  BY TypeOKParts
<1>2. m_fpga_windows' \in Seq(Windows)
  BY <1>1, RemoveFirstType DEF CloseWindow, GuiTypes
<1>3. GuiTypes'
  BY <1>1, <1>2 DEF CloseWindow, GuiTypes
<1>4. CnxTypes'
  BY <1>1 DEF CloseWindow, CnxTypes, cnxVars
<1> QED
  BY <1>3, <1>4, TypeOKNext

LEMMA ClosingTypes ==
    ASSUME TypeOK, DismissFailure \/ \E w \in Windows : CloseEvent(w)
    PROVE  TypeOK'
<1>1. GuiTypes
  BY TypeOKParts
<1>2. CASE DismissFailure
  <2>1. Front(loops) \in Seq(LoopRec) /\ Len(loops) - 1 \in Nat
    BY <1>1, <1>2, TopType DEF DismissFailure
  <2> QED
    BY <1>2, <2>1, CloseWindowTypes DEF DismissFailure, Return
<1>3. CASE \E w \in Windows : CloseEvent(w)
  <2>1. loops' \in Seq(LoopRec)
    BY <1>1, <1>3 DEF CloseEvent, GuiTypes
  <2> QED
    BY <1>3, <2>1, CloseWindowTypes DEF CloseEvent
<1> QED
  BY <1>2, <1>3

LEMMA DeletingTypes ==
    ASSUME TypeOK, Quit \/ \E w \in Windows : DeleteWindow(w)
    PROVE  TypeOK'
<1>1. CnxTypes /\ GuiTypes
  BY TypeOKParts
<1>2. CnxTypes'
  BY <1>1, DestroyTypes DEF Quit, DeleteWindow
<1>3. CASE Quit
  <2>1. state' \in [Windows -> {"none", "hidden", "shown", "closed", "deleted"}]
    BY <1>1, <1>3 DEF Quit, GuiTypes
  <2>2. GuiTypes'
    BY <1>1, <1>3, <2>1 DEF Quit, GuiTypes
  <2> QED
    BY <1>2, <2>2, TypeOKNext
<1>4. CASE \E w \in Windows : DeleteWindow(w)
  <2>1. state' \in [Windows -> {"none", "hidden", "shown", "closed", "deleted"}]
    BY <1>1, <1>4 DEF DeleteWindow, GuiTypes
  <2>2. level' \in [Windows -> Nat]
    BY <1>1, <1>4 DEF DeleteWindow, GuiTypes
  <2>3. GuiTypes'
    BY <1>1, <1>4, <2>1, <2>2 DEF DeleteWindow, GuiTypes
  <2> QED
    BY <1>2, <2>3, TypeOKNext
<1> QED
  BY <1>3, <1>4

LEMMA StepTypes == TypeOK /\ [Next]_vars => TypeOK'
<1> SUFFICES ASSUME TypeOK, [Next]_vars PROVE TypeOK'
  OBVIOUS
<1>2. CASE User
  BY <1>2, OpenDialogTypes, FromModelTypes, RefusedTypes, NewWindowTypes, ClosingTypes,
     DeletingTypes DEF User, OnOpenFPGA_fromMenu
<1>3. CASE \E w \in Windows :
            \/ OnCnxTimeout(w) \/ OnCnxFailed(w) \/ DeleteWindow(w)
            \/ \E pkt \in Packets : OnCnxPacket(w, pkt)
  BY <1>3, CnxSlotTypes, OnCnxFailedTypes, DeletingTypes
<1>4. CASE \E s \in Sources, mask \in Masks : RecvData(s, mask)
  BY <1>4, StillTypes DEF RecvData
<1>5. CASE UNCHANGED vars
  BY <1>5, StillTypes DEF vars
<1> QED
  BY <1>2, <1>3, <1>4, <1>5 DEF Next

\* Every variable keeps its type; no connection is ever tried more than MaxRetries times.
THEOREM TypeCorrect == Spec => []TypeOK
  BY InitTypes, StepTypes, PTL DEF Spec

--------------------------------------------------------------------------------
(* One window per FPGA: a window enters the list with an FPGA no other       *)
(* window of the list has, and is new, so that the FPGA it is given cannot   *)
(* be the one of a window that is in the list already.                       *)

WindowsInv ==
    /\ \A j \in DOMAIN m_fpga_windows : state[m_fpga_windows[j]] # "none"
    /\ OneWindowPerFpga

\* The list and the FPGAs stay, and no window becomes new again.
NoNewWindows ==
    /\ UNCHANGED <<m_fpga_windows, fpga>>
    /\ \A w \in Windows : state[w] # "none" => state'[w] # "none"

LEMMA ListElements ==
    ASSUME TypeOK
    PROVE  /\ DOMAIN m_fpga_windows = 1 .. Len(m_fpga_windows)
           /\ Len(m_fpga_windows) \in Nat
           /\ \A j \in DOMAIN m_fpga_windows : m_fpga_windows[j] \in Windows
<1>1. m_fpga_windows \in Seq(Windows)
  BY DEF TypeOK
<1> QED
  BY <1>1, LenProperties, ElementOfSeq

LEMMA NoNewWindowsStep ==
    ASSUME TypeOK, WindowsInv, NoNewWindows
    PROVE  WindowsInv'
  BY ListElements DEF WindowsInv, NoNewWindows, OneWindowPerFpga

LEMMA NewWindowStep ==
    ASSUME TypeOK, WindowsInv, NEW f \in Fpgas, NEW w \in Windows, NewWindow(f, w)
    PROVE  WindowsInv'
<1> DEFINE n == Len(m_fpga_windows)
<1>1. m_fpga_windows \in Seq(Windows) /\ fpga \in [Windows -> Fpgas \union {NoFpga}]
      /\ state \in [Windows -> {"none", "hidden", "shown", "closed", "deleted"}]
  BY DEF TypeOK
<1>2. /\ m_fpga_windows' = Append(m_fpga_windows, w)
      /\ state' = [state EXCEPT ![w] = "hidden"] /\ fpga' = [fpga EXCEPT ![w] = f]
      /\ state[w] = "none" /\ ~ HasWindow(f)
  BY DEF NewWindow
<1>3. /\ DOMAIN m_fpga_windows' = 1 .. (n + 1)
      /\ \A j \in 1 .. n : m_fpga_windows'[j] = m_fpga_windows[j]
      /\ m_fpga_windows'[n + 1] = w
  BY <1>1, <1>2, AppendProperties, LenProperties
<1>4. n \in Nat /\ DOMAIN m_fpga_windows = 1 .. n
      /\ \A j \in 1 .. n : m_fpga_windows[j] \in Windows
  BY ListElements
<1> HIDE DEF n
<1>5. \A j \in 1 .. (n + 1) : j \in 1 .. n \/ j = n + 1
  BY <1>4
<1>6. ASSUME NEW j \in 1 .. n
      PROVE  /\ m_fpga_windows'[j] = m_fpga_windows[j]
             /\ m_fpga_windows[j] # w
             /\ fpga'[m_fpga_windows[j]] = fpga[m_fpga_windows[j]]
             /\ fpga[m_fpga_windows[j]] # f
             /\ state'[m_fpga_windows[j]] = state[m_fpga_windows[j]]
             /\ state[m_fpga_windows[j]] # "none"
  <2>1. state[m_fpga_windows[j]] # "none"
    BY <1>4 DEF WindowsInv
  <2>2. m_fpga_windows[j] # w
    BY <1>2, <2>1
  <2>3. m_fpga_windows[j] \in InList
    BY <1>4 DEF InList, Range
  <2>4. fpga[m_fpga_windows[j]] # f
    BY <1>2, <2>3 DEF HasWindow
  <2> QED
    BY <1>1, <1>2, <1>3, <1>4, <2>1, <2>2, <2>4
<1>7. fpga'[w] = f /\ state'[w] = "hidden"
  BY <1>1, <1>2
<1>8. ASSUME NEW j \in 1 .. (n + 1), NEW k \in 1 .. (n + 1),
             fpga'[m_fpga_windows'[j]] = fpga'[m_fpga_windows'[k]]
      PROVE  j = k
  <2>1. CASE j \in 1 .. n /\ k \in 1 .. n
    BY <1>4, <1>6, <1>8, <2>1 DEF WindowsInv, OneWindowPerFpga
  <2>2. CASE j = n + 1 \/ k = n + 1
    BY <1>3, <1>5, <1>6, <1>7, <1>8, <2>2
  <2> QED
    BY <1>5, <2>1, <2>2
<1>9. \A j \in 1 .. (n + 1) : state'[m_fpga_windows'[j]] # "none"
  BY <1>3, <1>5, <1>6, <1>7
<1> QED
  BY <1>3, <1>8, <1>9 DEF WindowsInv, OneWindowPerFpga

LEMMA CloseWindowStep ==
    ASSUME TypeOK, WindowsInv, NEW w, NEW depth \in Nat, CloseWindow(w, depth)
    PROVE  WindowsInv'
<1>1. /\ m_fpga_windows' = RemoveFirst(m_fpga_windows, w) /\ UNCHANGED fpga
      /\ \A v \in Windows : state[v] # "none" => state'[v] # "none"
  BY DEF CloseWindow, TypeOK
<1>2. CASE m_fpga_windows' = m_fpga_windows
  BY <1>1, <1>2, NoNewWindowsStep DEF NoNewWindows
<1>3. ASSUME NEW k \in 1 .. Len(m_fpga_windows),
             m_fpga_windows' = RemoveAt(m_fpga_windows, k)
      PROVE  WindowsInv'
  <2> DEFINE n == Len(m_fpga_windows)
             old(j) == IF j < k THEN j ELSE j + 1
  <2>1. n \in Nat /\ DOMAIN m_fpga_windows = 1 .. n
        /\ \A j \in 1 .. n : m_fpga_windows[j] \in Windows
    BY ListElements
  <2>2. m_fpga_windows \in Seq(Windows)
    BY DEF TypeOK
  <2>3. /\ m_fpga_windows' \in Seq(Windows) /\ Len(m_fpga_windows') = n - 1
        /\ \A j \in 1 .. (n - 1) :
              m_fpga_windows'[j] = IF j < k THEN m_fpga_windows[j] ELSE m_fpga_windows[j + 1]
    BY <1>3, <2>2, RemoveAtParts
  <2>4. DOMAIN m_fpga_windows' = 1 .. (n - 1)
    BY <2>3, LenProperties
  <2> HIDE DEF n
  <2>5. \A j \in 1 .. (n - 1) : old(j) \in 1 .. n
    BY <2>1, <1>3 DEF n
  <2>6. \A i, j \in 1 .. (n - 1) : old(i) = old(j) => i = j
    BY <2>1, <1>3 DEF n
  <2>7. \A j \in 1 .. (n - 1) : m_fpga_windows'[j] = m_fpga_windows[old(j)]
    BY <2>3
  <2> HIDE DEF old
  <2>8. \A j \in 1 .. (n - 1) : state'[m_fpga_windows'[j]] # "none"
    BY <1>1, <2>1, <2>5, <2>7 DEF WindowsInv
  <2>9. \A i, j \in 1 .. (n - 1) :
            fpga'[m_fpga_windows'[i]] = fpga'[m_fpga_windows'[j]] => i = j
    BY <1>1, <2>1, <2>5, <2>6, <2>7 DEF WindowsInv, OneWindowPerFpga
  <2> QED
    BY <2>4, <2>8, <2>9 DEF WindowsInv, OneWindowPerFpga
<1>4. m_fpga_windows \in Seq(Windows)
  BY DEF TypeOK
<1> QED
  BY <1>1, <1>2, <1>3, <1>4, RemoveFirstParts

LEMMA StepWindows == TypeOK /\ WindowsInv /\ [Next]_vars => WindowsInv'
<1> SUFFICES ASSUME TypeOK, WindowsInv, [Next]_vars PROVE WindowsInv'
  OBVIOUS
<1> USE NoNewWindowsStep DEF NoNewWindows
<1>1. CASE UNCHANGED <<cnxVars, guiVars>>
  BY <1>1 DEF guiVars
<1>2. CASE User
  <2>1. CASE OpenDialog \/ DialogRefused \/ FileRefused \/ DismissMessage
             \/ \E f \in Fpgas : RaiseWindow(f)
    BY <2>1 DEF OpenDialog, DialogRefused, FileRefused, DismissMessage, RaiseWindow
  <2>2. ASSUME NEW row, NEW col, OnOpenFPGA_fromModel(row, col) \/ TypeOverCell(row, col)
        PROVE  WindowsInv'
    BY <1>1, <2>1, <2>2 DEF OnOpenFPGA_fromModel, TypeOverCell
  <2>3. CASE DismissFailure \/ \E w \in Windows : CloseEvent(w)
    <3>1. CASE DismissFailure
      <4>1. Len(loops) - 1 \in Nat
        BY <3>1, TopType, TypeOKParts DEF DismissFailure
      <4> QED
        BY <3>1, <4>1, CloseWindowStep DEF DismissFailure
    <3>2. CASE \E w \in Windows : CloseEvent(w)
      BY <3>2, CloseWindowStep DEF CloseEvent
    <3> QED
      BY <2>3, <3>1, <3>2
  <2>4. CASE Quit
    <3>1. \A w \in Windows : state[w] # "none" => state'[w] # "none"
      BY <2>4 DEF Quit
    <3> QED
      BY <2>4, <3>1 DEF Quit
  <2> QED
    BY <1>2, <2>1, <2>2, <2>3, <2>4, NewWindowStep DEF User, OnOpenFPGA_fromMenu
<1>3. ASSUME NEW w \in Windows,
             \/ OnCnxTimeout(w) \/ OnCnxFailed(w) \/ DeleteWindow(w)
             \/ \E pkt \in Packets : OnCnxPacket(w, pkt)
      PROVE  WindowsInv'
  <2>1. CASE OnCnxFailed(w)
    BY <2>1 DEF OnCnxFailed
  <2>2. CASE DeleteWindow(w)
    BY <2>2 DEF DeleteWindow, TypeOK
  <2>3. CASE Handled(w)
    <3>1. CASE UNCHANGED guiVars
      BY <3>1 DEF guiVars
    <3>2. ASSUME NEW isOk, OnConnectResult(w, isOk)
          PROVE  WindowsInv'
      BY <3>2 DEF OnConnectResult, TypeOK
    <3> QED
      BY <2>3, <3>1, <3>2 DEF Handled
  <2> QED
    BY <1>3, <2>1, <2>2, <2>3 DEF OnCnxTimeout, OnCnxPacket
<1>4. CASE \E s \in Sources, mask \in Masks : RecvData(s, mask)
  BY <1>1, <1>4 DEF RecvData
<1>5. CASE UNCHANGED vars
  BY <1>1, <1>5 DEF vars
<1> QED
  BY <1>2, <1>3, <1>4, <1>5 DEF Next

\* No two windows of the list are for the same FPGA.
THEOREM OneWindowEach == Spec => []OneWindowPerFpga
<1>1. Init => WindowsInv
  BY DEF Init, WindowsInv, OneWindowPerFpga
<1>2. Spec => [](TypeOK /\ WindowsInv)
  BY <1>1, InitTypes, StepTypes, StepWindows, PTL DEF Spec
<1>3. WindowsInv => OneWindowPerFpga
  BY DEF WindowsInv
<1> QED
  BY <1>2, <1>3, PTL

--------------------------------------------------------------------------------
(* Each connection reports one result.  A connection is new as long as its   *)
(* window is, listens while it has reported nothing, and stops listening     *)
(* with the report.                                                          *)

ConnectionInv(c) ==
    /\ state[c] = "none" =>
            /\ slots[c] = "none" /\ m_cnxRetryCount[c] = 0
            /\ cnx_result[c] = <<>> /\ ~ m_isConnected[c]
    /\ slots[c] = "cnx" => cnx_result[c] = <<>> /\ m_cnxRetryCount[c] >= 1
    /\ cnx_result[c] = <<>> \/ \E r \in Results : cnx_result[c] = <<r>>

ConnectionsInv == \A c \in Windows : ConnectionInv(c)

\* What a step of a connection may be for its owner.
Allowed(c) == Cnx!Attempt(c) \/ Cnx!Report(c) \/ Cnx!Rest(c)

\* Nothing happens to a connection.
Untouched(c) ==
    /\ slots'[c] = slots[c] /\ m_cnxRetryCount'[c] = m_cnxRetryCount[c]
    /\ cnx_result'[c] = cnx_result[c]

\* It asks, once more or for the first time.
Asks(c) ==
    /\ slots'[c] = "cnx"
    /\ m_cnxRetryCount'[c] = m_cnxRetryCount[c] + 1 /\ m_cnxRetryCount'[c] <= MaxRetries

\* Its window is not created in this step, and it does not connect.
NotCreated(c) ==
    /\ state[c] # "none" => state'[c] # "none"
    /\ m_isConnected'[c] => m_isConnected[c]

LEMMA OutcomeTrying ==
    ASSUME NEW c, slots[c] = "cnx", cnx_result[c] = <<>>
    PROVE  Outcome(c) = "trying"
<1>1. Len(cnx_result[c]) = 0
  BY EmptySeq
<1> QED
  BY <1>1 DEF Outcome

LEMMA OneElement ==
    ASSUME NEW S, NEW r \in S
    PROVE  Len(<<r>>) = 1 /\ <<r>>[1] = r /\ <<r>> # <<>> /\ Append(<<>>, r) = <<r>>
  OBVIOUS

LEMMA UntouchedStep ==
    ASSUME NEW c \in Windows, ConnectionInv(c), Untouched(c), NotCreated(c)
    PROVE  ConnectionInv(c)' /\ Allowed(c)
<1>1. ConnectionInv(c)'
  BY DEF ConnectionInv, Untouched, NotCreated
<1>2. Outcome(c)' = Outcome(c)
  BY DEF Outcome, Untouched
<1>3. Cnx!Rest(c)
  BY <1>2 DEF Cnx!Rest, Untouched, Windows
<1> QED
  BY <1>1, <1>3 DEF Allowed

\* The first request, or another one.
LEMMA AttemptStep ==
    ASSUME TypeOK, NEW c \in Windows, ConnectionInv(c),
           Asks(c), cnx_result'[c] = <<>>, cnx_result[c] = <<>>,
           slots[c] = "cnx" \/ (slots[c] = "none" /\ m_cnxRetryCount[c] = 0),
           state'[c] # "none"
    PROVE  ConnectionInv(c)' /\ Allowed(c)
<1>1. m_cnxRetryCount[c] \in Nat
  BY DEF TypeOK, Windows
<1>2. ConnectionInv(c)'
  BY <1>1 DEF ConnectionInv, Asks
<1>3. Outcome(c)' = "trying"
  BY EmptySeq DEF Outcome, Asks
<1>4. Outcome(c) \in {"idle", "trying"}
  BY EmptySeq DEF Outcome
<1>5. Cnx!Attempt(c)
  BY <1>3, <1>4 DEF Cnx!Attempt, Asks, Windows
<1> QED
  BY <1>2, <1>5 DEF Allowed

\* A result.
LEMMA ReportStep ==
    ASSUME TypeOK, NEW c \in Windows, ConnectionInv(c), NEW r \in Results,
           slots[c] = "cnx", slots'[c] \in {"none", "pkt"},
           cnx_result'[c] = Append(cnx_result[c], r),
           m_cnxRetryCount'[c] = m_cnxRetryCount[c],
           r = "TIMEOUT" => m_cnxRetryCount[c] >= MaxRetries,
           state[c] # "none" => state'[c] # "none"
    PROVE  ConnectionInv(c)' /\ Allowed(c)
<1>1. cnx_result[c] = <<>> /\ state[c] # "none"
  BY DEF ConnectionInv
<1>2. cnx_result'[c] = <<r>>
  BY <1>1
<1>3. ConnectionInv(c)'
  BY <1>1, <1>2 DEF ConnectionInv
<1>4. Outcome(c)' = r
  BY <1>2, OneElement DEF Outcome
<1>5. Outcome(c) = "trying"
  BY <1>1, OutcomeTrying
<1>6. r = "TIMEOUT" => m_cnxRetryCount[c] = MaxRetries
  BY RetriesAssumption DEF TypeOK, Windows
<1>7. Cnx!Report(c)
  BY <1>4, <1>5, <1>6 DEF Cnx!Report, Results, Windows
<1> QED
  BY <1>3, <1>7 DEF Allowed

\* The end of an owner that may be waiting for a result.
LEMMA DestroyStep ==
    ASSUME TypeOK, NEW c \in Windows, ConnectionInv(c), NEW C, Destroy(C),
           state[c] # "none" => state'[c] # "none"
    PROVE  ConnectionInv(c)' /\ Allowed(c)
<1>1. /\ slots'[c] = IF c \in C THEN "none" ELSE slots[c]
      /\ m_cnxRetryCount'[c] = m_cnxRetryCount[c] /\ cnx_result'[c] = cnx_result[c]
      /\ m_isConnected'[c] = m_isConnected[c]
  BY DEF Destroy, Windows
<1>2. ConnectionInv(c)'
  BY <1>1 DEF ConnectionInv
<1>3. CASE slots[c] = "cnx" /\ c \in C
  <2>1. cnx_result[c] = <<>> /\ m_cnxRetryCount[c] >= 1 /\ m_cnxRetryCount[c] \in Nat
    BY <1>3 DEF ConnectionInv, TypeOK, Windows
  <2>2. Outcome(c) = "trying"
    BY <1>3, <2>1, OutcomeTrying
  <2>3. Outcome(c)' = "abandoned"
    BY <1>1, <1>3, <2>1, EmptySeq DEF Outcome
  <2>4. Cnx!Report(c)
    BY <1>1, <2>2, <2>3 DEF Cnx!Report, Windows
  <2> QED
    BY <1>2, <2>4 DEF Allowed
<1>4. CASE ~ (slots[c] = "cnx" /\ c \in C)
  <2>1. slots[c] = "cnx" <=> slots'[c] = "cnx"
    BY <1>1, <1>4
  <2>2. Outcome(c)' = Outcome(c)
    BY <1>1, <2>1 DEF Outcome
  <2>3. Cnx!Rest(c)
    BY <1>1, <2>2 DEF Cnx!Rest, Windows
  <2> QED
    BY <1>2, <2>3 DEF Allowed
<1> QED
  BY <1>3, <1>4

LEMMA NewWindowConnection ==
    ASSUME TypeOK, ConnectionsInv, NEW f, NEW w \in Windows, NewWindow(f, w),
           NEW c \in Windows
    PROVE  ConnectionInv(c)' /\ Allowed(c)
<1>1. ConnectionInv(c)
  BY DEF ConnectionsInv
<1>2. /\ UdpConnect(w) /\ state' = [state EXCEPT ![w] = "hidden"] /\ state[w] = "none"
      /\ state \in [Windows -> {"none", "hidden", "shown", "closed", "deleted"}]
  BY DEF NewWindow, TypeOK
<1>3. ~ m_isConnected[w] /\ slots[w] = "none" /\ m_cnxRetryCount[w] = 0
      /\ cnx_result[w] = <<>>
  BY <1>2 DEF ConnectionsInv, ConnectionInv
<1>4. /\ slots' = [slots EXCEPT ![w] = "cnx"]
      /\ m_cnxRetryCount' = [m_cnxRetryCount EXCEPT ![w] = 1]
      /\ UNCHANGED <<m_isConnected, cnx_result>>
  BY <1>2, <1>3 DEF UdpConnect
<1>5. CASE c = w
  <2>1. slots'[c] = "cnx" /\ m_cnxRetryCount'[c] = 1 /\ state'[c] = "hidden"
    BY <1>2, <1>4, <1>5 DEF TypeOK, Windows
  <2>2. Asks(c)
    BY <1>3, <1>5, <2>1, RetriesAssumption DEF Asks
  <2> QED
    BY <1>1, <1>3, <1>4, <1>5, <2>1, <2>2, AttemptStep
<1>6. CASE c # w
  BY <1>1, <1>2, <1>4, <1>6, UntouchedStep DEF Untouched, NotCreated, TypeOK, Windows
<1> QED
  BY <1>5, <1>6

\* A slot of connection w runs; what it reports may show the window.
LEMMA SlotConnection ==
    ASSUME TypeOK, ConnectionsInv, NEW w \in Windows, Handled(w),
           \/ CnxRetry(w) \/ CnxGiveUp(w)
           \/ \E pkt \in Packets : OnCnxRxReady(w, pkt),
           NEW c \in Windows
    PROVE  ConnectionInv(c)' /\ Allowed(c)
<1>1. ConnectionInv(c)
  BY DEF ConnectionsInv
<1>2. state[c] # "none" => state'[c] # "none"
  <2>1. CASE UNCHANGED state
    BY <2>1
  <2>2. CASE state' = [state EXCEPT ![w] = "shown"]
    BY <2>2 DEF TypeOK
  <2> QED
    BY <2>1, <2>2 DEF Handled, OnConnectResult, guiVars
<1>3. slots[w] = "cnx" /\ ConnectionInv(w)
  BY DEF CnxRetry, CnxGiveUp, OnCnxRxReady, ConnectionsInv
<1>4. cnx_result[w] = <<>> /\ state[w] # "none"
  BY <1>3 DEF ConnectionInv
<1> DEFINE others == \A d \in Windows \ {w} : Untouched(d) /\ m_isConnected'[d] = m_isConnected[d]
<1>5. CASE UNCHANGED cnxVars
  BY <1>1, <1>2, <1>5, UntouchedStep DEF cnxVars, Untouched, NotCreated
<1>6. CASE CnxRetry(w)
  <2>1. others
    BY <1>6 DEF CnxRetry, Untouched, TypeOK, Windows
  <2>2. CASE c = w
    <3>1. Asks(w)
      BY <1>3, <1>6, RetriesAssumption DEF Asks, CnxRetry, TypeOK, Windows
    <3>2. cnx_result'[w] = <<>>
      BY <1>4, <1>6 DEF CnxRetry
    <3>3. state'[w] # "none"
      BY <1>2, <1>4, <2>2
    <3>4. ConnectionInv(w)' /\ Allowed(w)
      BY <1>3, <1>4, <3>1, <3>2, <3>3, AttemptStep
    <3> QED
      BY <2>2, <3>4
  <2> QED
    BY <1>1, <1>2, <2>1, <2>2, UntouchedStep DEF NotCreated
<1>7. ASSUME NEW r \in Results, Emit(w, r),
             slots' \in {[slots EXCEPT ![w] = "none"], [slots EXCEPT ![w] = "pkt"]},
             m_isConnected' \in {m_isConnected, [m_isConnected EXCEPT ![w] = TRUE]},
             UNCHANGED m_cnxRetryCount,
             r = "TIMEOUT" => m_cnxRetryCount[w] >= MaxRetries
      PROVE  ConnectionInv(c)' /\ Allowed(c)
  <2>1. others
    BY <1>7 DEF Emit, Untouched, TypeOK, Windows
  <2>2. CASE c = w
    <3>1. slots'[c] \in {"none", "pkt"} /\ cnx_result'[c] = Append(cnx_result[c], r)
      BY <1>7, <2>2 DEF Emit, TypeOK, Windows
    <3> QED
      BY <1>1, <1>2, <1>3, <1>7, <2>2, <3>1, ReportStep
  <2> QED
    BY <1>1, <1>2, <2>1, <2>2, UntouchedStep DEF NotCreated
<1>8. {"OK", "TIMEOUT", "FAIL_TEMP", "FAIL_PERM"} \subseteq Results
  BY DEF Results
<1>9. CASE CnxGiveUp(w)
  BY <1>7, <1>8, <1>9 DEF CnxGiveUp
<1>10. CASE OnCnxAck(w)
  BY <1>7, <1>8, <1>10 DEF OnCnxAck
<1>11. ASSUME NEW r \in {"FAIL_TEMP", "FAIL_PERM"}, OnCnxNack(w, r)
       PROVE  ConnectionInv(c)' /\ Allowed(c)
  BY <1>7, <1>8, <1>11 DEF OnCnxNack
<1> QED
  BY <1>5, <1>6, <1>9, <1>10, <1>11 DEF OnCnxRxReady

\* The other steps end connections or leave them alone.
LEMMA OtherStep ==
    ASSUME TypeOK, ConnectionsInv,
           \/ OpenDialog \/ DialogRefused \/ FileRefused
           \/ \E f \in Fpgas : RaiseWindow(f)
           \/ DismissMessage \/ DismissFailure \/ Quit
           \/ \E w \in Windows : CloseEvent(w) \/ DeleteWindow(w) \/ OnCnxFailed(w)
           \/ UNCHANGED <<cnxVars, guiVars>>,
           NEW c \in Windows
    PROVE  ConnectionInv(c)' /\ Allowed(c)
<1>1. ConnectionInv(c)
  BY DEF ConnectionsInv
<1>2. state \in [Windows -> {"none", "hidden", "shown", "closed", "deleted"}]
  BY DEF TypeOK
<1>3. CASE UNCHANGED cnxVars /\ (state[c] # "none" => state'[c] # "none")
  BY <1>1, <1>3, UntouchedStep DEF cnxVars, Untouched, NotCreated
<1>4. CASE OpenDialog \/ DialogRefused \/ FileRefused \/ DismissMessage
           \/ (\E f \in Fpgas : RaiseWindow(f))
           \/ UNCHANGED <<cnxVars, guiVars>>
  BY <1>3, <1>4 DEF OpenDialog, DialogRefused, FileRefused, DismissMessage, RaiseWindow, guiVars
<1>5. ASSUME NEW w, NEW depth, CloseWindow(w, depth)
      PROVE  ConnectionInv(c)' /\ Allowed(c)
  BY <1>2, <1>3, <1>5 DEF CloseWindow
<1>6. CASE Quit
  <2>1. Destroy(Windows) /\ (state[c] # "none" => state'[c] # "none")
    BY <1>6 DEF Quit
  <2> QED
    BY <1>1, <2>1, DestroyStep
<1>7. ASSUME NEW w \in Windows, DeleteWindow(w)
      PROVE  ConnectionInv(c)' /\ Allowed(c)
  <2>1. Destroy({w}) /\ (state[c] # "none" => state'[c] # "none")
    BY <1>2, <1>7 DEF DeleteWindow
  <2> QED
    BY <1>1, <2>1, DestroyStep
<1>8. ASSUME NEW w \in Windows, OnCnxFailed(w)
      PROVE  ConnectionInv(c)' /\ Allowed(c)
  <2>1. Untouched(c) /\ NotCreated(c)
    BY <1>8 DEF OnCnxFailed, Untouched, NotCreated, TypeOK, Windows
  <2> QED
    BY <1>1, <2>1, UntouchedStep
<1> QED
  BY <1>4, <1>5, <1>6, <1>7, <1>8 DEF DismissFailure, CloseEvent

LEMMA StepConnections ==
    ASSUME TypeOK, ConnectionsInv, [Next]_vars
    PROVE  ConnectionsInv' /\ Cnx!Next
<1>1. ASSUME NEW c \in Windows
      PROVE  ConnectionInv(c)' /\ Allowed(c)
  <2>1. CASE UNCHANGED <<cnxVars, guiVars>>
    BY <2>1, OtherStep
  <2>2. CASE User
    <3>1. ASSUME NEW row, NEW col, OnOpenFPGA_fromModel(row, col) \/ TypeOverCell(row, col)
          PROVE  ConnectionInv(c)' /\ Allowed(c)
      BY <2>1, <3>1, OtherStep DEF OnOpenFPGA_fromModel, TypeOverCell
    <3> QED
      BY <2>2, <3>1, OtherStep, NewWindowConnection DEF User, OnOpenFPGA_fromMenu
  <2>3. ASSUME NEW w \in Windows,
               \/ OnCnxTimeout(w) \/ OnCnxFailed(w) \/ DeleteWindow(w)
               \/ \E pkt \in Packets : OnCnxPacket(w, pkt)
        PROVE  ConnectionInv(c)' /\ Allowed(c)
    BY <2>3, OtherStep, SlotConnection DEF OnCnxTimeout, OnCnxPacket
  <2>4. CASE \E s \in Sources, mask \in Masks : RecvData(s, mask)
    BY <2>1, <2>4 DEF RecvData
  <2>5. CASE UNCHANGED vars
    BY <2>1, <2>5 DEF vars
  <2> QED
    BY <2>2, <2>3, <2>4, <2>5 DEF Next
<1>2. ConnectionsInv'
  BY <1>1 DEF ConnectionsInv
<1>3. Cnx!Next
  BY <1>1 DEF Cnx!Next, Allowed, Windows
<1> QED
  BY <1>2, <1>3

LEMMA InitConnections == Init => ConnectionsInv /\ Cnx!Init
<1> SUFFICES ASSUME Init PROVE ConnectionsInv /\ Cnx!Init
  OBVIOUS
<1>1. ASSUME NEW c \in Windows
      PROVE  /\ slots[c] = "none" /\ m_cnxRetryCount[c] = 0 /\ cnx_result[c] = <<>>
             /\ m_isConnected[c] = FALSE
  BY <1>1 DEF Init, CnxInit, Windows
<1>2. ConnectionsInv
  BY <1>1 DEF ConnectionsInv, ConnectionInv
<1>3. ASSUME NEW c \in Windows
      PROVE  Outcome(c) = "idle"
  <2>1. slots[c] = "none" /\ m_cnxRetryCount[c] = 0 /\ cnx_result[c] = <<>>
    BY <1>1
  <2>2. Len(cnx_result[c]) = 0
    BY <2>1, EmptySeq
  <2> QED
    BY <2>1, <2>2 DEF Outcome
<1>4. m_cnxRetryCount = [c \in Connections |-> 0]
  BY DEF Init, CnxInit
<1>5. Cnx!Init
  BY <1>3, <1>4 DEF Cnx!Init, Windows
<1> QED
  BY <1>2, <1>5

\* The safety of Connector: every connection reports one result at most, and TIMEOUT
\* only when it has asked MaxRetries times, whatever the network and the user do.
THEOREM ConnectorImplemented == Spec => Cnx!Safe
<1>1. TypeOK /\ ConnectionsInv /\ [Next]_vars => ConnectionsInv' /\ [Cnx!Next]_(Cnx!vars)
  BY StepConnections
<1> QED
  BY <1>1, InitTypes, StepTypes, InitConnections, PTL DEF Spec, Cnx!Safe

--------------------------------------------------------------------------------
(* The list of events.                                                       *)

PubInfo == [from : Sources, count : Nat, event_mask : SUBSET Events]

\* The record of row r tells what has come from its source.
Accounted(r) ==
    /\ m_pub_info[r].count = heard[m_pub_info[r].from]
    /\ m_pub_info[r].event_mask = seen[m_pub_info[r].from]

HistoryTypes == heard \in [Sources -> Nat] /\ seen \in [Sources -> SUBSET Events]

EventInv ==
    /\ m_pub_info \in Seq(PubInfo)
    /\ HistoryTypes
    /\ \A r \in DOMAIN m_pub_info : Accounted(r)
    /\ \A q, r \in DOMAIN m_pub_info : m_pub_info[q].from = m_pub_info[r].from => q = r
    /\ \A s \in Sources :
            (\A r \in DOMAIN m_pub_info : m_pub_info[r].from # s) => heard[s] = 0 /\ seen[s] = {}

\* The cells of row r that the user did not type over show its record.
Shows(r) ==
    /\ items[r].from = m_pub_info[r].from
    /\ <<r, 2>> \notin typed => items[r].count = m_pub_info[r].count
    /\ <<r, 3>> \notin typed => items[r].event_mask = m_pub_info[r].event_mask

CellsInv ==
    /\ items \in Seq(PubInfo) /\ Len(items) = Len(m_pub_info)
    /\ \A r \in DOMAIN m_pub_info : Shows(r)

ListInv == EventInv /\ CellsInv

LEMMA ListInvImplies == ListInv => AnnouncementsAccounted
  BY DEF ListInv, EventInv, CellsInv, Shows, Accounted, AnnouncementsAccounted

\* A sequence with another element at row r.
LEMMA WithRow ==
    ASSUME NEW S, NEW q \in Seq(S), NEW r \in DOMAIN q, NEW e \in S
    PROVE  /\ [q EXCEPT ![r] = e] \in Seq(S)
           /\ DOMAIN [q EXCEPT ![r] = e] = DOMAIN q
           /\ \A j \in DOMAIN q : [q EXCEPT ![r] = e][j] = IF j = r THEN e ELSE q[j]
           /\ \A j \in DOMAIN q : q[j] \in S
  BY ExceptSeq, LenProperties, ElementOfSeq

\* Changing fields of an element in place is changing the element.
CountSet(q, r, n) ==
    [q EXCEPT ![r].count = n]
        = [q EXCEPT ![r] = [from |-> q[r].from, count |-> n, event_mask |-> q[r].event_mask]]
MaskSet(q, r, m) ==
    [q EXCEPT ![r].event_mask = m]
        = [q EXCEPT ![r] = [from |-> q[r].from, count |-> q[r].count, event_mask |-> m]]
BothSet(q, r, n, m) ==
    [q EXCEPT ![r].count = n, ![r].event_mask = m]
        = [q EXCEPT ![r] = [from |-> q[r].from, count |-> n, event_mask |-> m]]

LEMMA FieldTypes ==
    ASSUME NEW q \in Seq(PubInfo), NEW r \in DOMAIN q
    PROVE  /\ q[r] \in PubInfo
           /\ q[r].from \in Sources /\ q[r].count \in Nat /\ q[r].event_mask \in SUBSET Events
<1>1. q[r] \in PubInfo
  BY ElementOfSeq, LenProperties
<1> QED
  BY <1>1 DEF PubInfo

LEMMA CountField ==
    ASSUME NEW q \in Seq(PubInfo), NEW r \in DOMAIN q, NEW n \in Nat
    PROVE  CountSet(q, r, n)
<1>0. q[r] \in PubInfo
  BY ElementOfSeq, LenProperties
<1>1. [q[r] EXCEPT !.count = n] = [from |-> q[r].from, count |-> n,
                                   event_mask |-> q[r].event_mask]
  BY <1>0 DEF PubInfo
<1>2. [q EXCEPT ![r].count = n] = [q EXCEPT ![r] = [q[r] EXCEPT !.count = n]]
  OBVIOUS
<1> QED
  BY <1>1, <1>2 DEF CountSet

LEMMA MaskField ==
    ASSUME NEW q \in Seq(PubInfo), NEW r \in DOMAIN q, NEW m \in SUBSET Events
    PROVE  MaskSet(q, r, m)
<1>0. q[r] \in PubInfo
  BY ElementOfSeq, LenProperties
<1>1. [q[r] EXCEPT !.event_mask = m] = [from |-> q[r].from, count |-> q[r].count,
                                        event_mask |-> m]
  BY <1>0 DEF PubInfo
<1>2. [q EXCEPT ![r].event_mask = m] = [q EXCEPT ![r] = [q[r] EXCEPT !.event_mask = m]]
  OBVIOUS
<1> QED
  BY <1>1, <1>2 DEF MaskSet

LEMMA BothFields ==
    ASSUME NEW q \in Seq(PubInfo), NEW r \in DOMAIN q, NEW n \in Nat,
           NEW m \in SUBSET Events
    PROVE  BothSet(q, r, n, m)
<1> DEFINE p == [q EXCEPT ![r] = [from |-> q[r].from, count |-> n,
                                  event_mask |-> q[r].event_mask]]
<1>1. [q EXCEPT ![r].count = n, ![r].event_mask = m] = [p EXCEPT ![r].event_mask = m]
  <2>1. CountSet(q, r, n)
    BY CountField
  <2>2. [q EXCEPT ![r].count = n] = p
    BY <2>1 DEF CountSet
  <2> HIDE DEF p
  <2> QED
    BY <2>2
<1>2. DOMAIN p = DOMAIN q /\ p[r] = [from |-> q[r].from, count |-> n,
                                    event_mask |-> q[r].event_mask]
  OBVIOUS
<1>3. [p EXCEPT ![r].event_mask = m]
        = [p EXCEPT ![r] = [from |-> q[r].from, count |-> n, event_mask |-> m]]
  <2>1. [p EXCEPT ![r].event_mask = m] = [p EXCEPT ![r] = [p[r] EXCEPT !.event_mask = m]]
    OBVIOUS
  <2>2. [p[r] EXCEPT !.event_mask = m] = [from |-> q[r].from, count |-> n, event_mask |-> m]
    BY <1>2
  <2> QED
    BY <2>1, <2>2
<1>4. [p EXCEPT ![r] = [from |-> q[r].from, count |-> n, event_mask |-> m]]
        = [q EXCEPT ![r] = [from |-> q[r].from, count |-> n, event_mask |-> m]]
  OBVIOUS
<1> QED
  BY <1>1, <1>3, <1>4 DEF BothSet

LEMMA KnownRow ==
    ASSUME EventInv, NEW s \in Sources
    PROVE  \/ Known(s) = 0 /\ \A r \in DOMAIN m_pub_info : m_pub_info[r].from # s
           \/ Known(s) \in DOMAIN m_pub_info /\ m_pub_info[Known(s)].from = s
<1> DEFINE I == {r \in 1 .. Len(m_pub_info) : m_pub_info[r].from = s}
<1>1. DOMAIN m_pub_info = 1 .. Len(m_pub_info) /\ Len(m_pub_info) \in Nat
  BY LenProperties DEF EventInv
<1>2. Known(s) = IF I = {} THEN 0 ELSE Min(I)
  BY DEF Known, SelectInSeq
<1>3. CASE I = {}
  BY <1>1, <1>2, <1>3
<1>4. CASE I # {}
  <2>1. I \in SUBSET Nat
    BY <1>1
  <2>2. Min(I) \in I
    BY <1>4, <2>1, MinIsElement
  <2> QED
    BY <1>1, <1>2, <1>4, <2>2
<1> QED
  BY <1>3, <1>4

\* Row r and the history of its source change together.
LEMMA RowStep ==
    ASSUME EventInv, NEW r \in DOMAIN m_pub_info,
           NEW s \in Sources, m_pub_info[r].from = s,
           NEW n \in Nat, NEW m \in SUBSET Events,
           m_pub_info' = [m_pub_info EXCEPT
                            ![r] = [from |-> s, count |-> n, event_mask |-> m]],
           heard' = [heard EXCEPT ![s] = n], seen' = [seen EXCEPT ![s] = m]
    PROVE  EventInv'
<1> DEFINE e == [from |-> s, count |-> n, event_mask |-> m]
<1>1. e \in PubInfo /\ m_pub_info \in Seq(PubInfo)
  BY DEF PubInfo, EventInv
<1>2. e.from = s /\ e.count = n /\ e.event_mask = m
  OBVIOUS
<1> HIDE DEF e
<1>3. m_pub_info' = [m_pub_info EXCEPT ![r] = e]
  BY DEF e
<1>4. /\ m_pub_info' \in Seq(PubInfo) /\ DOMAIN m_pub_info' = DOMAIN m_pub_info
      /\ \A j \in DOMAIN m_pub_info :
            m_pub_info'[j] = IF j = r THEN e ELSE m_pub_info[j]
      /\ \A j \in DOMAIN m_pub_info : m_pub_info[j] \in PubInfo
  BY <1>1, <1>3, WithRow
<1>5. /\ HistoryTypes'
      /\ \A t \in Sources : heard'[t] = IF t = s THEN n ELSE heard[t]
      /\ \A t \in Sources : seen'[t] = IF t = s THEN m ELSE seen[t]
  BY DEF EventInv, HistoryTypes
<1>6. \A j \in DOMAIN m_pub_info :
            m_pub_info'[j].from = m_pub_info[j].from /\ m_pub_info[j].from \in Sources
  BY <1>2, <1>4 DEF PubInfo
<1>7. \A i, j \in DOMAIN m_pub_info : m_pub_info[i].from = m_pub_info[j].from => i = j
  BY DEF EventInv
<1>8. ASSUME NEW j \in DOMAIN m_pub_info
      PROVE  Accounted(j)'
  <2>1. CASE j = r
    BY <1>2, <1>4, <1>5, <2>1 DEF Accounted
  <2>2. CASE j # r
    <3>1. m_pub_info[j].from # s
      BY <1>7, <2>2
    <3>2. Accounted(j)
      BY DEF EventInv
    <3> QED
      BY <1>4, <1>5, <1>6, <2>2, <3>1, <3>2 DEF Accounted
  <2> QED
    BY <2>1, <2>2
<1>9. ASSUME NEW t \in Sources, \A j \in DOMAIN m_pub_info' : m_pub_info'[j].from # t
      PROVE  heard'[t] = 0 /\ seen'[t] = {}
  <2>1. t # s /\ \A j \in DOMAIN m_pub_info : m_pub_info[j].from # t
    BY <1>4, <1>6, <1>9
  <2>2. heard[t] = 0 /\ seen[t] = {}
    BY <2>1 DEF EventInv
  <2> QED
    BY <1>5, <2>1, <2>2
<1> QED
  BY <1>1, <1>4, <1>5, <1>6, <1>7, <1>8, <1>9 DEF EventInv

\* The first packet of a source.
LEMMA NewRowStep ==
    ASSUME EventInv, NEW s \in Sources, NEW m \in SUBSET Events,
           \A r \in DOMAIN m_pub_info : m_pub_info[r].from # s,
           m_pub_info' = Append(m_pub_info, [from |-> s, count |-> 1, event_mask |-> m]),
           heard' = [heard EXCEPT ![s] = 1], seen' = [seen EXCEPT ![s] = m]
    PROVE  EventInv'
<1> DEFINE e == [from |-> s, count |-> 1, event_mask |-> m]
           n == Len(m_pub_info)
<1>1. e \in PubInfo /\ m_pub_info \in Seq(PubInfo)
  BY DEF PubInfo, EventInv
<1>2. e.from = s /\ e.count = 1 /\ e.event_mask = m
  OBVIOUS
<1> HIDE DEF e
<1>3. m_pub_info' = Append(m_pub_info, e)
  BY DEF e
<1>4. /\ m_pub_info' \in Seq(PubInfo) /\ DOMAIN m_pub_info' = 1 .. (n + 1)
      /\ \A j \in 1 .. n : m_pub_info'[j] = m_pub_info[j]
      /\ m_pub_info'[n + 1] = e
      /\ n \in Nat /\ DOMAIN m_pub_info = 1 .. n
      /\ \A j \in 1 .. n : m_pub_info[j] \in PubInfo
  BY <1>1, <1>3, AppendProperties, LenProperties, ElementOfSeq
<1> HIDE DEF n
<1>5. \A j \in 1 .. (n + 1) : j \in 1 .. n \/ j = n + 1
  BY <1>4
<1>6. /\ HistoryTypes'
      /\ \A t \in Sources : heard'[t] = IF t = s THEN 1 ELSE heard[t]
      /\ \A t \in Sources : seen'[t] = IF t = s THEN m ELSE seen[t]
  BY DEF EventInv, HistoryTypes
<1>7. \A i, j \in 1 .. n : m_pub_info[i].from = m_pub_info[j].from => i = j
  BY <1>4 DEF EventInv
<1>8. \A j \in 1 .. n : m_pub_info[j].from \in Sources /\ m_pub_info[j].from # s
  BY <1>4 DEF PubInfo
<1>9. ASSUME NEW j \in 1 .. (n + 1)
      PROVE  Accounted(j)'
  <2>1. CASE j = n + 1
    BY <1>2, <1>4, <1>6, <2>1 DEF Accounted
  <2>2. CASE j \in 1 .. n
    <3>1. Accounted(j)
      BY <1>4, <2>2 DEF EventInv
    <3> QED
      BY <1>4, <1>6, <1>8, <2>2, <3>1 DEF Accounted
  <2> QED
    BY <1>5, <2>1, <2>2
<1>10. ASSUME NEW i \in 1 .. (n + 1), NEW j \in 1 .. (n + 1),
              m_pub_info'[i].from = m_pub_info'[j].from
       PROVE  i = j
  <2>1. CASE i \in 1 .. n /\ j \in 1 .. n
    BY <1>4, <1>7, <1>10, <2>1
  <2>2. CASE i = n + 1 \/ j = n + 1
    BY <1>2, <1>4, <1>5, <1>8, <1>10, <2>2
  <2> QED
    BY <1>5, <2>1, <2>2
<1>11. ASSUME NEW t \in Sources, \A j \in 1 .. (n + 1) : m_pub_info'[j].from # t
       PROVE  heard'[t] = 0 /\ seen'[t] = {}
  <2>1. n + 1 \in 1 .. (n + 1) /\ \A j \in 1 .. n : j \in 1 .. (n + 1)
    BY <1>4
  <2>2. t # s /\ \A j \in 1 .. n : m_pub_info[j].from # t
    BY <1>2, <1>4, <1>11, <2>1
  <2>3. heard[t] = 0 /\ seen[t] = {}
    BY <1>4, <2>2 DEF EventInv
  <2> QED
    BY <1>6, <2>2, <2>3
<1> QED
  BY <1>1, <1>4, <1>6, <1>9, <1>10, <1>11 DEF EventInv

LEMMA UpdatedFields ==
    ASSUME NEW inf \in PubInfo, NEW mask \in SUBSET Events
    PROVE  Updated(inf, mask) = [from |-> inf.from, count |-> inf.count + 1,
                                 event_mask |-> inf.event_mask \union mask]
<1> DEFINE n == inf.count + 1
           m == inf.event_mask \union mask
           e == [from |-> inf.from, count |-> n, event_mask |-> inf.event_mask]
<1>1. Updated(inf, mask) = [[inf EXCEPT !.count = n] EXCEPT !.event_mask = m]
  BY DEF Updated, PubInfo
<1> HIDE DEF n, m
<1>2. [inf EXCEPT !.count = n] = e
  BY DEF PubInfo
<1>3. [e EXCEPT !.event_mask = m] = [from |-> inf.from, count |-> n, event_mask |-> m]
  OBVIOUS
<1> QED
  BY <1>1, <1>2, <1>3 DEF n, m

LEMMA AnnounceStep ==
    ASSUME EventInv, NEW s \in Sources, NEW mask \in Masks, Announce(s, mask)
    PROVE  EventInv'
<1> DEFINE r == Known(s)
           n == m_pub_info[r].count + 1
           m == m_pub_info[r].event_mask \union mask
<1>1. /\ m_pub_info \in Seq(PubInfo)
      /\ heard[s] \in Nat /\ seen[s] \in SUBSET Events
  BY DEF EventInv, HistoryTypes
<1>2. mask \in SUBSET Events
  BY MasksAssumption
<1>3. CASE r = 0 /\ \A q \in DOMAIN m_pub_info : m_pub_info[q].from # s
  <2>1. heard[s] = 0 /\ seen[s] = {}
    BY <1>3 DEF EventInv
  <2>2. /\ m_pub_info' = Append(m_pub_info, [from |-> s, count |-> 1, event_mask |-> mask])
        /\ heard' = [heard EXCEPT ![s] = 1] /\ seen' = [seen EXCEPT ![s] = mask]
    <3>1. m_pub_info' = Append(m_pub_info, [from |-> s, count |-> 1, event_mask |-> mask])
      BY <1>3 DEF Announce
    <3>2. /\ heard' = [heard EXCEPT ![s] = heard[s] + 1]
          /\ seen' = [seen EXCEPT ![s] = seen[s] \union mask]
      BY DEF Announce
    <3>3. heard[s] + 1 = 1
      BY <2>1
    <3>4. seen[s] \union mask = mask
      BY <2>1
    <3> QED
      BY <1>1, <3>1, <3>2, <3>3, <3>4
  <2> QED
    BY <1>2, <1>3, <2>2, NewRowStep
<1>4. CASE r \in DOMAIN m_pub_info /\ m_pub_info[r].from = s
  <2>1. r # 0
    BY <1>1, <1>4, LenProperties
  <2>2. /\ m_pub_info[r].count = heard[s] /\ m_pub_info[r].event_mask = seen[s]
    BY <1>4 DEF EventInv, Accounted
  <2>3. n \in Nat /\ m \in SUBSET Events /\ n = heard[s] + 1 /\ m = seen[s] \union mask
    BY <1>1, <1>2, <2>2
  <2>4. m_pub_info[r] \in PubInfo
    BY <1>1, <1>4, WithRow
  <2>5. Updated(m_pub_info[r], mask) = [from |-> s, count |-> n, event_mask |-> m]
    BY <1>2, <1>4, <2>4, UpdatedFields
  <2>6. /\ m_pub_info' = [m_pub_info EXCEPT ![r] = Updated(m_pub_info[r], mask)]
        /\ heard' = [heard EXCEPT ![s] = heard[s] + 1]
        /\ seen' = [seen EXCEPT ![s] = seen[s] \union mask]
    BY <2>1 DEF Announce
  <2> HIDE DEF r, n, m
  <2>7. m_pub_info' = [m_pub_info EXCEPT ![r] = [from |-> s, count |-> n, event_mask |-> m]]
    BY <2>5, <2>6
  <2>8. heard' = [heard EXCEPT ![s] = n] /\ seen' = [seen EXCEPT ![s] = m]
    BY <2>3, <2>6
  <2> QED
    BY <1>4, <2>3, <2>7, <2>8, RowStep
<1> QED
  BY <1>3, <1>4, KnownRow

LEMMA DomainOfItems ==
    ASSUME ListInv
    PROVE  DOMAIN items = DOMAIN m_pub_info
  BY LenProperties DEF ListInv, CellsInv, EventInv

LEMMA ResetStep ==
    ASSUME ListInv, NEW r \in DOMAIN items, NEW col, Reset(r, col)
    PROVE  EventInv'
<1> DEFINE s == m_pub_info[r].from
           n == m_pub_info[r].count
           m == m_pub_info[r].event_mask
<1>0. EventInv /\ items[r].from = s
  BY DomainOfItems DEF ListInv, CellsInv, Shows
<1>1. /\ m_pub_info \in Seq(PubInfo) /\ r \in DOMAIN m_pub_info
      /\ HistoryTypes /\ 0 \in Nat /\ {} \in SUBSET Events
  BY DomainOfItems DEF ListInv, EventInv
<1>2. s \in Sources /\ n \in Nat /\ m \in SUBSET Events
  BY <1>1, FieldTypes
<1>3. n = heard[s] /\ m = seen[s]
  BY <1>0, <1>1 DEF EventInv, Accounted
<1>4. /\ [m_pub_info EXCEPT ![r].count = 0]
            = [m_pub_info EXCEPT ![r] = [from |-> s, count |-> 0, event_mask |-> m]]
      /\ [m_pub_info EXCEPT ![r].event_mask = {}]
            = [m_pub_info EXCEPT ![r] = [from |-> s, count |-> n, event_mask |-> {}]]
  <2>1. CountSet(m_pub_info, r, 0) /\ MaskSet(m_pub_info, r, {})
    BY <1>1, CountField, MaskField
  <2> QED
    BY <2>1 DEF CountSet, MaskSet
<1>5. CASE ResetCount(r)
  <2>1. /\ m_pub_info' = [m_pub_info EXCEPT ![r] = [from |-> s, count |-> 0, event_mask |-> m]]
        /\ heard' = [heard EXCEPT ![s] = 0] /\ seen' = seen
    BY <1>0, <1>4, <1>5 DEF ResetCount
  <2>2. seen' = [seen EXCEPT ![s] = m]
    BY <1>1, <1>2, <1>3, <2>1 DEF HistoryTypes
  <2> QED
    BY <1>0, <1>1, <1>2, <2>1, <2>2, RowStep
<1>6. CASE ResetMask(r)
  <2>1. /\ m_pub_info' = [m_pub_info EXCEPT ![r] = [from |-> s, count |-> n, event_mask |-> {}]]
        /\ seen' = [seen EXCEPT ![s] = {}] /\ heard' = heard
    BY <1>0, <1>4, <1>6 DEF ResetMask
  <2>2. heard' = [heard EXCEPT ![s] = n]
    BY <1>1, <1>2, <1>3, <2>1 DEF HistoryTypes
  <2> QED
    BY <1>0, <1>1, <1>2, <2>1, <2>2, RowStep
<1> QED
  BY <1>5, <1>6 DEF Reset

\* Record r and row r change together, or the cell that differs is typed over.
LEMMA CellsStep ==
    ASSUME ListInv, NEW r \in DOMAIN m_pub_info, NEW e \in PubInfo, NEW f \in PubInfo,
           m_pub_info' = [m_pub_info EXCEPT ![r] = e], items' = [items EXCEPT ![r] = f],
           f.from = e.from,
           \A j \in DOMAIN m_pub_info : j # r =>
                /\ <<j, 2>> \in typed => <<j, 2>> \in typed'
                /\ <<j, 3>> \in typed => <<j, 3>> \in typed',
           <<r, 2>> \in typed' \/ f.count = e.count,
           <<r, 3>> \in typed' \/ f.event_mask = e.event_mask
    PROVE  CellsInv'
<1>1. /\ m_pub_info \in Seq(PubInfo) /\ items \in Seq(PubInfo)
      /\ DOMAIN items = DOMAIN m_pub_info
  BY DomainOfItems DEF ListInv, EventInv, CellsInv
<1>2. /\ m_pub_info' \in Seq(PubInfo) /\ DOMAIN m_pub_info' = DOMAIN m_pub_info
      /\ \A j \in DOMAIN m_pub_info : m_pub_info'[j] = IF j = r THEN e ELSE m_pub_info[j]
  BY <1>1, WithRow
<1>3. /\ items' \in Seq(PubInfo) /\ DOMAIN items' = DOMAIN m_pub_info
      /\ \A j \in DOMAIN m_pub_info : items'[j] = IF j = r THEN f ELSE items[j]
  BY <1>1, WithRow
<1>4. Len(items') = Len(m_pub_info')
  BY <1>2, <1>3, LenProperties
<1>5. ASSUME NEW j \in DOMAIN m_pub_info
      PROVE  Shows(j)'
  <2>1. CASE j = r
    BY <1>2, <1>3, <2>1 DEF Shows
  <2>2. CASE j # r
    <3>1. Shows(j)
      BY DEF ListInv, CellsInv
    <3> QED
      BY <1>2, <1>3, <2>2, <3>1 DEF Shows
  <2> QED
    BY <2>1, <2>2
<1> QED
  BY <1>2, <1>3, <1>4, <1>5 DEF CellsInv

LEMMA AnnounceCells ==
    ASSUME ListInv, NEW s \in Sources, NEW mask \in Masks, Announce(s, mask)
    PROVE  CellsInv'
<1> DEFINE r == Known(s)
           u == Updated(m_pub_info[r], mask)
<1>1. /\ m_pub_info \in Seq(PubInfo) /\ items \in Seq(PubInfo)
      /\ DOMAIN items = DOMAIN m_pub_info /\ EventInv /\ Len(items) = Len(m_pub_info)
  BY DomainOfItems DEF ListInv, EventInv, CellsInv
<1>2. mask \in SUBSET Events
  BY MasksAssumption
<1>3. CASE r = 0
  <2> DEFINE e == [from |-> s, count |-> 1, event_mask |-> mask]
             n == Len(m_pub_info)
  <2>1. e \in PubInfo
    BY <1>2 DEF PubInfo
  <2>2. m_pub_info' = Append(m_pub_info, e) /\ items' = Append(items, e) /\ typed' = typed
    BY <1>3 DEF Announce
  <2> HIDE DEF e
  <2>3. /\ DOMAIN m_pub_info' = 1 .. (n + 1) /\ m_pub_info'[n + 1] = e
        /\ \A j \in 1 .. n : m_pub_info'[j] = m_pub_info[j]
        /\ Len(m_pub_info') = n + 1 /\ n \in Nat /\ DOMAIN m_pub_info = 1 .. n
    BY <1>1, <2>1, <2>2, AppendProperties, LenProperties
  <2>4. /\ items' \in Seq(PubInfo) /\ items'[n + 1] = e /\ Len(items') = n + 1
        /\ \A j \in 1 .. n : items'[j] = items[j]
    BY <1>1, <2>1, <2>2, AppendProperties, LenProperties
  <2> HIDE DEF n
  <2>5. ASSUME NEW j \in 1 .. (n + 1)
        PROVE  Shows(j)'
    <3>1. CASE j = n + 1
      BY <2>3, <2>4, <3>1 DEF Shows
    <3>2. CASE j \in 1 .. n
      <4>1. Shows(j)
        BY <2>3, <3>2 DEF ListInv, CellsInv
      <4> QED
        BY <2>2, <2>3, <2>4, <3>2, <4>1 DEF Shows
    <3> QED
      BY <2>3, <3>1, <3>2
  <2> QED
    BY <2>3, <2>4, <2>5 DEF CellsInv
<1>4. CASE r \in DOMAIN m_pub_info
  <2> DEFINE f == [from |-> items[r].from, count |-> u.count, event_mask |-> u.event_mask]
  <2>1. r # 0
    BY <1>1, <1>4, LenProperties
  <2>2. /\ m_pub_info' = [m_pub_info EXCEPT ![r] = u]
        /\ items' = [items EXCEPT ![r].count = u.count, ![r].event_mask = u.event_mask]
        /\ typed' = typed \ {<<r, 2>>, <<r, 3>>}
    BY <2>1 DEF Announce, SetItems
  <2>3. u = [from |-> m_pub_info[r].from, count |-> m_pub_info[r].count + 1,
             event_mask |-> m_pub_info[r].event_mask \union mask]
    BY <1>1, <1>2, <1>4, FieldTypes, UpdatedFields
  <2>4. /\ m_pub_info[r].from \in Sources /\ m_pub_info[r].count \in Nat
        /\ m_pub_info[r].event_mask \in SUBSET Events /\ items[r].from \in Sources
    BY <1>1, <1>4, FieldTypes
  <2>5. u \in PubInfo /\ u.count \in Nat /\ u.event_mask \in SUBSET Events
        /\ u.from = m_pub_info[r].from
    BY <1>2, <2>3, <2>4 DEF PubInfo
  <2>6. items[r].from = m_pub_info[r].from
    BY <1>4 DEF ListInv, CellsInv, Shows
  <2> HIDE DEF u, r
  <2>7. items' = [items EXCEPT ![r] = f]
    <3>1. BothSet(items, r, u.count, u.event_mask)
      BY <1>1, <1>4, <2>5, BothFields
    <3> QED
      BY <2>2, <3>1 DEF BothSet
  <2>8. f \in PubInfo /\ f.from = u.from /\ f.count = u.count /\ f.event_mask = u.event_mask
    BY <2>4, <2>5, <2>6 DEF PubInfo
  <2> HIDE DEF f
  <2>9. \A j \in DOMAIN m_pub_info : j # r =>
            /\ <<j, 2>> \in typed => <<j, 2>> \in typed'
            /\ <<j, 3>> \in typed => <<j, 3>> \in typed'
    BY <2>2
  <2> QED
    BY <1>4, <2>2, <2>5, <2>7, <2>8, <2>9, CellsStep
<1> QED
  BY <1>1, <1>3, <1>4, KnownRow

LEMMA ResetCells ==
    ASSUME ListInv, NEW r \in DOMAIN items, NEW col, Reset(r, col)
    PROVE  CellsInv'
<1> DEFINE a == m_pub_info[r]
           b == items[r]
<1>1. /\ m_pub_info \in Seq(PubInfo) /\ items \in Seq(PubInfo) /\ r \in DOMAIN m_pub_info
      /\ 0 \in Nat /\ {} \in SUBSET Events
  BY DomainOfItems DEF ListInv, EventInv, CellsInv
<1>2. /\ a.from \in Sources /\ a.count \in Nat /\ a.event_mask \in SUBSET Events
      /\ b.from \in Sources /\ b.count \in Nat /\ b.event_mask \in SUBSET Events
  BY <1>1, FieldTypes
<1>3. Shows(r)
  BY <1>1 DEF ListInv, CellsInv
<1>4. /\ CountSet(m_pub_info, r, 0) /\ MaskSet(m_pub_info, r, {})
      /\ CountSet(items, r, 0) /\ MaskSet(items, r, {})
  BY <1>1, CountField, MaskField
<1>5. CASE ResetCount(r) /\ SetItems({<<r, 2>>})
  <2> DEFINE e == [from |-> a.from, count |-> 0, event_mask |-> a.event_mask]
             f == [from |-> b.from, count |-> 0, event_mask |-> b.event_mask]
  <2>1. m_pub_info' = [m_pub_info EXCEPT ![r] = e] /\ items' = [items EXCEPT ![r] = f]
    BY <1>4, <1>5 DEF ResetCount, CountSet
  <2>2. e \in PubInfo /\ f \in PubInfo
    BY <1>2 DEF PubInfo
  <2>3. /\ f.from = e.from /\ f.count = e.count
        /\ <<r, 3>> \in typed' \/ f.event_mask = e.event_mask
    BY <1>3, <1>5 DEF Shows, SetItems
  <2>4. \A j \in DOMAIN m_pub_info : j # r =>
            /\ <<j, 2>> \in typed => <<j, 2>> \in typed'
            /\ <<j, 3>> \in typed => <<j, 3>> \in typed'
    BY <1>5 DEF SetItems
  <2> HIDE DEF e, f
  <2> QED
    BY <1>1, <2>1, <2>2, <2>3, <2>4, CellsStep
<1>6. CASE ResetMask(r) /\ SetItems({<<r, 3>>})
  <2> DEFINE e == [from |-> a.from, count |-> a.count, event_mask |-> {}]
             f == [from |-> b.from, count |-> b.count, event_mask |-> {}]
  <2>1. m_pub_info' = [m_pub_info EXCEPT ![r] = e] /\ items' = [items EXCEPT ![r] = f]
    BY <1>4, <1>6 DEF ResetMask, MaskSet
  <2>2. e \in PubInfo /\ f \in PubInfo
    BY <1>2 DEF PubInfo
  <2>3. /\ f.from = e.from /\ f.event_mask = e.event_mask
        /\ <<r, 2>> \in typed' \/ f.count = e.count
    BY <1>3, <1>6 DEF Shows, SetItems
  <2>4. \A j \in DOMAIN m_pub_info : j # r =>
            /\ <<j, 2>> \in typed => <<j, 2>> \in typed'
            /\ <<j, 3>> \in typed => <<j, 3>> \in typed'
    BY <1>6 DEF SetItems
  <2> HIDE DEF e, f
  <2> QED
    BY <1>1, <2>1, <2>2, <2>3, <2>4, CellsStep
<1> QED
  BY <1>5, <1>6 DEF Reset

LEMMA TypeOverCells ==
    ASSUME ListInv, NEW r \in DOMAIN items, NEW col, TypeOver(r, col)
    PROVE  CellsInv'
<1> DEFINE a == m_pub_info[r]
           b == items[r]
<1>1. /\ m_pub_info \in Seq(PubInfo) /\ items \in Seq(PubInfo) /\ r \in DOMAIN m_pub_info
      /\ m_pub_info' = m_pub_info
  BY DomainOfItems DEF ListInv, EventInv, CellsInv, TypeOver
<1>2. /\ b.from \in Sources /\ b.count \in Nat /\ b.event_mask \in SUBSET Events
      /\ a \in PubInfo
  BY <1>1, FieldTypes
<1>3. Shows(r)
  BY <1>1 DEF ListInv, CellsInv
<1>4. m_pub_info' = [m_pub_info EXCEPT ![r] = a]
  BY <1>1, LenProperties
<1>5. \A j \in DOMAIN m_pub_info : j # r =>
            /\ <<j, 2>> \in typed => <<j, 2>> \in typed'
            /\ <<j, 3>> \in typed => <<j, 3>> \in typed'
  BY DEF TypeOver
<1>6. ASSUME NEW n \in 0 .. MaxInputs, col = 2, items' = [items EXCEPT ![r].count = n]
      PROVE  CellsInv'
  <2> DEFINE f == [from |-> b.from, count |-> n, event_mask |-> b.event_mask]
  <2>1. n \in Nat
    BY InputsAssumption
  <2>2. CountSet(items, r, n)
    BY <1>1, <2>1, CountField
  <2>3. items' = [items EXCEPT ![r] = f]
    BY <1>6, <2>2 DEF CountSet
  <2>4. f \in PubInfo
    BY <1>2, <2>1 DEF PubInfo
  <2>5. /\ f.from = a.from /\ <<r, 2>> \in typed'
        /\ <<r, 3>> \in typed' \/ f.event_mask = a.event_mask
    BY <1>3, <1>6 DEF Shows, TypeOver
  <2> HIDE DEF a, f
  <2> QED
    BY <1>1, <1>2, <1>4, <1>5, <2>3, <2>4, <2>5, CellsStep
<1>7. ASSUME NEW m \in SUBSET Events, col = 3, items' = [items EXCEPT ![r].event_mask = m]
      PROVE  CellsInv'
  <2> DEFINE f == [from |-> b.from, count |-> b.count, event_mask |-> m]
  <2>1. MaskSet(items, r, m)
    BY <1>1, MaskField
  <2>2. items' = [items EXCEPT ![r] = f]
    BY <1>7, <2>1 DEF MaskSet
  <2>3. f \in PubInfo
    BY <1>2 DEF PubInfo
  <2>4. /\ f.from = a.from /\ <<r, 3>> \in typed'
        /\ <<r, 2>> \in typed' \/ f.count = a.count
    BY <1>3, <1>7 DEF Shows, TypeOver
  <2> HIDE DEF a, f
  <2> QED
    BY <1>1, <1>2, <1>4, <1>5, <2>2, <2>3, <2>4, CellsStep
<1> QED
  BY <1>6, <1>7 DEF TypeOver

\* No other step touches the list.
EventsKept == UNCHANGED <<m_pub_info, items, typed, heard, seen>>

LEMMA StepEvents == ListInv /\ [Next]_vars => ListInv'
<1> SUFFICES ASSUME ListInv, [Next]_vars PROVE ListInv'
  OBVIOUS
<1>1. CASE EventsKept
  BY <1>1 DEF EventsKept, ListInv, EventInv, CellsInv, Shows, HistoryTypes, Accounted
<1>2. CASE User
  <2>1. CASE OpenDialog
    BY <1>1, <2>1 DEF OpenDialog, EventsKept
  <2>2. ASSUME NEW row \in DOMAIN items, NEW col,
               OnOpenFPGA_fromModel(row, col) \/ TypeOverCell(row, col)
        PROVE  ListInv'
    <3>1. CASE Reset(row, col)
      BY <3>1, ResetStep, ResetCells DEF ListInv
    <3>2. CASE TypeOver(row, col)
      <4>1. EventInv'
        BY <3>2 DEF TypeOver, ListInv, EventInv, HistoryTypes, Accounted
      <4> QED
        BY <3>2, <4>1, TypeOverCells DEF ListInv
    <3> QED
      BY <2>1, <2>2, <3>1, <3>2 DEF OnOpenFPGA_fromModel, TypeOverCell
  <2>3. CASE UNCHANGED eventVars
    BY <1>1, <2>3 DEF eventVars, EventsKept
  <2> QED
    BY <1>2, <2>1, <2>2, <2>3 DEF User, OnOpenFPGA_fromMenu, DialogRefused, FileRefused,
       RaiseWindow, NewWindow, CloseEvent, CloseWindow, DismissMessage, DismissFailure, Quit
<1>3. ASSUME NEW w \in Windows,
             \/ OnCnxTimeout(w) \/ OnCnxFailed(w) \/ DeleteWindow(w)
             \/ \E pkt \in Packets : OnCnxPacket(w, pkt)
      PROVE  ListInv'
  <2>1. UNCHANGED eventVars
    BY <1>3 DEF OnCnxTimeout, OnCnxFailed, DeleteWindow, OnCnxPacket, Handled
  <2> QED
    BY <1>1, <2>1 DEF eventVars, EventsKept
<1>4. CASE \E s \in Sources, mask \in Masks : RecvData(s, mask)
  BY <1>4, AnnounceStep, AnnounceCells DEF RecvData, ListInv
<1>5. CASE UNCHANGED vars
  BY <1>1, <1>5 DEF vars, eventVars, EventsKept
<1> QED
  BY <1>2, <1>3, <1>4, <1>5 DEF Next

\* No source has two records, and record and row, but for what the user typed, tell the
\* packets and the events that have come from it since they were cleared.
THEOREM EventsAccounted == Spec => []AnnouncementsAccounted
<1>1. Init => ListInv
  <2> SUFFICES ASSUME Init PROVE ListInv
    OBVIOUS
  <2>1. m_pub_info = <<>> /\ items = <<>> /\ DOMAIN m_pub_info = {}
    BY DEF Init, EventInit
  <2>2. m_pub_info \in Seq(PubInfo) /\ items \in Seq(PubInfo) /\ Len(items) = Len(m_pub_info)
    BY <2>1
  <2>3. /\ HistoryTypes /\ \A s \in Sources : heard[s] = 0 /\ seen[s] = {}
    BY DEF Init, EventInit, HistoryTypes
  <2> QED
    BY <2>1, <2>2, <2>3 DEF ListInv, EventInv, CellsInv
<1> QED
  BY <1>1, StepEvents, ListInvImplies, PTL DEF Spec

================================================================================
