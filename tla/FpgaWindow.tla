------------------------------- MODULE FpgaWindow ------------------------------
(***************************************************************************)
(* One FPGA window, class Fpga_window of                                   *)
(* gemini-viewer/src/gui_view/fpga_window.cpp: it shows a region of the    *)
(* FPGA's registers in a table and keeps reading them, while its user      *)
(* changes the region, writes registers, uploads and downloads.            *)
(*                                                                         *)
(* Slots of the event loop are actions.  A dialog runs an event loop of    *)
(* its own inside a slot, so opening it and going on after it are two      *)
(* actions.  The connection is the one RegisterService specifies: it       *)
(* answers what it was asked in order, until it is given up (external).    *)
(*                                                                         *)
(* Register values are left out: a row shows the address its value was     *)
(* read from.  So are colours, bold type, tool tips and log messages.      *)
(***************************************************************************)
EXTENDS RegBlocks, FiniteSets

CONSTANTS
    Ports,          \* the loaded address map, in order of address
    Payloads,       \* what the FPGA may allow as registers in one transaction
    UserBases,      \* what the user may type as base address
    UserLengths,    \* and as length
    Commands,       \* what the user does: a subset of "write", "upload", "download"
    UploadLengths,  \* registers in a section of an uploaded file
    Locked,         \* names of download files that cannot be opened
    MayNack,        \* does the FPGA refuse some requests?
    MayFail,        \* may the connection be refused or be given up?
    MaxEdits,       \* bound: changes of the displayed region
    MaxCommands,    \* bound: commands
    MaxPending      \* bound: the loop starts over with fewer pending requests only

ASSUME PayloadAssumption == Payloads \subseteq Nat \ {0}
ASSUME UserAssumption == UserBases \subseteq Nat /\ UserLengths \subseteq Nat
ASSUME CommandsAssumption == Commands \subseteq {"write", "upload", "download"}
ASSUME UploadAssumption == UploadLengths \subseteq Nat
ASSUME FailureAssumption == MayNack \in BOOLEAN /\ MayFail \in BOOLEAN
ASSUME BoundsAssumption == MaxEdits \in Nat /\ MaxCommands \in Nat /\ MaxPending \in Nat

\* The window shows ports that Address_map has loaded, which span their fields
\* (AddressMap: PortIsHull).
ASSUME PortsAssumption ==
    /\ Ports \in Seq([name : STRING, base_addr : Nat, n_regs : Nat \ {0}, fields : SUBSET Field])
    /\ \A i \in DOMAIN Ports :
        IsFiniteSet(Ports[i].fields) /\ FieldsApart(Ports[i]) /\ SpansFields(Ports[i])

VARIABLES
    m_tableBase, m_numRegs,             \* the region to display
    m_lastTableBase, m_lastNumRegs,     \* the region the table was built for
    m_reg_blks, m_reg_blk_idx,          \* blocks to read, and which is being read
    rows,               \* m_tableWidget: address label and value of each row
    m_dlyTimer,         \* is the delay timer running?
    m_continueRunning,
    net,                \* the connection: "connecting", "up" or "down"
    m_maxPayloadWords,  \* of the connection: registers in one transaction
    pending,            \* transactions not answered yet, oldest first
    window,             \* "hidden", "shown", "closed" or "deleted"
    dialog,             \* the dialog a slot is waiting for
    box,                \* is the message box about a failure open?
    m_dl_filename,
    files,              \* downloaded: registers announced and registers written
    edits, commands,    \* history: number of edits, and commands given so far
    fault               \* what the program has run into

region == <<m_tableBase, m_numRegs, m_reg_blks>>
table == <<m_lastTableBase, m_lastNumRegs, rows>>
poll == <<m_reg_blk_idx, m_dlyTimer, m_continueRunning>>
frame == <<net, window, dialog, box>>
download == <<m_dl_filename, files>>
user == <<edits, commands>>
vars == <<region, table, poll, frame, download, user, m_maxPayloadWords, pending, fault>>

NoValue == -1
NoDialog == [kind |-> "none"]
Unparented == {"download", "error", "file_error"}
Files == {"a.txt", "b.txt"}

--------------------------------------------------------------------------------
(* Requests and results.                                                     *)

Registers(base, len) == base .. (base + len - 1)

\* RwChannel::rw on a connection: one transaction for each m_maxPayloadWords registers.
PiecesOneTooMany(len) == len \div m_maxPayloadWords + 1
Pieces(len) == (len + m_maxPayloadWords - 1) \div m_maxPayloadWords
Request(ch, base, len, op) ==
    [k \in 1 .. Pieces(len) |->
        LET start == (k - 1) * m_maxPayloadWords
        IN  [ch |-> ch, base |-> base + start, op |-> op,
             len |-> IF len - start < m_maxPayloadWords THEN len - start ELSE m_maxPayloadWords]]

\* The first block from index i on that is not a hole; the size of the list if
\* there is none.  Indices count from 0 as in the code.
Size == Len(m_reg_blks)
NextUpToHole(i) ==
    IF i < Size /\ ~m_reg_blks[i + 1].is_hole THEN i ELSE Size
NextReadable(i) ==
    LET readable == {j \in i .. (Size - 1) : ~m_reg_blks[j + 1].is_hole}
    IN  IF readable = {} THEN Size ELSE CHOOSE j \in readable : \A k \in readable : j <= k

\* m_update_ch->rw for block i, after the requests of queue; at() throws when
\* there is no such block.
ReadBlock(i, queue) ==
    IF i < Size
    THEN /\ pending' = queue \o Request("update", m_reg_blks[i + 1].base,
                                        m_reg_blks[i + 1].len, "read")
         /\ UNCHANGED fault
    ELSE /\ pending' = queue
         /\ fault' = "out_of_range"

--------------------------------------------------------------------------------
(* The polling loop.                                                         *)

RegionChanged == m_tableBase # m_lastTableBase \/ m_numRegs # m_lastNumRegs

\* add_remove_tablewidgets and adjust_address_display: a row for each register,
\* labelled, without a value.
NewRows == [r \in 1 .. m_numRegs |-> [addr |-> m_tableBase + r - 1, shown |-> NoValue]]

\* add_remove_tablewidgets counts an unsigned row down while row >= m_numRegs.
RemovalEnds == m_numRegs < m_lastNumRegs => m_numRegs > 0

\* updateFromFPGA2 when queue is pending.
UpdateFromFPGA2(queue) ==
    \/ /\ ~m_continueRunning
       /\ pending' = queue
       /\ UNCHANGED <<table, m_reg_blk_idx, fault>>
    \/ /\ m_continueRunning
       /\ RegionChanged /\ ~RemovalEnds
       /\ fault' = "hang"
       /\ pending' = queue
       /\ UNCHANGED <<table, m_reg_blk_idx>>
    \/ /\ m_continueRunning
       /\ RegionChanged => RemovalEnds
       /\ rows' = IF RegionChanged THEN NewRows ELSE rows
       /\ m_lastTableBase' = m_tableBase
       /\ m_lastNumRegs' = m_numRegs
       /\ m_reg_blk_idx' = NextReadable(0)
       /\ ReadBlock(NextReadable(0), queue)

OnDelayDone ==
    /\ fault = "none" /\ window # "deleted"
    /\ m_dlyTimer
    /\ Len(pending) < MaxPending
    /\ m_dlyTimer' = FALSE
    /\ UpdateFromFPGA2(pending)
    /\ UNCHANGED <<region, m_continueRunning, frame, download, user, m_maxPayloadWords>>

\* onUpdate2Done, nothing received: it goes through m_numRegs rows, of which
\* the table may have fewer, and waits for the timer.
ClearAllRows ==
    /\ rows' = [r \in DOMAIN rows |-> [rows[r] EXCEPT !.shown = NoValue]]
    /\ UNCHANGED <<m_reg_blk_idx, m_dlyTimer, m_lastTableBase, m_lastNumRegs, fault>>
ClearRows ==
    /\ m_dlyTimer' = TRUE
    /\ IF m_numRegs > Len(rows)
       THEN /\ fault' = "null_item"
            /\ UNCHANGED rows
       ELSE /\ rows' = [r \in DOMAIN rows |-> IF r <= m_numRegs
                                              THEN [rows[r] EXCEPT !.shown = NoValue]
                                              ELSE rows[r]]
            /\ UNCHANGED fault
    /\ UNCHANGED <<m_reg_blk_idx, m_lastTableBase, m_lastNumRegs>>

\* The rows once the answer to trans is in them: which row a register goes to
\* depends on m_tableBase at this time.
Show(trans) ==
    [r \in DOMAIN rows |->
        IF m_tableBase + r - 1 \in Registers(trans.base, trans.len)
        THEN [rows[r] EXCEPT !.shown = m_tableBase + r - 1]
        ELSE rows[r]]

\* The index after the next block: past the end it is only counted up, and goes on
\* from there if the list has become longer by then.
NextIndex ==
    IF m_reg_blk_idx + 1 >= Size THEN m_reg_blk_idx + 1 ELSE NextReadable(m_reg_blk_idx + 1)

\* Have all blocks been read?
SweepEndsLate(i) == i > Size
SweepEnds(i) == i >= Size

\* onUpdate2Done, registers read: show them and read the next block, or let the
\* timer start over when that was the last.
ShowAndDelay(trans) ==
    LET next == NextIndex
    IN  /\ rows' = Show(trans)
        /\ m_reg_blk_idx' = next
        /\ m_dlyTimer' = TRUE
        /\ IF SweepEnds(next) THEN pending' = Tail(pending) /\ UNCHANGED fault
                              ELSE ReadBlock(next, Tail(pending))
ShowAndReadOn(trans) ==
    LET next == NextIndex
    IN  /\ rows' = Show(trans)
        /\ m_reg_blk_idx' = next
        /\ \/ /\ SweepEnds(next)
              /\ m_dlyTimer' = TRUE
              /\ pending' = Tail(pending)
              /\ UNCHANGED fault
           \/ /\ ~SweepEnds(next)
              /\ ReadBlock(next, Tail(pending))
              /\ UNCHANGED m_dlyTimer

OnUpdate2Done(trans, isAck) ==
    \/ /\ ~isAck
       /\ ClearRows
       /\ pending' = Tail(pending)
    \/ /\ isAck /\ trans.op = "write"       \* part of an upload
       /\ m_dlyTimer' = TRUE
       /\ pending' = Tail(pending)
       /\ UNCHANGED <<table, m_reg_blk_idx, fault>>
    \/ /\ isAck /\ trans.op = "read"
       /\ ShowAndReadOn(trans)
       /\ UNCHANGED <<m_lastTableBase, m_lastNumRegs>>

\* onDownloadResult: registers are appended to the file named last, if it opens.
OnDownloadResult(trans, isAck) ==
    /\ files' = IF isAck /\ m_dl_filename \notin Locked
                THEN [files EXCEPT ![m_dl_filename].got = @ \cup Registers(trans.base, trans.len)]
                ELSE files
    /\ pending' = Tail(pending)
    /\ UNCHANGED <<table, m_reg_blk_idx, m_dlyTimer, fault>>

\* The FPGA answers the oldest request.
Result(isAck) ==
    /\ fault = "none" /\ window # "deleted"
    /\ pending # <<>>
    /\ isAck \/ MayNack
    /\ \/ /\ pending[1].ch = "update"
          /\ OnUpdate2Done(pending[1], isAck)
          /\ UNCHANGED files
       \/ /\ pending[1].ch = "download"
          /\ OnDownloadResult(pending[1], isAck)
       \/ /\ pending[1].ch = "writer"       \* onRegWriteDone only logs
          /\ pending' = Tail(pending)
          /\ UNCHANGED <<table, m_reg_blk_idx, m_dlyTimer, files, fault>>
    /\ UNCHANGED <<region, m_continueRunning, frame, m_dl_filename, user, m_maxPayloadWords>>

--------------------------------------------------------------------------------
(* The user changes the region.                                              *)

AtWork == fault = "none" /\ window = "shown" /\ dialog.kind = "none" /\ ~box

Edit ==
    /\ AtWork
    /\ edits < MaxEdits
    /\ edits' = edits + 1
    /\ UNCHANGED <<table, poll, frame, download, commands, m_maxPayloadWords, pending, fault>>

OnBaseAddrChange(val) ==
    /\ Edit
    /\ m_tableBase' = val
    /\ m_reg_blks' = <<Block(val, m_numRegs, FALSE)>>
    /\ UNCHANGED m_numRegs

OnLengthChange(val) ==
    /\ Edit
    /\ m_numRegs' = val
    /\ m_reg_blks' = <<Block(m_tableBase, val, FALSE)>>
    /\ UNCHANGED m_tableBase

OnTreeWidgetItemSelectionChanged(i) ==
    /\ Edit
    /\ m_tableBase' = Ports[i].base_addr
    /\ m_numRegs' = Ports[i].n_regs
    /\ m_reg_blks' = RegReadList(Ports[i])

--------------------------------------------------------------------------------
(* Commands, each with a dialog in the middle of the slot.                   *)

OpenDialog(d) ==
    /\ AtWork
    /\ d.kind \in Commands
    /\ Len(commands) < MaxCommands
    /\ commands' = Append(commands, d.kind)
    /\ dialog' = d
    /\ UNCHANGED <<region, table, poll, net, window, box, download, edits,
                   m_maxPayloadWords, pending, fault>>

\* onItemDoubleClicked: the address comes from m_tableBase, not from the row.
AddressOfRow(r) == m_tableBase + r - 1
OnItemDoubleClicked(r) ==
    OpenDialog([kind |-> "write", addr |-> AddressOfRow(r), label |-> rows[r].addr])

OnUploadClicked == OpenDialog([kind |-> "upload"])
OnDownloadClicked == OpenDialog([kind |-> "download"])

\* The dialog is done with and its slot goes on: to the end, or to another dialog.
DialogTurns(kind, next) ==
    /\ fault = "none" /\ ~box /\ window # "closed"
    /\ dialog.kind = kind
    /\ dialog' = [kind |-> next]
    /\ UNCHANGED <<region, table, poll, net, window, box, user, m_maxPayloadWords>>
DialogDone(kind) == DialogTurns(kind, "none")

Cancel ==
    /\ \E kind \in {"write", "upload", "download"} : DialogDone(kind)
    /\ UNCHANGED <<download, pending, fault>>

WriteRegister ==
    /\ DialogDone("write")
    /\ pending' = pending \o Request("writer", dialog.addr, 1, "write")
    /\ UNCHANGED <<download, fault>>

\* A file of up to two sections, written over the update channel.  A section that
\* is left out, for its header or for its data, is one of no registers.
Upload(first, second) ==
    /\ DialogDone("upload")
    /\ pending' = pending \o Request("update", 0, first, "write")
                          \o Request("update", 0, second, "write")
    /\ UNCHANGED <<download, fault>>

\* The file cannot be opened for the upload, or what was typed for the download is
\* not valid: a message box, after which the slot uses nothing of its window.  A name
\* that is looked up in a deleted window is Download's fault, be it valid or not.
RefuseInput ==
    /\ \E kind \in {"upload", "download"} : DialogTurns(kind, "error")
    /\ UNCHANGED <<download, pending, fault>>

\* The slot goes on in the window it belongs to, if that still exists: find_addr
\* looks the register up in m_am.
InWindow(goesOn) ==
    \/ /\ window = "deleted"
       /\ fault' = "use_after_free"
       /\ UNCHANGED <<download, pending>>
    \/ /\ window # "deleted"
       /\ goesOn
       /\ UNCHANGED fault

Download(file, base, len) ==
    /\ file \notin Locked
    /\ DialogDone("download")
    /\ InWindow(/\ m_dl_filename' = file
                /\ files' = [files EXCEPT ![file] = [asked |-> Registers(base, len), got |-> {}]]
                /\ pending' = pending \o Request("download", base, len, "read"))

\* The file has been named already when it cannot be opened, and is once more
\* after the message box, for the log.
DownloadFails(file) ==
    /\ file \in Locked
    /\ DialogTurns("download", "file_error")
    /\ InWindow(m_dl_filename' = file /\ UNCHANGED <<files, pending>>)

DismissError ==
    \/ /\ DialogDone("error")
       /\ UNCHANGED <<download, pending, fault>>
    \/ /\ DialogDone("file_error")
       /\ InWindow(UNCHANGED <<download, pending>>)

--------------------------------------------------------------------------------
(* Beginning and end.                                                        *)

\* onConnectResult: show the window and start polling, or report the failure.
OnConnectResult(isOk) ==
    /\ fault = "none"
    /\ net = "connecting"
    /\ \/ /\ isOk
          /\ net' = "up" /\ window' = "shown"
          /\ UpdateFromFPGA2(pending)
          /\ UNCHANGED box
       \/ /\ ~isOk /\ MayFail
          /\ net' = "down" /\ box' = TRUE
          /\ UNCHANGED <<table, m_reg_blk_idx, pending, fault, window>>
    /\ UNCHANGED <<region, m_dlyTimer, m_continueRunning, dialog, download, user,
                   m_maxPayloadWords>>

\* The connection is given up while something is pending: each request is
\* reported as timed out, then onCnxFailed opens a message box.
ConnectionFails ==
    /\ fault = "none" /\ window # "deleted"
    /\ MayFail
    /\ net = "up" /\ pending # <<>>
    /\ net' = "down"
    /\ \/ /\ \E i \in DOMAIN pending : pending[i].ch = "update"
          /\ ClearRows
       \/ /\ \A i \in DOMAIN pending : pending[i].ch # "update"
          /\ UNCHANGED <<table, m_reg_blk_idx, m_dlyTimer, fault>>
    /\ pending' = <<>>
    /\ m_continueRunning' = FALSE
    /\ box' = TRUE
    /\ UNCHANGED <<region, window, dialog, download, user, m_maxPayloadWords>>

\* The window closes and is to be deleted: by its user, or after the box.
Close ==
    /\ window' = "closed"
    /\ m_continueRunning' = FALSE
    /\ UNCHANGED <<region, table, m_reg_blk_idx, m_dlyTimer, net, dialog, download, user,
                   m_maxPayloadWords, pending, fault>>

CloseEvent ==
    /\ AtWork
    /\ Close
    /\ UNCHANGED box

DismissBox ==
    /\ fault = "none"
    /\ box
    /\ box' = FALSE
    /\ Close

\* MainWindow::onFpgaWinClose asks for deletion later: when control is back in
\* the event loop, which may be that of a dialog.  Dialogs that belong to the
\* window go with it and their slots end there; the download dialog and the
\* message boxes of its slot and of an upload do not.
\* The loop of a message box opened since is not one the window is deleted in.
DeleteLater ==
    /\ fault = "none"
    /\ window = "closed" /\ ~box
    /\ window' = "deleted"
    /\ m_dlyTimer' = FALSE
    /\ pending' = <<>>
    /\ dialog' = IF dialog.kind \in Unparented THEN dialog ELSE NoDialog
    /\ UNCHANGED <<region, table, m_reg_blk_idx, m_continueRunning, net, box, download,
                   user, m_maxPayloadWords, fault>>

--------------------------------------------------------------------------------

\* The constructor shows the first port, or one register if the map is empty.  What
\* the FPGA is going to tell about payloads is not used before it is connected.
Init ==
    /\ m_tableBase = IF Ports = <<>> THEN 0 ELSE Ports[1].base_addr
    /\ m_numRegs = IF Ports = <<>> THEN 1 ELSE Ports[1].n_regs
    /\ m_reg_blks = IF Ports = <<>> THEN <<Block(0, 1, FALSE)>> ELSE RegReadList(Ports[1])
    /\ m_lastTableBase = 0 /\ m_lastNumRegs = 0
    /\ rows = NewRows
    /\ m_reg_blk_idx = 0
    /\ m_dlyTimer = FALSE
    /\ m_continueRunning = TRUE
    /\ net = "connecting" /\ window = "hidden" /\ dialog = NoDialog /\ box = FALSE
    /\ m_dl_filename = ""
    /\ files = [f \in Files |-> [asked |-> {}, got |-> {}]]
    /\ edits = 0 /\ commands = <<>>
    /\ m_maxPayloadWords \in Payloads
    /\ pending = <<>>
    /\ fault = "none"

Program ==
    \/ OnDelayDone
    \/ \E isAck \in BOOLEAN : Result(isAck)
    \/ \E isOk \in BOOLEAN : OnConnectResult(isOk)
    \/ DeleteLater

AfterDialog ==
    \/ Cancel
    \/ WriteRegister
    \/ \E first, second \in UploadLengths : Upload(first, second)
    \/ RefuseInput
    \/ \E file \in Files, base \in UserBases : Download(file, base, 2)
    \/ \E file \in Files : DownloadFails(file)
    \/ DismissError

User ==
    \/ \E val \in UserBases : OnBaseAddrChange(val)
    \/ \E val \in UserLengths : OnLengthChange(val)
    \/ \E i \in DOMAIN Ports : OnTreeWidgetItemSelectionChanged(i)
    \/ \E r \in DOMAIN rows : OnItemDoubleClicked(r)
    \/ OnUploadClicked
    \/ OnDownloadClicked
    \/ AfterDialog
    \/ CloseEvent
    \/ DismissBox

Next == Program \/ User \/ ConnectionFails

Spec == Init /\ [][Next]_vars

\* Timers fire, and requests are answered, as GeminiComms ensures, or given up.
FairSpec ==
    /\ Spec
    /\ WF_vars(OnDelayDone)
    /\ WF_vars(ConnectionFails \/ \E isAck \in BOOLEAN : Result(isAck))

--------------------------------------------------------------------------------
(* Properties.                                                               *)

\* Every variable keeps its type.
TypeOK ==
    /\ {m_tableBase, m_numRegs, m_lastTableBase, m_lastNumRegs, m_reg_blk_idx} \subseteq Nat
    /\ m_reg_blks \in Seq([base : Nat, len : Nat, is_hole : BOOLEAN])
    /\ rows \in Seq([addr : Nat, shown : Nat \cup {NoValue}])
    /\ m_dlyTimer \in BOOLEAN /\ m_continueRunning \in BOOLEAN /\ box \in BOOLEAN
    /\ net \in {"connecting", "up", "down"}
    /\ m_maxPayloadWords \in Payloads
    /\ pending \in Seq([ch : {"update", "writer", "download"}, base : Nat, len : Nat \ {0},
                        op : {"read", "write"}])
    /\ window \in {"hidden", "shown", "closed", "deleted"}
    /\ dialog.kind \in {"none", "write", "upload"} \cup Unparented
    /\ m_dl_filename \in Files \cup {""}
    /\ files \in [Files -> [asked : SUBSET Nat, got : SUBSET Nat]]
    /\ edits \in 0 .. MaxEdits
    /\ commands \in Seq({"write", "upload", "download"}) /\ Len(commands) <= MaxCommands
    /\ fault \in {"none", "hang", "null_item", "out_of_range", "use_after_free"}

\* The polling loop has no thread of its own: each result must ask for the next
\* one or start the timer, on every path through onUpdate2Done, whatever the
\* user does to the region and whichever dialogs are open.
UpdatesPending == {i \in DOMAIN pending : pending[i].ch = "update"}
PollingContinues ==
    net = "up" /\ window = "shown" /\ fault = "none" => m_dlyTimer \/ UpdatesPending # {}

\* The list of blocks is replaced by edits while m_reg_blk_idx points into it,
\* and two loops may advance the index; at() still never throws.
IndexInRange == fault # "out_of_range"

\* fpga_window.h:36-39: one channel requests regular updates, others serve
\* writing, uploads and downloads; so one request of the loop is out at a time,
\* or its timer runs.  But uploads use the update channel (lines 833 and 887):
\* each starts another loop.  So does a region of several transactions, whose
\* results each go on with the loop.
NoUpload == \A i \in DOMAIN commands : commands[i] # "upload"
RegionLengths == {1} \cup UserLengths \cup {Ports[i].n_regs : i \in DOMAIN Ports}
MaxRows == CHOOSE n \in RegionLengths : \A m \in RegionLengths : m <= n
EveryRegionFits == \A n \in RegionLengths : n <= m_maxPayloadWords
SinglePoll ==
    NoUpload /\ EveryRegionFits =>
        Cardinality(UpdatesPending) + (IF m_dlyTimer THEN 1 ELSE 0) <= 1

\* Row r belongs to a register that the window of a good connection is to show.
Displayed(r) ==
    /\ net = "up" /\ window = "shown" /\ fault = "none"
    /\ r \in 1 .. m_numRegs
    /\ \E i \in DOMAIN m_reg_blks :
        /\ ~m_reg_blks[i].is_hole
        /\ AddressOfRow(r) \in Registers(m_reg_blks[i].base, m_reg_blks[i].len)

\* A result of the loop puts the register of row r into the row labelled with it.
RowRefreshed(r) ==
    /\ Result(TRUE)
    /\ pending[1].ch = "update" /\ pending[1].op = "read"
    /\ r \in DOMAIN rows
    /\ AddressOfRow(r) \in Registers(pending[1].base, pending[1].len)
    /\ rows'[r] = [addr |-> AddressOfRow(r), shown |-> AddressOfRow(r)]

Refused == Result(FALSE) /\ pending[1].ch = "update"

\* A register that stays on display is read and shown again and again, whatever the
\* user did to the region, wrote or uploaded before, unless the FPGA goes on refusing
\* the requests of the loop for ever: every path through onUpdate2Done leads to all
\* the blocks, whichever sweep or upload the result it is called for belongs to.
EveryRowRefreshed ==
    \A r \in 1 .. MaxRows :
        <>[]Displayed(r) => \/ []<><<RowRefreshed(r)>>_vars
                            \/ []<><<Refused>>_vars

\* fpga_window.cpp:393: when nothing was received the rows show so.
FailureIsShown == fault # "null_item"

\* fpga_window.cpp:749: a double click on the value of a register writes to
\* that register.
WritesWhereLabelled == dialog.kind = "write" => dialog.addr = dialog.label

\* fpga_window.cpp:1001: a download file starts with a header that says which
\* registers follow; it holds no others.
DownloadsKeptApart == \A f \in Files : files[f].got \subseteq files[f].asked

\* fpga_window.cpp:335: the parent is told of the closed window, which it then
\* deletes; no slot of the window is still to go on.
ClosedWindowIsDone == fault # "use_after_free"

================================================================================
