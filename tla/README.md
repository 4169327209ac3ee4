# low-cbf-tools in TLA+

A verification development for the repository's two programs:

- **gemini-viewer**, a Qt application that shows and changes the registers of FPGAs over the
  *Gemini* register protocol (UDP);
- **lfaa-sim**, a command-line program that replays recorded station data as timed UDP packets.

The core is the register protocol client: it decides which register writes an FPGA executes, how
often, in which order, and what the user is told about them. On top of it are the handshake that
makes the connection, the window that drives the client for its user, the address map it shows, and
the main window that opens and closes these windows. lfaa-sim is modelled from the loaded files to
the last packet. Each of these is model-checked, and the safety of most is proved for all sizes.

Source paths are relative to the repository; `gemini_comms.cpp` stands for
`gemini-viewer/src/gemini_comms/gemini_comms.cpp`, and so on.

## 1. Inventory

### Gemini_comms, data phase (`gemini_comms.cpp:309-471, 473-589, 638-654`)

*State.* `m_transList` (transactions not yet retired, oldest first, each with its `sendCount`,
`cli_seq` and the slot `ctx` of its channel), `m_numInTransit`, `m_waitingForRetryResponse`,
`m_cli_seq` (8 bits), `m_isConnected`, a single-shot timer, `m_chans`.

*Operations.* `rw` cuts a request in pieces of at most `m_maxPayloadWords` registers and calls
`trySendTransactions`, which sends unsent transactions while fewer than `m_pipelineLen` are in
flight. `onPktRxReady` retires the oldest transaction when an ACK or NACKP carries its number, and
goes back to the oldest transaction (`resendOldestTransaction`) on a NACKT or any other number,
unless it did so already and waits for the answer. `onPktTimeout` goes back as well; after
`m_maxRetries` resends of one transaction it gives the connection up (`closeConnection`,
`cnx_failed`).

*Interaction.* Called by RwChannel; calls back through the signals `result` and `cnx_failed`;
exchanges datagrams with an FPGA whose firmware is not part of the repository.

*What is hard.* Three records of the same fact (in-flight counter, `sendCount` marks, sequence
number) must agree through every mix of replies, resends, late timers and new requests. Replies
carry only an 8-bit number. Packets are lost, and replies may come after the timeout.

*Correct when* the counter, the marks and the numbers agree; a transaction has one number for life;
the timer runs exactly when needed; requests are answered once, in order, to their own channel;
the FPGA executes every transaction at most once and in order; every request ends.

### RwChannel (`gemini_comms.cpp:656-740`)

*State.* A pointer per slot in `m_chans`. *Operations.* `openChannel` takes the first empty slot
that no pending transaction refers to, `dispose` empties it, `rw` forwards to the connection or,
once that failed, reports a timeout at once. *Hard:* slots are reused while transactions of disposed
channels are still pending. *Correct when* no channel sees another one's results.

### Connecting (`gemini_comms.cpp:151-306`)

*State.* `m_cnxRetryCount`, the timer, which slots are connected to the socket and the timer.
*Operations.* `udpConnect`, `onCnxTimeout` (send CNX, give up after `m_maxRetries`), `onCnxRxReady`
(ACK takes payload size and pipeline length from the packet; NACKT and NACKP fail; everything else
is ignored), the destructor. *Hard:* the first acknowledgement may be one of several under way; a
short packet is used in spite of its length (line 201); the window may be destroyed meanwhile.
*Correct when* one outcome is reported and reported once, in bounded time, and the state left is the
one the data phase starts from.

### Received packet trace (`gemini_comms.cpp:592-636`)

A ring of the last packets, 64 bytes of each, printed when a reply looks wrong. Line 619 prints as
many bytes as were received, not as many as were kept.

### Fpga_window (`fpga_window.cpp`)

*State.* Displayed region (`m_tableBase`, `m_numRegs`, `m_reg_blks`), what the table was built for
(`m_lastTableBase`, `m_lastNumRegs`), the block being read (`m_reg_blk_idx`), the delay timer,
four channels, `m_continueRunning`. *Operations.* A polling chain (`updateFromFPGA2` requests a
block, `onUpdate2Done` shows it and requests the next, the delay timer starts the chain again),
the user's edits of base, length and tree selection, register writes, uploads, downloads,
failure and close. *Hard:* every edit falls between a request and its answer; uploads are answered
on the polling channel; dialogs run an event loop of their own, in which the window may fail and be
deleted. *Correct when* polling never stops or doubles, blocks are only read that exist, the table is
only indexed where it has rows, what is shown becomes current, writes go to the address shown, and
downloads end up in their own files.

### Address_map (`address_map.cpp`)

*State.* `m_axi_ports` (ports with their fields), `is_loaded`. *Operations.* `load` and the parsers
of each field kind, `save_field` (a port covers its fields), name and address lookup, and
`get_reg_read_list` (`fpga_window.cpp:1081`), which splits a port into blocks. *Hard:* fields come in
any order and the port grows at one end at a time; lookup and splitting rely on sorted fields.
*Correct when* a port spans its fields exactly, the blocks to read partition it, and each register is
called after the fields it belongs to.

### MainWindow and the dialog that opens an FPGA (`mainwindow.cpp`, `open_fpga_dlg.cpp`)

*State.* `m_fpga_windows`, the windows themselves (hidden while they connect, shown, closed, deleted),
and the stack of nested event loops. *Operations.* `openFPGA` from the menu or from a row of the list
of events, raising a window that exists, `onFpgaWinClose`, the destructor. *Hard:* `exec` of a dialog
and every message box runs a loop in which timers and packets are served, so that connections fail
while another dialog is up, boxes pile up, and windows are deleted at some depth; a window is in the
list before it can be seen. *Correct when* an FPGA has one window at most, and no window that nobody
sees stays in the list and blocks its FPGA.

### Event_model and Pub_client (`event_model.cpp`, `pub_client.cpp`)

*State.* `m_pub_info` and the rows of the view, two copies known by number. *Operations.*
`on_pkt_ready_read` (every datagram that has come), `recv_data`, `reset` (a click on a count or a mask).
*Hard:* rows are added and cleared while announcements go on arriving, and the two copies are updated
apart; the items of a new row cannot be edited, those that replace them can, and nobody listens to what
the user types there. *Correct when* each source has one record and its row, and they tell what has come
since it was cleared, wherever the user did not type over it.

### Download dialog, start-up (`download_dialog.cpp`, `gemini-viewer/src/gui_view/main.cpp`)

The dialog checks the numbers in a form; start-up installs a log handler and shows the main window.

### lfaa-sim (`lfaa-sim/main.cpp`, `lfaa_tx_data.cpp`, `bigfile.cpp`)

*State.* One message per header (payload, delay in whole microseconds), the next send time in
seconds and microseconds, a counter of channels, the clock. *Operations.* `load_header_file`,
`load_data_file`, the loop of `main` that adds a delay, carries, compares with the clock, waits with
`select` once a round, and sends. *Hard:* one thread, but arithmetic by hand in three places
(remainders of delays, carry, borrow) that must agree; failures of loading are ignored by `main`; the
clock goes on between any two steps. *Correct when* no time is lost or counted twice, packets are not
sent early by a round, payloads stay inside their buffer, and all packets are sent.

## 2. Modules

| Module | Models | Kind |
|---|---|---|
| `RegisterService` | what a connection promises its channels | abstract specification |
| `GeminiComms` | `Gemini_comms` (connected) and `RwChannel`, network open | component |
| `GeminiSystem` | `GeminiComms` composed with an FPGA and a lossy network (both external) | system |
| `GeminiCommsProofs` | the window, its loops and numbers; `GeminiComms` implements `RegisterService` | proofs |
| `GeminiSystemProofs` | execution in order and matching of answers, on any lossy network | proofs |
| `GeminiTimelyProofs` | buffer, retries and giving up, on networks faster than the timeout | proofs |
| `Connector` | what a connection attempt promises its caller | abstract specification |
| `GeminiCnx` | `udpConnect` and its two slots, for every window | component |
| `EventModel` | `Event_model` and `Pub_client` | component |
| `MainWindow` | `MainWindow` composed with `GeminiCnx` and `EventModel` | system |
| `MCMainWindow` | the event masks of two FPGAs | TLC |
| `MainWindowProofs` | windows, connections and events | proofs |
| `RegBlocks` | the arithmetic of ports, blocks and names, as operators | library |
| `AddressMap` | `Address_map::load` line by line | component |
| `RegBlocksProofs` | the loops over the fields of a port: sorting, blocks, names | proofs |
| `MCAddressMap` | fields over a few addresses, of every kind | TLC |
| `AddressMapProofs` | ports, blocks and names, for every file | proofs |
| `FpgaWindow` | `Fpga_window`, on the connection `RegisterService` specifies | component |
| `MCFpgaWindow` | an address map of two ports with holes | TLC |
| `FpgaWindowProofs` | the polling loop never dies, doubles or leaves its list of blocks | proofs |
| `LfaaTxData` | `Lfaa_tx_data`: messages and delays from the files | component |
| `LfaaSim` | `main` of lfaa-sim on top of `LfaaTxData`, against a clock | system |
| `MCLfaaSim` | headers with remainders, full seconds, bad and missing payloads | TLC |
| `LfaaSimProofs` | schedule, pacing and payloads | proofs |

How they are composed: `GeminiCnx` ends where `GeminiComms!Init` begins; `GeminiSystem` gives
`GeminiComms` an FPGA; `RegisterService` stands between `GeminiComms`, which implements it, and
`FpgaWindow`, which uses it; `AddressMap` and `FpgaWindow` share `RegBlocks`, and what the former is proved to
keep of its ports (`PortsInvHolds`) is what the latter assumes of them (`PortsAssumption`); `MainWindow` runs one `GeminiCnx` per window and
leaves what a shown window does to `FpgaWindow`.

### How GeminiComms corresponds to the code

Each Qt slot runs to completion on one thread, so one slot is one action with everything it calls:
`Rw` is `RwChannel::rw`, `Gemini_comms::rw` and the `trySendTransactions` at its end; `OnPktRxReady`
has one disjunct per path through the slot; `OnPktTimeout` is the timer's slot. Slots that run from a
`result` signal inside `onPktRxReady` come after the last change of state of the slot itself, so
a request made there is the separate action `Rw` that follows.

Abstractions:

- Addresses, register values, read or write, and failure codes are dropped: no decision of this
  class depends on them. A transaction is an `id`, its place in the order of submission.
- The loop of `trySendTransactions` is the set `ToSend` (the first unsent transactions that fit); the
  loop of `rw` is `NumPieces`. `LoopsAgree` compares both with the loops turn by turn (`TrySendLoop`,
  `SplitLoop`); `break` is written as turns that do nothing, as the number in flight does not fall. For
  `rw` it also says which pieces these are: `PiecesOf` gives each its address and its length.
- A packet is an operation and a number; `"malformed"` covers runts and wrong versions. Without an
  FPGA, *any* packet may arrive at *any* time.
- `startTimeoutTimer` computes the time left until the deadline of the transaction and resends at
  once when there is none; the model chooses (`expired`). Jumps of the wall clock between writing
  a datagram and starting its timer, a few instructions apart, are left out.
- `m_transList.front()` on an empty list has no defined result; the state `undefined` has no
  successors.
- `m_numInTransit` is unsigned in the code; the model keeps an integer and `TypeOK` shows that it
  never passes below zero.
- Variables marked *history* do not influence behaviour.
- `Init` is the state `onCnxRxReady` leaves on an acknowledgement. A connection accepted with
  `maxpdu` 0 or `pipeline` 0 is outside the assumptions (payload size 0 makes `rw` loop for ever).

### The FPGA and the network in GeminiSystem

The firmware is not in the repository. It is modelled from what the client relies on: it executes
the next number, answers a number it has executed among the last `PipelineLen` again without
executing it, and answers anything else with NACKT. Each direction of the network is a queue that
may lose the packet at its head and delivers the rest in order: packets are neither
duplicated nor reordered, as on the laboratory links this program is used on. `Late = FALSE` means
every packet arrives or is lost before the timeout of the transaction it belongs to; `Late = TRUE`
lets the timer fire while packets are under way. `NumbersSuffice` (2 * PipelineLen <= SeqSpace) holds
for the pipelines in use; the code does not check it.

A connection request may have been repeated before the first acknowledgement came. The other
acknowledgements, up to `RepeatedCnx`, are then still under way when the data phase begins (`SysInit`). The
client reads none of them before its first request (`owner # <<>>` in `ClientReceives`): `cnx_result`
(`gemini_comms.cpp:265`) runs `onConnectResult` of the window, which asks for its first block
(`fpga_window.cpp:320`) before the slot returns to the event loop.

### How GeminiCnx, EventModel and MainWindow correspond to the code

`GeminiCnx` is one record of state per `Gemini_comms`. A result is reported by a signal whose slots run
before the slot that emits it goes on, and it is the last thing the slot does; so `OnCnxTimeout` and
`OnCnxPacket` of `MainWindow` are the slot of the connection and `onConnectResult` of the window, in one
action. Which packets are taken for what is in `Packets`; a packet shorter than its payload is used all
the same, so it is an `"ACK"`.

`loops` is the stack of slots that wait in `exec` or in a message box. Dialogs and boxes are modal: the
user reaches the topmost only, and the menu and the list when there is none (`AtMenu`). Timers, packets
and pending deletions are served in every loop, so each action of theirs is enabled at any depth. `level`
is the depth of the loop that `deleteLater` was called in: Qt deletes an object when control returns to
that loop, never in one nested in it. `Quit` is the end of the application's loop with the destructor of
`MainWindow`. A closed window that is not deleted yet still has its connection and may hear of its
failure. `DismissFailure` is `onConnectFailed` after its box (`fpga_window.cpp`), which closes the window.

`EventModel` keeps records and rows apart as the code does: `Known` is the search of `recv_data`, `items`
the row of that number. The user clears a count or a mask by a click; there is no timer. `setItem` leaves
an editable item in the cell (`SetItems`, `editable`), into which the user may type (`TypeOver`): the record
stays as it is, and the cell is in `typed` until the program sets it again. `heard` and
`seen` count apart from both what should be there. `Pub_client` reads all datagrams that have come, one
`Announce` each; a datagram longer than the record is cut off and accepted.

Left out: the text of the dialog and the parsing of its address, the address map's errors beyond
"refused", time stamps.

### How AddressMap corresponds to the code

`SaveField` is the path of a good line through `process_line`, the `make_*` functions (which only
convert tokens) and `save_field`; `BadLine` is a line they refuse; `EndOfFile` is the end of `load`. Ports
of equal address may come out of the sort in any order. A field is a record of address, number of
registers, first bit and kind (`DistrRAM` and `BlockRAM` are treated alike); its name and access mode
decide nothing.

Assumptions about the file (it is generated with the firmware, and the program does not check it):
the fields of a port share no register, except bitfields at different bits of one (`Compatible`); memories
have at least one register; addresses fit `QString::toInt`, that is they are below 2^31, so that sums
do not wrap. `check_holes` only logs and is left out; so are `reg_descr_from_addr` (tool tips) and
`get_base_addr`.

### How FpgaWindow corresponds to the code

One slot is one action. A slot that opens a dialog (`QInputDialog`, `QFileDialog`, `Download_dialog`) or
a message box runs an event loop inside: its part before and its part after are two actions, and
other slots (results, timers, failure, but no user input to the window) come between.

- The connection is the one `RegisterService` specifies and the run `client` and
  `GeminiCommsProofs` show `Gemini_comms` to be: what was asked is answered in order, or everything
  pending is reported as timed out and `cnx_failed` follows.
- How many registers fit one transaction (`m_maxPayloadWords`) is told by the FPGA when it accepts the
  connection. `Request` cuts a request in pieces with their addresses as `rw` does; each piece has a
  result of its own.
- Register values are dropped: a row shows the address its value was *read from*, or nothing (`?`, `??`
  and `NACK` alike). With them go `m_lastRegs`, bold type and logging. The text of row labels is
  their address; names are the subject of `AddressMap`.
- The user may edit the region, select a port, and give the commands in `Commands`. An upload file
  has up to two sections of a size in `UploadLengths`, 0 for one that is left out (`fpga_window.cpp:836`,
  `892`) or empty; a section longer than a payload is several writes. A download asks for two registers.
- What follows a dialog is in `AfterDialog`. A file that cannot be opened for the upload and invalid
  entries or names for the download lead to a message box (`RefuseInput`), which runs a loop like a
  dialog. So does a download file that cannot be opened (`DownloadFails`), but `m_dl_filename` names it by
  then, so that results of the download before are lost (`OnDownloadResult` skips files in `Locked`), and
  the slot uses its window once more after the box. These boxes have no parent: like the download dialog
  they outlive the window (`Unparented`).
- `m_reg_blk_idx` is counted up past the end of a list and left there (`NextIndex`); a result that finds a
  longer list goes on behind it.
- Faults are absorbing states: `null_item` (a null `QTableWidgetItem` is used), `hang` (an endless loop),
  `out_of_range` (`at` throws), `use_after_free` (a slot goes on in a deleted window).
- `DeleteLater` is what `MainWindow::onFpgaWinClose` asked for. Qt deletes the window when control is
  back in the event loop it was asked in, which may be that of a dialog. Dialogs that have the
  window as parent are destroyed with it, and their slots are taken to end there without effect; the
  download dialog and the boxes of the slots have no parent and stay.
- A line edit that loses the keyboard focus commits its text even if unchanged; this is an edit with
  the value it has (the base address stays, but the list of blocks no longer knows the holes).

### How LfaaTxData and LfaaSim correspond to the code

`LoadHeader` is one turn of the loop of `load_data_file` over the headers (`RefuseHeader` one that leaves it); which header the file holds there is chosen
when it is read. A header names a channel, the place and length of its payload, and a send time. All
64-bit arithmetic is done modulo `Width`, including the sum that decides whether a payload ends inside
the file. Nothing is assumed of headers but the ranges of their fields (`HeadersAssumption`): zeros longer
than `m_zero` and sums that wrap are among those of the runs. Nanoseconds and microseconds keep their relation (`NsPerUs`, `UsPerSec`) but with
smaller numbers; nothing else depends on their size. A station and its channel are one channel.

`main` ignores whether the files could be loaded, so `StartSending` follows a failure as well, unless there
is no socket (`SocketFails`); when the
header file fails before its number of packets is known, the members it would set were never written
(`stage = "undefined"`, no successors). `NextPacket` is the loop's body up to the decision to wait,
`Carry` the loop that carries microseconds, in closed form: it stops *at* a full second, so that
`usec` may equal `UsPerSec`, which the comparison and the subtraction must put up with. `Select` refuses a
negative time, which ends the program. When `select` is interrupted, Linux leaves the remaining time in
its argument and the loop waits for the rest; so the wait is a fixed `deadline`. The clock may advance
between any two steps.

## 3. Runs

Model values and symmetry are not needed: ids are ordered and numbers are computed with.
`CHECK_DEADLOCK` is FALSE everywhere because a client whose requests are used up, a program that has
sent everything and a user who does nothing stop, and an undefined state ends a behaviour.

| Run | Question | Bounds |
|---|---|---|
| `client` | Do window, numbering, timer, retries, results and slots stay consistent whatever arrives? Does the client implement `RegisterService`, and does every request end? | `SeqSpace` 3, pipeline 2, 2 retries, requests of 0, 1 and 3 pieces, 5 transactions, 2 channels |
| `fpga_timely` | Timely lossy network: executed once and in order, the assumptions written in the code's comments hold, and every request is answered unless the connection is given up? | `SeqSpace` 6, pipeline 3, 7 transactions, 4 losses |
| `fpga_slow` | Network slower than the timeout: still no double execution, no answer to the wrong transaction? | `SeqSpace` 4, pipeline 2, 5 transactions, 3 losses, 1 repeated acknowledgement |
| `late_reply` | Finding 1 | 3 transactions, no loss, no repeated acknowledgement |
| `address_map` | Do ports, blocks and names agree with the fields, in every order of lines? | 2 ports, 4 fields of every kind over a few addresses |
| `window` | Does polling go on, in one loop where it should, is the list of blocks only read where it has blocks, and is every register on display read and shown again and again? | 2 ports with holes, payloads of 2 and 5 registers, 2 edits (lengths 0, 1, 5), 1 command of any kind, upload sections of 0 and 3 registers, a download file that opens and one that does not, refusals, failure |
| `window_nack`, `window_write`, `window_download`, `window_close` | Findings 2 to 5 | payload of 5; 2 edits, or up to 2 downloads |
| `lfaa` | Is the schedule exact, are packets paced, payloads inside their buffers, and all packets sent? | up to 3 packets of 2 channels, both options, failures of both files, seconds of 4 microseconds, the clock up to 9 unless somebody waits |
| `main_window` | One window per FPGA, one result per connection, no hidden window left, the list of events right? | 2 windows, 2 FPGAs with 2 events, 2 requests per connection, 4 announcements, clicks and cells typed over |

*Why the bounds are enough.* In the runs of the client more transactions are submitted than there are
sequence numbers, or the pipeline is filled, drained and filled again, so numbers wrap around and the
window is rewound while full. Two retries distinguish "first retry", "another retry" and "given up".
Four losses exceed what giving up takes (three transmissions). Two channels, opened one after the
other, allow a slot to be asked for while a disposed channel's transaction is pending in it, and two
slots to be in use at once. The two runs
with an FPGA use the smallest number space that `NumbersSuffice` allows.

Four fields allow a port to grow at both ends in either order with a hole left and a hole filled. For the
window, two edits put one before and one after a result or an update, which is every position an
edit can have with respect to one request. The ports have different lengths, one contained in the rows of
the other, and blocks of different number, so that every result can fall on a longer, shorter or
shifted table and list. With a payload of 2 a region of 5 comes in three pieces, with 5 every region in
one. `MaxPending` 3 bounds how often doubled polling loops may start over while earlier requests are
out.

The headers of `lfaa` have remainders of every size, delays that fill a second exactly and that pass
one, payloads at and beyond the end of the file and without data, and one header of each kind that is
not checked; three packets over two channels make
a round, a wait and a packet after it. Two windows are what it takes to meet in one list, in one stack of
boxes, and over one FPGA; a third would only repeat one of the two.

*Fairness.* `FairSpec` of `GeminiComms` has weak fairness of `OnPktTimeout` only: a started `QTimer` fires
while the event loop runs, and nothing is assumed of the network, the FPGA or the user. `FairSysSpec`
adds that the client reads packets that have arrived, that the FPGA answers what it receives, and that
packets do not stay under way for ever (they are received or lost). Loss itself is not fair. `FairSpec` of
`FpgaWindow` has weak fairness of the delay timer (a started `QTimer`) and of the end of requests
(`EveryRequestEnds`); the user is free to do nothing. Whether a request is refused is not subject to
fairness, so `EveryRowRefreshed` has an FPGA that refuses the loop's requests for ever as its second
case, and it speaks of registers that stay on display (`<>[]Displayed(r)`): not of a window that is closed,
has failed or run into a fault, nor of a user who never stops editing. `FairSpec` of `MainWindow` has weak fairness of each window's
timer, which nested loops serve too, and of the user closing message boxes, which nothing else can
close; dialogs may stay open. In `LfaaSim` the program and the clock go on.

*Properties.*

- `WindowAccounting`, `RetryWindow`: the counter, the marks and the pipeline agree.
- `NumberedBySubmission`: rewinding never changes a transaction's number.
- `TimerGuardsPending`: the timer runs exactly while something is pending.
- `GiveUpOnlyAfterRetries`, `GiveUpMeansLoss`: the connection is not given up early.
- `NoResultLost`, `ChannelIsolation`, `ImplementsService`: results are reported in
  order, once, to the right channel, and none is lost.
- `ExecutedInOrder`, `AnswerMatches`, `ReportedIsExecuted`: what the FPGA does and what the user is
  told are the same thing.
- `PipelineRespected`, `RetryOnLaterAck`, `BufferEmptyAfterRetry`, `NoUndefined`: what the comments
  of the code assume. They hold when the network is faster than the timeout.
- `LoopsAgree`: a request is cut into pieces that cover its registers once, and the pipeline is filled as
  the code's loops do it.
- `EveryRequestEnds`, `EveryRequestAnswered`: progress; on a lossy network to an answer, or to giving the
  connection up.
- `ImplementsConnector`: a connection attempt reports at most one result, a timeout only after all its
  requests, and it ends unless its window is destroyed.
- `OneWindowPerFpga`: although windows are hidden for seconds while they connect, and leave the list under a dialog.
- `NoGhostWindow`: a window in the list that is not shown is shown or leaves the list in the end; otherwise
  its FPGA could not be opened again.
- `AnnouncementsAccounted`: no source has two records; its record and the row of that number hold the count
  and the mask of what came since they were cleared, up to cells the user typed over.
- `PortIsHull`, `ReadListPartitions`, `NamesAgree`: ports, blocks and names agree with the fields.
- `PollingContinues`, `SinglePoll`: a shown and connected window has a request of its loop out or its
  timer running, and, without uploads and while every region fits one transaction, exactly one of them.
- `IndexInRange`: the list of blocks may be replaced while `m_reg_blk_idx` points into it, and several
  loops may advance the index; still `at` never throws. It leans on `ReadListPartitions`: no list ends or
  consists of holes.
- `EveryRowRefreshed`: even with two loops, several pieces and edits at any time, a register that stays on
  display is read, and put in the row that is labelled with it, again and again, unless the FPGA goes on
  refusing requests of the loop for ever.
- `ScheduleExact`: with send times in order, the time a packet is due is its own, to the microsecond,
  through remainders, carries and repetitions.
- `LessThanARoundEarly`: of the packets whose time has not come, fewer than one round are out.
- `PayloadInside`: whatever was loaded or failed, the messages that are read from outside the data file or
  the zeros are those of accepted headers that `load_data_file` does not check (`Unchecked`: more zeros than
  `m_zero` has, or a sum of offset and length that passes 2^64), and no others.
- `AllSent`: with send times in order no wait is refused by `select` or endless.

The properties of the window hold up to a fault: `null_item` and `use_after_free` are findings 2 and 5,
`hang` is described below, `out_of_range` is what `IndexInRange` excludes.

### Findings

1. `late_reply`: when a reply is slower than the timeout (500 ms in `fpga_window.cpp:17`), its transaction
   is sent again and both transmissions are answered. The first answer retires it; the second finds
   `m_transList` empty and `onPktRxReady` reads `m_transList.front()` (`gemini_comms.cpp:499-500`). A packet
   that arrives after the connection was given up does the same, because the slots stay connected.
2. `window_nack`: a refusal or timeout is shown in `m_numRegs` rows (`fpga_window.cpp:394`, `409`); after an
   edit that raised the number, the table has fewer, and a null item is dereferenced.
3. `window_write`: between an edit and the next update, a double click writes to the address of the new
   region (`fpga_window.cpp:752`) while the row is still labelled with the old one.
4. `window_download`: `m_dl_filename` is overwritten by the next download (`fpga_window.cpp:1002`) while
   results of the one before still come in and are appended to the new file.
5. `window_close`: the connection fails while the download dialog is open; the window is deleted and
   `onDownloadClicked` goes on in it when the dialog is accepted (`fpga_window.cpp:958`).

Other disagreements met on the way; the first two show when a constant or a property is changed:

- With `Late = TRUE` in `GeminiSystem_timely.cfg`, `RetryOnLaterAck` fails: the comment at
  `gemini_comms.cpp:496` says an ACK starts a retry when its number is *greater* than expected, the code
  tests for *different*, so an old acknowledgement rewinds the whole window. `BufferEmptyAfterRetry`
  fails too: the comment at `gemini_comms.cpp:527` says that the FPGA's buffer is empty when the answer to
  a retry comes in, but a late answer to the *first* transmission is taken for it, and a second
  window is sent on top of the first.
- Uploads are written over `m_update_ch` (`fpga_window.cpp:833`, `887`), although `fpga_window.h:36-39` keeps that
  channel for polling and has `m_upload_ch` for uploads. Each result starts the timer while the loop's
  request is out: from then on one more polling loop runs. So does each further piece of a region that
  does not fit one transaction. `SinglePoll` excludes both for this reason.
- A length of 0 makes the unsigned loop at `fpga_window.cpp:688` endless (fault `hang`, reached in `window`).
- Results are placed by `m_tableBase` at arrival (`fpga_window.cpp:429`), so for a short time a row may show
  the value of another register; with three edits such a value can stay in a row that is not read,
  in spite of line 676 ("Clear old value").
- A connection reply too short for its payload is warned about and used (`gemini_comms.cpp:201`).
- `mainwindow.cpp:124-125` uses the dialog it has just deleted, for a line in the log.
- The comment at `lfaa-sim/main.cpp:145-147` speaks of waiting after one packet of each channel; the wait
  comes *before* the last packet of a round, so the others of the next round go out up to a round early.
  `LessThanARoundEarly` is the bound that does hold.
- `load_data_file` refuses a header whose data is not in the file as an error, but compares `offset + len` in
  64 bits (`lfaa_tx_data.cpp:193`): an offset just below 2^64 (other than the one that means "no data") makes
  the sum wrap and pass, and the message is pointed outside the file. The length of a header without data is
  never compared with the size of `m_zero` (line 204). `PayloadInside` names both cases (`Unchecked`).
- `main` of lfaa-sim ignores failures of loading; 4294967295 repetitions wrap to none.
- The constructor at `fpga_window.cpp:211` writes elements of `m_lastRegs` before it has any.

`fpga_slow` and the theorems about `GeminiSystem` show that, up to the undefined read of finding 1, a slow
network makes the FPGA execute no transaction twice, and no answer is reported for the wrong one.

## 4. Proofs

Every theorem is about all behaviours of the specification it names, for all values of the constants
that satisfy the assumptions of its module. Each proof has an inductive invariant, one lemma per action,
and a last step of temporal logic.

### The client: `GeminiCommsProofs`

Assumptions: sizes are natural numbers; `SeqSpace`, `PipelineLen`, `MaxRetries` and `MaxPayloadWords` are
at least 1. The network and the user are arbitrary.

| Theorem | Statement |
|---|---|
| `Invariant` | `Spec => []IInv` |
| `TypeCorrect` | `Spec => []TypeOK` |
| `WindowCorrect` | `Spec => []WindowAccounting` |
| `RetryWindowCorrect` | `Spec => []RetryWindow` |
| `TimerCorrect` | `Spec => []TimerGuardsPending` |
| `NumberedCorrect` | `Spec => []NumberedBySubmission` |
| `LoopsCorrect` | `Spec => []LoopsAgree` |
| `ServiceImplemented` | `Spec => ImplementsService` |
| `ChannelsIsolated` | `Spec => []ChannelIsolation` |
| `ResultsDelivered` | `Spec => []NoResultLost` |
| `GivenUpLate` | `Spec => GiveUpOnlyAfterRetries` |

*The inductive invariant.* `WindowAccounting` is not inductive: it says nothing while a retry is
pending, and the reply to a retry restarts the window from the marks left behind. `IInv` adds
`RetryWindow` (only the front is marked then), consecutive ids, the exact place of the timer, and,
for a closed connection, that the list is empty. The central lemmas are `ToSendIsInterval` (when
the first n transactions are the sent ones, `trySendTransactions` sends exactly those that follow,
up to the window's end), `TrySendStep` and `ResendStep` (what either leaves behind), and `RetireFront`.

*Numbering* is a second invariant on top of it: `m_cli_seq` is the number of the last transaction of
the window, and each marked transaction carries its own. `SeqForResendSame` shows that setting
`m_cli_seq` back by one and sending reproduces the number; `TrySendNumbers` and `ResendNumbers` carry
the invariant through the two ways of sending.

*The loops.* `SplitLoop` and the turns of `TrySendLoop` are recursive functions. That such a function exists
is shown by giving one, the closed form; that it is the closed form, from the least argument on which it would
not be (`LeastElement`). For `rw` one turn takes the first piece off a request, and the others are those of
the rest, one payload further on (`PiecesTurn`). For `trySendTransactions` one turn takes
`AfterTurns` to the next (`TurnIs`), which rests on `FullOrAllSent`: as long as the pipeline has room,
everything not sent before the loop has been sent up to this turn.

*Refinement and channels.* `Slots` says why a slot can be reused: an open channel has one slot, and the
slot of a pending transaction holds its channel, or is empty because that channel was disposed of (a slot
with pending transactions is not given away). With it each action is shown to be a step of
`RegisterService` or a stutter. `Delivered` follows the results: what is not pending any more was
reported, unless its channel is closed. `ClosingStep` gives the number of transmissions behind a failure.

### The client and the FPGA: `GeminiSystemProofs`

Assumption on top: `NumbersSuffice`, 2 * `PipelineLen` <= `SeqSpace`. Losses are arbitrary, and so is
`Late`: the theorems hold on slow networks too.

| Theorem | Statement |
|---|---|
| `SysInvariant` | `SysSpec => []SysInv` |
| `ExecutedOnceInOrder` | `SysSpec => []ExecutedInOrder` |
| `AnswersMatched` | `SysSpec => AnswerMatches` |
| `ReportedWasExecuted` | `SysSpec => []ReportedIsExecuted` |

*The argument.* A step sends only transactions of the window, the `PipelineLen` transactions behind the
retired ones (`WrittenInReach`), and the window only moves on. So of two transmissions the later is at
most `PipelineLen` - 1 transactions behind the earlier. Queues keep their order; therefore a datagram is
near what the FPGA executed last, and a reply near what the client retired last: less than twice
`PipelineLen` apart. Transactions that are so close and have the same number are the same
(`SameNumber`). Hence what the FPGA takes for the next transaction is the next (`ExecutesNext`), what it
takes for a repetition was executed (`RepeatsExecuted`), and a reply that retires the oldest transaction
was caused by it (`AnswerIsItsOwn`). The invariant `NetInv` states these distances for both queues and
across them (`InOrder`, `Asked`, `Bounded`). The order across the queues is needed because the FPGA turns
the first datagram into the last reply, which then has all the other datagrams behind it.

### The same, on a network that is in time: `GeminiTimelyProofs`

Assumption on top: `~ Late`, a packet arrives or is lost before the timer of its transaction fires. With
`Late = TRUE` three of the properties are false (finding 1 and the first disagreement above).

| Theorem | Statement |
|---|---|
| `TimelyInvariant` | `~ Late => (SysSpec => []Timely)` |
| `BufferNeverOverrun` | `~ Late => (SysSpec => []PipelineRespected)` |
| `RetryEmptiesBuffer` | `~ Late => (SysSpec => BufferEmptyAfterRetry)` |
| `NeverUndefined` | `~ Late => (SysSpec => []NoUndefined)` |
| `RetriesOnLaterAck` | `~ Late => (SysSpec => RetryOnLaterAck)` |
| `GivesUpForLosses` | `~ Late => (SysSpec => []GiveUpMeansLoss)` |

*The argument.* Line up what is under way as it will be handled: the replies, then the datagrams, each by
the transaction that caused it (`Way`). The FPGA turns the first datagram into the last reply, which
leaves this line as it is; the client takes from its front and sends at its end; the network makes gaps. The
invariant `Timely` says three things about the line.

- `Orderly`: it holds transactions that are not retired yet, in increasing order; while a retry is
  pending, the oldest one, if it is there, is the last. So a datagram is never under way twice, and when the
  reply to a retry is the first in the line it is the only one.
- `Explained`: a transmission that is not in the line was lost. Without a retry this is for gaps in
  the window, during a retry for the transmissions of the oldest transaction counted by `sendCount`.
- `Rejected`: a NACKT is for a transaction that was ahead of a gap. It stays ahead of every transaction
  acknowledged before it, so a NACKT is never the reply to the oldest transaction.

`Quiet` as guard of the timer is what makes it inductive: the oldest transaction is sent again only when it
is not in the line (`SentAgainOrderly`). On a slow network the second transmission is behind the first, which
is what finding 1 and both disagreements need. When the client goes back because of a reply, it is not
the oldest transaction's (`MismatchIsForAnother`), and the order of the line shows that the oldest is not in it.
The effects of the client's steps on the line are `Ignores`, `SendsOn`, `GoesBack` and `GivesUp`, and the
lemmas `...Moves` say what each makes of the line.

### Windows and events: `MainWindowProofs`

| Theorem | Statement |
|---|---|
| `TypeCorrect` | `Spec => []TypeOK` |
| `OneWindowEach` | `Spec => []OneWindowPerFpga` |
| `EventsAccounted` | `Spec => []AnnouncementsAccounted` |
| `ConnectorImplemented` | `Spec => Cnx!Safe` |

`WindowsInv` adds that what is in the list exists, so that a window that is opened is new to the list.
`EventInv` adds that each source has one record at most, and that a source without a record was never
heard; `CellsInv` that the rows agree with the records except in cells that were typed over. `Cnx!Safe` is `Connector` without its liveness, which stays with TLC.

### Address map: `AddressMapProofs` on `RegBlocksProofs`

| Theorem | Statement |
|---|---|
| `HullCorrect` | `Spec => []PortIsHull` |
| `ListsPartition` | `Spec => []ReadListPartitions` |
| `NamesCorrect` | `Spec => []NamesAgree` |
| `TypeCorrect` | `Spec => []TypeOK` |

From `FieldsAssumption` alone. *The invariant* `PortsInv` says that the ports are well-formed, span their
fields, and that their fields are finitely many and share no bits. `NewPortHull` and `WithFieldHull` are the
two cases of `save_field`; the latter shows where `Compatible` is needed: a field that starts below the port
grows it at the front only, which is enough because such a field cannot reach beyond the port's end.
`EndOfFile` only reorders the ports.

*The loops* over the fields of a port are the subject of `RegBlocksProofs`, whose lemmas hold for any port
with the properties of the invariant. They are folds, so `RunLoop` and `NamesLoop` first show that a fold
goes through a sequence of states, one turn at a time: the function behind a fold exists (`FoldExists`), by
induction on the sets it is defined on. Then each loop has an invariant.

- `AddressOrder`: the fields can be sorted (`ListExists`), and in the sorted list each field ends before
  the next begins, except bitfields of one register.
- `AddToRunKeeps`: the blocks collected so far, closed with the current run, follow each other from the
  port's start to the end of the last field (`Chain`) and hold its registers and those of the fields
  before it. A further bitfield of the same register changes nothing, an adjacent field lengthens the
  run (`LongerChain`), a later one adds a hole (`ChainAfterHole`). `BlocksOfPort` is the result.
- `LookAtKeeps`: what has been found is what the fields so far contribute, and once the search has stopped
  no later field contributes. This is where the order is needed: a field behind a RAM that is called by
  an address inside that RAM would be missed. `NamesOfPort` is the result.

*Induction over data.* The library's induction theorems take a predicate as parameter, which the provers
cannot instantiate. `LeastElement` (from well-foundedness of < on the natural numbers) says the same of sets,
and the turns of a loop that keep its invariant are a set; `Induction` and `LoopInduction` are derived from it.

### FPGA window: `FpgaWindowProofs`

| Theorem | Statement |
|---|---|
| `BlocksInRange` | `Spec => []IndexInRange` |
| `PollingLives` | `Spec => []PollingContinues` |
| `OnePoll` | `Spec => []SinglePoll` |
| `TypeCorrect` | `Spec => []TypeOK` |

*The inductive invariant* `LoopInv` needs more than the two: the list always has a block that is not a
hole (`HasReadable`), and no empty block, except the one of a length of 0, which is alone in the list (so
that no block follows it and the index cannot advance to it); a window has rows once it is updated
(so that a length of 0 hangs in `add_remove_tablewidgets` before anything is asked for, instead of
reading a block of no registers, for which no answer would come); nothing can be edited before
the first update; and polling is stopped only with the window or the connection. `UpdateStep` and
`ReadOnStep` show that starting over and reading on each leave the timer running or a request under way;
`NextReadableFinds` is what the search for the next block returns, by the least element of a set.

`OneLoopInv` counts: the region is one of those known, so that its blocks fit a transaction when every
region does; a pending upload is recorded in `commands`; and the results under way that go on with the
loop plus the timer are at most one. Each step that adds one takes one away.

About the ports the proofs use `PortsAssumption` only, which is what `AddressMapProofs` shows of every port that
was loaded. `PortBlocks` gets from it, by `BlocksOfPort`, that `get_reg_read_list` gives each port a block to
read, and none that is empty or longer than the port.

### lfaa-sim: `LfaaSimProofs`

| Theorem | Statement |
|---|---|
| `TypeCorrect` | `Spec => []TypeOK` |
| `PayloadCorrect` | `Spec => []PayloadInside` |
| `ScheduleCorrect` | `Spec => []ScheduleExact` |
| `PacingCorrect` | `Spec => []LessThanARoundEarly` |

`PayloadCorrect` holds for headers of any numbers: a message outside its buffer has an accepted header that
is not checked, and every such header makes one. `Measuring` relates the delays kept to the send times read: each delay is the difference of two rounded
send times, because `last_send_ns` is the time of the last packet, rounded down by less than
a microsecond. `CarryKeeps` shows that carrying
changes the form of a time, not its value. `Pacing` adds that due times only grow, and that at the end of each round the clock had
caught up with all packets before it: by the comparison, or because the wait that was computed by
borrowing ends no earlier than the packet is due.

### Only model-checked

- Liveness, out of the prover's reach: `EveryRequestEnds`, `EveryRequestAnswered`, `EveryRowRefreshed`,
  `AllSent`, `NoGhostWindow`, and the end of an attempt in `ImplementsConnector`.

Every invariant and every action property that a passing run checks is proved.

## 5. What is left

In the order of importance:

1. `get_base_addr` and `find_addr` of the address map.
2. The received packet trace, whose one hazard is the length at `gemini_comms.cpp:619`.

## 6. Not modelled

- Register values and what depends on them (`m_lastRegs`, bold type): no decision of the program does.
- Drawing, layout, text formatting, logging: no state of the program depends on them. The packet trace
  belongs here, as the log is all that reads it.
- Parsing of address map lines, upload files, the form of the download dialog, addresses typed in and the
  options of lfaa-sim: pure functions of text. What they return is chosen freely where it is used.
- Start-up of the viewer and memory mapping of files: input and output without decisions.
- Qt itself, of which only the event loop's rules are used: slots run to completion, a started
  single-shot timer fires once, modal dialogs take the user's input and serve everything else, objects
  are deleted in the loop that asked for it.
- The firmware of the FPGA and the network, which are external: `GeminiSystem` says what is assumed.
