---------------------------- MODULE FpgaWindowProofs ---------------------------
(***************************************************************************)
(* Theorems about FpgaWindow, for every address map, payload size, edit    *)
(* and command: the list of blocks is only read where it has blocks, and   *)
(* the polling loop never dies.                                            *)
(***************************************************************************)
EXTENDS FpgaWindow, RegBlocksProofs

Trans == [ch : {"update", "writer", "download"}, base : Nat, len : Nat \ {0},
          op : {"read", "write"}]

--------------------------------------------------------------------------------
(* Requests and blocks.                                                      *)

\* NextReadable finds a block at or after i if there is one, else the end.
LEMMA NextReadableFinds ==
    ASSUME m_reg_blks \in Seq(BlockRec), NEW i \in Nat
    PROVE  /\ NextReadable(i) \in Nat
           /\ NextReadable(i) < Size => i <= NextReadable(i)
           /\ (\E j \in i .. (Size - 1) : ~m_reg_blks[j + 1].is_hole)
                  => NextReadable(i) < Size
<1> DEFINE readable == {j \in i .. (Size - 1) : ~m_reg_blks[j + 1].is_hole}
<1>1. Size \in Nat
  BY DEF Size
<1>2. readable \in SUBSET Nat /\ \A j \in readable : i <= j /\ j < Size
  BY <1>1
<1>3. CASE readable = {}
  <2>1. NextReadable(i) = Size
    BY <1>3 DEF NextReadable
  <2>2. ~ \E j \in i .. (Size - 1) : ~m_reg_blks[j + 1].is_hole
    BY <1>3
  <2>3. NextReadable(i) \in Nat /\ ~(NextReadable(i) < Size)
    BY <1>1, <2>1
  <2> QED
    BY <2>2, <2>3
<1>4. CASE readable # {}
  <2>1. \E j \in readable : \A k \in readable : j <= k
    BY <1>2, <1>4, LeastElement
  <2>2. NextReadable(i) \in readable
    BY <1>4, <2>1 DEF NextReadable
  <2> QED
    BY <1>1, <1>2, <2>2
<1> QED
  BY <1>3, <1>4

\* What the FPGA told about payloads.
PayloadTold == m_maxPayloadWords \in Nat \ {0}

\* Is a request of the polling loop under way?
HasUpdate(queue) == \E k \in 1 .. Len(queue) : queue[k].ch = "update"

\* A request for registers is a sequence of transactions, one at least.
LEMMA RequestPieces ==
    ASSUME NEW ch \in {"update", "writer", "download"}, NEW base \in Nat,
           NEW len \in Nat \ {0}, NEW op \in {"read", "write"},
           PayloadTold
    PROVE  /\ Request(ch, base, len, op) \in Seq(Trans)
           /\ ch = "update" => HasUpdate(Request(ch, base, len, op))
<1> USE DEF PayloadTold
<1> DEFINE n == Pieces(len)
<1>1. n \in Nat /\ n >= 1 /\ (n - 1) * m_maxPayloadWords < len
  <2> DEFINE q == (len + m_maxPayloadWords - 1) \div m_maxPayloadWords
             r == (len + m_maxPayloadWords - 1) % m_maxPayloadWords
  <2>1. q \in Int /\ r \in 0 .. (m_maxPayloadWords - 1) /\ len + m_maxPayloadWords - 1 = m_maxPayloadWords * q + r
    <3> HIDE DEF q, r
    <3>1. len + m_maxPayloadWords - 1 \in Int /\ m_maxPayloadWords > 0
      OBVIOUS
    <3> QED
      BY <3>1 DEF q, r
  <2> HIDE DEF q, r
  <2>2. q >= 1
    <3>1. m_maxPayloadWords * q > 0
      BY <2>1
    <3> QED
      BY <2>1, <3>1
  <2>3. (q - 1) * m_maxPayloadWords = m_maxPayloadWords * q - m_maxPayloadWords
    BY <2>1
  <2>4. (q - 1) * m_maxPayloadWords < len
    BY <2>1, <2>3
  <2> QED
    BY <2>1, <2>2, <2>4 DEF q, Pieces
<1> HIDE DEF n
<1>2. ASSUME NEW k \in 1 .. n
      PROVE  (k - 1) * m_maxPayloadWords \in Nat /\ (k - 1) * m_maxPayloadWords < len
  <2>1. (k - 1) * m_maxPayloadWords <= (n - 1) * m_maxPayloadWords
    BY <1>1
  <2> QED
    BY <1>1, <2>1
<1> DEFINE t(k) == LET start == (k - 1) * m_maxPayloadWords
                   IN  [ch |-> ch, base |-> base + start, op |-> op,
                        len |-> IF len - start < m_maxPayloadWords THEN len - start ELSE m_maxPayloadWords]
<1>3. Request(ch, base, len, op) = [k \in 1 .. n |-> t(k)]
  BY DEF Request, n
<1>4. \A k \in 1 .. n : t(k) \in Trans /\ t(k).ch = ch
  BY <1>2 DEF Trans
<1> HIDE DEF t
<1>5. [k \in 1 .. n |-> t(k)] \in Seq(Trans) /\ Len([k \in 1 .. n |-> t(k)]) = n
  BY <1>1, <1>4
<1>6. 1 \in 1 .. n /\ [k \in 1 .. n |-> t(k)][1] = t(1) /\ t(1).ch = ch
  BY <1>1, <1>4
<1>7. ch = "update" => HasUpdate([k \in 1 .. n |-> t(k)])
  BY <1>5, <1>6 DEF HasUpdate
<1> QED
  BY <1>3, <1>5, <1>7

\* A request for no registers is one of no transactions.
LEMMA RequestTypes ==
    ASSUME NEW ch \in {"update", "writer", "download"}, NEW base \in Nat,
           NEW len \in Nat, NEW op \in {"read", "write"},
           PayloadTold
    PROVE  Request(ch, base, len, op) \in Seq(Trans)
<1>1. CASE len = 0
  <2> DEFINE m == m_maxPayloadWords
             more == Request(ch, base, len, op)
  <2>1. m \in Nat \ {0} /\ 0 + m - 1 \in 0 .. (m - 1)
    BY DEF PayloadTold
  <2> HIDE DEF m
  <2>2. (0 + m - 1) \div m = 0
    BY <2>1
  <2>3. Pieces(len) = 0
    BY <1>1, <2>2 DEF Pieces, m
  <2>4. DOMAIN more = {} /\ more = [k \in DOMAIN more |-> more[k]]
    BY <2>3 DEF Request
  <2> HIDE DEF more
  <2>5. more = <<>>
    BY <2>4
  <2> QED
    BY <2>5 DEF more
<1>2. CASE len # 0
  BY <1>2, RequestPieces
<1> QED
  BY <1>1, <1>2

--------------------------------------------------------------------------------
(* The inductive invariant.                                                  *)

\* Types of the state the loop depends on.
LoopTypes ==
    /\ m_tableBase \in Nat /\ m_numRegs \in Nat /\ m_lastNumRegs \in Nat
    /\ m_reg_blks \in Seq(BlockRec)
    /\ m_reg_blk_idx \in Nat
    /\ pending \in Seq(Trans)
    /\ m_dlyTimer \in BOOLEAN /\ m_continueRunning \in BOOLEAN /\ box \in BOOLEAN
    /\ DOMAIN rows \subseteq Nat \ {0}
    /\ dialog.kind = "write" => dialog.addr \in Nat

HasReadable(blocks) == \E j \in 1 .. Len(blocks) : ~blocks[j].is_hole
NoneEmpty(blocks) == \A j \in 1 .. Len(blocks) : blocks[j].len > 0
NoneLonger(blocks, n) == \A j \in 1 .. Len(blocks) : blocks[j].len <= n

\* There is a block to read.  No block is empty, except the one of a length of
\* 0, which is alone in the list.
BlocksToRead ==
    /\ HasReadable(m_reg_blks)
    /\ m_numRegs > 0 => NoneEmpty(m_reg_blks)
    /\ m_numRegs = 0 => Len(m_reg_blks) = 1

\* Before the first update nothing can be edited; after it the table has rows,
\* so that a length of 0 makes the next update hang.  A refused connection ends
\* like an unanswered one: with the window hidden.
FirstUpdate ==
    /\ net # "up" /\ m_continueRunning => m_numRegs > 0 /\ window = "hidden"
    /\ net = "connecting" => m_continueRunning /\ ~box
    /\ net = "up" /\ fault = "none" => m_lastNumRegs > 0

\* Polling is stopped only when the connection is given up or the window closes.
StopsWithWindow == net = "up" /\ window = "shown" => m_continueRunning

LoopInv == LoopTypes /\ BlocksToRead /\ FirstUpdate /\ StopsWithWindow
           /\ PollingContinues /\ IndexInRange

\* A region typed in is one block.
LEMMA OneBlock ==
    ASSUME NEW base \in Nat, NEW len \in Nat,
           NEW blocks, blocks = <<Block(base, len, FALSE)>>
    PROVE  /\ blocks \in Seq(BlockRec) /\ Len(blocks) = 1
           /\ HasReadable(blocks)
           /\ len > 0 => NoneEmpty(blocks)
<1>1. Block(base, len, FALSE) \in BlockRec /\ ~Block(base, len, FALSE).is_hole
      /\ Block(base, len, FALSE).len = len
  BY DEF Block, BlockRec
<1>2. Len(blocks) = 1 /\ blocks[1] = Block(base, len, FALSE)
  OBVIOUS
<1>3. blocks \in Seq(BlockRec)
  <2>1. \A b \in BlockRec : <<b>> \in Seq(BlockRec)
    OBVIOUS
  <2> QED
    BY <1>1, <2>1
<1>4. 1 \in 1 .. Len(blocks) /\ \A j \in 1 .. Len(blocks) : j = 1
  BY <1>2
<1> QED
  BY <1>1, <1>2, <1>3, <1>4 DEF HasReadable, NoneEmpty

\* The region of a port, or the one of an empty map.
LEMMA PortBlocks ==
    ASSUME NEW i \in DOMAIN Ports
    PROVE  /\ Ports[i].base_addr \in Nat /\ Ports[i].n_regs \in Nat \ {0}
           /\ RegReadList(Ports[i]) \in Seq(BlockRec)
           /\ HasReadable(RegReadList(Ports[i]))
           /\ NoneEmpty(RegReadList(Ports[i]))
           /\ NoneLonger(RegReadList(Ports[i]), Ports[i].n_regs)
<1> DEFINE port == Ports[i]
           blocks == RegReadList(port)
           n == Len(blocks)
<1>1. /\ port.base_addr \in Nat /\ port.n_regs \in Nat \ {0}
      /\ Apart(port.fields) /\ SpansFields(port) /\ port.fields # {}
  <2>1. Ports[i] \in [name : STRING, base_addr : Nat, n_regs : Nat \ {0},
                      fields : SUBSET Field]
    <3>1. i \in 1 .. Len(Ports)
      BY PortsAssumption, LenProperties
    <3> QED
      BY <3>1, PortsAssumption, ElementOfSeq
  <2>2. IsFiniteSet(port.fields) /\ FieldsApart(port) /\ SpansFields(port)
    BY PortsAssumption
  <2> HIDE DEF port
  <2> QED
    BY <2>1, <2>2 DEF Apart, FieldsApart, SpansFields, port
<1>2. /\ blocks \in Seq(BlockRec) /\ n \in Nat /\ n > 0
      /\ Chain(blocks, port.base_addr, End(port))
  <2> HIDE DEF port
  <2> QED
    BY <1>1, BlocksOfPort
<1> HIDE DEF blocks
<1>3. \A j \in 1 .. n : blocks[j].base \in Nat /\ blocks[j].len \in Nat
  <2>1. \A j \in 1 .. n : blocks[j] \in BlockRec
    BY <1>2, ElementOfSeq
  <2> QED
    BY <2>1 DEF BlockRec
<1>4. HasReadable(blocks) /\ NoneEmpty(blocks)
  <2>1. 1 \in 1 .. n
    BY <1>2
  <2> QED
    BY <1>2, <2>1 DEF Chain, HasReadable, NoneEmpty
<1>5. NoneLonger(blocks, port.n_regs)
  <2>1. \A j \in 1 .. n : /\ port.base_addr <= blocks[j].base
                          /\ blocks[j].base + blocks[j].len <= port.base_addr + port.n_regs
    BY <1>2 DEF Chain, End
  <2> HIDE DEF port
  <2> QED
    BY <1>1, <1>3, <2>1 DEF NoneLonger
<1> QED
  BY <1>1, <1>2, <1>4, <1>5 DEF blocks

\* More requests behind those pending: none is lost.
LEMMA MorePending ==
    ASSUME NEW queue \in Seq(Trans), NEW more \in Seq(Trans)
    PROVE  /\ queue \o more \in Seq(Trans)
           /\ HasUpdate(queue) => HasUpdate(queue \o more)
           /\ HasUpdate(more) => HasUpdate(queue \o more)
<1>1. /\ queue \o more \in Seq(Trans)
      /\ Len(queue \o more) = Len(queue) + Len(more)
      /\ \A k \in 1 .. Len(queue) + Len(more) :
            (queue \o more)[k] = IF k <= Len(queue) THEN queue[k] ELSE more[k - Len(queue)]
  BY ConcatProperties
<1>2. Len(queue) \in Nat /\ Len(more) \in Nat
  BY LenProperties
<1>3. ASSUME NEW k \in 1 .. Len(queue), queue[k].ch = "update"
      PROVE  HasUpdate(queue \o more)
  <2>1. k \in 1 .. Len(queue \o more) /\ (queue \o more)[k] = queue[k]
    BY <1>1, <1>2
  <2> QED
    BY <1>3, <2>1 DEF HasUpdate
<1>4. ASSUME NEW k \in 1 .. Len(more), more[k].ch = "update"
      PROVE  HasUpdate(queue \o more)
  <2>1. k + Len(queue) \in 1 .. Len(queue \o more) /\ (queue \o more)[k + Len(queue)] = more[k]
    BY <1>1, <1>2
  <2> QED
    BY <1>4, <2>1 DEF HasUpdate
<1> QED
  BY <1>1, <1>3, <1>4 DEF HasUpdate

\* An answer to another channel takes no request of the loop away.
LEMMA AnswerElsewhere ==
    ASSUME NEW queue \in Seq(Trans), queue # <<>>
    PROVE  /\ Tail(queue) \in Seq(Trans)
           /\ queue[1].ch # "update" /\ HasUpdate(queue) => HasUpdate(Tail(queue))
<1>1. /\ Tail(queue) \in Seq(Trans) /\ Len(Tail(queue)) = Len(queue) - 1
      /\ \A i \in 1 .. Len(Tail(queue)) : Tail(queue)[i] = queue[i + 1]
  BY HeadTailProperties
<1>2. Len(queue) \in Nat
  BY LenProperties
<1>3. ASSUME queue[1].ch # "update", NEW k \in 1 .. Len(queue), queue[k].ch = "update"
      PROVE  HasUpdate(Tail(queue))
  <2>1. k # 1 /\ k - 1 \in 1 .. Len(Tail(queue)) /\ (k - 1) + 1 = k
    BY <1>1, <1>2, <1>3
  <2>2. Tail(queue)[k - 1] = queue[k]
    BY <1>1, <2>1
  <2> QED
    BY <1>3, <2>1, <2>2 DEF HasUpdate
<1> QED
  BY <1>1, <1>3 DEF HasUpdate

\* What PollingContinues says of the pending requests.
LEMMA PollingTerms ==
    ASSUME NEW queue \in Seq(Trans)
    PROVE  {i \in DOMAIN queue : queue[i].ch = "update"} # {} <=> HasUpdate(queue)
<1>1. DOMAIN queue = 1 .. Len(queue)
  BY LenProperties
<1> QED
  BY <1>1 DEF HasUpdate

\* A slot that goes on after a dialog is done with it, and may open another that is
\* not the first of a command.
LEMMA AlwaysTurns ==
    ASSUME AfterDialog
    PROVE  \E kind \in {"write", "upload", "download", "error", "file_error"},
              next \in {"none", "error", "file_error"} : DialogTurns(kind, next)
<1>1. CASE Cancel
  BY <1>1, Zenon DEF Cancel, DialogDone
<1>2. CASE WriteRegister
  BY <1>2, Zenon DEF WriteRegister, DialogDone
<1>3. CASE \E first, second \in UploadLengths : Upload(first, second)
  BY <1>3, Zenon DEF Upload, DialogDone
<1>4. CASE RefuseInput
  BY <1>4, Zenon DEF RefuseInput
<1>5. CASE \E file \in Files, base \in UserBases : Download(file, base, 2)
  BY <1>5, Zenon DEF Download, DialogDone
<1>6. CASE \E file \in Files : DownloadFails(file)
  BY <1>6, Zenon DEF DownloadFails
<1>7. CASE DismissError
  BY <1>7, Zenon DEF DismissError, DialogDone
<1> QED
  BY <1>1, <1>2, <1>3, <1>4, <1>5, <1>6, <1>7, Zenon DEF AfterDialog

--------------------------------------------------------------------------------
(* The payload size is told once, and is a number of registers.              *)

\* No slot of the window sets it.
LEMMA PayloadKept == [Next]_vars => m_maxPayloadWords' = m_maxPayloadWords
<1> SUFFICES ASSUME [Next]_vars PROVE m_maxPayloadWords' = m_maxPayloadWords
  OBVIOUS
<1>1. CASE Program
  BY <1>1 DEF Program, OnDelayDone, Result, OnConnectResult, DeleteLater
<1>2. CASE User
  <2>1. CASE \/ \E val \in UserBases : OnBaseAddrChange(val)
             \/ \E val \in UserLengths : OnLengthChange(val)
             \/ \E i \in DOMAIN Ports : OnTreeWidgetItemSelectionChanged(i)
    BY <2>1 DEF OnBaseAddrChange, OnLengthChange, OnTreeWidgetItemSelectionChanged, Edit
  <2>2. CASE \/ \E r \in DOMAIN rows : OnItemDoubleClicked(r)
             \/ OnUploadClicked
             \/ OnDownloadClicked
    BY <2>2 DEF OnItemDoubleClicked, OnUploadClicked, OnDownloadClicked, OpenDialog
  <2>3. CASE AfterDialog
    <3>1. PICK kind, next : DialogTurns(kind, next)
      BY <2>3, AlwaysTurns
    <3> QED
      BY <3>1 DEF DialogTurns
  <2>4. CASE CloseEvent \/ DismissBox
    BY <2>4 DEF CloseEvent, DismissBox, Close
  <2> QED
    BY <1>2, <2>1, <2>2, <2>3, <2>4 DEF User
<1>3. CASE ConnectionFails
  BY <1>3 DEF ConnectionFails
<1>4. CASE UNCHANGED vars
  BY <1>4 DEF vars
<1> QED
  BY <1>1, <1>2, <1>3, <1>4 DEF Next

LEMMA PayloadToldHolds == Spec => []PayloadTold
<1>1. Init => PayloadTold
  BY PayloadAssumption DEF Init, PayloadTold
<1>2. PayloadTold /\ [Next]_vars => PayloadTold'
  BY PayloadKept DEF PayloadTold
<1> QED
  BY <1>1, <1>2, PTL DEF Spec

--------------------------------------------------------------------------------
(* What the steps of the loop do.                                            *)

\* Reading a block of the list that is not empty puts a request under way.
LEMMA ReadBlockStep ==
    ASSUME PayloadTold, m_reg_blks \in Seq(BlockRec),
           NEW i \in Nat, i < Size, m_reg_blks[i + 1].len > 0,
           NEW queue \in Seq(Trans),
           ReadBlock(i, queue)
    PROVE  pending' \in Seq(Trans) /\ HasUpdate(pending') /\ fault' = fault
<1> DEFINE more == Request("update", m_reg_blks[i + 1].base, m_reg_blks[i + 1].len, "read")
<1>1. i + 1 \in 1 .. Len(m_reg_blks)
  BY DEF Size
<1>2. m_reg_blks[i + 1].base \in Nat /\ m_reg_blks[i + 1].len \in Nat \ {0}
  <2>1. m_reg_blks[i + 1] \in BlockRec
    BY <1>1, ElementOfSeq
  <2> QED
    BY <2>1 DEF BlockRec
<1>3. more \in Seq(Trans) /\ HasUpdate(more)
  <2>1. "update" \in {"update", "writer", "download"} /\ "read" \in {"read", "write"}
    OBVIOUS
  <2> QED
    BY <1>2, <2>1, RequestPieces, Zenon
<1>4. pending' = queue \o more /\ fault' = fault
  BY DEF ReadBlock
<1> HIDE DEF more
<1> QED
  BY <1>3, <1>4, MorePending

\* The loop starts over: it has a block to read, or the user's length of 0 is
\* met and the program hangs.
LEMMA UpdateStep ==
    ASSUME PayloadTold, LoopTypes, BlocksToRead, m_numRegs > 0 \/ m_lastNumRegs > 0,
           m_continueRunning,
           NEW queue \in Seq(Trans),
           UpdateFromFPGA2(queue)
    PROVE  /\ m_lastNumRegs' \in Nat /\ m_reg_blk_idx' \in Nat /\ pending' \in Seq(Trans)
           /\ DOMAIN rows' \subseteq Nat \ {0}
           /\ \/ fault' = "hang"
              \/ fault' = fault /\ m_lastNumRegs' > 0 /\ HasUpdate(pending')
<1>1. CASE RegionChanged /\ ~RemovalEnds
  <2>1. fault' = "hang" /\ pending' = queue /\ UNCHANGED <<table, m_reg_blk_idx>>
    BY <1>1 DEF UpdateFromFPGA2
  <2> QED
    BY <2>1 DEF LoopTypes, table
<1>2. CASE RegionChanged => RemovalEnds
  <2>1. /\ m_lastNumRegs' = m_numRegs /\ m_reg_blk_idx' = NextReadable(0)
        /\ ReadBlock(NextReadable(0), queue)
    BY <1>2 DEF UpdateFromFPGA2
  <2>2. m_numRegs > 0 /\ m_numRegs \in Nat
    BY <1>2 DEF RegionChanged, RemovalEnds, LoopTypes
  <2>3. NextReadable(0) \in Nat /\ NextReadable(0) < Size
    <3>1. PICK j \in 1 .. Len(m_reg_blks) : ~m_reg_blks[j].is_hole
      BY DEF BlocksToRead, HasReadable
    <3>2. Len(m_reg_blks) \in Nat
      BY LenProperties DEF LoopTypes
    <3>3. j - 1 \in 0 .. (Size - 1) /\ (j - 1) + 1 = j
      BY <3>2 DEF Size
    <3>4. \E k \in 0 .. (Size - 1) : ~m_reg_blks[k + 1].is_hole
      BY <3>1, <3>3
    <3> QED
      BY <3>4, NextReadableFinds DEF LoopTypes
  <2>4. m_reg_blks[NextReadable(0) + 1].len > 0
    <3>1. NextReadable(0) + 1 \in 1 .. Len(m_reg_blks)
      BY <2>3, LenProperties DEF Size, LoopTypes
    <3> QED
      BY <2>2, <3>1 DEF BlocksToRead, NoneEmpty
  <2>5. pending' \in Seq(Trans) /\ HasUpdate(pending') /\ fault' = fault
    BY <2>1, <2>3, <2>4, ReadBlockStep DEF LoopTypes
  <2>6. DOMAIN rows' \subseteq Nat \ {0}
    <3>1. rows' = IF RegionChanged THEN NewRows ELSE rows
      BY <1>2 DEF UpdateFromFPGA2
    <3>2. DOMAIN NewRows = 1 .. m_numRegs
      BY DEF NewRows
    <3> QED
      BY <2>2, <3>1, <3>2 DEF LoopTypes
  <2> QED
    BY <2>1, <2>2, <2>3, <2>5, <2>6
<1> QED
  BY <1>1, <1>2

\* The next block after the one that was read is asked for, or the timer runs.
LEMMA ReadOnStep ==
    ASSUME PayloadTold, LoopTypes, BlocksToRead, pending # <<>>,
           NEW trans, ShowAndReadOn(trans)
    PROVE  /\ m_reg_blk_idx' \in Nat /\ pending' \in Seq(Trans) /\ m_dlyTimer' \in BOOLEAN
           /\ DOMAIN rows' = DOMAIN rows
           /\ fault' = fault /\ (m_dlyTimer' \/ HasUpdate(pending'))
<1> DEFINE next == NextIndex
<1>1. m_reg_blk_idx + 1 \in Nat /\ m_reg_blks \in Seq(BlockRec) /\ Size \in Nat
  BY LenProperties DEF LoopTypes, Size
<1>2. next \in Nat /\ (next < Size => m_reg_blk_idx + 1 <= next)
  <2>1. CASE m_reg_blk_idx + 1 >= Size
    BY <1>1, <2>1 DEF NextIndex
  <2>2. CASE ~(m_reg_blk_idx + 1 >= Size)
    <3>1. next = NextReadable(m_reg_blk_idx + 1)
      BY <2>2 DEF NextIndex
    <3> QED
      BY <1>1, <3>1, NextReadableFinds
  <2> QED
    BY <2>1, <2>2
<1>3. Tail(pending) \in Seq(Trans)
  BY AnswerElsewhere DEF LoopTypes
<1>4. m_reg_blk_idx' = next /\ rows' = Show(trans)
  BY DEF ShowAndReadOn
<1>5. DOMAIN rows' = DOMAIN rows
  BY <1>4 DEF Show
<1>6. CASE SweepEnds(next)
  <2>1. m_dlyTimer' = TRUE /\ pending' = Tail(pending) /\ fault' = fault
    BY <1>6 DEF ShowAndReadOn
  <2> QED
    BY <1>2, <1>3, <1>4, <1>5, <2>1
<1>7. CASE ~SweepEnds(next)
  <2>1. ReadBlock(next, Tail(pending)) /\ m_dlyTimer' = m_dlyTimer
    BY <1>7 DEF ShowAndReadOn
  <2> HIDE DEF next
  <2>2. next < Size /\ 1 <= next
    BY <1>1, <1>2, <1>7 DEF SweepEnds, LoopTypes
  <2>3. next + 1 \in 1 .. Len(m_reg_blks) /\ Len(m_reg_blks) # 1
    <3>1. Size = Len(m_reg_blks)
      BY DEF Size
    <3> QED
      BY <1>1, <1>2, <2>2, <3>1
  <2>4. m_reg_blks[next + 1].len > 0
    BY <2>3 DEF BlocksToRead, NoneEmpty, LoopTypes
  <2>5. pending' \in Seq(Trans) /\ HasUpdate(pending') /\ fault' = fault
    BY <1>1, <1>2, <1>3, <2>1, <2>2, <2>4, ReadBlockStep
  <2> QED
    BY <1>2, <1>4, <1>5, <2>1, <2>5 DEF LoopTypes
<1> QED
  BY <1>6, <1>7

--------------------------------------------------------------------------------
(* Every step keeps the invariant.                                           *)

\* The timer starts the loop over.
LEMMA DelayDoneStep == ASSUME PayloadTold, LoopInv, OnDelayDone PROVE LoopInv'
<1>1. /\ UNCHANGED <<m_tableBase, m_numRegs, m_reg_blks, m_continueRunning, net, window,
                     dialog, box>>
      /\ m_dlyTimer' = FALSE /\ fault = "none"
      /\ UpdateFromFPGA2(pending)
  BY DEF OnDelayDone, region, frame
<1>2. BlocksToRead' /\ StopsWithWindow'
  BY <1>1 DEF LoopInv, BlocksToRead, StopsWithWindow
<1>3. CASE ~m_continueRunning
  <2>1. pending' = pending /\ UNCHANGED <<m_lastNumRegs, rows, m_reg_blk_idx, fault>>
    <3>1. pending' = pending /\ UNCHANGED <<table, m_reg_blk_idx, fault>>
      BY <1>1, <1>3, Zenon DEF UpdateFromFPGA2
    <3> QED
      BY <3>1 DEF table
  <2>2. LoopTypes' /\ FirstUpdate' /\ IndexInRange'
    BY <1>1, <2>1 DEF LoopInv, LoopTypes, FirstUpdate, IndexInRange
  <2>3. PollingContinues'
    BY <1>1, <1>3 DEF LoopInv, StopsWithWindow, PollingContinues
  <2> QED
    BY <1>2, <2>2, <2>3 DEF LoopInv
<1>4. CASE m_continueRunning
  <2>1. m_numRegs > 0 \/ m_lastNumRegs > 0
    BY <1>1, <1>4 DEF LoopInv, FirstUpdate
  <2>2. /\ m_lastNumRegs' \in Nat /\ m_reg_blk_idx' \in Nat /\ pending' \in Seq(Trans)
        /\ DOMAIN rows' \subseteq Nat \ {0}
        /\ \/ fault' = "hang"
           \/ fault' = fault /\ m_lastNumRegs' > 0 /\ HasUpdate(pending')
    BY <1>1, <1>4, <2>1, UpdateStep DEF LoopInv, LoopTypes
  <2>3. LoopTypes' /\ FirstUpdate' /\ IndexInRange'
    BY <1>1, <2>2 DEF LoopInv, LoopTypes, FirstUpdate, IndexInRange
  <2>4. PollingContinues'
    BY <2>2, PollingTerms DEF PollingContinues, UpdatesPending
  <2> QED
    BY <1>2, <2>3, <2>4 DEF LoopInv
<1> QED
  BY <1>3, <1>4

\* The connection is set up, or refused.
LEMMA ConnectStep ==
    ASSUME PayloadTold, LoopInv, NEW isOk \in BOOLEAN, OnConnectResult(isOk)
    PROVE  LoopInv'
<1>1. /\ UNCHANGED <<m_tableBase, m_numRegs, m_reg_blks, m_dlyTimer, m_continueRunning, dialog>>
      /\ fault = "none" /\ net = "connecting"
  BY DEF OnConnectResult, region
<1>2. BlocksToRead'
  BY <1>1 DEF LoopInv, BlocksToRead
<1>3. m_numRegs > 0 /\ m_continueRunning /\ window = "hidden"
  BY <1>1 DEF LoopInv, FirstUpdate
<1>4. CASE isOk
  <2>1. net' = "up" /\ window' = "shown" /\ box' = box /\ UpdateFromFPGA2(pending)
    BY <1>4 DEF OnConnectResult
  <2>2. /\ m_lastNumRegs' \in Nat /\ m_reg_blk_idx' \in Nat /\ pending' \in Seq(Trans)
        /\ DOMAIN rows' \subseteq Nat \ {0}
        /\ \/ fault' = "hang"
           \/ fault' = fault /\ m_lastNumRegs' > 0 /\ HasUpdate(pending')
    BY <1>3, <2>1, UpdateStep DEF LoopInv, LoopTypes
  <2>3. LoopTypes' /\ FirstUpdate' /\ IndexInRange' /\ StopsWithWindow'
    BY <1>1, <1>3, <2>1, <2>2
    DEF LoopInv, LoopTypes, FirstUpdate, IndexInRange, StopsWithWindow
  <2>4. PollingContinues'
    BY <2>2, PollingTerms DEF PollingContinues, UpdatesPending
  <2> QED
    BY <1>2, <2>3, <2>4 DEF LoopInv
<1>5. CASE ~isOk
  <2>1. /\ net' = "down" /\ box' = TRUE
        /\ UNCHANGED <<m_lastNumRegs, rows, m_reg_blk_idx, pending, fault, window>>
    BY <1>5 DEF OnConnectResult, table
  <2> QED
    BY <1>1, <1>2, <1>3, <2>1
    DEF LoopInv, LoopTypes, FirstUpdate, IndexInRange, StopsWithWindow, PollingContinues
<1> QED
  BY <1>4, <1>5

\* A request is answered: the loop goes on if it was one of its own.
LEMMA ResultStep ==
    ASSUME PayloadTold, LoopInv, NEW isAck \in BOOLEAN, Result(isAck)
    PROVE  LoopInv'
<1>1. /\ UNCHANGED <<m_tableBase, m_numRegs, m_reg_blks, m_continueRunning, net, window,
                     dialog, box>>
      /\ fault = "none" /\ pending # <<>>
  BY DEF Result, region, frame
<1>2. BlocksToRead' /\ StopsWithWindow'
  BY <1>1 DEF LoopInv, BlocksToRead, StopsWithWindow
<1>3. /\ Tail(pending) \in Seq(Trans)
      /\ pending[1].ch # "update" /\ HasUpdate(pending) => HasUpdate(Tail(pending))
  BY <1>1, AnswerElsewhere DEF LoopInv, LoopTypes
<1>4. /\ m_reg_blk_idx' \in Nat /\ pending' \in Seq(Trans) /\ m_dlyTimer' \in BOOLEAN
      /\ m_lastNumRegs' = m_lastNumRegs
      /\ DOMAIN rows' = DOMAIN rows
      /\ fault' \in {fault, "null_item"}
      /\ fault' = "none" => \/ m_dlyTimer' \/ HasUpdate(pending')
                            \/ ~m_dlyTimer /\ ~HasUpdate(pending)
  <2>1. CASE pending[1].ch = "update" /\ ~isAck
    <3>1. ClearRows /\ pending' = Tail(pending)
      BY <2>1 DEF Result, OnUpdate2Done
    <3> QED
      BY <1>3, <3>1 DEF ClearRows, LoopInv, LoopTypes
  <2>2. CASE pending[1].ch = "update" /\ isAck /\ pending[1].op = "write"
    <3>1. /\ m_dlyTimer' = TRUE /\ pending' = Tail(pending)
          /\ UNCHANGED <<m_lastNumRegs, rows, m_reg_blk_idx, fault>>
      BY <2>2 DEF Result, OnUpdate2Done, table
    <3> QED
      BY <1>3, <3>1 DEF LoopInv, LoopTypes
  <2>3. CASE pending[1].ch = "update" /\ isAck /\ pending[1].op = "read"
    <3>1. ShowAndReadOn(pending[1]) /\ m_lastNumRegs' = m_lastNumRegs
      BY <2>3 DEF Result, OnUpdate2Done
    <3> QED
      BY <1>1, <3>1, ReadOnStep DEF LoopInv
  <2>4. CASE pending[1].ch # "update"
    <3>1. /\ pending' = Tail(pending)
          /\ UNCHANGED <<m_lastNumRegs, rows, m_reg_blk_idx, m_dlyTimer, fault>>
      BY <2>4 DEF Result, OnDownloadResult, table
    <3> QED
      BY <1>3, <2>4, <3>1 DEF LoopInv, LoopTypes
  <2>5. pending[1].op \in {"read", "write"}
    <3>1. pending[1] \in Trans
      BY <1>1, ElementOfSeq, LenProperties, EmptySeq DEF LoopInv, LoopTypes
    <3> QED
      BY <3>1 DEF Trans
  <2> QED
    BY <2>1, <2>2, <2>3, <2>4, <2>5
<1>5. LoopTypes' /\ FirstUpdate' /\ IndexInRange'
  BY <1>1, <1>4 DEF LoopInv, LoopTypes, FirstUpdate, IndexInRange
<1>6. PollingContinues'
  <2>1. SUFFICES ASSUME net' = "up", window' = "shown", fault' = "none"
                 PROVE  m_dlyTimer' \/ HasUpdate(pending')
    BY <1>4, PollingTerms DEF PollingContinues, UpdatesPending
  <2>2. m_dlyTimer \/ HasUpdate(pending)
    BY <1>1, <2>1, PollingTerms
    DEF LoopInv, LoopTypes, PollingContinues, UpdatesPending
  <2> QED
    BY <1>4, <2>1, <2>2
<1> QED
  BY <1>2, <1>5, <1>6 DEF LoopInv

\* What an edit leaves alone.
LEMMA EditKeeps ==
    ASSUME LoopInv, Edit
    PROVE  /\ UNCHANGED <<m_lastNumRegs, m_reg_blk_idx, rows, m_dlyTimer, m_continueRunning,
                          net, pending, window, dialog, box, fault>>
           /\ FirstUpdate' /\ StopsWithWindow' /\ PollingContinues' /\ IndexInRange'
<1>1. /\ UNCHANGED <<m_lastNumRegs, m_reg_blk_idx, rows, m_dlyTimer, m_continueRunning,
                     net, pending, window, dialog, box, fault>>
      /\ window = "shown"
  BY DEF Edit, AtWork, table, poll, frame
<1>2. FirstUpdate' /\ StopsWithWindow' /\ IndexInRange'
  BY <1>1 DEF LoopInv, FirstUpdate, StopsWithWindow, IndexInRange
<1>3. PollingContinues'
  BY <1>1 DEF LoopInv, PollingContinues, UpdatesPending
<1> QED
  BY <1>1, <1>2, <1>3

\* The user shows another region.
LEMMA EditStep ==
    ASSUME LoopInv,
           \/ \E val \in UserBases : OnBaseAddrChange(val)
           \/ \E val \in UserLengths : OnLengthChange(val)
           \/ \E i \in DOMAIN Ports : OnTreeWidgetItemSelectionChanged(i)
    PROVE  LoopInv'
<1>1. Edit
  BY DEF OnBaseAddrChange, OnLengthChange, OnTreeWidgetItemSelectionChanged
<1>2. /\ m_tableBase' \in Nat /\ m_numRegs' \in Nat /\ m_reg_blks' \in Seq(BlockRec)
      /\ BlocksToRead'
  <2>1. m_tableBase \in Nat /\ m_numRegs \in Nat
    BY DEF LoopInv, LoopTypes
  <2>2. ASSUME NEW val \in UserBases, OnBaseAddrChange(val)
        PROVE  <1>2!:
    <3>1. val \in Nat /\ m_tableBase' = val /\ m_numRegs' = m_numRegs
          /\ m_reg_blks' = <<Block(val, m_numRegs, FALSE)>>
      BY <2>2, UserAssumption DEF OnBaseAddrChange
    <3>2. /\ m_reg_blks' \in Seq(BlockRec) /\ Len(m_reg_blks') = 1
          /\ HasReadable(m_reg_blks') /\ (m_numRegs > 0 => NoneEmpty(m_reg_blks'))
      BY <2>1, <3>1, OneBlock, Zenon
    <3> QED
      BY <2>1, <3>1, <3>2 DEF BlocksToRead
  <2>3. ASSUME NEW val \in UserLengths, OnLengthChange(val)
        PROVE  <1>2!:
    <3>1. val \in Nat /\ m_tableBase' = m_tableBase /\ m_numRegs' = val
          /\ m_reg_blks' = <<Block(m_tableBase, val, FALSE)>>
      BY <2>3, UserAssumption DEF OnLengthChange
    <3>2. /\ m_reg_blks' \in Seq(BlockRec) /\ Len(m_reg_blks') = 1
          /\ HasReadable(m_reg_blks') /\ (val > 0 => NoneEmpty(m_reg_blks'))
      BY <2>1, <3>1, OneBlock, Zenon
    <3> QED
      BY <2>1, <3>1, <3>2 DEF BlocksToRead
  <2>4. ASSUME NEW i \in DOMAIN Ports, OnTreeWidgetItemSelectionChanged(i)
        PROVE  <1>2!:
    <3>1. /\ m_tableBase' = Ports[i].base_addr /\ m_numRegs' = Ports[i].n_regs
          /\ m_reg_blks' = RegReadList(Ports[i])
      BY <2>4 DEF OnTreeWidgetItemSelectionChanged
    <3>2. /\ Ports[i].base_addr \in Nat /\ Ports[i].n_regs \in Nat \ {0}
          /\ RegReadList(Ports[i]) \in Seq(BlockRec)
          /\ HasReadable(RegReadList(Ports[i])) /\ NoneEmpty(RegReadList(Ports[i]))
      BY PortBlocks
    <3> QED
      BY <3>1, <3>2 DEF BlocksToRead
  <2> QED
    BY <2>2, <2>3, <2>4
<1>3. /\ UNCHANGED <<m_lastNumRegs, m_reg_blk_idx, rows, m_dlyTimer, m_continueRunning,
                     net, pending, window, dialog, box, fault>>
      /\ FirstUpdate' /\ StopsWithWindow' /\ PollingContinues' /\ IndexInRange'
  BY <1>1, EditKeeps
<1>4. LoopTypes'
  BY <1>2, <1>3 DEF LoopInv, LoopTypes
<1> QED
  BY <1>2, <1>3, <1>4 DEF LoopInv

\* The user opens a dialog.
LEMMA OpenDialogStep ==
    ASSUME LoopInv,
           \/ \E r \in DOMAIN rows : OnItemDoubleClicked(r)
           \/ OnUploadClicked
           \/ OnDownloadClicked
    PROVE  LoopInv'
<1>1. \E d : OpenDialog(d) /\ (d.kind = "write" => d.addr \in Nat)
  <2>1. ASSUME NEW r \in DOMAIN rows, OnItemDoubleClicked(r)
        PROVE  <1>1!:
    <3>1. r \in Nat \ {0} /\ m_tableBase \in Nat
      BY DEF LoopInv, LoopTypes
    <3>2. AddressOfRow(r) \in Nat
      BY <3>1 DEF AddressOfRow
    <3> QED
      BY <2>1, <3>2 DEF OnItemDoubleClicked
  <2>2. CASE OnUploadClicked
    BY <2>2 DEF OnUploadClicked
  <2>3. CASE OnDownloadClicked
    BY <2>3 DEF OnDownloadClicked
  <2> QED
    BY <2>1, <2>2, <2>3
<1>2. PICK d : OpenDialog(d) /\ (d.kind = "write" => d.addr \in Nat)
  BY <1>1
<1>3. /\ UNCHANGED <<m_tableBase, m_numRegs, m_reg_blks, m_lastNumRegs, m_reg_blk_idx, rows,
                     m_dlyTimer, m_continueRunning, net, pending, window, box, fault>>
      /\ dialog' = d
  BY <1>2 DEF OpenDialog, region, table, poll
<1> QED
  BY <1>2, <1>3 DEF LoopInv, LoopTypes, BlocksToRead, FirstUpdate, StopsWithWindow,
                    PollingContinues, UpdatesPending, IndexInRange

\* What a slot that goes on after a dialog asks for goes behind the pending requests;
\* only an upload asks for anything on the channel of the loop.
LEMMA DialogOutcome ==
    ASSUME PayloadTold, LoopInv, AfterDialog
    PROVE  /\ fault' \in {fault, "use_after_free"}
           /\ pending' \in Seq(Trans) /\ (HasUpdate(pending) => HasUpdate(pending'))
           /\ dialog.kind # "upload" =>
                \/ pending' = pending
                \/ \E ch \in {"writer", "download"}, base, len \in Nat, op \in {"read", "write"} :
                        /\ Request(ch, base, len, op) \in Seq(Trans)
                        /\ pending' = pending \o Request(ch, base, len, op)
<1> USE DEF DialogDone
<1>1. pending \in Seq(Trans)
  BY DEF LoopInv, LoopTypes
<1>2. ASSUME NEW more \in Seq(Trans), pending' = pending \o more
      PROVE  pending' \in Seq(Trans) /\ (HasUpdate(pending) => HasUpdate(pending'))
  BY <1>1, <1>2, MorePending
<1>3. CASE UNCHANGED <<pending, fault>>
  BY <1>1, <1>3
<1>4. CASE WriteRegister
  <2>1. dialog.kind = "write" /\ UNCHANGED fault
        /\ pending' = pending \o Request("writer", dialog.addr, 1, "write")
    BY <1>4 DEF WriteRegister, DialogTurns
  <2>2. dialog.addr \in Nat /\ 1 \in Nat
    BY <2>1 DEF LoopInv, LoopTypes
  <2>3. Request("writer", dialog.addr, 1, "write") \in Seq(Trans)
    BY <2>2, RequestTypes
  <2> QED
    BY <1>2, <2>1, <2>2, <2>3
<1>5. ASSUME NEW first \in UploadLengths, NEW second \in UploadLengths, Upload(first, second)
      PROVE  /\ UNCHANGED fault /\ dialog.kind = "upload"
             /\ pending' \in Seq(Trans) /\ (HasUpdate(pending) => HasUpdate(pending'))
  <2> DEFINE more(n) == Request("update", 0, n, "write")
  <2>1. first \in Nat /\ second \in Nat /\ 0 \in Nat
    BY UploadAssumption
  <2>2. more(first) \in Seq(Trans) /\ more(second) \in Seq(Trans)
    BY <2>1, RequestTypes
  <2>3. /\ UNCHANGED fault /\ dialog.kind = "upload"
        /\ pending' = (pending \o more(first)) \o more(second)
    BY <1>5 DEF Upload, DialogTurns
  <2> HIDE DEF more
  <2>4. /\ pending \o more(first) \in Seq(Trans)
        /\ HasUpdate(pending) => HasUpdate(pending \o more(first))
    BY <1>1, <2>2, MorePending
  <2>5. /\ (pending \o more(first)) \o more(second) \in Seq(Trans)
        /\ HasUpdate(pending \o more(first)) =>
                HasUpdate((pending \o more(first)) \o more(second))
    BY <2>2, <2>4, MorePending
  <2> QED
    BY <2>3, <2>4, <2>5
<1>6. ASSUME NEW file \in Files, NEW base \in UserBases, Download(file, base, 2)
      PROVE  \/ UNCHANGED pending /\ fault' = "use_after_free"
             \/ /\ UNCHANGED fault /\ pending' = pending \o Request("download", base, 2, "read")
                /\ base \in Nat /\ 2 \in Nat
                /\ Request("download", base, 2, "read") \in Seq(Trans)
  <2>1. base \in Nat /\ 2 \in Nat
    BY UserAssumption
  <2>2. Request("download", base, 2, "read") \in Seq(Trans)
    BY <2>1, RequestTypes
  <2> QED
    BY <1>6, <2>1, <2>2 DEF Download, InWindow, download
<1>7. ASSUME NEW file \in Files, DownloadFails(file)
      PROVE  UNCHANGED pending /\ fault' \in {fault, "use_after_free"}
  BY <1>7 DEF DownloadFails, InWindow, download
<1>8. CASE DismissError
  BY <1>1, <1>8 DEF DismissError, InWindow, download
<1>9. CASE Cancel \/ RefuseInput
  BY <1>3, <1>9 DEF Cancel, RefuseInput
<1>10. CASE \E first, second \in UploadLengths : Upload(first, second)
  BY <1>5, <1>10
<1>11. CASE \E file \in Files, base \in UserBases : Download(file, base, 2)
  BY <1>1, <1>2, <1>6, <1>11
<1>12. CASE \E file \in Files : DownloadFails(file)
  BY <1>1, <1>7, <1>12
<1> QED
  BY <1>4, <1>8, <1>9, <1>10, <1>11, <1>12, Zenon DEF AfterDialog

\* Such a step keeps the invariant.
LEMMA CommandStep == ASSUME PayloadTold, LoopInv, AfterDialog PROVE LoopInv'
<1>1. PICK kind, next : next \in {"none", "error", "file_error"} /\ DialogTurns(kind, next)
  BY AlwaysTurns
<1>2. /\ UNCHANGED <<m_tableBase, m_numRegs, m_reg_blks, m_lastNumRegs, m_reg_blk_idx, rows,
                     m_dlyTimer, m_continueRunning, net, window, box>>
      /\ dialog'.kind # "write" /\ fault = "none"
  BY <1>1 DEF DialogTurns, region, table, poll
<1>3. /\ pending' \in Seq(Trans) /\ (HasUpdate(pending) => HasUpdate(pending'))
      /\ fault' \in {fault, "use_after_free"}
  BY DialogOutcome
<1>4. LoopTypes' /\ BlocksToRead' /\ FirstUpdate' /\ StopsWithWindow' /\ IndexInRange'
  BY <1>2, <1>3 DEF LoopInv, LoopTypes, BlocksToRead, FirstUpdate, StopsWithWindow,
                    IndexInRange
<1>5. PollingContinues'
  <2>1. SUFFICES ASSUME net' = "up", window' = "shown", fault' = "none"
                 PROVE  m_dlyTimer' \/ HasUpdate(pending')
    BY <1>3, PollingTerms DEF PollingContinues, UpdatesPending
  <2>2. m_dlyTimer \/ HasUpdate(pending)
    BY <1>2, <2>1, PollingTerms
    DEF LoopInv, LoopTypes, PollingContinues, UpdatesPending
  <2> QED
    BY <1>2, <1>3, <2>2
<1> QED
  BY <1>4, <1>5 DEF LoopInv

\* The connection is given up: the loop ends with it.
LEMMA FailureStep == LoopInv /\ ConnectionFails => LoopInv'
<1> SUFFICES ASSUME LoopInv, ConnectionFails PROVE LoopInv'
  OBVIOUS
<1>1. /\ UNCHANGED <<m_tableBase, m_numRegs, m_reg_blks, window, dialog>>
      /\ net' = "down" /\ m_continueRunning' = FALSE /\ box' = TRUE /\ pending' = <<>>
      /\ fault = "none"
  BY DEF ConnectionFails, region
<1>2. /\ UNCHANGED <<m_lastNumRegs, m_reg_blk_idx>>
      /\ m_dlyTimer' \in BOOLEAN /\ DOMAIN rows' = DOMAIN rows
      /\ fault' \in {fault, "null_item"}
  <2>1. CASE ClearRows
    BY <2>1 DEF ClearRows, LoopInv, LoopTypes
  <2>2. CASE UNCHANGED <<table, m_reg_blk_idx, m_dlyTimer, fault>>
    BY <2>2 DEF table, LoopInv, LoopTypes
  <2> QED
    BY <2>1, <2>2 DEF ConnectionFails
<1>3. <<>> \in Seq(Trans)
  OBVIOUS
<1> QED
  BY <1>1, <1>2, <1>3 DEF LoopInv, LoopTypes, BlocksToRead, FirstUpdate, StopsWithWindow,
                          PollingContinues, IndexInRange

\* The window closes or is deleted: nothing has to be read for it any more.
LEMMA ClosingStep ==
    ASSUME LoopInv, CloseEvent \/ DismissBox \/ DeleteLater
    PROVE  LoopInv'
<1>1. CASE CloseEvent \/ DismissBox
  <2>1. /\ UNCHANGED <<m_tableBase, m_numRegs, m_reg_blks, m_lastNumRegs, m_reg_blk_idx, rows,
                       m_dlyTimer, net, pending, dialog, fault>>
        /\ window' = "closed" /\ m_continueRunning' = FALSE
    BY <1>1 DEF CloseEvent, DismissBox, Close, region, table
  <2>2. net # "connecting" /\ box' \in BOOLEAN
    BY <1>1 DEF CloseEvent, DismissBox, AtWork, LoopInv, LoopTypes, FirstUpdate
  <2> QED
    BY <2>1, <2>2 DEF LoopInv, LoopTypes, BlocksToRead, FirstUpdate, StopsWithWindow,
                      PollingContinues, IndexInRange
<1>2. CASE DeleteLater
  <2>1. /\ UNCHANGED <<m_tableBase, m_numRegs, m_reg_blks, m_lastNumRegs, m_reg_blk_idx, rows,
                       m_continueRunning, net, box, fault>>
        /\ window = "closed" /\ window' = "deleted" /\ m_dlyTimer' = FALSE
        /\ pending' = <<>>
        /\ dialog'.kind # "write"
    BY <1>2 DEF DeleteLater, region, table, NoDialog, Unparented
  <2>2. <<>> \in Seq(Trans)
    OBVIOUS
  <2> QED
    BY <2>1, <2>2 DEF LoopInv, LoopTypes, BlocksToRead, FirstUpdate, StopsWithWindow,
                      PollingContinues, IndexInRange
<1> QED
  BY <1>1, <1>2

\* The constructor leaves a region to read: that of the first port, or register
\* 0 if the address map is empty.
LEMMA InitEstablishes == Init => LoopInv
<1> SUFFICES ASSUME Init PROVE LoopInv
  OBVIOUS
<1>1. /\ m_tableBase \in Nat /\ m_numRegs \in Nat \ {0} /\ m_reg_blks \in Seq(BlockRec)
      /\ HasReadable(m_reg_blks) /\ NoneEmpty(m_reg_blks)
  <2>1. CASE Ports = <<>>
    <3>1. m_tableBase = 0 /\ m_numRegs = 1 /\ m_reg_blks = <<Block(0, 1, FALSE)>>
      BY <2>1 DEF Init
    <3>2. 0 \in Nat /\ 1 \in Nat /\ 1 > 0
      OBVIOUS
    <3>3. /\ m_reg_blks \in Seq(BlockRec)
          /\ HasReadable(m_reg_blks) /\ NoneEmpty(m_reg_blks)
      BY <3>1, <3>2, OneBlock, Zenon
    <3>4. m_tableBase \in Nat /\ m_numRegs \in Nat \ {0}
      BY <3>1, <3>2
    <3> QED
      BY <3>3, <3>4
  <2>2. CASE Ports # <<>>
    <3>1. /\ m_tableBase = Ports[1].base_addr /\ m_numRegs = Ports[1].n_regs
          /\ m_reg_blks = RegReadList(Ports[1])
      BY <2>2 DEF Init
    <3>2. 1 \in DOMAIN Ports
      BY <2>2, PortsAssumption, LenProperties, EmptySeq
    <3> QED
      BY <3>1, <3>2, PortBlocks
  <2> QED
    BY <2>1, <2>2
<1>2. BlocksToRead
  BY <1>1 DEF BlocksToRead
<1>3. /\ m_lastNumRegs = 0 /\ m_reg_blk_idx = 0 /\ rows = NewRows /\ m_dlyTimer = FALSE
      /\ m_continueRunning = TRUE /\ net = "connecting" /\ window = "hidden"
      /\ dialog = NoDialog /\ box = FALSE /\ pending = <<>> /\ fault = "none"
  BY DEF Init
<1>4. DOMAIN rows \subseteq Nat \ {0}
  <2>1. DOMAIN rows = 1 .. m_numRegs
    BY <1>3 DEF NewRows
  <2> QED
    BY <1>1, <2>1
<1>5. pending \in Seq(Trans) /\ dialog.kind # "write"
  BY <1>3 DEF NoDialog
<1>6. LoopTypes
  BY <1>1, <1>3, <1>4, <1>5 DEF LoopTypes
<1>7. FirstUpdate /\ StopsWithWindow /\ PollingContinues /\ IndexInRange
  BY <1>1, <1>3 DEF FirstUpdate, StopsWithWindow, PollingContinues, IndexInRange
<1> QED
  BY <1>2, <1>6, <1>7 DEF LoopInv

\* Every step keeps the invariant.
LEMMA StepKeeps == PayloadTold /\ LoopInv /\ [Next]_vars => LoopInv'
<1> SUFFICES ASSUME PayloadTold, LoopInv, [Next]_vars PROVE LoopInv'
  OBVIOUS
<1>1. CASE Program
  BY <1>1, DelayDoneStep, ResultStep, ConnectStep, ClosingStep DEF Program
<1>2. CASE User
  BY <1>2, EditStep, OpenDialogStep, CommandStep, ClosingStep DEF User
<1>3. CASE ConnectionFails
  BY <1>3, FailureStep
<1>4. CASE UNCHANGED vars
  BY <1>4 DEF vars, region, table, poll, frame, LoopInv, LoopTypes, BlocksToRead,
              FirstUpdate, StopsWithWindow, PollingContinues, UpdatesPending, IndexInRange
<1> QED
  BY <1>1, <1>2, <1>3, <1>4 DEF Next

\* The invariant holds in every state the program reaches.
LEMMA LoopInvHolds == Spec => []LoopInv
<1> QED
  BY InitEstablishes, StepKeeps, PayloadToldHolds, PTL DEF Spec

--------------------------------------------------------------------------------
(* One request at a time.                                                    *)

\* At most one request of the polling loop is under way.
AtMostOne(queue) ==
    \A j, k \in 1 .. Len(queue) : queue[j].ch = "update" /\ queue[k].ch = "update" => j = k

\* Without uploads there is one loop as long as each block is one transaction.
OneLoop == IF m_dlyTimer THEN ~HasUpdate(pending) ELSE AtMostOne(pending)

\* The region and its blocks are among those EveryRegionFits speaks of.
RegionKnown ==
    /\ m_numRegs \in RegionLengths
    /\ EveryRegionFits => NoneLonger(m_reg_blks, m_maxPayloadWords)

\* No command comes before the window is shown, and each is remembered.
UploadKnown ==
    /\ commands \in Seq({"write", "upload", "download"})
    /\ dialog.kind = "upload" => ~NoUpload
    /\ net = "connecting" => dialog.kind = "none" /\ ~m_dlyTimer /\ ~HasUpdate(pending)

OneLoopInv ==
    /\ RegionKnown /\ UploadKnown
    /\ NoUpload /\ EveryRegionFits => OneLoop

\* A request that fits one transaction is at most one.
LEMMA OnePiece ==
    ASSUME PayloadTold, NEW len \in Nat, len <= m_maxPayloadWords
    PROVE  Pieces(len) <= 1
<1> DEFINE m == m_maxPayloadWords
           q == (len + m - 1) \div m
           r == (len + m - 1) % m
<1>1. m \in Nat \ {0}
  BY DEF PayloadTold
<1> HIDE DEF m, q, r
<1>2. q \in Int /\ r \in 0 .. (m - 1) /\ len + m - 1 = m * q + r
  <2>1. len + m - 1 \in Int /\ m > 0
    BY <1>1
  <2> QED
    BY <1>1, <2>1 DEF q, r
<1>3. m * q < m * 2
  BY <1>1, <1>2 DEF m
<1>4. q < 2
  BY <1>1, <1>2, <1>3
<1> QED
  BY <1>2, <1>4 DEF q, m, Pieces

\* Pieces are for the channel that asks.
LEMMA PieceChannels ==
    ASSUME PayloadTold, NEW ch, NEW base, NEW len \in Nat, NEW op
    PROVE  LET more == Request(ch, base, len, op)
           IN  /\ \A k \in 1 .. Len(more) : more[k].ch = ch
               /\ ch # "update" => ~HasUpdate(more)
               /\ len <= m_maxPayloadWords => Len(more) <= 1
<1> DEFINE n == Pieces(len)
           t(k) == LET start == (k - 1) * m_maxPayloadWords
                   IN  [ch |-> ch, base |-> base + start, op |-> op,
                        len |-> IF len - start < m_maxPayloadWords THEN len - start
                                                                   ELSE m_maxPayloadWords]
<1>1. Request(ch, base, len, op) = [k \in 1 .. n |-> t(k)]
  BY DEF Request
<1>2. \A k \in 1 .. n : t(k).ch = ch
  OBVIOUS
<1>3. n \in Nat
  <2> DEFINE sum == len + m_maxPayloadWords - 1
  <2>1. sum \in Nat /\ m_maxPayloadWords \in Nat /\ m_maxPayloadWords > 0
    BY DEF PayloadTold
  <2> HIDE DEF sum
  <2>2. sum \div m_maxPayloadWords \in Nat
    BY <2>1
  <2> QED
    BY <2>2 DEF sum, Pieces
<1>4. len <= m_maxPayloadWords => n <= 1
  BY OnePiece
<1> HIDE DEF n, t
<1>5. Len([k \in 1 .. n |-> t(k)]) = n
  BY <1>3
<1>6. \A k \in 1 .. n : [j \in 1 .. n |-> t(j)][k].ch = ch
  BY <1>2
<1> QED
  BY <1>1, <1>4, <1>5, <1>6 DEF HasUpdate

\* One request more when there is none, or requests of other channels.
LEMMA OneMore ==
    ASSUME NEW queue \in Seq(Trans), NEW more \in Seq(Trans)
    PROVE  /\ ~HasUpdate(queue) /\ Len(more) <= 1 => AtMostOne(queue \o more)
           /\ ~HasUpdate(queue) /\ ~HasUpdate(more) => ~HasUpdate(queue \o more)
           /\ AtMostOne(queue) /\ ~HasUpdate(more) => AtMostOne(queue \o more)
<1>1. /\ Len(queue \o more) = Len(queue) + Len(more)
      /\ \A k \in 1 .. Len(queue) + Len(more) :
            (queue \o more)[k] = IF k <= Len(queue) THEN queue[k] ELSE more[k - Len(queue)]
  BY ConcatProperties
<1>2. Len(queue) \in Nat /\ Len(more) \in Nat
  BY LenProperties
<1>3. ASSUME NEW k \in 1 .. Len(queue \o more), (queue \o more)[k].ch = "update"
      PROVE  \/ k \in 1 .. Len(queue) /\ queue[k].ch = "update"
             \/ k - Len(queue) \in 1 .. Len(more) /\ more[k - Len(queue)].ch = "update"
  <2>1. CASE k <= Len(queue)
    BY <1>1, <1>2, <1>3, <2>1
  <2>2. CASE ~(k <= Len(queue))
    <3>1. k - Len(queue) \in 1 .. Len(more)
      BY <1>1, <1>2, <2>2
    <3>2. (queue \o more)[k] = more[k - Len(queue)]
      BY <1>1, <2>2
    <3> QED
      BY <1>3, <3>1, <3>2
  <2> QED
    BY <2>1, <2>2
<1>4. ~HasUpdate(queue) /\ Len(more) <= 1 => AtMostOne(queue \o more)
  <2>1. SUFFICES ASSUME ~HasUpdate(queue), Len(more) <= 1,
                        NEW j \in 1 .. Len(queue \o more), NEW k \in 1 .. Len(queue \o more),
                        (queue \o more)[j].ch = "update", (queue \o more)[k].ch = "update"
                 PROVE  j = k
    BY DEF AtMostOne
  <2>2. j - Len(queue) \in 1 .. Len(more) /\ k - Len(queue) \in 1 .. Len(more)
    BY <1>3, <2>1 DEF HasUpdate
  <2> QED
    BY <1>2, <2>1, <2>2
<1>5. ~HasUpdate(queue) /\ ~HasUpdate(more) => ~HasUpdate(queue \o more)
  BY <1>3 DEF HasUpdate
<1>6. AtMostOne(queue) /\ ~HasUpdate(more) => AtMostOne(queue \o more)
  BY <1>3 DEF HasUpdate, AtMostOne
<1> QED
  BY <1>4, <1>5, <1>6

\* The oldest request is answered: the one of the loop, or another.
LEMMA OneLess ==
    ASSUME NEW queue \in Seq(Trans), queue # <<>>
    PROVE  /\ AtMostOne(queue) => AtMostOne(Tail(queue))
           /\ AtMostOne(queue) /\ queue[1].ch = "update" => ~HasUpdate(Tail(queue))
           /\ ~HasUpdate(queue) => ~HasUpdate(Tail(queue)) /\ queue[1].ch # "update"
<1>1. /\ Len(Tail(queue)) = Len(queue) - 1
      /\ \A i \in 1 .. Len(Tail(queue)) : Tail(queue)[i] = queue[i + 1]
  BY HeadTailProperties
<1>2. Len(queue) \in Nat /\ Len(queue) > 0
  BY LenProperties, EmptySeq
<1>3. 1 \in 1 .. Len(queue)
  BY <1>2
<1>4. \A k \in 1 .. Len(Tail(queue)) : k + 1 \in 1 .. Len(queue) /\ k + 1 # 1
  BY <1>1, <1>2
<1>5. AtMostOne(queue) => AtMostOne(Tail(queue))
  <2>1. SUFFICES ASSUME AtMostOne(queue),
                        NEW j \in 1 .. Len(Tail(queue)), NEW k \in 1 .. Len(Tail(queue)),
                        Tail(queue)[j].ch = "update", Tail(queue)[k].ch = "update"
                 PROVE  j = k
    BY DEF AtMostOne
  <2>2. j + 1 = k + 1
    BY <1>1, <1>4, <2>1 DEF AtMostOne
  <2> QED
    BY <2>2
<1>6. AtMostOne(queue) /\ queue[1].ch = "update" => ~HasUpdate(Tail(queue))
  BY <1>1, <1>3, <1>4 DEF AtMostOne, HasUpdate
<1>7. ~HasUpdate(queue) => ~HasUpdate(Tail(queue)) /\ queue[1].ch # "update"
  BY <1>1, <1>3, <1>4 DEF HasUpdate
<1> QED
  BY <1>5, <1>6, <1>7

\* A block is asked for when the loop has no request under way: one request is then.
LEMMA OneBlockAsked ==
    ASSUME PayloadTold, m_reg_blks \in Seq(BlockRec), NoneLonger(m_reg_blks, m_maxPayloadWords),
           NEW i \in Nat, NEW queue \in Seq(Trans), ~HasUpdate(queue), ReadBlock(i, queue)
    PROVE  AtMostOne(pending')
<1>1. CASE i < Size
  <2> DEFINE base == m_reg_blks[i + 1].base
             len == m_reg_blks[i + 1].len
             more == Request("update", base, len, "read")
  <2>1. pending' = queue \o more
    BY <1>1 DEF ReadBlock
  <2>2. i + 1 \in 1 .. Len(m_reg_blks)
    BY <1>1, LenProperties DEF Size
  <2>3. len \in Nat /\ base \in Nat /\ len <= m_maxPayloadWords
    <3>1. m_reg_blks[i + 1] \in BlockRec
      BY <2>2, ElementOfSeq
    <3> QED
      BY <2>2, <3>1 DEF BlockRec, NoneLonger
  <2> HIDE DEF base, len
  <2>4. Len(more) <= 1
    BY <2>3, PieceChannels
  <2>5. more \in Seq(Trans)
    <3>1. CASE len = 0
      <4>1. Pieces(0) \in Int /\ Pieces(0) < 1
        <5> DEFINE m == m_maxPayloadWords
                   q == (m - 1) \div m
        <5>1. m \in Nat \ {0}
          BY DEF PayloadTold
        <5> HIDE DEF m
        <5>2. q = 0
          BY <5>1
        <5>3. Pieces(0) = q
          BY <5>1 DEF Pieces, m
        <5> QED
          BY <5>2, <5>3
      <4>2. more = <<>>
        BY <3>1, <4>1 DEF Request
      <4>3. <<>> \in Seq(Trans)
        OBVIOUS
      <4> QED
        BY <4>2, <4>3, Zenon
    <3>2. CASE len # 0
      <4>1. "update" \in {"update", "writer", "download"} /\ "read" \in {"read", "write"}
            /\ len \in Nat \ {0}
        BY <2>3, <3>2
      <4> QED
        BY <2>3, <4>1, RequestPieces, Zenon
    <3> QED
      BY <3>1, <3>2
  <2> HIDE DEF more
  <2> QED
    BY <2>1, <2>4, <2>5, OneMore
<1>2. CASE ~(i < Size)
  BY <1>2 DEF ReadBlock, HasUpdate, AtMostOne
<1> QED
  BY <1>1, <1>2

\* The loop starts over when the timer has fired or the connection is up.
LEMMA OneStart ==
    ASSUME PayloadTold, LoopTypes, NoneLonger(m_reg_blks, m_maxPayloadWords),
           ~HasUpdate(pending), UpdateFromFPGA2(pending)
    PROVE  AtMostOne(pending')
<1>1. CASE pending' = pending
  BY <1>1 DEF HasUpdate, AtMostOne
<1>2. CASE ReadBlock(NextReadable(0), pending)
  <2>1. NextReadable(0) \in Nat
    BY NextReadableFinds DEF LoopTypes
  <2> QED
    BY <1>2, <2>1, OneBlockAsked DEF LoopTypes
<1> QED
  BY <1>1, <1>2 DEF UpdateFromFPGA2

\* What steps that leave the region and the commands alone keep.
LEMMA KnownKept ==
    ASSUME OneLoopInv,
           UNCHANGED <<m_numRegs, m_reg_blks, m_maxPayloadWords, commands>>
    PROVE  /\ RegionKnown'
           /\ NoUpload' = NoUpload /\ EveryRegionFits' = EveryRegionFits
           /\ commands' \in Seq({"write", "upload", "download"})
  BY DEF OneLoopInv, RegionKnown, UploadKnown, NoUpload, EveryRegionFits, RegionLengths,
         NoneLonger

\* Of the loop itself.
LEMMA OneLoopProgram ==
    ASSUME PayloadTold, LoopInv, OneLoopInv,
           \/ OnDelayDone
           \/ \E isAck \in BOOLEAN : Result(isAck)
           \/ \E isOk \in BOOLEAN : OnConnectResult(isOk)
           \/ DeleteLater
    PROVE  OneLoopInv'
<1> DEFINE Kept == /\ UNCHANGED <<m_numRegs, m_reg_blks, m_maxPayloadWords, commands>>
                   /\ dialog'.kind = "upload" => dialog.kind = "upload"
                   /\ net' # "connecting"
<1>1. LoopTypes /\ pending \in Seq(Trans) /\ m_dlyTimer \in BOOLEAN
  BY DEF LoopInv, LoopTypes
<1>2. ASSUME Kept, (NoUpload /\ EveryRegionFits => OneLoop')
      PROVE  OneLoopInv'
  BY <1>2, KnownKept DEF OneLoopInv, UploadKnown
<1>3. NoUpload /\ EveryRegionFits => OneLoop /\ NoneLonger(m_reg_blks, m_maxPayloadWords)
  BY DEF OneLoopInv, RegionKnown
<1>4. CASE OnDelayDone
  <2>1. /\ m_dlyTimer /\ m_dlyTimer' = FALSE /\ UpdateFromFPGA2(pending)
        /\ UNCHANGED <<m_numRegs, m_reg_blks, m_maxPayloadWords, commands, dialog, net>>
    BY <1>4 DEF OnDelayDone, region, frame, user
  <2>2. net # "connecting"
    BY <2>1 DEF OneLoopInv, UploadKnown
  <2>3. NoUpload /\ EveryRegionFits => OneLoop'
    BY <1>1, <1>3, <2>1, OneStart DEF OneLoop
  <2> QED
    BY <1>2, <2>1, <2>2, <2>3
<1>5. ASSUME NEW isAck \in BOOLEAN, Result(isAck)
      PROVE  OneLoopInv'
  <2>1. /\ pending # <<>>
        /\ UNCHANGED <<m_numRegs, m_reg_blks, m_maxPayloadWords, commands, dialog, net>>
    BY <1>5 DEF Result, region, frame, user
  <2>2. /\ Tail(pending) \in Seq(Trans)
        /\ AtMostOne(pending) => AtMostOne(Tail(pending))
        /\ AtMostOne(pending) /\ pending[1].ch = "update" => ~HasUpdate(Tail(pending))
        /\ ~HasUpdate(pending) => ~HasUpdate(Tail(pending)) /\ pending[1].ch # "update"
    BY <1>1, <2>1, AnswerElsewhere, OneLess
  <2>3. CASE pending[1].ch # "update"
    <3>1. pending' = Tail(pending) /\ m_dlyTimer' = m_dlyTimer
      BY <1>5, <2>3 DEF Result, OnDownloadResult
    <3>2. net = "connecting" => ~HasUpdate(pending') /\ ~m_dlyTimer'
      BY <2>2, <3>1 DEF OneLoopInv, UploadKnown
    <3>3. NoUpload /\ EveryRegionFits => OneLoop'
      BY <1>3, <2>2, <3>1 DEF OneLoop
    <3> QED
      BY <2>1, <3>2, <3>3, KnownKept DEF OneLoopInv, UploadKnown
  <2>4. CASE pending[1].ch = "update"
    <3>1. OnUpdate2Done(pending[1], isAck)
      BY <1>5, <2>4 DEF Result
    <3>2. HasUpdate(pending)
      BY <2>2, <2>4
    <3>3. net # "connecting"
      BY <3>2 DEF OneLoopInv, UploadKnown
    <3>4. ASSUME NoUpload, EveryRegionFits
          PROVE  OneLoop'
      <4>1. m_dlyTimer = FALSE /\ AtMostOne(pending) /\ NoneLonger(m_reg_blks, m_maxPayloadWords)
        BY <1>1, <1>3, <3>2, <3>4 DEF OneLoop
      <4>2. ~HasUpdate(Tail(pending))
        BY <2>2, <2>4, <4>1
      <4>3. CASE m_dlyTimer' = TRUE /\ pending' = Tail(pending)
        BY <4>2, <4>3 DEF OneLoop
      <4>4. CASE ShowAndReadOn(pending[1])
        <5> DEFINE next == NextIndex
        <5>1. \/ m_dlyTimer' = TRUE /\ pending' = Tail(pending)
              \/ ReadBlock(next, Tail(pending)) /\ m_dlyTimer' = m_dlyTimer
          BY <4>4 DEF ShowAndReadOn
        <5>2. next \in Nat
          <6>1. m_reg_blk_idx + 1 \in Nat /\ m_reg_blks \in Seq(BlockRec)
            BY <1>1 DEF LoopTypes
          <6> QED
            BY <6>1, NextReadableFinds DEF NextIndex
        <5> HIDE DEF next
        <5>3. CASE ReadBlock(next, Tail(pending)) /\ m_dlyTimer' = m_dlyTimer
          <6>1. AtMostOne(pending')
            BY <1>1, <2>2, <4>1, <4>2, <5>2, <5>3, OneBlockAsked DEF LoopTypes
          <6> QED
            BY <4>1, <5>3, <6>1 DEF OneLoop
        <5> QED
          BY <4>3, <5>1, <5>3
      <4> QED
        BY <3>1, <4>3, <4>4 DEF OnUpdate2Done, ClearRows
    <3> QED
      BY <1>2, <2>1, <3>3, <3>4
  <2> QED
    BY <2>3, <2>4
<1>6. ASSUME NEW isOk \in BOOLEAN, OnConnectResult(isOk)
      PROVE  OneLoopInv'
  <2>1. /\ net = "connecting" /\ net' # "connecting" /\ m_dlyTimer' = m_dlyTimer
        /\ UNCHANGED <<m_numRegs, m_reg_blks, m_maxPayloadWords, commands, dialog>>
        /\ UpdateFromFPGA2(pending) \/ pending' = pending
    BY <1>6 DEF OnConnectResult, region, user
  <2>2. ~m_dlyTimer /\ ~HasUpdate(pending)
    BY <2>1 DEF OneLoopInv, UploadKnown
  <2>3. NoUpload /\ EveryRegionFits => AtMostOne(pending')
    <3>1. AtMostOne(pending)
      BY <2>2 DEF HasUpdate, AtMostOne
    <3>2. CASE pending' = pending
      BY <3>1, <3>2
    <3>3. CASE UpdateFromFPGA2(pending)
      BY <1>1, <1>3, <2>2, <3>3, OneStart
    <3> QED
      BY <2>1, <3>2, <3>3
  <2> QED
    BY <1>1, <1>2, <2>1, <2>2, <2>3 DEF OneLoop
<1>7. CASE DeleteLater
  <2>1. /\ UNCHANGED <<m_numRegs, m_reg_blks, m_maxPayloadWords, commands, net>>
        /\ dialog'.kind = "upload" => dialog.kind = "upload"
        /\ net = "connecting" => dialog.kind = "none" /\ dialog'.kind = "none"
        /\ m_dlyTimer' = FALSE /\ pending' = <<>>
    BY <1>7 DEF DeleteLater, region, user, NoDialog, OneLoopInv, UploadKnown
  <2>2. ~HasUpdate(pending') /\ AtMostOne(pending')
    BY <2>1 DEF HasUpdate, AtMostOne
  <2> QED
    BY <2>1, <2>2, KnownKept DEF OneLoopInv, UploadKnown, OneLoop
<1> QED
  BY <1>4, <1>5, <1>6, <1>7

\* Another region is displayed.
LEMMA OneLoopEdit ==
    ASSUME PayloadTold, LoopInv, OneLoopInv,
           \/ \E val \in UserBases : OnBaseAddrChange(val)
           \/ \E val \in UserLengths : OnLengthChange(val)
           \/ \E i \in DOMAIN Ports : OnTreeWidgetItemSelectionChanged(i)
    PROVE  OneLoopInv'
<1>1. UNCHANGED <<m_maxPayloadWords, commands, dialog, net, pending, m_dlyTimer>>
  BY DEF OnBaseAddrChange, OnLengthChange, OnTreeWidgetItemSelectionChanged, Edit, poll, frame
<1>2. ASSUME NEW base \in Nat, NEW len \in RegionLengths, len \in Nat,
             m_numRegs' = len, m_reg_blks' = <<Block(base, len, FALSE)>>
      PROVE  RegionKnown'
  <2>1. Len(m_reg_blks') = 1 /\ m_reg_blks'[1].len = len
    BY <1>2 DEF Block
  <2>2. EveryRegionFits' => len <= m_maxPayloadWords'
    BY <1>2 DEF EveryRegionFits, RegionLengths
  <2>3. EveryRegionFits' => NoneLonger(m_reg_blks', m_maxPayloadWords')
    <3>1. \A j \in 1 .. Len(m_reg_blks') : j = 1
      BY <2>1
    <3> QED
      BY <2>1, <2>2, <3>1 DEF NoneLonger
  <2> QED
    BY <1>2, <2>3 DEF RegionKnown, RegionLengths
<1>3. m_tableBase \in Nat /\ m_numRegs \in Nat /\ m_numRegs \in RegionLengths
  BY DEF LoopInv, LoopTypes, OneLoopInv, RegionKnown
<1>4. RegionKnown'
  <2>1. ASSUME NEW val \in UserBases, OnBaseAddrChange(val)
        PROVE  RegionKnown'
    BY <1>2, <1>3, <2>1, UserAssumption DEF OnBaseAddrChange
  <2>2. ASSUME NEW val \in UserLengths, OnLengthChange(val)
        PROVE  RegionKnown'
    <3>1. val \in RegionLengths /\ val \in Nat
      BY UserAssumption DEF RegionLengths
    <3> QED
      BY <1>2, <1>3, <2>2, <3>1 DEF OnLengthChange
  <2>3. ASSUME NEW i \in DOMAIN Ports, OnTreeWidgetItemSelectionChanged(i)
        PROVE  RegionKnown'
    <3>1. m_numRegs' = Ports[i].n_regs /\ m_reg_blks' = RegReadList(Ports[i])
      BY <2>3 DEF OnTreeWidgetItemSelectionChanged
    <3>2. Ports[i].n_regs \in RegionLengths
      BY DEF RegionLengths
    <3>3. EveryRegionFits' => NoneLonger(m_reg_blks', m_maxPayloadWords')
      <4>1. SUFFICES ASSUME EveryRegionFits' PROVE NoneLonger(m_reg_blks', m_maxPayloadWords')
        OBVIOUS
      <4>2. Ports[i].n_regs <= m_maxPayloadWords'
        BY <3>2, <4>1 DEF EveryRegionFits, RegionLengths
      <4>3. NoneLonger(m_reg_blks', Ports[i].n_regs)
            /\ m_reg_blks' \in Seq(BlockRec) /\ Ports[i].n_regs \in Nat
        BY <3>1, PortBlocks
      <4>4. \A j \in 1 .. Len(m_reg_blks') : m_reg_blks'[j].len \in Nat
        <5> DEFINE blocks == m_reg_blks'
        <5> HIDE DEF blocks
        <5>1. \A j \in 1 .. Len(blocks) : blocks[j] \in BlockRec
          BY <4>3, ElementOfSeq DEF blocks
        <5> QED
          BY <5>1 DEF BlockRec, blocks
      <4>5. m_maxPayloadWords' \in Nat
        BY <1>1 DEF PayloadTold
      <4> QED
        BY <4>2, <4>3, <4>4, <4>5 DEF NoneLonger
    <3> QED
      BY <3>1, <3>2, <3>3 DEF RegionKnown, RegionLengths
  <2> QED
    BY <2>1, <2>2, <2>3
<1> QED
  BY <1>1, <1>4 DEF OneLoopInv, UploadKnown, OneLoop, NoUpload, EveryRegionFits, RegionLengths

\* A command is begun: an upload is one from then on.
LEMMA OneLoopDialog ==
    ASSUME LoopInv, OneLoopInv, NEW d, OpenDialog(d)
    PROVE  OneLoopInv'
<1>1. /\ UNCHANGED <<m_numRegs, m_reg_blks, m_maxPayloadWords, net, pending, m_dlyTimer>>
      /\ window = "shown" /\ d.kind \in Commands
      /\ commands' = Append(commands, d.kind) /\ dialog' = d
  BY DEF OpenDialog, AtWork, region, poll
<1>2. net # "connecting"
  BY <1>1 DEF LoopInv, FirstUpdate
<1>3. d.kind \in {"write", "upload", "download"}
  BY <1>1, CommandsAssumption
<1>4. /\ commands' \in Seq({"write", "upload", "download"})
      /\ d.kind = "upload" => ~NoUpload'
      /\ NoUpload' => NoUpload
  <2> DEFINE more == commands'
  <2>1. commands \in Seq({"write", "upload", "download"})
    BY DEF OneLoopInv, UploadKnown
  <2>2. /\ more \in Seq({"write", "upload", "download"}) /\ Len(more) = Len(commands) + 1
        /\ \A i \in 1 .. Len(commands) : more[i] = commands[i]
        /\ more[Len(commands) + 1] = d.kind
    BY <1>1, <1>3, <2>1, AppendProperties
  <2>3. DOMAIN commands = 1 .. Len(commands) /\ Len(commands) \in Nat
    BY <2>1, LenProperties
  <2> HIDE DEF more
  <2>4. DOMAIN more = 1 .. Len(more)
    BY <2>2, LenProperties
  <2>5. /\ Len(commands) + 1 \in DOMAIN more
        /\ \A i \in DOMAIN commands : i \in DOMAIN more /\ more[i] = commands[i]
    BY <2>2, <2>3, <2>4
  <2> QED
    BY <2>2, <2>5 DEF NoUpload, more
<1>5. RegionKnown' /\ EveryRegionFits' = EveryRegionFits
  BY <1>1 DEF OneLoopInv, RegionKnown, EveryRegionFits, RegionLengths, NoneLonger
<1> QED
  BY <1>1, <1>2, <1>4, <1>5 DEF OneLoopInv, UploadKnown, OneLoop

\* A command ends: what it asks for is asked for on its own channel.
LEMMA OneLoopCommand == ASSUME PayloadTold, LoopInv, OneLoopInv, AfterDialog PROVE OneLoopInv'
<1>1. PICK kind \in {"write", "upload", "download", "error", "file_error"},
           next \in {"none", "error", "file_error"} : DialogTurns(kind, next)
  BY AlwaysTurns
<1>2. /\ UNCHANGED <<m_numRegs, m_reg_blks, m_maxPayloadWords, commands, net, m_dlyTimer>>
      /\ dialog'.kind # "upload" /\ dialog.kind # "none"
  BY <1>1 DEF DialogTurns, region, poll, user
<1>3. net # "connecting"
  BY <1>2 DEF OneLoopInv, UploadKnown
<1>4. pending \in Seq(Trans)
  BY DEF LoopInv, LoopTypes
<1>5. ASSUME NEW more \in Seq(Trans), ~HasUpdate(more), pending' = pending \o more
      PROVE  OneLoop => OneLoop'
  BY <1>2, <1>4, <1>5, OneMore DEF OneLoop
<1>6. ASSUME NoUpload, EveryRegionFits PROVE OneLoop'
  <2>1. OneLoop /\ dialog.kind # "upload"
    BY <1>6 DEF OneLoopInv, UploadKnown
  <2>2. CASE pending' = pending
    BY <1>2, <2>1, <2>2 DEF OneLoop
  <2>3. ASSUME NEW ch \in {"writer", "download"}, NEW base \in Nat, NEW len \in Nat,
               NEW op \in {"read", "write"},
               Request(ch, base, len, op) \in Seq(Trans),
               pending' = pending \o Request(ch, base, len, op)
        PROVE  OneLoop'
    <3>1. ~HasUpdate(Request(ch, base, len, op))
      BY PieceChannels
    <3> QED
      BY <1>5, <2>1, <2>3, <3>1
  <2> QED
    BY <2>1, <2>2, <2>3, DialogOutcome
<1> QED
  BY <1>2, <1>3, <1>6, KnownKept DEF OneLoopInv, UploadKnown

\* The connection fails, or the window closes.
LEMMA OneLoopEnds ==
    ASSUME LoopInv, OneLoopInv, ConnectionFails \/ CloseEvent \/ DismissBox
    PROVE  OneLoopInv'
<1>1. CASE ConnectionFails
  <2>1. /\ UNCHANGED <<m_numRegs, m_reg_blks, m_maxPayloadWords, commands, dialog>>
        /\ net' = "down" /\ pending' = <<>>
    BY <1>1 DEF ConnectionFails, region, user
  <2>2. ~HasUpdate(pending') /\ AtMostOne(pending')
    BY <2>1 DEF HasUpdate, AtMostOne
  <2> QED
    BY <2>1, <2>2, KnownKept DEF OneLoopInv, UploadKnown, OneLoop
<1>2. CASE CloseEvent \/ DismissBox
  <2>1. UNCHANGED <<m_numRegs, m_reg_blks, m_maxPayloadWords, commands, dialog, net, pending,
                    m_dlyTimer>>
    BY <1>2 DEF CloseEvent, DismissBox, Close, region, user
  <2> QED
    BY <2>1, KnownKept DEF OneLoopInv, UploadKnown, OneLoop
<1> QED
  BY <1>1, <1>2

LEMMA OneLoopInit == Init => OneLoopInv
<1> SUFFICES ASSUME Init PROVE OneLoopInv
  OBVIOUS
<1>1. /\ dialog.kind = "none" /\ m_dlyTimer = FALSE /\ pending = <<>> /\ commands = <<>>
      /\ m_maxPayloadWords \in Nat \ {0}
  BY PayloadAssumption DEF Init, NoDialog
<1>2. ~HasUpdate(pending) /\ AtMostOne(pending)
  BY <1>1 DEF HasUpdate, AtMostOne
<1>3. RegionKnown
  <2>1. CASE Ports = <<>>
    <3>1. m_numRegs = 1 /\ m_reg_blks = <<Block(0, 1, FALSE)>>
      BY <2>1 DEF Init
    <3>2. Len(m_reg_blks) = 1 /\ m_reg_blks[1].len = 1
      BY <3>1 DEF Block
    <3>3. \A j \in 1 .. Len(m_reg_blks) : j = 1
      BY <3>2
    <3>4. m_numRegs \in RegionLengths
      BY <3>1 DEF RegionLengths
    <3>5. NoneLonger(m_reg_blks, m_maxPayloadWords)
      BY <1>1, <3>2, <3>3 DEF NoneLonger
    <3> QED
      BY <3>4, <3>5 DEF RegionKnown
  <2>2. CASE Ports # <<>>
    <3>1. m_numRegs = Ports[1].n_regs /\ m_reg_blks = RegReadList(Ports[1])
      BY <2>2 DEF Init
    <3>2. 1 \in DOMAIN Ports
      BY <2>2, PortsAssumption, LenProperties, EmptySeq
    <3>3. m_numRegs \in RegionLengths
      BY <3>1, <3>2 DEF RegionLengths
    <3>4. /\ NoneLonger(m_reg_blks, m_numRegs) /\ m_numRegs \in Nat
          /\ m_reg_blks \in Seq(BlockRec)
      BY <3>1, <3>2, PortBlocks
    <3>5. \A j \in 1 .. Len(m_reg_blks) : m_reg_blks[j].len \in Nat
      <4>1. \A j \in 1 .. Len(m_reg_blks) : m_reg_blks[j] \in BlockRec
        BY <3>4, ElementOfSeq
      <4> QED
        BY <4>1 DEF BlockRec
    <3>6. ASSUME m_numRegs <= m_maxPayloadWords
          PROVE  NoneLonger(m_reg_blks, m_maxPayloadWords)
      BY <1>1, <3>4, <3>5, <3>6 DEF NoneLonger
    <3>7. EveryRegionFits => m_numRegs <= m_maxPayloadWords
      BY <3>3 DEF EveryRegionFits
    <3> QED
      BY <3>3, <3>6, <3>7 DEF RegionKnown
  <2> QED
    BY <2>1, <2>2
<1> QED
  BY <1>1, <1>2, <1>3 DEF OneLoopInv, UploadKnown, OneLoop

LEMMA OneLoopStep == PayloadTold /\ LoopInv /\ OneLoopInv /\ [Next]_vars => OneLoopInv'
<1> SUFFICES ASSUME PayloadTold, LoopInv, OneLoopInv, [Next]_vars PROVE OneLoopInv'
  OBVIOUS
<1>1. CASE Program
  BY <1>1, OneLoopProgram DEF Program
<1>2. CASE User
  <2>1. CASE \/ \E r \in DOMAIN rows : OnItemDoubleClicked(r)
             \/ OnUploadClicked
             \/ OnDownloadClicked
    <3>1. PICK d : OpenDialog(d)
      BY <2>1 DEF OnItemDoubleClicked, OnUploadClicked, OnDownloadClicked
    <3> QED
      BY <3>1, OneLoopDialog
  <2> QED
    BY <1>2, <2>1, OneLoopEdit, OneLoopCommand, OneLoopEnds DEF User
<1>3. CASE ConnectionFails
  BY <1>3, OneLoopEnds
<1>4. CASE UNCHANGED vars
  <2>1. UNCHANGED <<m_numRegs, m_reg_blks, m_maxPayloadWords, commands, dialog, net, pending,
                    m_dlyTimer>>
    BY <1>4 DEF vars, region, poll, frame, user
  <2> QED
    BY <2>1, KnownKept DEF OneLoopInv, UploadKnown, OneLoop
<1> QED
  BY <1>1, <1>2, <1>3, <1>4 DEF Next

LEMMA OneLoopHolds == Spec => []OneLoopInv
<1> QED
  BY OneLoopInit, OneLoopStep, LoopInvHolds, PayloadToldHolds, PTL DEF Spec

--------------------------------------------------------------------------------
(* Types of the rest of the state.                                           *)

RowRec == [addr : Nat, shown : Nat \cup {NoValue}]
TableTypes == m_lastTableBase \in Nat /\ rows \in Seq(RowRec)

\* A table whose rows are changed one by one keeps its size and stays a table.
LEMMA RowByRow ==
    ASSUME rows \in Seq(RowRec), NEW new,
           DOMAIN new = DOMAIN rows, new = [r \in DOMAIN new |-> new[r]],
           \A r \in DOMAIN rows : new[r] = rows[r] \/ \E v \in Nat \cup {NoValue} :
                                                        new[r] = [rows[r] EXCEPT !.shown = v]
    PROVE  new \in Seq(RowRec)
<1>1. DOMAIN rows = 1 .. Len(rows) /\ Len(rows) \in Nat
  BY LenProperties
<1>2. \A r \in 1 .. Len(rows) : rows[r] \in RowRec
  BY ElementOfSeq
<1>3. \A row \in RowRec, v \in Nat \cup {NoValue} : [row EXCEPT !.shown = v] \in RowRec
  BY DEF RowRec
<1>4. \A r \in 1 .. Len(rows) : new[r] \in RowRec
  BY <1>1, <1>2, <1>3
<1> QED
  BY <1>1, <1>4

\* Clearing shows no value anywhere, or in the rows the region has.
LEMMA ClearedRows == ASSUME TableTypes, ClearRows PROVE TableTypes'
<1>1. m_lastTableBase' = m_lastTableBase
  BY DEF ClearRows
<1>2. CASE rows' = rows
  BY <1>1, <1>2 DEF TableTypes
<1>3. CASE rows' = [r \in DOMAIN rows |-> IF r <= m_numRegs
                                          THEN [rows[r] EXCEPT !.shown = NoValue]
                                          ELSE rows[r]]
  <2> DEFINE new == [r \in DOMAIN rows |-> IF r <= m_numRegs
                                           THEN [rows[r] EXCEPT !.shown = NoValue]
                                           ELSE rows[r]]
  <2>1. /\ DOMAIN new = DOMAIN rows /\ new = [r \in DOMAIN new |-> new[r]]
        /\ \A r \in DOMAIN rows : new[r] = rows[r] \/ new[r] = [rows[r] EXCEPT !.shown = NoValue]
    OBVIOUS
  <2>2. NoValue \in Nat \cup {NoValue}
    OBVIOUS
  <2> HIDE DEF new
  <2>3. new \in Seq(RowRec)
    BY <2>1, <2>2, RowByRow DEF TableTypes
  <2> QED
    BY <1>1, <1>3, <2>3 DEF TableTypes, new
<1> QED
  BY <1>2, <1>3 DEF ClearRows

\* Results are shown as numbers of registers.
LEMMA ShownRows ==
    ASSUME TableTypes, m_tableBase \in Nat, NEW trans
    PROVE  Show(trans) \in Seq(RowRec)
<1> DEFINE new == Show(trans)
<1>1. /\ DOMAIN new = DOMAIN rows /\ new = [r \in DOMAIN new |-> new[r]]
      /\ \A r \in DOMAIN rows : \/ new[r] = rows[r]
                                \/ new[r] = [rows[r] EXCEPT !.shown = m_tableBase + r - 1]
  BY DEF Show
<1>2. \A r \in DOMAIN rows : m_tableBase + r - 1 \in Nat
  BY LenProperties DEF TableTypes
<1> HIDE DEF new
<1>3. new \in Seq(RowRec)
  BY <1>1, <1>2, RowByRow DEF TableTypes
<1> QED
  BY <1>3 DEF new

\* A new table has labels and no values.
LEMMA NewTable == m_tableBase \in Nat /\ m_numRegs \in Nat => NewRows \in Seq(RowRec)
<1> SUFFICES ASSUME m_tableBase \in Nat, m_numRegs \in Nat PROVE NewRows \in Seq(RowRec)
  OBVIOUS
<1> DEFINE row(r) == [addr |-> m_tableBase + r - 1, shown |-> NoValue]
<1>1. \A r \in 1 .. m_numRegs : row(r) \in RowRec
  BY DEF RowRec
<1>2. NewRows = [r \in 1 .. m_numRegs |-> row(r)]
  BY DEF NewRows
<1> HIDE DEF row
<1> QED
  BY <1>1, <1>2

\* The loop builds the table anew or leaves it.
LEMMA UpdatedTable ==
    ASSUME LoopTypes, TableTypes, NEW queue, UpdateFromFPGA2(queue)
    PROVE  TableTypes'
<1>1. m_tableBase \in Nat /\ m_numRegs \in Nat
  BY DEF LoopTypes
<1>2. rows' \in {rows, NewRows} /\ m_lastTableBase' \in {m_lastTableBase, m_tableBase}
  BY DEF UpdateFromFPGA2, table
<1> QED
  BY <1>1, <1>2, NewTable DEF TableTypes

\* Every step keeps the table's type.
LEMMA TableStep == LoopInv /\ TableTypes /\ [Next]_vars => TableTypes'
<1> SUFFICES ASSUME LoopInv, TableTypes, [Next]_vars PROVE TableTypes'
  OBVIOUS
<1>1. LoopTypes /\ m_tableBase \in Nat
  BY DEF LoopInv, LoopTypes
<1>2. CASE UNCHANGED table
  BY <1>2 DEF table, TableTypes
<1>3. CASE OnDelayDone
  BY <1>1, <1>3, UpdatedTable DEF OnDelayDone
<1>4. ASSUME NEW isAck \in BOOLEAN, Result(isAck)
      PROVE  TableTypes'
  <2>1. CASE OnUpdate2Done(pending[1], isAck)
    <3>1. CASE ShowAndReadOn(pending[1]) /\ m_lastTableBase' = m_lastTableBase
      <4>1. rows' = Show(pending[1])
        BY <3>1 DEF ShowAndReadOn
      <4> QED
        BY <1>1, <3>1, <4>1, ShownRows DEF TableTypes
    <3> QED
      BY <1>2, <2>1, <3>1, ClearedRows DEF OnUpdate2Done
  <2> QED
    BY <1>2, <1>4, <2>1 DEF Result, OnDownloadResult
<1>5. ASSUME NEW isOk \in BOOLEAN, OnConnectResult(isOk)
      PROVE  TableTypes'
  BY <1>1, <1>2, <1>5, UpdatedTable DEF OnConnectResult
<1>6. CASE ConnectionFails
  BY <1>2, <1>6, ClearedRows DEF ConnectionFails
<1>7. CASE DeleteLater
  BY <1>2, <1>7 DEF DeleteLater
<1>8. CASE User
  <2>1. CASE \/ \E val \in UserBases : OnBaseAddrChange(val)
             \/ \E val \in UserLengths : OnLengthChange(val)
             \/ \E i \in DOMAIN Ports : OnTreeWidgetItemSelectionChanged(i)
    BY <1>2, <2>1 DEF OnBaseAddrChange, OnLengthChange, OnTreeWidgetItemSelectionChanged, Edit
  <2>2. CASE \/ \E r \in DOMAIN rows : OnItemDoubleClicked(r)
             \/ OnUploadClicked
             \/ OnDownloadClicked
    BY <1>2, <2>2 DEF OnItemDoubleClicked, OnUploadClicked, OnDownloadClicked, OpenDialog
  <2>3. CASE AfterDialog
    <3>1. PICK kind, next : DialogTurns(kind, next)
      BY <2>3, AlwaysTurns
    <3> QED
      BY <1>2, <3>1 DEF DialogTurns
  <2>4. CASE CloseEvent \/ DismissBox
    BY <1>2, <2>4 DEF CloseEvent, DismissBox, Close
  <2> QED
    BY <1>8, <2>1, <2>2, <2>3, <2>4 DEF User
<1>9. CASE UNCHANGED vars
  BY <1>2, <1>9 DEF vars
<1> QED
  BY <1>3, <1>4, <1>5, <1>6, <1>7, <1>8, <1>9 DEF Next, Program

\* The window, its dialogs, its files and its history.
CommandKinds == {"write", "upload", "download"}
DialogKinds == {"none", "write", "upload"} \cup Unparented
Faults == {"none", "hang", "null_item", "out_of_range", "use_after_free"}
FrameTypes ==
    /\ net \in {"connecting", "up", "down"}
    /\ window \in {"hidden", "shown", "closed", "deleted"}
    /\ dialog.kind \in DialogKinds
    /\ fault \in Faults
FileTypes ==
    /\ m_dl_filename \in Files \cup {""}
    /\ files \in [Files -> [asked : SUBSET Nat, got : SUBSET Nat]]
HistoryTypes ==
    /\ edits \in 0 .. MaxEdits
    /\ commands \in Seq(CommandKinds) /\ Len(commands) <= MaxCommands
OtherTypes == FrameTypes /\ FileTypes /\ HistoryTypes

LEMMA OtherTypesKept ==
    ASSUME OtherTypes
    PROVE  /\ UNCHANGED download => FileTypes'
           /\ UNCHANGED user => HistoryTypes'
  BY DEF OtherTypes, FileTypes, HistoryTypes, download, user

\* What starting and reading on do to the program: it goes on, hangs or throws.
LEMMA UpdateFaults ==
    ASSUME fault \in Faults, NEW queue, UpdateFromFPGA2(queue)
    PROVE  fault' \in Faults
  BY DEF UpdateFromFPGA2, ReadBlock, Faults

\* Registers are shown and downloaded as sets of addresses.
LEMMA RegisterSets == \A base, len \in Nat : Registers(base, len) \in SUBSET Nat
  BY DEF Registers

\* An answer adds to the file named last, if there is one.
LEMMA FilesGrow ==
    ASSUME files \in [Files -> [asked : SUBSET Nat, got : SUBSET Nat]],
           NEW file, NEW more \in SUBSET Nat
    PROVE  [files EXCEPT ![file].got = @ \cup more]
                \in [Files -> [asked : SUBSET Nat, got : SUBSET Nat]]
<1> DEFINE Rec == [asked : SUBSET Nat, got : SUBSET Nat]
<1>1. \A rec \in Rec : [rec EXCEPT !.got = @ \cup more] \in Rec
  OBVIOUS
<1>2. \A f \in Files : files[f] \in Rec
  OBVIOUS
<1>3. [files EXCEPT ![file].got = @ \cup more]
        = [f \in Files |-> IF f = file THEN [files[f] EXCEPT !.got = @ \cup more] ELSE files[f]]
  OBVIOUS
<1> HIDE DEF Rec
<1>4. \A f \in Files :
        (IF f = file THEN [files[f] EXCEPT !.got = @ \cup more] ELSE files[f]) \in Rec
  BY <1>1, <1>2
<1>5. [f \in Files |-> IF f = file THEN [files[f] EXCEPT !.got = @ \cup more] ELSE files[f]]
        \in [Files -> Rec]
  BY <1>4
<1> QED
  BY <1>3, <1>5 DEF Rec

\* The program's own steps keep these types.
LEMMA OtherTypesProgram ==
    ASSUME LoopInv, OtherTypes, Program \/ ConnectionFails
    PROVE  OtherTypes'
<1>1. /\ net \in {"connecting", "up", "down"}
      /\ window \in {"hidden", "shown", "closed", "deleted"}
      /\ dialog.kind \in DialogKinds /\ fault \in Faults
  BY DEF OtherTypes, FrameTypes
<1>2. CASE OnDelayDone
  <2>1. UNCHANGED <<net, window, dialog, download, user>> /\ UpdateFromFPGA2(pending)
    BY <1>2 DEF OnDelayDone, frame
  <2>2. fault' \in Faults
    BY <1>1, <2>1, UpdateFaults
  <2> QED
    BY <1>1, <2>1, <2>2, OtherTypesKept DEF OtherTypes, FrameTypes
<1>3. ASSUME NEW isAck \in BOOLEAN, Result(isAck)
      PROVE  OtherTypes'
  <2>1. UNCHANGED <<net, window, dialog, m_dl_filename, user>> /\ pending # <<>>
    BY <1>3 DEF Result, frame
  <2>2. pending[1] \in Trans
    BY <2>1, ElementOfSeq, LenProperties, EmptySeq DEF LoopInv, LoopTypes
  <2>3. fault' \in Faults
    <3>1. CASE ShowAndReadOn(pending[1])
      BY <1>1, <3>1 DEF ShowAndReadOn, ReadBlock, Faults
    <3>2. CASE ClearRows
      BY <1>1, <3>2 DEF ClearRows, Faults
    <3>3. CASE fault' = fault
      BY <1>1, <3>3
    <3> QED
      BY <1>3, <3>1, <3>2, <3>3 DEF Result, OnUpdate2Done, OnDownloadResult
  <2>4. FileTypes'
    <3>1. CASE files' = files
      BY <2>1, <3>1 DEF OtherTypes, FileTypes
    <3>2. CASE files' = [files EXCEPT ![m_dl_filename].got =
                            @ \cup Registers(pending[1].base, pending[1].len)]
      <4>1. Registers(pending[1].base, pending[1].len) \in SUBSET Nat
        BY <2>2, RegisterSets DEF Trans
      <4>2. files' \in [Files -> [asked : SUBSET Nat, got : SUBSET Nat]]
        BY <3>2, <4>1, FilesGrow DEF OtherTypes, FileTypes
      <4> QED
        BY <2>1, <4>2 DEF OtherTypes, FileTypes
    <3> QED
      BY <1>3, <3>1, <3>2 DEF Result, OnDownloadResult
  <2> QED
    BY <1>1, <2>1, <2>3, <2>4, OtherTypesKept DEF OtherTypes, FrameTypes
<1>4. ASSUME NEW isOk \in BOOLEAN, OnConnectResult(isOk)
      PROVE  OtherTypes'
  <2>1. /\ UNCHANGED <<dialog, download, user>>
        /\ net' \in {"up", "down"} /\ window' \in {window, "shown"}
        /\ UpdateFromFPGA2(pending) \/ fault' = fault
    BY <1>4 DEF OnConnectResult
  <2>2. fault' \in Faults
    BY <1>1, <2>1, UpdateFaults
  <2> QED
    BY <1>1, <2>1, <2>2, OtherTypesKept DEF OtherTypes, FrameTypes
<1>5. CASE DeleteLater
  <2>1. /\ UNCHANGED <<net, download, user, fault>> /\ window' = "deleted"
        /\ dialog' \in {dialog, NoDialog}
    BY <1>5 DEF DeleteLater
  <2> QED
    BY <1>1, <2>1, OtherTypesKept DEF OtherTypes, FrameTypes, NoDialog, DialogKinds
<1>6. CASE ConnectionFails
  <2>1. UNCHANGED <<window, dialog, download, user>> /\ net' = "down"
    BY <1>6 DEF ConnectionFails
  <2>2. fault' \in {fault, "null_item"}
    BY <1>6 DEF ConnectionFails, ClearRows
  <2> QED
    BY <1>1, <2>1, <2>2, OtherTypesKept DEF OtherTypes, FrameTypes, Faults
<1> QED
  BY <1>2, <1>3, <1>4, <1>5, <1>6 DEF Program

\* Only a download names or empties a file.
LEMMA AfterDialogFiles ==
    ASSUME OtherTypes, AfterDialog
    PROVE  fault' \in {fault, "use_after_free"} /\ FileTypes'
<1>1. CASE UNCHANGED <<download, fault>>
  BY <1>1, OtherTypesKept
<1>2. ASSUME NEW file \in Files, NEW base \in UserBases, Download(file, base, 2)
      PROVE  fault' \in {fault, "use_after_free"} /\ FileTypes'
  <2> DEFINE started == [asked |-> Registers(base, 2), got |-> {}]
  <2>1. \/ UNCHANGED download /\ fault' = "use_after_free"
        \/ m_dl_filename' = file /\ files' = [files EXCEPT ![file] = started] /\ UNCHANGED fault
    BY <1>2 DEF Download, InWindow
  <2>2. started \in [asked : SUBSET Nat, got : SUBSET Nat]
    <3>1. base \in Nat /\ 2 \in Nat
      BY UserAssumption
    <3>2. Registers(base, 2) \in SUBSET Nat
      BY <3>1, RegisterSets
    <3> QED
      BY <3>2
  <2> HIDE DEF started
  <2>3. CASE m_dl_filename' = file /\ files' = [files EXCEPT ![file] = started] /\ UNCHANGED fault
    BY <2>2, <2>3 DEF OtherTypes, FileTypes
  <2> QED
    BY <2>1, <2>3, OtherTypesKept
<1>3. ASSUME NEW file \in Files, DownloadFails(file)
      PROVE  fault' \in {fault, "use_after_free"} /\ FileTypes'
  <2>1. \/ UNCHANGED download /\ fault' = "use_after_free"
        \/ m_dl_filename' = file /\ files' = files /\ UNCHANGED fault
    BY <1>3 DEF DownloadFails, InWindow
  <2>2. CASE m_dl_filename' = file /\ files' = files /\ UNCHANGED fault
    BY <2>2 DEF OtherTypes, FileTypes
  <2> QED
    BY <2>1, <2>2, OtherTypesKept
<1>4. CASE DismissError
  <2>1. UNCHANGED download /\ fault' \in {fault, "use_after_free"}
    BY <1>4 DEF DismissError, InWindow, download
  <2> QED
    BY <2>1, OtherTypesKept
<1>5. CASE \E first, second \in UploadLengths : Upload(first, second)
  BY <1>1, <1>5 DEF Upload
<1>6. CASE Cancel \/ WriteRegister \/ RefuseInput
  BY <1>1, <1>6 DEF Cancel, WriteRegister, RefuseInput
<1>7. CASE \E file \in Files, base \in UserBases : Download(file, base, 2)
  BY <1>2, <1>7
<1>8. CASE \E file \in Files : DownloadFails(file)
  BY <1>3, <1>8
<1> QED
  BY <1>4, <1>5, <1>6, <1>7, <1>8, Zenon DEF AfterDialog

\* So do the user's.
LEMMA OtherTypesUser ==
    ASSUME OtherTypes, User
    PROVE  OtherTypes'
<1>1. /\ net \in {"connecting", "up", "down"}
      /\ window \in {"hidden", "shown", "closed", "deleted"}
      /\ dialog.kind \in DialogKinds /\ fault \in Faults
  BY DEF OtherTypes, FrameTypes
<1>2. CASE \/ \E val \in UserBases : OnBaseAddrChange(val)
           \/ \E val \in UserLengths : OnLengthChange(val)
           \/ \E i \in DOMAIN Ports : OnTreeWidgetItemSelectionChanged(i)
  <2>1. /\ UNCHANGED <<net, window, dialog, fault, download, commands>>
        /\ edits < MaxEdits /\ edits' = edits + 1
    BY <1>2 DEF OnBaseAddrChange, OnLengthChange, OnTreeWidgetItemSelectionChanged, Edit, frame
  <2>2. HistoryTypes'
    BY <2>1, BoundsAssumption DEF OtherTypes, HistoryTypes
  <2> QED
    BY <1>1, <2>1, <2>2, OtherTypesKept DEF OtherTypes, FrameTypes
<1>3. CASE \/ \E r \in DOMAIN rows : OnItemDoubleClicked(r)
           \/ OnUploadClicked
           \/ OnDownloadClicked
  <2>1. PICK d : OpenDialog(d)
    BY <1>3 DEF OnItemDoubleClicked, OnUploadClicked, OnDownloadClicked
  <2>2. /\ UNCHANGED <<net, window, fault, download, edits>>
        /\ dialog' = d /\ d.kind \in CommandKinds
        /\ Len(commands) < MaxCommands /\ commands' = Append(commands, d.kind)
    BY <2>1, CommandsAssumption DEF OpenDialog, CommandKinds
  <2>3. HistoryTypes'
    <3>1. commands \in Seq(CommandKinds) /\ edits \in 0 .. MaxEdits
      BY DEF OtherTypes, HistoryTypes
    <3>2. /\ commands' \in Seq(CommandKinds) /\ Len(commands') = Len(commands) + 1
      BY <2>2, <3>1, AppendProperties
    <3>3. Len(commands) \in Nat
      BY <3>1, LenProperties
    <3> QED
      BY <2>2, <3>1, <3>2, <3>3, BoundsAssumption DEF HistoryTypes
  <2> QED
    BY <1>1, <2>2, <2>3, OtherTypesKept
    DEF OtherTypes, FrameTypes, CommandKinds, DialogKinds, Unparented
<1>4. CASE AfterDialog
  <2>1. PICK kind, next : next \in {"none", "error", "file_error"} /\ DialogTurns(kind, next)
    BY <1>4, AlwaysTurns
  <2>2. UNCHANGED <<net, window, user>> /\ dialog'.kind \in DialogKinds
    BY <2>1 DEF DialogTurns, DialogKinds, Unparented
  <2>3. fault' \in {fault, "use_after_free"} /\ FileTypes'
    BY <1>4, AfterDialogFiles
  <2> QED
    BY <1>1, <2>2, <2>3, OtherTypesKept DEF OtherTypes, FrameTypes, Faults
<1>5. CASE CloseEvent \/ DismissBox
  <2>1. UNCHANGED <<net, dialog, fault, download, user>> /\ window' = "closed"
    BY <1>5 DEF CloseEvent, DismissBox, Close
  <2> QED
    BY <1>1, <2>1, OtherTypesKept DEF OtherTypes, FrameTypes
<1> QED
  BY <1>2, <1>3, <1>4, <1>5 DEF User

LEMMA OtherTypesStep == LoopInv /\ OtherTypes /\ [Next]_vars => OtherTypes'
<1> SUFFICES ASSUME LoopInv, OtherTypes, [Next]_vars PROVE OtherTypes'
  OBVIOUS
<1>1. CASE UNCHANGED vars
  <2>1. UNCHANGED <<net, window, dialog, fault, download, user>>
    BY <1>1 DEF vars, frame
  <2> QED
    BY <2>1, OtherTypesKept DEF OtherTypes, FrameTypes
<1> QED
  BY <1>1, OtherTypesProgram, OtherTypesUser DEF Next

LEMMA OtherTypesInit == Init => TableTypes /\ OtherTypes
<1> SUFFICES ASSUME Init PROVE TableTypes /\ OtherTypes
  OBVIOUS
<1>1. LoopInv
  BY InitEstablishes
<1>2. TableTypes
  BY <1>1, NewTable DEF Init, TableTypes, LoopInv, LoopTypes
<1>3. FileTypes
  BY DEF Init, FileTypes
<1>4. HistoryTypes
  <2>1. edits = 0 /\ commands = <<>>
    BY DEF Init
  <2>2. MaxEdits \in Nat /\ MaxCommands \in Nat
    BY BoundsAssumption
  <2>3. <<>> \in Seq(CommandKinds) /\ Len(<<>>) = 0
    OBVIOUS
  <2> QED
    BY <2>1, <2>2, <2>3 DEF HistoryTypes
<1>5. FrameTypes
  BY DEF Init, FrameTypes, NoDialog, DialogKinds, Faults
<1> QED
  BY <1>2, <1>3, <1>4, <1>5 DEF OtherTypes

LEMMA TypesHold == Spec => [](TableTypes /\ OtherTypes)
<1>1. LoopInv /\ (TableTypes /\ OtherTypes) /\ [Next]_vars => (TableTypes /\ OtherTypes)'
  BY TableStep, OtherTypesStep
<1> QED
  BY <1>1, OtherTypesInit, LoopInvHolds, PTL DEF Spec

--------------------------------------------------------------------------------
(* The theorems.                                                             *)

\* onUpdate2Done and updateFromFPGA2 index m_reg_blks within its bounds, whatever
\* the user makes of the region while results are outstanding, and however many
\* loops uploads have started: at() never throws.
THEOREM BlocksInRange == Spec => []IndexInRange
<1>1. LoopInv => IndexInRange
  BY DEF LoopInv
<1> QED
  BY <1>1, LoopInvHolds, PTL

\* While the window is shown and its connection is up, the delay timer runs or a
\* request of the update channel is outstanding: polling never dies silently.
THEOREM PollingLives == Spec => []PollingContinues
<1>1. LoopInv => PollingContinues
  BY DEF LoopInv
<1> QED
  BY <1>1, LoopInvHolds, PTL

\* Without uploads, and where every region is one transaction, the timer runs or one
\* request of the loop is under way, never both and never two: the edits of a user,
\* refusals and other channels start no second loop.
THEOREM OnePoll == Spec => []SinglePoll
<1>1. LoopInv /\ OneLoopInv => SinglePoll
  <2> SUFFICES ASSUME LoopInv, OneLoopInv, NoUpload, EveryRegionFits
               PROVE  Cardinality(UpdatesPending) + (IF m_dlyTimer THEN 1 ELSE 0) <= 1
    BY DEF SinglePoll
  <2>1. OneLoop /\ pending \in Seq(Trans) /\ m_dlyTimer \in BOOLEAN
    BY DEF OneLoopInv, LoopInv, LoopTypes
  <2>2. DOMAIN pending = 1 .. Len(pending)
    BY <2>1, LenProperties
  <2>3. CASE UpdatesPending = {}
    <3>1. Cardinality(UpdatesPending) = 0
      BY <2>3, FS_EmptySet
    <3> QED
      BY <3>1
  <2>4. CASE UpdatesPending # {}
    <3>1. PICK j \in UpdatesPending : TRUE
      BY <2>4
    <3>2. j \in 1 .. Len(pending) /\ pending[j].ch = "update"
      BY <2>2, <3>1 DEF UpdatesPending
    <3>3. m_dlyTimer = FALSE /\ AtMostOne(pending)
      BY <2>1, <3>2 DEF OneLoop, HasUpdate
    <3>4. UpdatesPending = {j}
      BY <2>2, <3>2, <3>3 DEF UpdatesPending, AtMostOne
    <3>5. Cardinality(UpdatesPending) = 1
      BY <3>4, FS_Singleton
    <3> QED
      BY <3>3, <3>5
  <2> QED
    BY <2>3, <2>4
<1> QED
  BY <1>1, LoopInvHolds, OneLoopHolds, PTL

\* Every variable keeps its type, among them the fault the program may have run into:
\* one of four, each of which a finding or the README names.
THEOREM TypeCorrect == Spec => []TypeOK
<1>1. m_maxPayloadWords \in Payloads /\ [Next]_vars => (m_maxPayloadWords \in Payloads)'
  BY PayloadKept
<1>2. Init => m_maxPayloadWords \in Payloads
  BY DEF Init
<1>3. /\ LoopInv /\ TableTypes /\ OtherTypes /\ m_maxPayloadWords \in Payloads
      => TypeOK
  BY DEF LoopInv, LoopTypes, TableTypes, OtherTypes, FrameTypes, FileTypes, HistoryTypes,
         CommandKinds, DialogKinds, Faults, BlockRec, Trans, RowRec, TypeOK
<1> QED
  BY <1>1, <1>2, <1>3, LoopInvHolds, TypesHold, PTL DEF Spec

================================================================================
