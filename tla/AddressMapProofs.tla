---------------------------- MODULE AddressMapProofs ---------------------------
(***************************************************************************)
(* Address_map, for every file of compatible fields and every order of its *)
(* lines: a port spans exactly its fields, the blocks read for it are      *)
(* those of its registers, and a register is called after its fields.      *)
(***************************************************************************)
EXTENDS AddressMap, RegBlocksProofs

Port == [name : PortNames, base_addr : Nat, n_regs : Nat \ {0},
         fields : (SUBSET Fields) \ {{}}]

\* port spans exactly its fields, which are finitely many and share no bits.
Hull(port) == SpansFields(port) /\ Apart(port.fields)

\* A port with its first field spans it.
LEMMA NewPortHull ==
    ASSUME NEW name \in PortNames, NEW f \in Fields
    PROVE  NewPort(name, f) \in Port /\ Hull(NewPort(name, f))
<1>1. f \in Field
  BY FieldsAssumption DEF Field
<1>2. NewPort(name, f) \in Port
  <2>1. {f} \in (SUBSET Fields) \ {{}} /\ f.base_addr \in Nat /\ f.n_regs \in Nat \ {0}
    BY <1>1 DEF Field
  <2> QED
    BY <2>1 DEF NewPort, Port
<1>3. /\ NewPort(name, f).fields = {f} /\ NewPort(name, f).base_addr = f.base_addr
      /\ NewPort(name, f).n_regs = f.n_regs
  BY DEF NewPort
<1>4. End(NewPort(name, f)) = End(f) /\ End(f) \in Nat /\ f.base_addr \in Nat
  BY <1>1, <1>3 DEF End, Field
<1>5. SpansFields(NewPort(name, f))
  BY <1>3, <1>4 DEF SpansFields
<1>6. Apart(NewPort(name, f).fields)
  BY <1>1, <1>3, FS_Singleton DEF Apart
<1> QED
  BY <1>2, <1>5, <1>6 DEF Hull

\* One more compatible field: the port grows to hold it, and no further.  A
\* field below the port cannot reach beyond the port's end, because it would
\* overlap the port's first field.
LEMMA WithFieldHull ==
    ASSUME NEW port \in Port, Hull(port), NEW f \in Fields,
           \A g \in port.fields : Compatible(f, g)
    PROVE  WithField(port, f) \in Port /\ Hull(WithField(port, f))
<1> DEFINE grown == WithField(port, f)
<1>1. f \in Field /\ \A g \in port.fields : g \in Field
  BY FieldsAssumption DEF Field, Port
<1>2. /\ port.base_addr \in Nat /\ port.n_regs \in Nat \ {0}
      /\ f.base_addr \in Nat /\ f.n_regs \in Nat \ {0}
      /\ \A g \in port.fields : g.base_addr \in Nat /\ g.n_regs \in Nat \ {0}
  BY <1>1 DEF Port, Field
<1>3. /\ grown.fields = port.fields \cup {f}
      /\ grown.base_addr = IF f.base_addr < port.base_addr THEN f.base_addr ELSE port.base_addr
      /\ grown.n_regs = GrownTo(port, f)
      /\ grown = [name |-> port.name, base_addr |-> grown.base_addr,
                  n_regs |-> grown.n_regs, fields |-> grown.fields]
  BY DEF WithField
<1>4. GrownTo(port, f) \in Nat \ {0}
  BY <1>2 DEF GrownTo
<1>5. grown \in Port
  <2>1. port.name \in PortNames /\ grown.fields \in (SUBSET Fields) \ {{}} /\ grown.base_addr \in Nat
    BY <1>2, <1>3 DEF Port
  <2> QED
    BY <1>3, <1>4, <2>1 DEF Port
<1>6. \A g \in port.fields : port.base_addr <= g.base_addr /\ End(g) <= End(port)
  BY DEF Hull, SpansFields
<1>7. PICK low \in port.fields : low.base_addr = port.base_addr
  BY DEF Hull, SpansFields
<1>8. PICK high \in port.fields : End(high) = End(port)
  BY DEF Hull, SpansFields
<1>9. ASSUME f.base_addr < port.base_addr PROVE SpansFields(grown)
  <2>1. End(f) <= port.base_addr
    BY <1>2, <1>7, <1>9 DEF Compatible, End
  <2>2. grown.base_addr = f.base_addr /\ End(grown) = End(port)
    BY <1>2, <1>3, <1>9 DEF GrownTo, End
  <2>3. \A g \in grown.fields : grown.base_addr <= g.base_addr /\ End(g) <= End(grown)
    BY <1>2, <1>3, <1>6, <1>9, <2>1, <2>2 DEF End
  <2> QED
    BY <1>3, <1>8, <2>2, <2>3 DEF SpansFields
<1>10. ASSUME ~(f.base_addr < port.base_addr) PROVE SpansFields(grown)
  <2>1. grown.base_addr = port.base_addr
    BY <1>3, <1>10
  <2>2. End(grown) = IF End(f) > End(port) THEN End(f) ELSE End(port)
    BY <1>2, <1>3, <1>10 DEF GrownTo, End
  <2>3. \A g \in grown.fields : grown.base_addr <= g.base_addr /\ End(g) <= End(grown)
    BY <1>2, <1>3, <1>6, <1>10, <2>1, <2>2 DEF End
  <2>4. \E g \in grown.fields : End(g) = End(grown)
    BY <1>3, <1>8, <2>2
  <2> QED
    BY <1>3, <1>7, <2>1, <2>3, <2>4 DEF SpansFields
<1>11. Apart(grown.fields)
  <2>1. IsFiniteSet(grown.fields)
    BY <1>3, FS_AddElement DEF Hull, Apart
  <2>2. \A g \in port.fields : Compatible(g, f)
    BY <1>2 DEF Compatible
  <2> QED
    BY <1>1, <1>3, <2>1, <2>2 DEF Hull, Apart
<1> QED
  BY <1>5, <1>9, <1>10, <1>11 DEF Hull

\* All ports are well-formed and span their fields.
PortsInv == m_axi_ports \in Seq(Port) /\ \A i \in DOMAIN m_axi_ports : Hull(m_axi_ports[i])

\* Each kind of line keeps it, and so does the sorting at the end of the file.
LEMMA StepPorts == PortsInv /\ [Next]_vars => PortsInv'
<1> SUFFICES ASSUME PortsInv, [Next]_vars PROVE PortsInv'
  OBVIOUS
<1>0. /\ m_axi_ports \in Seq(Port) /\ DOMAIN m_axi_ports = 1 .. Len(m_axi_ports)
      /\ Len(m_axi_ports) \in Nat
      /\ \A i \in DOMAIN m_axi_ports : m_axi_ports[i] \in Port /\ Hull(m_axi_ports[i])
  BY LenProperties, ElementOfSeq DEF PortsInv
<1>1. ASSUME NEW name \in PortNames, NEW f \in Fields, MayFollow(name, f), SaveField(name, f)
      PROVE  PortsInv'
  <2>1. CASE m_axi_ports' = Append(m_axi_ports, NewPort(name, f))
    <3>1. NewPort(name, f) \in Port /\ Hull(NewPort(name, f))
      BY NewPortHull
    <3> QED
      BY <1>0, <2>1, <3>1, AppendProperties DEF PortsInv
  <2>2. CASE \E i \in DOMAIN m_axi_ports :
                /\ m_axi_ports[i].name = name
                /\ m_axi_ports' = [m_axi_ports EXCEPT ![i] = WithField(@, f)]
    <3>1. PICK i \in DOMAIN m_axi_ports :
                /\ m_axi_ports[i].name = name
                /\ m_axi_ports' = [m_axi_ports EXCEPT ![i] = WithField(@, f)]
      BY <2>2
    <3>2. WithField(m_axi_ports[i], f) \in Port /\ Hull(WithField(m_axi_ports[i], f))
      <4>1. \A g \in m_axi_ports[i].fields : Compatible(f, g)
        BY <1>1, <3>1 DEF MayFollow
      <4> QED
        BY <1>0, <4>1, WithFieldHull
    <3>3. m_axi_ports' \in Seq(Port) /\ Len(m_axi_ports') = Len(m_axi_ports)
      BY <1>0, <3>1, <3>2, ExceptSeq
    <3>4. DOMAIN m_axi_ports' = DOMAIN m_axi_ports
      BY <3>1
    <3>5. \A j \in DOMAIN m_axi_ports : Hull(m_axi_ports'[j])
      BY <1>0, <3>1, <3>2
    <3> QED
      BY <3>3, <3>4, <3>5 DEF PortsInv
  <2> QED
    BY <1>1, <2>1, <2>2 DEF SaveField
<1>2. CASE BadLine
  BY <1>2 DEF BadLine, PortsInv
<1>3. CASE EndOfFile
  <2>1. PICK order \in [DOMAIN m_axi_ports -> DOMAIN m_axi_ports] :
            m_axi_ports' = [i \in DOMAIN m_axi_ports |-> m_axi_ports[order[i]]]
    BY <1>3 DEF EndOfFile
  <2>2. \A i \in DOMAIN m_axi_ports : order[i] \in DOMAIN m_axi_ports
    OBVIOUS
  <2>3. m_axi_ports' \in [1 .. Len(m_axi_ports) -> Port]
    BY <1>0, <2>1, <2>2
  <2>4. m_axi_ports' \in Seq(Port)
    BY <1>0, <2>3
  <2>5. DOMAIN m_axi_ports' = DOMAIN m_axi_ports
    BY <2>1
  <2>6. \A i \in DOMAIN m_axi_ports : Hull(m_axi_ports'[i])
    BY <1>0, <2>1, <2>2
  <2> QED
    BY <2>4, <2>5, <2>6 DEF PortsInv
<1>4. CASE UNCHANGED vars
  BY <1>4 DEF vars, PortsInv
<1> QED
  BY <1>1, <1>2, <1>3, <1>4 DEF Next

LEMMA PortsInvHolds == Spec => []PortsInv
<1>1. Init => PortsInv
  BY EmptySeq DEF Init, PortsInv
<1> QED
  BY <1>1, StepPorts, PTL DEF Spec

\* Ports keep spanning their fields while the file is read and after it: what
\* the window takes for the length of a port's table is what its fields need.
THEOREM HullCorrect == Spec => []PortIsHull
<1>1. PortsInv => PortIsHull
  BY DEF PortsInv, PortIsHull, Ports, Hull
<1> QED
  BY <1>1, PortsInvHolds, PTL

\* What the invariant says of a port.
LEMMA PortFacts ==
    ASSUME PortsInv, NEW port \in Ports
    PROVE  /\ Apart(port.fields) /\ port.fields # {} /\ SpansFields(port)
           /\ port.base_addr \in Nat /\ port.n_regs \in Nat /\ port.n_regs > 0
<1>1. PICK i \in DOMAIN m_axi_ports : port = m_axi_ports[i]
  BY DEF Ports
<1>2. port \in Port /\ Hull(port)
  <2>1. i \in 1 .. Len(m_axi_ports)
    BY LenProperties DEF PortsInv
  <2> QED
    BY <1>1, <2>1, ElementOfSeq DEF PortsInv
<1> QED
  BY <1>2 DEF Port, Hull

\* The registers of x.
LEMMA RegistersAre ==
    ASSUME NEW x, x.base_addr \in Nat, x.n_regs \in Nat
    PROVE  \A addr : addr \in Registers(x) <=>
                        addr \in Nat /\ x.base_addr <= addr /\ addr < End(x)
BY DEF Registers, End

\* The blocks to read follow each other through a port, registers and holes in turn,
\* and the registers read are those of its fields: the polling loop reads every
\* register of the port and nothing else.
THEOREM ListsPartition == Spec => []ReadListPartitions
<1> SUFFICES PortsInv => ReadListPartitions
  BY PortsInvHolds, PTL
<1> SUFFICES ASSUME PortsInv PROVE ReadListPartitions
  OBVIOUS
<1> SUFFICES ASSUME NEW port \in Ports
             PROVE  LET blocks == RegReadList(port)
                        n == Len(blocks)
                    IN  /\ \A i \in 1 .. n : blocks[i].len > 0
                        /\ ~blocks[1].is_hole /\ blocks[1].base = port.base_addr
                        /\ ~blocks[n].is_hole /\ blocks[n].base + blocks[n].len = End(port)
                        /\ \A i \in 1 .. (n - 1) :
                                /\ blocks[i + 1].base = blocks[i].base + blocks[i].len
                                /\ blocks[i + 1].is_hole # blocks[i].is_hole
                        /\ UNION {b.base .. (b.base + b.len - 1) : b \in {blocks[i] : i \in
                                        {j \in 1 .. n : ~blocks[j].is_hole}}}
                           = UNION {Registers(f) : f \in port.fields}
  BY DEF ReadListPartitions
<1> DEFINE blocks == RegReadList(port)
           n == Len(blocks)
<1>1. /\ blocks \in Seq(BlockRec) /\ n \in Nat /\ n > 0
      /\ Chain(blocks, port.base_addr, End(port))
      /\ \A addr \in Nat : Reads(blocks, addr) <=>
            \E f \in port.fields : f.base_addr <= addr /\ addr < End(f)
  BY PortFacts, BlocksOfPort
<1> HIDE DEF blocks
<1>2. \A i \in 1 .. n : /\ blocks[i].base \in Nat /\ blocks[i].len \in Nat
                        /\ blocks[i].is_hole \in BOOLEAN
  <2>1. \A i \in 1 .. n : blocks[i] \in BlockRec
    BY <1>1, ElementOfSeq
  <2> QED
    BY <2>1 DEF BlockRec
<1>3. \A i \in 1 .. (n - 1) : blocks[i + 1].is_hole # blocks[i].is_hole
  <2> TAKE i \in 1 .. (n - 1)
  <2>1. ~(blocks[i + 1].is_hole <=> blocks[i].is_hole)
    BY <1>1 DEF Chain
  <2> QED
    BY <2>1
<1> DEFINE read == {blocks[i] : i \in {j \in 1 .. n : ~blocks[j].is_hole}}
           span(b) == b.base .. (b.base + b.len - 1)
           covered == UNION {span(b) : b \in read}
           owned == UNION {Registers(f) : f \in port.fields}
<1>4. \A addr : addr \in covered <=> addr \in Nat /\ Reads(blocks, addr)
  <2>1. \A b \in read : \A addr : b.base \in Nat /\ b.len \in Nat
            => (addr \in span(b) <=> addr \in Nat /\ b.base <= addr /\ addr < b.base + b.len)
    OBVIOUS
  <2>2. \A b \in read : b.base \in Nat /\ b.len \in Nat
    BY <1>2
  <2>3. \A addr : addr \in covered <=> \E b \in read : addr \in span(b)
    OBVIOUS
  <2> HIDE DEF span, covered
  <2> QED
    BY <2>1, <2>2, <2>3 DEF Reads
<1>5. \A addr : addr \in owned <=>
            addr \in Nat /\ \E f \in port.fields : f.base_addr <= addr /\ addr < End(f)
  <2>1. \A f \in port.fields : f.base_addr \in Nat /\ f.n_regs \in Nat
    BY PortFacts, FieldTypes DEF Apart
  <2>2. \A f \in port.fields : \A addr : addr \in Registers(f) <=>
            addr \in Nat /\ f.base_addr <= addr /\ addr < End(f)
    BY <2>1, RegistersAre
  <2> QED
    BY <2>2
<1>6. covered = owned
  <2> HIDE DEF covered, owned
  <2> QED
    BY <1>1, <1>4, <1>5
<1> QED
  BY <1>1, <1>3, <1>6 DEF Chain, blocks

\* A register is called after all the fields it belongs to and no others: stopping the
\* search at the first field beyond it, or at a RAM around it, misses none.
THEOREM NamesCorrect == Spec => []NamesAgree
<1> SUFFICES PortsInv => NamesAgree
  BY PortsInvHolds, PTL
<1> SUFFICES ASSUME PortsInv, NEW port \in Ports, NEW addr \in Registers(port)
             PROVE  NamedAt(port, addr) =
                        {f \in port.fields : /\ addr \in Registers(f)
                                             /\ f.f_type = "FIFO" => addr = f.base_addr}
  BY DEF NamesAgree
<1>1. /\ Apart(port.fields) /\ port.base_addr \in Nat /\ port.n_regs \in Nat
  BY PortFacts
<1>2. addr \in Nat /\ port.base_addr <= addr /\ addr < End(port)
  BY <1>1, RegistersAre
<1>3. Spans(port, addr)
  BY <1>1, <1>2 DEF Spans, End
<1>4. NamedAt(port, addr) = {f \in port.fields : Names(f, addr)}
  BY <1>1, <1>2, <1>3, NamesOfPort
<1>5. \A f \in port.fields : f.base_addr \in Nat /\ f.n_regs \in Nat
  BY <1>1, FieldTypes DEF Apart
<1>6. \A f \in port.fields :
        Names(f, addr) <=> addr \in Registers(f) /\ (f.f_type = "FIFO" => addr = f.base_addr)
  <2>1. \A f \in port.fields : addr \in Registers(f) <=>
            addr \in Nat /\ f.base_addr <= addr /\ addr < End(f)
    BY <1>5, RegistersAre
  <2> QED
    BY <1>2, <2>1 DEF Names
<1> QED
  BY <1>4, <1>6

\* Every variable keeps its type; no port is ever without fields or registers.
THEOREM TypeCorrect == Spec => []TypeOK
<1> DEFINE Flags == reading \in BOOLEAN /\ is_loaded \in BOOLEAN
<1>1. Init => Flags
  BY DEF Init
<1>2. Flags /\ [Next]_vars => Flags'
  BY DEF Next, SaveField, BadLine, EndOfFile, vars
<1>3. PortsInv /\ Flags => TypeOK
  BY DEF PortsInv, TypeOK, Port
<1> QED
  BY <1>1, <1>2, <1>3, PortsInvHolds, PTL DEF Spec

================================================================================
