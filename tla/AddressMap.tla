------------------------------- MODULE AddressMap ------------------------------
(***************************************************************************)
(* Address_map::load of gemini-viewer/src/gui_view/address_map.cpp: the    *)
(* lines of a configuration file are saved one by one as fields of ports,  *)
(* and the ports are sorted when the file has ended.  Splitting a line     *)
(* into tokens is left out: a line is a field of a port, or is bad.        *)
(***************************************************************************)
EXTENDS RegBlocks, FiniteSets

CONSTANTS
    PortNames,      \* peripheral and port name of a line
    Fields,         \* the fields a line may describe
    MaxFields       \* bound: fields in a file

ASSUME FieldsAssumption == Fields \subseteq Field

VARIABLES
    m_axi_ports,    \* ports in the order of their first line, then by address
    reading,        \* is the file still being read?
    is_loaded

vars == <<m_axi_ports, reading, is_loaded>>

--------------------------------------------------------------------------------

Init ==
    /\ m_axi_ports = <<>>
    /\ reading = TRUE
    /\ is_loaded = FALSE

\* A good line: save_field adds f to its port, to a new one if there is none.
SaveField(name, f) ==
    /\ reading
    /\ \/ /\ \A i \in DOMAIN m_axi_ports : m_axi_ports[i].name # name
          /\ m_axi_ports' = Append(m_axi_ports, NewPort(name, f))
       \/ \E i \in DOMAIN m_axi_ports :
            /\ m_axi_ports[i].name = name
            /\ m_axi_ports' = [m_axi_ports EXCEPT ![i] = WithField(@, f)]
    /\ UNCHANGED <<reading, is_loaded>>

\* The lines a file may hold (external).
MayFollow(name, f) ==
    /\ Cardinality(UNION {{i} \X m_axi_ports[i].fields : i \in DOMAIN m_axi_ports}) < MaxFields
    /\ \A i \in DOMAIN m_axi_ports :
        m_axi_ports[i].name = name => \A g \in m_axi_ports[i].fields : Compatible(f, g)

\* A line that cannot be understood ends the loading.
BadLine ==
    /\ reading
    /\ reading' = FALSE
    /\ UNCHANGED <<m_axi_ports, is_loaded>>

\* The end of the file: the ports are sorted by address.
EndOfFile ==
    /\ reading
    /\ reading' = FALSE
    /\ is_loaded' = TRUE
    /\ \E order \in [DOMAIN m_axi_ports -> DOMAIN m_axi_ports] :
        /\ \A i, j \in DOMAIN m_axi_ports :
            i < j => /\ order[i] # order[j]
                     /\ m_axi_ports[order[i]].base_addr <= m_axi_ports[order[j]].base_addr
        /\ m_axi_ports' = [i \in DOMAIN m_axi_ports |-> m_axi_ports[order[i]]]

Next ==
    \/ \E name \in PortNames, f \in Fields : MayFollow(name, f) /\ SaveField(name, f)
    \/ BadLine
    \/ EndOfFile

Spec == Init /\ [][Next]_vars

--------------------------------------------------------------------------------
(* Properties.                                                               *)

Ports == {m_axi_ports[i] : i \in DOMAIN m_axi_ports}
Registers(x) == x.base_addr .. (End(x) - 1)

\* Every variable keeps its type, and a port has fields.
TypeOK ==
    /\ m_axi_ports \in Seq([name : PortNames, base_addr : Nat, n_regs : Nat \ {0},
                            fields : (SUBSET Fields) \ {{}}])
    /\ reading \in BOOLEAN
    /\ is_loaded \in BOOLEAN

\* A port spans its fields exactly, in whatever order the file lists them:
\* save_field grows it at one end only each time.
PortIsHull == \A port \in Ports : SpansFields(port)

\* The blocks read for a port follow each other from its first register to its
\* last, none empty, registers and holes in turn, registers first and last (the polling
\* loop skips leading holes without looking for the end of the list), and the
\* registers read are those the port has.
ReadListPartitions ==
    \A port \in Ports :
        LET blocks == RegReadList(port)
            n == Len(blocks)
        IN  /\ \A i \in 1 .. n : blocks[i].len > 0
            /\ ~blocks[1].is_hole /\ blocks[1].base = port.base_addr
            /\ ~blocks[n].is_hole /\ blocks[n].base + blocks[n].len = End(port)
            /\ \A i \in 1 .. (n - 1) :
                    /\ blocks[i + 1].base = blocks[i].base + blocks[i].len
                    /\ blocks[i + 1].is_hole # blocks[i].is_hole
            /\ UNION {b.base .. (b.base + b.len - 1) : b \in {blocks[i] : i \in
                            {j \in 1 .. n : ~blocks[j].is_hole}}}
               = UNION {Registers(f) : f \in port.fields}

\* A register is called after the fields it belongs to, all of them and no
\* others, although the search stops early and relies on the order of the
\* fields.  (A FIFO only names its first register.)
NamesAgree ==
    \A port \in Ports : \A addr \in Registers(port) :
        NamedAt(port, addr) =
            {f \in port.fields : /\ addr \in Registers(f)
                                 /\ f.f_type = "FIFO" => addr = f.base_addr}

================================================================================
