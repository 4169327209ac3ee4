------------------------------- MODULE RegBlocks -------------------------------
(***************************************************************************)
(* The arithmetic of the FPGA address map: how a port grows to hold its    *)
(* fields (address_map.cpp), which blocks of a port are read, and what a   *)
(* register is called.  Everything here is a function of its arguments;    *)
(* AddressMap and FpgaWindow use it.                                       *)
(*                                                                         *)
(* A field is a record of base_addr, n_regs, bit_base and f_type.  Its     *)
(* name and access mode decide nothing.  Addresses come from               *)
(* QString::toInt, hence are below 2^31 and their sums fit in 32 bits.     *)
(***************************************************************************)
EXTENDS Integers, Sequences, SequencesExt, FiniteSets

\* Fields as the configuration file may describe them: a bitfield has one register.
Field ==
    {f \in [base_addr : Nat, n_regs : Nat \ {0}, bit_base : Nat,
            f_type : {"BitField", "RAM", "FIFO"}] : f.f_type = "BitField" => f.n_regs = 1}

End(x) == x.base_addr + x.n_regs

\* Registers are not shared, except by bitfields at different bits: the file is
\* generated with the firmware, and the program takes it as it is.
Compatible(f, g) ==
    \/ End(f) <= g.base_addr
    \/ End(g) <= f.base_addr
    \/ /\ f.base_addr = g.base_addr /\ f.n_regs = 1 /\ g.n_regs = 1
       /\ f.f_type = "BitField" /\ g.f_type = "BitField" /\ f.bit_base # g.bit_base

\* Args_field_t::operator<
FieldLess(f, g) ==
    \/ f.base_addr < g.base_addr
    \/ f.base_addr = g.base_addr /\ f.bit_base < g.bit_base

\* save_field sorts the fields of a port each time it adds one.
InAddressOrder(fields) ==
    CHOOSE s \in SetToSeqs(fields) :
        \A i, j \in 1 .. Cardinality(fields) : i < j => ~FieldLess(s[j], s[i])

--------------------------------------------------------------------------------
(* save_field: a port spans its fields.                                      *)

NewPort(name, f) ==
    [name |-> name, base_addr |-> f.base_addr, n_regs |-> f.n_regs, fields |-> {f}]

\* How many registers port has once f is in it: it grows at its start by the
\* distance to f, or at its end by what sticks out.
GrowOnlyAtEnd(port, f) ==
    LET excess == (f.base_addr + f.n_regs) - (port.base_addr + port.n_regs)
    IN  port.n_regs + (IF excess > 0 THEN excess ELSE 0)
GrowBackwards(port, f) ==
    port.n_regs + (IF f.base_addr < port.base_addr THEN f.base_addr - port.base_addr ELSE 0)
GrownTo(port, f) ==
    LET excess == (f.base_addr + f.n_regs) - (port.base_addr + port.n_regs)
    IN  port.n_regs + (IF f.base_addr < port.base_addr THEN port.base_addr - f.base_addr
                       ELSE IF excess > 0 THEN excess
                       ELSE 0)

WithField(port, f) ==
    [name |-> port.name,
     base_addr |-> IF f.base_addr < port.base_addr THEN f.base_addr ELSE port.base_addr,
     n_regs |-> GrownTo(port, f),
     fields |-> port.fields \cup {f}]

\* Does the port start with its first field and end with its last?
SpansFields(port) ==
    /\ \A f \in port.fields : port.base_addr <= f.base_addr /\ End(f) <= End(port)
    /\ \E f \in port.fields : f.base_addr = port.base_addr
    /\ \E f \in port.fields : End(f) = End(port)

\* No two fields of the port claim the same bits.
FieldsApart(port) == \A f, g \in port.fields : f # g => Compatible(f, g)

--------------------------------------------------------------------------------
(* Fpga_window::get_reg_read_list: runs of registers and the holes between.  *)

Block(base, len, is_hole) == [base |-> base, len |-> len, is_hole |-> is_hole]

\* One turn of the loop: the current run is extended by f, or closed, or f is
\* another bitfield of a register the run already has.
CloseRunWithoutHole(run, f) ==
    IF f.base_addr <= run.base + run.len
    THEN [run EXCEPT !.len = @ + f.n_regs]
    ELSE [blocks |-> Append(run.blocks, Block(run.base, run.len, FALSE)),
          base |-> f.base_addr, len |-> f.n_regs]
AddToRun(run, f) ==
    LET next == run.base + run.len
    IN  IF f.base_addr < next THEN run
        ELSE IF f.base_addr = next THEN [run EXCEPT !.len = @ + f.n_regs]
        ELSE [blocks |-> run.blocks \o <<Block(run.base, run.len, FALSE),
                                         Block(next, f.base_addr - next, TRUE)>>,
              base |-> f.base_addr,
              len |-> f.n_regs]

RegReadList(port) ==
    LET fields == InAddressOrder(port.fields)
        first == fields[1]
        run == FoldLeft(AddToRun,
                        [blocks |-> IF port.base_addr = first.base_addr THEN <<>>
                                    ELSE <<Block(port.base_addr,
                                                 first.base_addr - port.base_addr, TRUE)>>,
                         base |-> first.base_addr,
                         len |-> first.n_regs],
                        Tail(fields))
    IN  run.blocks \o IF run.len = 0 THEN <<>> ELSE <<Block(run.base, run.len, FALSE)>>

--------------------------------------------------------------------------------
(* peripheral_name_from_addr and reg_descr_from_addr.                        *)

Spans(port, addr) == addr \in port.base_addr .. (port.base_addr + port.n_regs - 1)

\* One turn of the loop that looks for the fields at addr.  It stops at a RAM
\* that extends over addr, and at the first field beyond it.
LookOncePerRegister(found, f, addr) ==
    IF found.stop \/ f.base_addr > addr THEN [found EXCEPT !.stop = TRUE]
    ELSE IF f.base_addr = addr THEN [fields |-> found.fields \cup {f}, stop |-> TRUE]
    ELSE IF f.f_type = "RAM" /\ addr < f.base_addr + f.n_regs
         THEN [fields |-> found.fields \cup {f}, stop |-> TRUE]
    ELSE found
LookAt(found, f, addr) ==
    IF found.stop \/ f.base_addr > addr THEN [found EXCEPT !.stop = TRUE]
    ELSE IF f.base_addr = addr THEN [found EXCEPT !.fields = @ \cup {f}]
    ELSE IF f.f_type = "RAM" /\ addr < f.base_addr + f.n_regs
         THEN [fields |-> found.fields \cup {f}, stop |-> TRUE]
    ELSE found

\* The fields that give register addr of port its name in the table.
NamedAt(port, addr) ==
    IF ~Spans(port, addr) THEN {}
    ELSE FoldLeft(LAMBDA found, f : LookAt(found, f, addr),
                  [fields |-> {}, stop |-> FALSE],
                  InAddressOrder(port.fields)).fields

================================================================================
