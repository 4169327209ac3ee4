----------------------------- MODULE MCFpgaWindow ------------------------------
(***************************************************************************)
(* FpgaWindow with an address map of two ports, both with a hole: one of   *)
(* registers 0 and 2, one of a memory at 3 and 4 and a register at 7.      *)
(***************************************************************************)
EXTENDS FpgaWindow

BitField(addr) == [base_addr |-> addr, n_regs |-> 1, bit_base |-> 0, f_type |-> "BitField"]
Memory(addr, n) == [base_addr |-> addr, n_regs |-> n, bit_base |-> 0, f_type |-> "RAM"]

MCPorts ==
    <<WithField(NewPort("low", BitField(2)), BitField(0)),
      WithField(NewPort("high", Memory(3, 2)), BitField(7))>>
================================================================================
