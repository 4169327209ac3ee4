----------------------------- MODULE MCAddressMap ------------------------------
(***************************************************************************)
(* AddressMap on every file over a few addresses: bitfields in the same    *)
(* and in different registers, memories and FIFOs of several registers,    *)
(* with and without holes, listed in any order.                            *)
(***************************************************************************)
EXTENDS AddressMap

MCFields ==
    [base_addr : 1 .. 5, n_regs : {1}, bit_base : {0, 8}, f_type : {"BitField"}]
    \cup [base_addr : 0 .. 4, n_regs : {2}, bit_base : {0}, f_type : {"RAM"}]
    \cup [base_addr : {2, 5}, n_regs : {2}, bit_base : {0}, f_type : {"FIFO"}]
================================================================================
