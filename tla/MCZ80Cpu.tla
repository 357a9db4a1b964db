------------------------------ MODULE MCZ80Cpu ------------------------------
(***************************************************************************)
(* Instances of Z80Cpu for TLC: the bytes the memory and the interrupting  *)
(* device may supply.                                                      *)
(***************************************************************************)
EXTENDS Z80Cpu

(* Every class, on every page. *)
MCAllBytes == Bytes

(* A device that injects the unprefixed and the ED page, indexed too: any   *)
(* but the DDCB and FDCB opcodes of execIdxCB.                              *)
MCAcks == {"DD", "FD", "ED", "ld_r_r", "alu_n", "alu_m", "ld_m_n", "ex_sp", "rst",
           "call", "halt", "ei", "di", "retn", "im_2", "ld_r_a", "ldir", "inir"}

(* Enough for every way a Step can be prolonged, enable or mask interrupts, *)
(* and a device that injects CB-page opcodes, behind a prefix or not.       *)
MCFewBytes == {"DD", "FD", "CB", "ED", "cb_set_r", "xcb_set", "retn", "ld_r_r",
               "ld_m_n", "ei", "di", "halt"}
MCAckCB    == {"DD", "CB", "cb_set_r", "ld_r_r", "rst"}
=============================================================================
