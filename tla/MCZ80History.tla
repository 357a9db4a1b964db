---------------------------- MODULE MCZ80History ----------------------------
(* Instances of Z80History for TLC. *)
EXTENDS Z80History

(* All that prolongs a Step, moves the interrupt enables, halts or sets R,  *)
(* and an opcode of each page, with and without an index prefix.            *)
MCBytes == {"DD", "FD", "CB", "ED", "ld_r_r", "ld_r_m", "ei", "di", "halt",
            "cb_set_r", "xcb_set", "retn", "im_2", "ld_r_a"}

(* A device that injects every page too, RETN included.                     *)
MCAcks == {"DD", "CB", "ED", "cb_set_r", "rst", "ei", "halt", "retn"}
=============================================================================
