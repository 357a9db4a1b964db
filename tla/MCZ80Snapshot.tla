---------------------------- MODULE MCZ80Snapshot ----------------------------
(***************************************************************************)
(* An instance of Z80Snapshot for TLC: prefixes, indexed and internal      *)
(* cycles, and everything that changes the interrupt state, F or R.        *)
(***************************************************************************)
EXTENDS Z80Snapshot

MCBytes == {"DD", "CB", "ED", "xcb_set", "cb_set_r", "ld_r_r", "ld_r_m", "add_hl", "scf", "ldir", "retn", "im_1",
            "ld_r_a", "ei", "halt"}
MCAcks == {"rst", "DD", "ld_r_m"}
=============================================================================
