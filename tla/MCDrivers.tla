----------------------------- MODULE MCDrivers -----------------------------
(* Instances of Drivers for TLC. *)
EXTENDS Drivers

(* Short and long instructions, every kind of prefix, HALT and EI.          *)
MCBytes == {"DD", "CB", "ED", "cb_set_r", "xcb_set", "ld_r_r", "inc_m", "ldir",
            "ei", "halt"}
MCAcks == {"rst", "halt"}

MCKinds   == {"Run", "zrun", "steps"}
MCBudgets == {0, 2, 9}
=============================================================================
