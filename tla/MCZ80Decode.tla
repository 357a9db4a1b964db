----------------------------- MODULE MCZ80Decode -----------------------------
(***************************************************************************)
(* An instance of Z80Decode for TLC: every class, so every opcode byte.    *)
(***************************************************************************)
EXTENDS Z80Decode

MCAllBytes == Bytes
=============================================================================
