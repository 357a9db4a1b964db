------------------------------ MODULE MCZstep ------------------------------
(* An instance of Zstep for TLC: eight rows of two addresses.              *)
EXTENDS Zstep

(* Both ends of memory and a place in the middle of a row.                  *)
MCPlaces == {0, 7, 15}
=============================================================================
