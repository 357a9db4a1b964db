------------------------------ MODULE Z80Flags ------------------------------
(***************************************************************************)
(* Bytes, and the flags that depend on a result alone (flags.go).  F is    *)
(* the set of the flags that are set.                                      *)
(***************************************************************************)
EXTENDS Integers, FiniteSets

Byte == 0 .. 255
Flags == {"S", "Z", "Y", "H", "X", "PV", "N", "C"}

Bit(v, i)   == (v \div 2^i) % 2 = 1
Bits(v)     == { i \in 0 .. 7 : Bit(v, i) }
ByteOf(set) ==
  LET Weight(i) == IF i \in set THEN 2^i ELSE 0
  IN  Weight(0) + Weight(1) + Weight(2) + Weight(3)
        + Weight(4) + Weight(5) + Weight(6) + Weight(7)
Hi(w) == w \div 256
Lo(w) == w % 256
Xor3(x, y, z, i) == (Bit(x, i) # Bit(y, i)) # Bit(z, i)

If(cond, flags) == IF cond THEN flags ELSE {}

XYOf(v) == If(Bit(v, 5), {"Y"}) \cup If(Bit(v, 3), {"X"})

szxy   == [v \in Byte |-> If(Bit(v, 7), {"S"}) \cup If(v = 0, {"Z"}) \cup XYOf(v)]
parity == [v \in Byte |-> If(Cardinality(Bits(v)) % 2 = 0, {"PV"})]
=============================================================================
