----------------------------- MODULE MCZ80Block -----------------------------
(***************************************************************************)
(* The instructions and operands for which TLC runs Z80Block.  The memory  *)
(* has eight bytes, in pages of two whose numbers differ in bits 3 and 5.  *)
(***************************************************************************)
EXTENDS Z80Block

MCHighByte == [w \in Word |-> <<0, 8, 32, 40>>[(w \div 2) + 1]]
MCLowByte  == [w \in Word |-> 31 * w]

(* No byte that the device supplies is one of an instruction.               *)
MCDevice == [port \in Byte \X Byte |-> <<127, 128, 255>>[((port[1] + port[2]) % 3) + 1]]

MCOpcodes == { v \in 160 .. 187 : v % 8 < 4 }

(* The instruction at the end of memory, or in the middle.                  *)
Places == {5, 7}

(* Bytes that differ, and bytes of which some are equal.                    *)
Different == [w \in Word |-> 16 * w + 9]
Repeated  == [w \in Word |-> 16 * (w % 3) + 9]

Start(op, place, h, d, n, bytes, acc, flags, data) ==
  [op |-> op, pc |-> place, hl |-> h, de |-> d, bc |-> n,
   b |-> bytes[1], c |-> bytes[2], a |-> acc, f |-> flags,
   mem |-> [data EXCEPT ![place] = PrefixED, ![Up(place)] = op]]

LoadOps   == { op \in MCOpcodes : op % 4 = 0 }
SearchOps == { op \in MCOpcodes : op % 4 = 1 }
InOutOps  == { op \in MCOpcodes : op % 4 > 1 }

MCJobs ==
  { Start(op, place, h, d, n, <<0, 0>>, 3, {"S", "C", "H", "X"}, Different) :
      op \in LoadOps, place \in Places, h \in Word, d \in Word, n \in Word }
    \cup { Start(op, place, h, 0, n, <<0, 0>>, acc, {"C", "Z"}, Repeated) :
      op \in SearchOps, place \in Places, h \in Word, n \in Word, acc \in {9, 24, 25, 41, 237} }
    \cup { Start(op, place, h, 0, 0, <<n, low>>, 0, {"Z"}, Different) :
      op \in InOutOps, place \in Places, h \in {0, 2, 6},
      n \in {0, 1, 3, 17, 130}, low \in {0, 2, 255} }
=============================================================================
