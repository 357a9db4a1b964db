------------------------------ MODULE BlockOp ------------------------------
(***************************************************************************)
(* What a block instruction of the ED page promises to a program: it does  *)
(* all its transfers, and they are those of a loop run from its first to   *)
(* its last unit.  Here it is one step, so that nothing can come between.  *)
(*                                                                         *)
(* A transfer may store over the two bytes of the instruction itself.  The *)
(* CPU fetches them again for every unit, so the instruction is then "cut" *)
(* short at that unit.                                                     *)
(***************************************************************************)
EXTENDS Z80Flags, Sequences

CONSTANTS
  WordMod,      \* size of 16-bit registers and of the memory (2^16)
  Device,       \* what an IN of port <<b, c>> reads
  Opcodes       \* the block opcodes: 0xA0 .. 0xBB with bit 2 clear

VARIABLES
  job,          \* the instruction and the state it starts from
  status,       \* "pending", "done" or "cut"
  pc, hl, de, bc, b, f, mem,
  out           \* the bytes written to ports, with their ports

vars == <<job, status, pc, hl, de, bc, b, f, mem, out>>

Word == 0 .. WordMod - 1

Job == [op : Opcodes, pc : Word, hl : Word, de : Word, bc : Word,
        b : Byte, c : Byte, a : Byte, f : SUBSET Flags, mem : [Word -> Byte]]

(* The opcode: bits 0 and 1 the kind, bit 3 the direction, bit 4 repeat.    *)
Kind    == <<"LD", "CP", "IN", "OUT">>[(job.op % 4) + 1]
Sign    == IF (job.op \div 8) % 2 = 1 THEN -1 ELSE 1
Repeats == (job.op \div 16) % 2 = 1

Port(k) == <<(job.b - k) % 256, job.c>>
From(k) == (job.hl + Sign * k) % WordMod
To(k)   == (job.de + Sign * k) % WordMod

(* How many units the counter asks for; zero stands for its full range.     *)
Full(counter, range) == IF counter = 0 THEN range ELSE counter

Count == IF ~Repeats THEN 1
         ELSE IF Kind \in {"LD", "CP"} THEN Full(job.bc, WordMod) ELSE Full(job.b, 256)

Found(k) == job.mem[From(k - 1)] = job.a

Length == IF Kind = "CP" /\ \E k \in 1 .. Count : Found(k)
          THEN CHOOSE k \in 1 .. Count : Found(k) /\ \A j \in 1 .. k - 1 : ~Found(j)
          ELSE Count

(* Which unit, counted from 0, stores at x first.                           *)
Unit(x) == (Sign * (x - (IF Kind = "LD" THEN job.de ELSE job.hl))) % WordMod

(* Where the destination runs `ahead` of the source, LDIR stores the first  *)
(* `ahead` bytes over and over.                                             *)
Copied(k) ==
  LET ahead == (Sign * (job.de - job.hl)) % WordMod
  IN  job.mem[From(IF ahead = 0 THEN k ELSE k % ahead)]

(* An input of more units than there is memory stores last what counts.     *)
InputAt(x, k) == Device[Port(Unit(x) + WordMod * ((k - 1 - Unit(x)) \div WordMod))]

CellAfter(k, x) ==
  IF Kind \notin {"LD", "IN"} \/ Unit(x) >= k THEN job.mem[x]
  ELSE IF Kind = "LD" THEN Copied(Unit(x)) ELSE InputAt(x, k)

OwnBytes == {job.pc, (job.pc + 1) % WordMod}
Rewritten(k) == \E x \in OwnBytes : CellAfter(k, x) # job.mem[x]

(* Where the instruction stops: at its last unit, or at the first one that  *)
(* rewrites it.                                                             *)
Stops(k) == /\ k = Length \/ Rewritten(k)
            /\ \A j \in 1 .. k - 1 : ~Rewritten(j)

(* The documented flags.                                                    *)
FlagsAfter(k, flags) ==
  /\ Kind \in {"LD", "CP"} => ("PV" \in flags <=> bc' # 0)
  /\ Kind \in {"IN", "OUT"} => ("Z" \in flags <=> b' = 0)
  /\ Kind = "LD" => /\ flags \cap {"H", "N"} = {}
                    /\ \A flag \in {"S", "Z", "C"} : flag \in flags <=> flag \in job.f
  /\ Kind = "CP" => /\ "Z" \in flags <=> Found(k)
                    /\ "S" \in flags <=> (job.a - job.mem[From(k - 1)]) % 256 > 127
                    /\ "H" \in flags <=> job.a % 16 < job.mem[From(k - 1)] % 16
                    /\ "N" \in flags
                    /\ "C" \in flags <=> "C" \in job.f

----------------------------------------------------------------------------
Init ==
  /\ job \in Job
  /\ status = "pending" /\ out = <<>>
  /\ pc = job.pc /\ hl = job.hl /\ de = job.de /\ bc = job.bc /\ b = job.b
  /\ f = job.f /\ mem = job.mem

Run(k) ==
  /\ status = "pending" /\ Stops(k)
  /\ status' = IF k = Length THEN "done" ELSE "cut"
  /\ pc' = IF k = Length THEN (job.pc + 2) % WordMod ELSE job.pc
  /\ mem' = [x \in Word |-> CellAfter(k, x)]
  /\ hl' = From(k)
  /\ de' = IF Kind = "LD" THEN To(k) ELSE job.de
  /\ bc' = IF Kind \in {"LD", "CP"} THEN (job.bc - k) % WordMod ELSE job.bc
  /\ b'  = IF Kind \in {"IN", "OUT"} THEN (job.b - k) % 256 ELSE job.b
  /\ out' = IF Kind = "OUT" THEN [i \in 1 .. k |-> <<Port(i), job.mem[From(i - 1)]>>]
                            ELSE <<>>
  /\ k = Length => FlagsAfter(k, f')
  /\ UNCHANGED job

Next == \E k \in 1 .. Count : Run(k)

Spec == Init /\ [][Next]_vars
=============================================================================
