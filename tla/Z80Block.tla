------------------------------ MODULE Z80Block ------------------------------
(***************************************************************************)
(* The block instructions of the ED page (execEDBlock): LDI, CPI, INI,     *)
(* OUTI, backwards and repeating.  The CPU does one unit per Step and, to  *)
(* repeat, moves PC back to the prefix, so that the next Step fetches the  *)
(* instruction again.  Between two Steps the machine may interrupt.        *)
(*                                                                         *)
(* A behaviour runs one instruction of Jobs, for as long as its bytes are  *)
(* in memory.  BC is kept twice, as the word `bc` that LDI and CPI count   *)
(* and as the bytes `b` and `c` of which INI and OUTI count the first, so  *)
(* that words may be small and bytes real.  The T-states, WZ, the M-cycles *)
(* and the sampling of interrupts are those of Z80Cpu.                     *)
(***************************************************************************)
EXTENDS Z80Flags, Sequences

CONSTANTS
  WordMod,            \* size of 16-bit registers and of the memory (2^16)
  HighByte, LowByte,  \* of a word
  Device,             \* what an IN of port <<b, c>> reads
  Jobs,               \* the instructions and states to start from
  Handler,            \* where an interrupt leads
  Opcodes             \* the block opcodes: 0xA0 .. 0xBB with bit 2 clear

Word == 0 .. WordMod - 1
NoReturn == -1
PrefixED == 237

Job == [op : Opcodes, pc : Word, hl : Word, de : Word, bc : Word,
        b : Byte, c : Byte, a : Byte, f : SUBSET Flags, mem : [Word -> Byte]]

ASSUME BlockAssumption ==
  /\ WordMod \in Nat /\ WordMod > 2
  /\ HighByte \in [Word -> Byte] /\ LowByte \in [Word -> Byte]
  /\ Device \in [Byte \X Byte -> Byte]
  /\ Opcodes \subseteq Byte /\ Handler \in Word
  /\ Jobs \subseteq Job
  /\ \A j \in Jobs : j.mem[j.pc] = PrefixED /\ j.mem[(j.pc + 1) % WordMod] = j.op

VARIABLES
  job,          \* the member of Jobs that this behaviour started from
  pc, hl, de, bc, b, f, mem,
  out,          \* the bytes written to ports, with their ports
  ret,          \* in an interrupt handler, the PC that was pushed
  begun         \* observer: has a unit been done

registers == <<hl, de, bc, b, f>>
vars == <<job, pc, registers, mem, out, ret, begun>>

----------------------------------------------------------------------------
Up(w)   == (w + 1) % WordMod
Down_Unwrapped(w) == w - 1              \* mutant: 16 bits forgotten
Down(w) == (w - 1) % WordMod

Opcode    == mem[Up(pc)]
Backwards == Bit(Opcode, 3)
Repeats   == Bit(Opcode, 4)
Moved(w)  == IF Backwards THEN Down(w) ELSE Up(w)

(* A Step at the instruction: its two bytes are fetched, as long as they    *)
(* are there, and one unit done.                                            *)
Executes(kind) ==
  /\ ret = NoReturn /\ pc = job.pc
  /\ mem[pc] = PrefixED /\ Opcode = job.op /\ Opcode % 4 = kind
  /\ begun' = TRUE
  /\ UNCHANGED <<job, ret>>

Next2(w) == Up(Up(w))                   \* PC after the two fetches
Back2_One(w) == Down(w)                 \* mutant: pc -= 1
Back2(w) == Down(Down(w))

(* repeatXY, with the PC moved back.                                        *)
RepeatXY(flags, back) == (flags \ {"X", "Y"}) \cup XYOf(HighByte[back])

Flip(flags, flag) == IF flag \in flags THEN flags \ {flag} ELSE flags \cup {flag}

(* repeatIOFlags: H is recomputed, and PV flipped by a parity, from the new *)
(* B, that B moved on, or B as it is, depending on C and N.                 *)
RepeatIO(flags, count) ==
  LET moved == IF "N" \in flags THEN (count - 1) % 256 ELSE (count + 1) % 256
      half  == If(count % 16 = (IF "N" \in flags THEN 0 ELSE 15), {"H"})
      base  == IF "C" \in flags THEN (flags \ {"H"}) \cup half ELSE flags
      low   == (IF "C" \in flags THEN moved ELSE count) % 8
  IN  IF parity[low] = {} THEN Flip(base, "PV") ELSE base

(* What is common to all of them: go on, or back for one more unit.         *)
Leave(flags) == pc' = Next2(pc) /\ f' = flags
Again(flags) == pc' = Back2(Next2(pc)) /\ f' = RepeatXY(flags, pc')
AgainIO(flags) == pc' = Back2(Next2(pc)) /\ f' = RepeatIO(RepeatXY(flags, pc'), b')

(* X and Y of LDI and CPI: bits 3 and 1.                                    *)
BlockXY(n) == If(Bit(n, 3), {"X"}) \cup If(Bit(n, 1), {"Y"})

----------------------------------------------------------------------------
LdFlags(v) == (f \cap {"S", "Z", "C"}) \cup BlockXY((job.a + v) % 256)
                \cup If(bc' # 0, {"PV"})

LDI ==
  /\ Executes(0)
  /\ LET v == mem[hl]
     IN  /\ mem' = [mem EXCEPT ![de] = v]
         /\ hl' = Moved(hl) /\ de' = Moved(de) /\ bc' = Down(bc)
         /\ IF Repeats /\ bc' # 0 THEN Again(LdFlags(v)) ELSE Leave(LdFlags(v))
  /\ UNCHANGED <<b, out>>

CpFlags(v) ==
  LET res  == (job.a - v) % 256
      half == Xor3(job.a, v, res, 4)
      n    == IF half THEN (res - 1) % 256 ELSE res
  IN  (f \cap {"C"}) \cup {"N"} \cup (szxy[res] \cap {"S", "Z"}) \cup If(half, {"H"})
        \cup BlockXY(n) \cup If(bc' # 0, {"PV"})

CPI ==
  /\ Executes(1)
  /\ LET v == mem[hl]
     IN  /\ hl' = Moved(hl) /\ bc' = Down(bc)
         /\ IF Repeats /\ bc' # 0 /\ v # job.a THEN Again(CpFlags(v)) ELSE Leave(CpFlags(v))
  /\ UNCHANGED <<de, b, mem, out>>

(* inOutBlockFlags: v is the byte moved, k it plus C or L.                  *)
InOutFlags(v, k) ==
  szxy[b'] \cup If(v > 127, {"N"}) \cup If(k > 255, {"H", "C"})
    \cup If(parity[k % 8] = parity[b'], {"PV"})

MovedC == IF Backwards THEN (job.c - 1) % 256 ELSE (job.c + 1) % 256

INI ==
  /\ Executes(2)
  /\ b' = (b - 1) % 256
  /\ LET v     == Device[<<b, job.c>>]
         flags == InOutFlags(v, MovedC + v)
     IN  /\ mem' = [mem EXCEPT ![hl] = v]
         /\ IF Repeats /\ b' # 0 THEN AgainIO(flags) ELSE Leave(flags)
  /\ hl' = Moved(hl)
  /\ UNCHANGED <<de, bc, out>>

OUTI_PortFirst ==                       \* mutant: written before B is decremented
  /\ Executes(3)
  /\ b' = (b - 1) % 256
  /\ LET v     == mem[hl]
         flags == InOutFlags(v, LowByte[hl'] + v)
     IN  /\ hl' = Moved(hl)
         /\ out' = Append(out, <<<<b, job.c>>, v>>)
         /\ IF Repeats /\ b' # 0 THEN AgainIO(flags) ELSE Leave(flags)
  /\ UNCHANGED <<de, bc, mem>>

OUTI_Endless ==                         \* mutant: repeats without looking at B
  /\ Executes(3)
  /\ b' = (b - 1) % 256 /\ hl' = Moved(hl)
  /\ LET flags == InOutFlags(mem[hl], LowByte[hl'] + mem[hl])
     IN  IF Repeats THEN AgainIO(flags) ELSE Leave(flags)
  /\ UNCHANGED <<de, bc, mem, out>>

OUTI ==
  /\ Executes(3)
  /\ b' = (b - 1) % 256
  /\ hl' = Moved(hl)
  /\ LET v     == mem[hl]
         flags == InOutFlags(v, LowByte[hl'] + v)
     IN  /\ out' = Append(out, <<<<b', job.c>>, v>>)
         /\ IF Repeats /\ b' # 0 THEN AgainIO(flags) ELSE Leave(flags)
  /\ UNCHANGED <<de, bc, mem>>

Step == LDI \/ CPI \/ INI \/ OUTI

----------------------------------------------------------------------------
(* An NMI or INT accepted between two Steps pushes PC.  Its handler leaves  *)
(* the registers as it found them, and memory too: it and the stack are     *)
(* elsewhere.                                                               *)
Interrupt ==
  /\ ret = NoReturn
  /\ ret' = pc
  /\ pc' = Handler
  /\ UNCHANGED <<job, registers, mem, out, begun>>

Return ==
  /\ ret # NoReturn
  /\ pc' = ret /\ ret' = NoReturn
  /\ UNCHANGED <<job, registers, mem, out, begun>>

Init ==
  /\ job \in Jobs
  /\ pc = job.pc /\ hl = job.hl /\ de = job.de /\ bc = job.bc /\ b = job.b
  /\ f = job.f /\ mem = job.mem
  /\ out = <<>> /\ ret = NoReturn /\ begun = FALSE

Next == Step \/ Interrupt \/ Return

Spec == Init /\ [][Next]_vars

(* The embedder keeps calling Step; interrupts are not so dense that one is *)
(* accepted at every return from the one before.                            *)
FairSpec == Spec /\ SF_vars(Step) /\ WF_vars(Return)

----------------------------------------------------------------------------
(* Properties. *)

TypeOK ==
  /\ job \in Job
  /\ pc \in Word /\ hl \in Word /\ de \in Word /\ bc \in Word
  /\ b \in Byte /\ f \in SUBSET Flags /\ mem \in [Word -> Byte]
  /\ out \in Seq((Byte \X Byte) \X Byte)
  /\ ret \in Word \cup {NoReturn} /\ begun \in BOOLEAN

Here == IF ret = NoReturn THEN pc ELSE ret
Kind == job.op % 4

(* Do the registers say that there is more to do?                           *)
CountLeft == IF Kind \in {0, 1} THEN bc # 0 ELSE b # 0
Matched   == Kind = 1 /\ "Z" \in f
Unfinished == ~begun \/ (Bit(job.op, 4) /\ CountLeft /\ ~Matched)

(* An interrupt between two units pushes the address of the instruction's   *)
(* own prefix, and one after the last unit the address behind it (pc -= 2   *)
(* in execEDBlock).  Meanwhile the flags tell the handler how far it is: PV *)
(* that bytes are left, and Z that the byte just read is the one searched,  *)
(* or that B has come to 0, whatever repeatXY and repeatIOFlags do to the   *)
(* other flags.                                                             *)
LastRead == IF Bit(job.op, 3) THEN Up(hl) ELSE Down(hl)

Resumes ==
  /\ Here = IF Unfinished THEN job.pc ELSE Next2(job.pc)
  /\ begun /\ Kind = 1 => ("Z" \in f <=> mem[LastRead] = job.a)
  /\ begun /\ Kind \in {0, 1} => ("PV" \in f <=> bc # 0)
  /\ begun /\ Kind \in {2, 3} => ("Z" \in f <=> b = 0)

(* The bytes of the instruction, which every unit fetches again.            *)
OwnBytes == {job.pc, Up(job.pc)}

Status == IF Here # job.pc THEN "done"
          ELSE IF \E x \in OwnBytes : mem[x] # job.mem[x] THEN "cut"
          ELSE "pending"

Whole(now, before) == IF Status = "pending" THEN before ELSE now

(* Interrupted between any two units, with overlapping operands, a counter  *)
(* of zero or wrapping addresses, the instruction does what it would do as  *)
(* one step: the copy, search, input or output of module BlockOp.           *)
Atomic == INSTANCE BlockOp WITH
            status <- Status, pc <- Here,
            hl <- Whole(hl, job.hl), de <- Whole(de, job.de),
            bc <- Whole(bc, job.bc), b <- Whole(b, job.b), f <- Whole(f, job.f),
            mem <- Whole(mem, job.mem), out <- Whole(out, <<>>)

ImplementsBlockOp == Atomic!Spec

(* However often it is interrupted, it comes to its end, or overwrites      *)
(* itself.                                                                  *)
Completes == <>(Status # "pending")
=============================================================================
