------------------------------- MODULE Z80Cpu -------------------------------
(***************************************************************************)
(* The CPU core of package z80: Step, the M-cycles a Step is made of, the  *)
(* acceptance of NMI and INT, and the machine that raises both from inside *)
(* a Tick.                                                                 *)
(*                                                                         *)
(* One action is one M-cycle (all its T-states and the Go code up to the   *)
(* next Tick that the machine can see), so the machine acts between any    *)
(* two M-cycles.  A Step is the sequence `todo` of the M-cycles and        *)
(* effects it still has to run; `todo` is empty between two Steps.         *)
(*                                                                         *)
(* Memory and the interrupting device are open: a fetch returns any byte.  *)
(* What is kept of a byte is what decides control: the instruction class   *)
(* it starts (the classes below name all the opcodes that run through the  *)
(* same M-cycles), whether a condition holds, where a jump goes.  Operand  *)
(* values, the register file, SP, WZ, I, F's individual bits and the       *)
(* latch P, which no code of the CPU reads, are abstracted.                *)
(***************************************************************************)
EXTENDS Integers, Sequences

CONSTANTS
  AddrMod,     \* size of the address space (2^16 in the code)
  RMod,        \* size of the R counter (2^7; bit 7 of R never takes part)
  VecNMI,      \* 0x0066
  VecIM1,      \* 0x0038
  MemBytes,    \* first bytes the memory may hold: instruction classes, prefixes
  AckBytes,    \* first bytes the device may answer an acknowledge with
  MaxPre       \* bound: T-states are counted for at most MaxPre prefixes

Addr == 0 .. AddrMod - 1
RVal == 0 .. RMod - 1

ASSUME ModAssumption == /\ AddrMod \in Nat \ {0}
                        /\ RMod \in Nat \ {0}
                        /\ MaxPre \in Nat \ {0}
ASSUME VecAssumption == VecNMI \in Addr /\ VecIM1 \in Addr

VARIABLES
  pc, r, lastIR,              \* PC; R; the R of the latest refresh address
  im, iff1, iff2, halted, eiPending,
  q, flagsSet,                \* is the Q latch non-zero; did setF run
  idx, dispValid,             \* index mode; is dispEA cached
  im0,                        \* executing an injected instruction
  intLine, nmiPending,        \* /INT level, latched NMI edge
  todo,                       \* the rest of the Step in progress
  doing,                      \* which case of Step's switch it took
  ins, pre, t, pc0, last      \* observers: opcode dispatched, prefixes and
                              \* T-states of this Step, PC when it began, and
                              \* what the Step before it was

lines   == <<intLine, nmiPending>>
enables == <<iff1, iff2, halted, eiPending>>
fetched == <<pc, r, lastIR>>
latches == <<q, flagsSet>>
index   == <<idx, dispValid, im0>>
observe == <<doing, ins, pre, pc0, last>>
vars == <<fetched, im, enables, latches, index, lines, todo, t, observe>>

----------------------------------------------------------------------------
(* M-cycles that only take time here, with their T-states: memory and I/O  *)
(* transfers (read8, write8, ioRead, ioWrite) and internal T-states, "ir"  *)
(* when they put lastIR on the address bus and "int" when another address. *)

Cycle == [read |-> 3, write |-> 3, io |-> 4,
          ir1 |-> 1, ir2 |-> 2, ir7 |-> 7,
          int1 |-> 1, int2 |-> 2, int4 |-> 4, int5 |-> 5]

IrCycles == {"ir1", "ir2", "ir7"}

(* The unprefixed page after its opcode fetch.  A class stands for every   *)
(* opcode with the same schedule and effects; one whose length depends on  *)
(* a condition or a counter is two classes, "_no" when it is not taken.    *)

BaseBody == [
  ld_r_r    |-> <<>>,                     \* NOP, LD r,r', EX AF, EXX, EX DE,HL
  alu_r     |-> <<"setF">>,               \* 8-bit ALU, INC/DEC r, rotates, DAA, CPL
  scf       |-> <<"setF">>,               \* SCF, CCF: X and Y of the new F depend on Q
  ld_r_n    |-> <<"fetch8">>,
  alu_n     |-> <<"fetch8", "setF">>,
  ld_r_m    |-> <<"ea", "read">>,
  ld_m_r    |-> <<"ea", "write">>,
  alu_m     |-> <<"ea", "read", "setF">>,
  inc_m     |-> <<"ea", "read", "int1", "setF", "write">>,
  ld_m_n    |-> <<"ldmn">>,
  ld_dd_nn  |-> <<"fetch8", "fetch8">>,   \* and JP cc,nn / CALL cc,nn not taken
  ld_a_rr   |-> <<"read">>,
  ld_rr_a   |-> <<"write">>,
  ld_a_nn   |-> <<"fetch8", "fetch8", "read">>,
  ld_nn_a   |-> <<"fetch8", "fetch8", "write">>,
  ld_hl_nn  |-> <<"fetch8", "fetch8", "read", "read">>,
  ld_nn_hl  |-> <<"fetch8", "fetch8", "write", "write">>,
  inc_ss    |-> <<"ir2">>,                \* INC/DEC ss, LD SP,HL
  add_hl    |-> <<"ir7", "setF">>,
  jp        |-> <<"fetch8", "fetch8", "jump">>,
  jp_hl     |-> <<"jump">>,
  jr        |-> <<"fetch8", "int5", "jump">>,
  jr_no     |-> <<"fetch8">>,
  djnz      |-> <<"ir1", "fetch8", "int5", "jump">>,
  djnz_no   |-> <<"ir1", "fetch8">>,
  call      |-> <<"fetch8", "fetch8", "int1", "write", "write", "jump">>,
  ret       |-> <<"read", "read", "jump">>,
  ret_cc    |-> <<"ir1", "read", "read", "jump">>,
  ret_cc_no |-> <<"ir1">>,
  rst       |-> <<"ir1", "write", "write", "jump">>,
  push      |-> <<"ir1", "write", "write">>,
  pop       |-> <<"read", "read">>,       \* POP AF loads F without setF
  ex_sp     |-> <<"read", "read", "int1", "write", "write", "int2">>,
  io_n      |-> <<"fetch8", "io">>,
  halt      |-> <<"HALT">>,
  di        |-> <<"DI">>,
  ei        |-> <<"EI">>]

(* The CB page, and what follows the last byte of a DDCB/FDCB opcode.       *)

CBBody == [
  cb_rot_r  |-> <<"setF">>,               \* rotates, shifts, BIT y,r
  cb_set_r  |-> <<>>,                     \* SET/RES y,r
  cb_rot_m  |-> <<"read", "int1", "setF", "write">>,
  cb_bit_m  |-> <<"read", "int1", "setF">>,
  cb_set_m  |-> <<"read", "int1", "write">>]

XCBBody == [
  xcb_rot   |-> <<"int2", "read", "int1", "setF", "write">>,
  xcb_bit   |-> <<"int2", "read", "int1", "setF">>,
  xcb_set   |-> <<"int2", "read", "int1", "write">>]

(* The ED page.  "back" is the pc -= 2 of a repeating block instruction.    *)

EDBody == [
  ed_nop    |-> <<>>,
  in_r_c    |-> <<"io", "setF">>,
  out_c_r   |-> <<"io">>,
  sbc_hl    |-> <<"ir7", "setF">>,        \* and ADC HL,ss
  ld_nn_dd  |-> <<"fetch8", "fetch8", "write", "write">>,
  ld_dd_ind |-> <<"fetch8", "fetch8", "read", "read">>,
  neg       |-> <<"setF">>,
  retn      |-> <<"RETN", "read", "read", "jump">>,
  im_0      |-> <<"IM0">>,
  im_1      |-> <<"IM1">>,
  im_2      |-> <<"IM2">>,
  ld_i_a    |-> <<"ir1">>,
  ld_r_a    |-> <<"ir1", "ldR">>,
  ld_a_i    |-> <<"ir1", "setF">>,        \* and LD A,R
  rrd       |-> <<"read", "int4", "write", "setF">>,
  ldi       |-> <<"read", "write", "int2", "setF">>,
  ldir      |-> <<"read", "write", "int2", "setF", "int5", "back", "setF">>,
  cpi       |-> <<"read", "int5", "setF">>,
  cpir      |-> <<"read", "int5", "setF", "int5", "back", "setF">>,
  ini       |-> <<"ir1", "io", "write", "setF">>,
  inir      |-> <<"ir1", "io", "write", "setF", "int5", "back", "setF">>,
  outi      |-> <<"ir1", "read", "io", "setF">>,
  otir      |-> <<"ir1", "read", "io", "setF", "int5", "back", "setF">>]

(* eaHL, and LD (HL),n: what they run depends on the index mode.            *)

EaBody   == IF idx = "HL" \/ dispValid THEN <<>> ELSE <<"fetch8", "int5", "disp">>
LdmnBody == IF idx = "HL" THEN <<"fetch8", "write">>
                          ELSE <<"fetch8", "fetch8", "int2", "write">>

(* What is left of a Step that accepts NMI or INT after its first M1.       *)

NmiRest == <<"ir1", "write", "write", "toNMI", "end">>
Im1Rest == <<"int1", "write", "write", "toIM1", "end">>
Im2Rest == <<"ir1", "write", "write", "read", "read", "jump", "end">>

Prefixes == {"DD", "FD"}
Bytes == DOMAIN BaseBody \cup DOMAIN CBBody \cup DOMAIN XCBBody
           \cup DOMAIN EDBody \cup Prefixes \cup {"CB", "ED"}

ASSUME BytesAssumption == MemBytes \subseteq Bytes /\ AckBytes \subseteq Bytes

----------------------------------------------------------------------------
(* Steps of the sequence `todo`.                                            *)

At(op) == todo # <<>> /\ Head(todo) = op
Done   == todo' = Tail(todo)
Then(body) == todo' = body \o Tail(todo)

IncR_Unmasked(v) == v + 1               \* mutant: the & 0x7F forgotten
IncR(v) == (v + 1) % RMod
Take(n) == t' = t + n

(* The refresh half of fetchM1 and intAckM1.                                *)
Refresh == lastIR' = r /\ r' = IncR(r)

(* fetchOpcode and fetch8 read from the device while im0 is set, and leave  *)
(* PC alone.                                                                *)
AfterFetch == IF im0 THEN pc ELSE (pc + 1) % AddrMod
FetchOpcode == pc' = AfterFetch /\ Refresh
OpcodeTime == IF im0 THEN 6 ELSE 4
FromBus == IF im0 THEN AckBytes ELSE MemBytes

DiscardedM1_Advances ==                 \* mutant: c.pc = pc forgotten
  pc' = (pc + 1) % AddrMod /\ Refresh
(* An M1 at PC whose byte is discarded: PC is put back.                     *)
DiscardedM1 == UNCHANGED pc /\ Refresh

----------------------------------------------------------------------------
Init ==
  /\ pc = 0 /\ r = 0 /\ lastIR = 0
  /\ im = 0 /\ iff1 = FALSE /\ iff2 = FALSE
  /\ halted = FALSE /\ eiPending = FALSE
  /\ q = FALSE /\ flagsSet = FALSE
  /\ idx = "HL" /\ dispValid = FALSE /\ im0 = FALSE
  /\ intLine = FALSE /\ nmiPending = FALSE
  /\ todo = <<>> /\ t = 0
  /\ doing = "idle" /\ ins = "none" /\ pre = 0 /\ pc0 = 0 /\ last = "other"

----------------------------------------------------------------------------
(* The machine.  It may call SetINT and NMI at any time, from a Tick in the *)
(* middle of a Step as well; the resets only between two Steps.             *)

SetINT(level) ==
  /\ intLine' = level
  /\ UNCHANGED <<fetched, im, enables, latches, index, nmiPending, todo, t, observe>>

NMI ==
  /\ nmiPending' = TRUE
  /\ UNCHANGED <<fetched, im, enables, latches, index, intLine, todo, t, observe>>

Reset ==
  /\ todo = <<>>
  /\ pc' = 0 /\ r' = 0 /\ im' = 0
  /\ iff1' = FALSE /\ iff2' = FALSE
  /\ halted' = FALSE /\ eiPending' = FALSE
  /\ q' = FALSE /\ last' = "other"
  /\ UNCHANGED <<lastIR, flagsSet, index, lines, todo, t, doing, ins, pre, pc0>>

SpecialReset_DropsNMI ==                \* mutant: the pending NMI cleared too
  /\ todo = <<>>
  /\ pc' = 0 /\ halted' = FALSE /\ nmiPending' = FALSE
  /\ UNCHANGED <<r, lastIR, im, iff1, iff2, eiPending, latches, index, intLine,
                 todo, t, observe>>

SpecialReset ==
  /\ todo = <<>>
  /\ pc' = 0 /\ halted' = FALSE
  /\ UNCHANGED <<r, lastIR, im, iff1, iff2, eiPending, latches, index, lines,
                 todo, t, observe>>

----------------------------------------------------------------------------
(* Step: the sample of the lines and the switch.  deferINT is eiPending as  *)
(* it was; eiPending is cleared whatever the case.                          *)

Begin(case, op) ==
  /\ todo = <<>> /\ todo' = <<op, "end">>
  /\ eiPending' = FALSE
  /\ doing' = case /\ pc0' = pc
  /\ UNCHANGED <<fetched, im, q, intLine, t, ins, pre, last>>

FreshIndex_KeepsDisp ==                 \* mutant: dispValid not reset
  idx' = "HL" /\ UNCHANGED dispValid

(* An instruction starts with no index mode and no displacement fetched.    *)
FreshIndex == idx' = "HL" /\ dispValid' = FALSE

IntAcceptable_NoDefer == intLine /\ iff1  \* mutant: deferINT forgotten
IntAcceptable_NoWake  ==                  \* mutant: c.halted tested first
  intLine /\ iff1 /\ ~eiPending /\ ~halted
IntAcceptable == intLine /\ iff1 /\ ~eiPending

AcceptNMI_ClearsBoth ==                 \* mutant: IFF2 cleared too, as an INT does
  /\ nmiPending
  /\ Begin("nmi", "nmiM1")
  /\ nmiPending' = FALSE
  /\ halted' = FALSE /\ iff1' = FALSE /\ iff2' = FALSE
  /\ UNCHANGED <<flagsSet, index>>

AcceptNMI ==
  /\ nmiPending
  /\ Begin("nmi", "nmiM1")
  /\ nmiPending' = FALSE
  /\ halted' = FALSE /\ iff1' = FALSE
  /\ UNCHANGED <<iff2, flagsSet, index>>

EnterINT_StaysHalted(case, op) ==       \* mutant: c.halted = false forgotten
  /\ ~nmiPending /\ IntAcceptable
  /\ Begin(case, op)
  /\ iff1' = FALSE /\ iff2' = FALSE
  /\ UNCHANGED <<halted, nmiPending>>

EnterINT(case, op) ==
  /\ ~nmiPending /\ IntAcceptable
  /\ Begin(case, op)
  /\ halted' = FALSE /\ iff1' = FALSE /\ iff2' = FALSE
  /\ UNCHANGED nmiPending

AcceptINT ==
  /\ im # 0
  /\ EnterINT("int", "ackM1")
  /\ UNCHANGED <<flagsSet, index>>

(* IM 0.  The acknowledge M1 that brings the first injected byte is the     *)
(* "opcode" fetch below: under im0 that fetch is intAckM1, and nothing      *)
(* reads the variables set here before it.                                  *)
InjectINT ==
  /\ im = 0
  /\ EnterINT("inject", "opcode")
  /\ flagsSet' = FALSE
  /\ FreshIndex /\ im0' = TRUE

HaltCycle ==
  /\ ~nmiPending /\ ~IntAcceptable /\ halted
  /\ Begin("halt", "haltM1")
  /\ UNCHANGED <<iff1, iff2, halted, nmiPending, flagsSet, index>>

Execute ==
  /\ ~nmiPending /\ ~IntAcceptable /\ ~halted
  /\ Begin("instr", "opcode")
  /\ flagsSet' = FALSE
  /\ FreshIndex
  /\ UNCHANGED <<iff1, iff2, halted, nmiPending, im0>>

BeginStep == AcceptNMI \/ AcceptINT \/ InjectINT \/ HaltCycle \/ Execute

LatchedQ_Kept ==                        \* mutant: c.q = 0 after an interrupt forgotten
  IF doing = "instr" THEN flagsSet ELSE q

(* Q is latched by an executed instruction, cleared by an accepted          *)
(* interrupt and kept by a halt cycle.                                      *)
LatchedQ == CASE doing = "instr" -> flagsSet
              [] doing = "halt"  -> q
              [] OTHER           -> FALSE

(* The end of Step, and of acceptINT, which takes im0 back.  The observers  *)
(* return to their idle values; `last` is what the next Step must know.     *)
EndStep ==
  /\ todo = <<"end">> /\ todo' = <<>>
  /\ q' = LatchedQ /\ im0' = FALSE
  /\ last' = IF ins = "ei" THEN "EI"
             ELSE IF doing = "instr" /\ flagsSet THEN "flags" ELSE "other"
  /\ doing' = "idle" /\ ins' = "none" /\ pre' = 0 /\ pc0' = 0 /\ t' = 0
  /\ UNCHANGED <<fetched, im, enables, flagsSet, idx, dispValid, lines>>

----------------------------------------------------------------------------
(* exec: one opcode fetch and what the byte leads to.                       *)

FetchPrefix(byte) ==
  /\ At("opcode") /\ byte \in FromBus \cap Prefixes
  /\ FetchOpcode
  /\ idx' = IF byte = "DD" THEN "IX" ELSE "IY"
  /\ q' = FALSE
  /\ IF pre < MaxPre THEN pre' = pre + 1 /\ Take(OpcodeTime)
                     ELSE UNCHANGED <<pre, t>>
  /\ UNCHANGED <<im, enables, flagsSet, dispValid, im0, lines, todo,
                 doing, ins, pc0, last>>

FetchBase(byte) ==
  /\ At("opcode") /\ byte \in FromBus \cap DOMAIN BaseBody
  /\ FetchOpcode /\ Take(OpcodeTime)
  /\ ins' = byte /\ Then(BaseBody[byte])
  /\ UNCHANGED <<im, enables, latches, index, lines, doing, pre, pc0, last>>

(* execCB reads the displacement and a last opcode byte when an index       *)
(* prefix is in force (execIdxCB), one more opcode otherwise.               *)
FetchCB ==
  /\ At("opcode") /\ "CB" \in FromBus
  /\ FetchOpcode /\ Take(OpcodeTime)
  /\ Then(IF idx = "HL" THEN <<"opcodeCB">> ELSE <<"fetch8", "selector">>)
  /\ UNCHANGED <<im, enables, latches, index, lines, observe>>

FetchED_Loops ==                        \* mutant: ED consumed as one more prefix
  /\ At("opcode") /\ "ED" \in FromBus
  /\ FetchOpcode
  /\ idx' = "HL"
  /\ UNCHANGED <<im, enables, latches, dispValid, im0, lines, todo, t, observe>>

FetchED ==
  /\ At("opcode") /\ "ED" \in FromBus
  /\ FetchOpcode /\ Take(OpcodeTime)
  /\ idx' = "HL"
  /\ Then(<<"opcodeED">>)
  /\ UNCHANGED <<im, enables, latches, dispValid, im0, lines, observe>>

FetchPaged(op, page) ==
  /\ At(op)
  /\ FetchOpcode /\ Take(OpcodeTime)
  /\ \E byte \in FromBus \cap DOMAIN page : ins' = byte /\ Then(page[byte])
  /\ UNCHANGED <<im, enables, latches, index, lines, doing, pre, pc0, last>>

Selector_AsM1 ==                        \* mutant: the last byte fetched as an opcode
  /\ At("selector")
  /\ FetchOpcode /\ Take(3)
  /\ \E byte \in MemBytes \cap DOMAIN XCBBody : ins' = byte /\ Then(XCBBody[byte])
  /\ UNCHANGED <<im, enables, latches, index, lines, doing, pre, pc0, last>>

(* execIdxCB reads the last byte with read8(pc), not with fetch8.           *)
Selector ==
  /\ At("selector")
  /\ pc' = (pc + 1) % AddrMod /\ Take(3)
  /\ \E byte \in MemBytes \cap DOMAIN XCBBody : ins' = byte /\ Then(XCBBody[byte])
  /\ UNCHANGED <<r, lastIR, im, enables, latches, index, lines, doing, pre, pc0, last>>

Exec ==
  \/ \E byte \in Prefixes : FetchPrefix(byte)
  \/ \E byte \in DOMAIN BaseBody : FetchBase(byte)
  \/ FetchCB \/ FetchED
  \/ FetchPaged("opcodeCB", CBBody) \/ FetchPaged("opcodeED", EDBody)
  \/ Selector

----------------------------------------------------------------------------
(* The M1 of acceptNMI, haltCycle and acceptINT.                            *)

NmiM1_ClearsLate ==                     \* mutant: nmiPending cleared after the M1
  /\ At("nmiM1") /\ DiscardedM1 /\ Take(4)
  /\ todo' = NmiRest /\ nmiPending' = FALSE
  /\ UNCHANGED <<im, enables, latches, index, intLine, observe>>

NmiM1 ==
  /\ At("nmiM1") /\ DiscardedM1 /\ Take(4)
  /\ todo' = NmiRest
  /\ UNCHANGED <<im, enables, latches, index, lines, observe>>

HaltM1 ==
  /\ At("haltM1") /\ DiscardedM1 /\ Take(4)
  /\ Done
  /\ UNCHANGED <<im, enables, latches, index, lines, observe>>

IntAckM1_NoLatch ==                     \* mutant: c.lastIR = ir forgotten
  /\ At("ackM1") /\ UNCHANGED <<pc, lastIR>> /\ r' = IncR(r) /\ Take(6)
  /\ todo' = IF im = 1 THEN Im1Rest ELSE Im2Rest
  /\ UNCHANGED <<im, enables, latches, index, lines, observe>>

IntAckM1 ==
  /\ At("ackM1") /\ UNCHANGED pc /\ Refresh /\ Take(6)
  /\ todo' = IF im = 1 THEN Im1Rest ELSE Im2Rest
  /\ UNCHANGED <<im, enables, latches, index, lines, observe>>

Fetch8_FromMemory ==                    \* mutant: im0 not looked at
  /\ At("fetch8")
  /\ pc' = (pc + 1) % AddrMod
  /\ Take(3) /\ Done
  /\ UNCHANGED <<r, lastIR, im, enables, latches, index, lines, observe>>

(* fetch8: an operand byte, from memory or, injected, from the device.      *)
Fetch8 ==
  /\ At("fetch8")
  /\ pc' = AfterFetch
  /\ Take(3) /\ Done
  /\ UNCHANGED <<r, lastIR, im, enables, latches, index, lines, observe>>

RunCycle ==
  /\ todo # <<>> /\ Head(todo) \in DOMAIN Cycle
  /\ Take(Cycle[Head(todo)]) /\ Done
  /\ UNCHANGED <<fetched, im, enables, latches, index, lines, observe>>

----------------------------------------------------------------------------
(* Effects between two M-cycles.                                            *)

Resolve ==
  /\ \/ At("ea")   /\ Then(EaBody)
     \/ At("ldmn") /\ Then(LdmnBody)
  /\ UNCHANGED <<fetched, im, enables, latches, index, lines, t, observe>>

CacheDisp ==
  /\ At("disp") /\ Done
  /\ dispValid' = TRUE
  /\ UNCHANGED <<fetched, im, enables, latches, idx, im0, lines, t, observe>>

SetF ==
  /\ At("setF") /\ Done
  /\ flagsSet' = TRUE
  /\ UNCHANGED <<fetched, im, enables, q, index, lines, t, observe>>

LdR ==
  /\ At("ldR") /\ Done
  /\ r' \in RVal
  /\ UNCHANGED <<pc, lastIR, im, enables, latches, index, lines, t, observe>>

SetIM ==
  /\ \E m \in 0 .. 2 : At(<<"IM0", "IM1", "IM2">>[m + 1]) /\ im' = m
  /\ Done
  /\ UNCHANGED <<fetched, enables, latches, index, lines, t, observe>>

Jump ==
  /\ \/ At("jump")  /\ pc' \in Addr
     \/ At("toNMI") /\ pc' = VecNMI
     \/ At("toIM1") /\ pc' = VecIM1
     \/ At("back")  /\ pc' = (pc - 2) % AddrMod
  /\ Done
  /\ UNCHANGED <<r, lastIR, im, enables, latches, index, lines, t, observe>>

EI ==
  /\ At("EI") /\ Done
  /\ iff1' = TRUE /\ iff2' = TRUE /\ eiPending' = TRUE
  /\ UNCHANGED <<fetched, im, halted, latches, index, lines, t, observe>>

DI_BackupOnly ==                        \* mutant: IFF2 cleared in place of both
  /\ At("DI") /\ Done
  /\ iff2' = FALSE
  /\ UNCHANGED <<fetched, im, iff1, halted, eiPending, latches, index, lines, t, observe>>

DI ==
  /\ At("DI") /\ Done
  /\ iff1' = FALSE /\ iff2' = FALSE
  /\ UNCHANGED <<fetched, im, halted, eiPending, latches, index, lines, t, observe>>

RETN ==
  /\ At("RETN") /\ Done
  /\ iff1' = iff2
  /\ UNCHANGED <<fetched, im, iff2, halted, eiPending, latches, index, lines, t, observe>>

HALT ==
  /\ At("HALT") /\ Done
  /\ halted' = TRUE
  /\ UNCHANGED <<fetched, im, iff1, iff2, eiPending, latches, index, lines, t, observe>>

Effect == Resolve \/ CacheDisp \/ SetF \/ LdR \/ SetIM \/ Jump
            \/ EI \/ DI \/ RETN \/ HALT

----------------------------------------------------------------------------
Step == BeginStep \/ Exec \/ NmiM1 \/ HaltM1 \/ IntAckM1 \/ Fetch8 \/ RunCycle
          \/ Effect \/ EndStep

Machine == (\E level \in BOOLEAN : SetINT(level)) \/ NMI \/ Reset \/ SpecialReset

Next == Step \/ Machine

Spec == Init /\ [][Next]_vars

----------------------------------------------------------------------------
(* Properties. *)

MicroOps == DOMAIN Cycle \cup
  {"opcode", "opcodeCB", "opcodeED", "selector", "nmiM1", "haltM1", "ackM1",
   "fetch8", "ea", "ldmn", "disp", "setF", "ldR", "IM0", "IM1", "IM2",
   "jump", "back", "toNMI", "toIM1", "EI", "DI", "RETN", "HALT", "end"}

Classes == Bytes \ (Prefixes \cup {"CB", "ED"})

IMs      == 0 .. 2
Modes    == {"HL", "IX", "IY"}
Cases    == {"idle", "nmi", "int", "inject", "halt", "instr"}
Dispatched == Classes \cup {"none"}
Lasts    == {"EI", "flags", "other"}
PreCount == 0 .. MaxPre

(* Types of the CPU's fields (CPU struct, cpu.go) and of the observers.     *)
TypeOK ==
  /\ pc \in Addr /\ r \in RVal /\ lastIR \in RVal
  /\ im \in IMs
  /\ iff1 \in BOOLEAN /\ iff2 \in BOOLEAN /\ halted \in BOOLEAN /\ eiPending \in BOOLEAN
  /\ q \in BOOLEAN /\ flagsSet \in BOOLEAN
  /\ idx \in Modes /\ dispValid \in BOOLEAN /\ im0 \in BOOLEAN
  /\ intLine \in BOOLEAN /\ nmiPending \in BOOLEAN
  /\ todo \in Seq(MicroOps)
  /\ t \in Nat /\ pre \in PreCount /\ pc0 \in Addr
  /\ doing \in Cases /\ ins \in Dispatched /\ last \in Lasts

(* IFF2 is the copy that RETN restores IFF1 from: IFF1 is never set without *)
(* it, and the deferral left by EI only exists while interrupts are on.     *)
(* Across EI, DI, RETN, NMI and INT acceptance, and the resets.             *)
IffOrder == /\ iff1 => iff2
            /\ eiPending => iff1 /\ iff2

(* The T-states the comments and the datasheet give for each class, CB and  *)
(* ED prefix included, DD/FD prefix and displacement not.                   *)
DocT == [
  ld_r_r |-> 4, alu_r |-> 4, scf |-> 4, ld_r_n |-> 7, alu_n |-> 7,
  ld_r_m |-> 7, ld_m_r |-> 7, alu_m |-> 7, inc_m |-> 11, ld_m_n |-> 10,
  ld_dd_nn |-> 10, ld_a_rr |-> 7, ld_rr_a |-> 7, ld_a_nn |-> 13, ld_nn_a |-> 13,
  ld_hl_nn |-> 16, ld_nn_hl |-> 16, inc_ss |-> 6, add_hl |-> 11,
  jp |-> 10, jp_hl |-> 4, jr |-> 12, jr_no |-> 7, djnz |-> 13, djnz_no |-> 8,
  call |-> 17, ret |-> 10, ret_cc |-> 11, ret_cc_no |-> 5, rst |-> 11,
  push |-> 11, pop |-> 10, ex_sp |-> 19, io_n |-> 11,
  halt |-> 4, di |-> 4, ei |-> 4,
  cb_rot_r |-> 8, cb_set_r |-> 8, cb_rot_m |-> 15, cb_bit_m |-> 12, cb_set_m |-> 15,
  xcb_rot |-> 19, xcb_bit |-> 16, xcb_set |-> 19,
  ed_nop |-> 8, in_r_c |-> 12, out_c_r |-> 12, sbc_hl |-> 15,
  ld_nn_dd |-> 20, ld_dd_ind |-> 20, neg |-> 8, retn |-> 14,
  im_0 |-> 8, im_1 |-> 8, im_2 |-> 8, ld_i_a |-> 9, ld_r_a |-> 9, ld_a_i |-> 9,
  rrd |-> 18, ldi |-> 16, ldir |-> 21, cpi |-> 16, cpir |-> 21,
  ini |-> 16, inir |-> 21, outi |-> 16, otir |-> 21]

(* What a displacement adds to an instruction that reads one.               *)
DispT == [ld_r_m |-> 8, ld_m_r |-> 8, alu_m |-> 8, inc_m |-> 8, ld_m_n |-> 5]
Indexed == IF pre # 0 /\ ins \in DOMAIN DispT THEN DispT[ins] ELSE 0

M1Count == pre + (IF ins \in DOMAIN BaseBody \cup DOMAIN XCBBody THEN 1 ELSE 2)
InstrTime == DocT[ins] + 4 * pre + Indexed

Documented(n) ==
  /\ doing = "nmi"    => n = 11
  /\ doing = "int"    => n = IF im = 1 THEN 13 ELSE 19
  /\ doing = "halt"   => n = 4
  /\ doing = "instr"  => n = InstrTime
  /\ doing = "inject" => n = InstrTime + 2 * M1Count

(* Without waits, a Step returns the documented number of T-states ("an     *)
(* instruction that the datasheet lists as 7 T-states produces exactly 7    *)
(* Tick calls", bus.go): the displacement is fetched once in every indexed  *)
(* instruction and never reused from an earlier one, no index mode leaks    *)
(* from one instruction, or an interrupted one, into the next, and an       *)
(* injected instruction costs two more per M1.                              *)
StepTime == todo = <<"end">> => Documented(t)

(* Accepting an interrupt, and halting, leave PC at the address of the next *)
(* instruction, which is what acceptNMI and acceptINT push: the fetches     *)
(* they discard do not move it.                                             *)
AcceptanceKeepsPC ==
  /\ doing \in {"nmi", "int"} /\ todo # <<"end">> => pc = pc0
  /\ doing = "halt" => pc = pc0

Has(body, op) == \E k \in DOMAIN body : body[k] = op

Jumping == { c \in DOMAIN BaseBody : Has(BaseBody[c], "jump") }
             \cup { c \in DOMAIN EDBody : Has(EDBody[c], "jump") }

Repeating == { c \in DOMAIN EDBody : Has(EDBody[c], "back") }

(* A block instruction that repeats takes PC back to fetch itself again.    *)
WentBack == ins \in Repeating /\ ~Has(todo, "back")

(* "all its bytes (prefixes and operands included) supplied by IntAck and   *)
(* PC left untouched" (acceptINT): unless it is a jump, call or return, the *)
(* instruction injected in IM 0 leaves PC where it was, at every moment of  *)
(* its Step.  But the code does not keep that promise for a repeating LDIR, *)
(* CPIR, INIR or OTIR: its pc -= 2 takes the interrupted program back by    *)
(* two bytes.  That is all it does to PC, which is stated here as it is.    *)
InjectionKeepsPC ==
  doing = "inject" /\ ins \notin Jumping
    => pc = IF WentBack THEN (pc0 - 2) % AddrMod ELSE pc0

(* The internal T-states of an instruction, or of an acceptance, drive the  *)
(* refresh address of its latest M1 (irAddr), never one of an earlier Step  *)
(* or one taken after R was incremented.                                    *)
RefreshAddress == todo # <<>> /\ Head(todo) \in IrCycles => r = IncR(lastIR)

(* Q tells SCF and CCF whether the instruction just before set flags.  An   *)
(* accepted interrupt, a prefix and an instruction that leaves F alone all  *)
(* come between.                                                            *)
QIsOfPrevious ==
  /\ todo = <<>> => (q <=> last = "flags")
  /\ ins = "scf" => (q <=> last = "flags" /\ pre = 0)

(* While halted the CPU executes no instruction: an interrupt clears halted *)
(* before anything of its service runs, in IM 0 before the injected byte.   *)
HaltedExecutesNothing == halted /\ doing \in {"instr", "inject"} => ins = "halt"

(* Between EI and the acceptance of an INT one whole Step is taken, so that *)
(* the RET after EI returns before the next interrupt.                      *)
EiShadow == [][todo = <<>> /\ last = "EI" => doing' \notin {"int", "inject"}]_vars

(* The core keeps the promises of Z80Interrupts: requests made in the       *)
(* middle of a Step leave it alone and are served from the next sample on.  *)
Interrupts == INSTANCE Z80Interrupts
KeepsInterruptContract == Interrupts!Spec

----------------------------------------------------------------------------
(* Liveness.  The goroutine that drives the CPU keeps calling Step, and the *)
(* code run is not DD/FD prefixes for ever: exec consumes those in a loop   *)
(* inside one Step.                                                         *)

FetchPlain == (\E byte \in DOMAIN BaseBody : FetchBase(byte)) \/ FetchCB \/ FetchED

Fairness == WF_vars(Step) /\ SF_vars(FetchPlain)

(* Step always returns. *)
StepReturns == todo # <<>> ~> todo = <<>>

(* A latched NMI is accepted, whatever the code, the other interrupt and    *)
(* the resets do.                                                           *)
NmiServed == nmiPending ~> doing = "nmi"

(* An INT held active with interrupts enabled is accepted, or its condition *)
(* goes away, if Steps that are not an EI never cease: only an EI may defer *)
(* it, and only by one Step.                                                *)
IntServed == []<>(todo = <<>> /\ last # "EI")
               => (intLine /\ iff1 ~> ~intLine \/ ~iff1)
=============================================================================
