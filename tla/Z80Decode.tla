------------------------------ MODULE Z80Decode ------------------------------
(***************************************************************************)
(* The disassembler (package disasm) against the CPU core.  disasm.Decode  *)
(* frames a run of bytes with tables of its own (tables.go); the CPU       *)
(* frames the same bytes by what its handlers fetch (opcodes*.go).  The    *)
(* two must agree, or a listing loses its place in the code it shows.      *)
(*                                                                         *)
(* The CPU is Z80Cpu, one Step at a time without interrupts.  The history  *)
(* variable `stream` holds the bytes a Step has taken from memory: real    *)
(* opcode bytes, drawn from the opcodes that belong to the class Z80Cpu    *)
(* executes, and the marker Data for an operand, whose value is open.      *)
(* After a Step the harness restores a fresh State, as cpucheck_test.go    *)
(* does between two patterns.                                              *)
(***************************************************************************)
EXTENDS Z80Cpu

VARIABLE stream

Byte == 0 .. 255
Data == 256                             \* an operand byte

Opcode(x, y, z) == 64 * x + 8 * y + z
Codes == 0 .. 7                         \* B C D E H L (HL) A
Regs  == Codes \ {6}
Halves == {4, 5}
Quadrant(x, ys, zs) == { Opcode(x, y, z) : y \in ys, z \in zs }
X(op) == op \div 64
Y(op) == (op \div 8) % 8
Z(op) == op % 8

----------------------------------------------------------------------------
(* The CPU's side.  The opcodes of each class of Z80Cpu, as init, execED,   *)
(* execCB and execIdxCB dispatch them.                                      *)

BaseOpcodes == [
  ld_r_r    |-> {\h00, \h08, \hD9, \hEB} \cup Quadrant(1, Regs, Regs),
  alu_r     |-> Quadrant(0, Regs, {4, 5}) \cup Quadrant(2, Codes, Regs)
                  \cup {\h07, \h0F, \h17, \h1F, \h27, \h2F},
  scf       |-> {\h37, \h3F},
  ld_r_n    |-> Quadrant(0, Regs, {6}),
  alu_n     |-> Quadrant(3, Codes, {6}),
  ld_r_m    |-> Quadrant(1, Regs, {6}),
  ld_m_r    |-> Quadrant(1, {6}, Regs),
  alu_m     |-> Quadrant(2, Codes, {6}),
  inc_m     |-> {\h34, \h35},
  ld_m_n    |-> {\h36},
  ld_dd_nn  |-> {\h01, \h11, \h21, \h31} \cup Quadrant(3, Codes, {2, 4}),
  ld_a_rr   |-> {\h0A, \h1A},
  ld_rr_a   |-> {\h02, \h12},
  ld_a_nn   |-> {\h3A},
  ld_nn_a   |-> {\h32},
  ld_hl_nn  |-> {\h2A},
  ld_nn_hl  |-> {\h22},
  inc_ss    |-> Quadrant(0, Codes, {3}) \cup {\hF9},
  add_hl    |-> {\h09, \h19, \h29, \h39},
  jp        |-> {\hC3} \cup Quadrant(3, Codes, {2}),
  jp_hl     |-> {\hE9},
  jr        |-> {\h18, \h20, \h28, \h30, \h38},
  jr_no     |-> {\h20, \h28, \h30, \h38},
  djnz      |-> {\h10},
  djnz_no   |-> {\h10},
  call      |-> {\hCD} \cup Quadrant(3, Codes, {4}),
  ret       |-> {\hC9},
  ret_cc    |-> Quadrant(3, Codes, {0}),
  ret_cc_no |-> Quadrant(3, Codes, {0}),
  rst       |-> Quadrant(3, Codes, {7}),
  push      |-> {\hC5, \hD5, \hE5, \hF5},
  pop       |-> {\hC1, \hD1, \hE1, \hF1},
  ex_sp     |-> {\hE3},
  io_n      |-> {\hD3, \hDB},
  halt      |-> {\h76},
  di        |-> {\hF3},
  ei        |-> {\hFB}]

CBOpcodes == [
  cb_rot_r |-> Quadrant(0, Codes, Regs) \cup Quadrant(1, Codes, Regs),
  cb_set_r |-> Quadrant(2, Codes, Regs) \cup Quadrant(3, Codes, Regs),
  cb_rot_m |-> Quadrant(0, Codes, {6}),
  cb_bit_m |-> Quadrant(1, Codes, {6}),
  cb_set_m |-> Quadrant(2, Codes, {6}) \cup Quadrant(3, Codes, {6})]

XCBOpcodes == [
  xcb_rot |-> Quadrant(0, Codes, Codes),
  xcb_bit |-> Quadrant(1, Codes, Codes),
  xcb_set |-> Quadrant(2, Codes, Codes) \cup Quadrant(3, Codes, Codes)]

Blocks == { op \in \hA0 .. \hBB : Z(op) <= 3 }

(* A repeating form (bit 4) ends a Step either way.                         *)
Block(kind)   == { op \in Blocks : Z(op) = kind }
Repeats(kind) == { op \in Block(kind) : op >= \hB0 }

EDOpcodes == [
  ed_nop    |-> (Byte \ (\h40 .. \h7F \cup Blocks)) \cup {\h77, \h7F},
  in_r_c    |-> Quadrant(1, Codes, {0}),
  out_c_r   |-> Quadrant(1, Codes, {1}),
  sbc_hl    |-> Quadrant(1, Codes, {2}),
  ld_nn_dd  |-> Quadrant(1, {0, 2, 4, 6}, {3}),
  ld_dd_ind |-> Quadrant(1, {1, 3, 5, 7}, {3}),
  neg       |-> Quadrant(1, Codes, {4}),
  retn      |-> Quadrant(1, Codes, {5}),
  im_0      |-> Quadrant(1, {0, 1, 4, 5}, {6}),
  im_1      |-> Quadrant(1, {2, 6}, {6}),
  im_2      |-> Quadrant(1, {3, 7}, {6}),
  ld_i_a    |-> {\h47},
  ld_r_a    |-> {\h4F},
  ld_a_i    |-> {\h57, \h5F},
  rrd       |-> {\h67, \h6F},
  ldi  |-> Block(0), ldir |-> Repeats(0), cpi  |-> Block(1), cpir |-> Repeats(1),
  ini  |-> Block(2), inir |-> Repeats(2), outi |-> Block(3), otir |-> Repeats(3)]

Union(table) == UNION { table[class] : class \in DOMAIN table }

(* Every byte of every page starts or ends an instruction: baseOps has no   *)
(* nil entry but for the four prefixes.                                     *)
ASSUME EveryOpcode ==
  /\ Union(BaseOpcodes) = Byte \ {\hCB, \hDD, \hED, \hFD}
  /\ Union(CBOpcodes) = Byte /\ Union(XCBOpcodes) = Byte /\ Union(EDOpcodes) = Byte

(* Which roles of HL a base handler looks up through the index mode: the    *)
(* pair by hlIdx and setHLIdx, its halves by getR and setR, memory by eaHL. *)
(* getRPlain and setRPlain, EX DE,HL and EXX go past it.                    *)
Remapped(op) ==
  { role \in {"pair", "half", "mem"} :
      \/ role = "pair" /\ op \in {\h09, \h19, \h29, \h39, \h21, \h22, \h2A, \h23, \h2B,
                                  \hE1, \hE3, \hE5, \hE9, \hF9}
      \/ role = "half" /\ \/ X(op) = 0 /\ Y(op) \in Halves /\ Z(op) \in {4, 5, 6}
                          \/ op \in Quadrant(1, Regs, Regs)
                               /\ (Y(op) \in Halves \/ Z(op) \in Halves)
                          \/ X(op) = 2 /\ Z(op) \in Halves
      \/ role = "mem"  /\ \/ op \in {\h34, \h35, \h36}
                          \/ op \in Quadrant(1, Regs, {6}) \cup Quadrant(1, {6}, Regs)
                          \/ X(op) = 2 /\ Z(op) = 6 }

(* What the Step in progress did to the roles of HL, with which register.   *)
(* The opcode of the base table stands behind `pre` prefixes.               *)
Ran ==
  LET roles == IF idx = "HL" THEN {}
               ELSE IF ins \in DOMAIN XCBBody THEN {"mem"} ELSE Remapped(stream[pre + 1])
  IN [reg |-> IF roles = {} THEN "HL" ELSE idx, roles |-> roles]

----------------------------------------------------------------------------
(* The harness.                                                             *)

DecodeInit == Init /\ stream = <<>>

Consumes(byte) == stream' = Append(stream, byte)
Internal == UNCHANGED stream

(* cpucheck_test.go: the next pattern, from a State of its own.             *)
NextPattern ==
  /\ todo = <<>> /\ stream # <<>>
  /\ stream' = <<>>
  /\ pc' = 0 /\ r' = 0 /\ im' = 0
  /\ iff1' = FALSE /\ iff2' = FALSE /\ halted' = FALSE /\ eiPending' = FALSE
  /\ q' = FALSE /\ last' = "other"
  /\ UNCHANGED <<lastIR, flagsSet, index, lines, todo, t, doing, ins, pre, pc0>>

ExecutePattern == stream = <<>> /\ Execute /\ Internal

DecodePrefix ==
  /\ pre < MaxPre
  /\ \/ FetchPrefix("DD") /\ Consumes(\hDD)
     \/ FetchPrefix("FD") /\ Consumes(\hFD)

DecodeBase == \E class \in DOMAIN BaseBody :
  FetchBase(class) /\ \E op \in BaseOpcodes[class] : Consumes(op)

DecodeCB == FetchCB /\ Consumes(\hCB)
DecodeED == FetchED /\ Consumes(\hED)

DecodePaged ==
  \/ FetchPaged("opcodeCB", CBBody) /\ \E op \in CBOpcodes[ins'] : Consumes(op)
  \/ FetchPaged("opcodeED", EDBody) /\ \E op \in EDOpcodes[ins'] : Consumes(op)
  \/ Selector /\ \E op \in XCBOpcodes[ins'] : Consumes(op)

DecodeOperand == Fetch8 /\ Consumes(Data)

DecodeInternal == (RunCycle \/ Effect \/ EndStep) /\ Internal

DecodeNext == NextPattern \/ ExecutePattern \/ DecodePrefix \/ DecodeBase \/ DecodeCB
                \/ DecodeED \/ DecodePaged \/ DecodeOperand \/ DecodeInternal

DecodeSpec == DecodeInit /\ [][DecodeNext]_<<vars, stream>>

----------------------------------------------------------------------------
(* The disassembler's side: how many operand bytes the markers of a text    *)
(* template ask for, per table.                                             *)

(* baseText: w is two bytes, n and e are one.                               *)
WordTexts == {\h01, \h11, \h21, \h31, \h22, \h2A, \h32, \h3A, \hC3, \hCD}
               \cup Quadrant(3, Codes, {2, 4})
ByteTexts == {\hD3, \hDB, \h10, \h18, \h20, \h28, \h30, \h38}
               \cup Quadrant(0, Codes, {6}) \cup Quadrant(3, Codes, {6})
BaseOperands(op) == IF op \in WordTexts THEN 2 ELSE IF op \in ByteTexts THEN 1 ELSE 0

(* edText: the 16-bit loads of its 0x40 quadrant, and the placeholder for   *)
(* whatever buildED does not name.                                          *)
EDOperands(op) == IF X(op) = 1 /\ Z(op) = 3 THEN 2 ELSE 0

EDPlaceholder(op) ==
  ~ \/ X(op) = 1 /\ (Z(op) < 7 \/ Y(op) < 6)
    \/ op \in {\hA0, \hA1, \hA2, \hA3, \hA8, \hA9, \hAA, \hAB,
               \hB0, \hB1, \hB2, \hB3, \hB8, \hB9, \hBA, \hBB}

IndexPair_WithEX ==                     \* mutant: EX DE,HL shown as EX DE,IX
  {\h09, \h19, \h39, \h29, \h21, \h22, \h2A, \h23, \h2B, \hE1, \hE3, \hE5, \hE9, \hF9, \hEB}

IndexPair == {\h09, \h19, \h39, \h29, \h21, \h22, \h2A, \h23, \h2B, \hE1, \hE3, \hE5, \hE9, \hF9}

(* The columns of regs8 that the text of an opcode of the LD r,r' or the    *)
(* ALU quadrant shows.                                                      *)
Shown(op) == IF X(op) = 1 /\ op # \h76 THEN {Y(op), Z(op)}
             ELSE IF X(op) = 2 THEN {Z(op)} ELSE {}

(* buildIndex: what the text of an indexed opcode shows in the place of HL; *)
(* an opcode with nothing to show has no text, and the prefix is redundant. *)
IndexText(op) ==
  IF op \in IndexPair THEN {"pair"}
  ELSE IF op \in {\h34, \h35, \h36} \/ 6 \in Shown(op) THEN {"mem"}
  ELSE IF \/ op \in {\h24, \h25, \h26, \h2C, \h2D, \h2E}
          \/ Shown(op) \cap Halves # {} THEN {"half"}
  ELSE {}

IndexOperands_NoImmediate(op) ==        \* mutant: the n of LD (IX+d),n left out
  (IF op \in {\h21, \h22, \h2A} THEN 2 ELSE IF op \in {\h26, \h2E} THEN 1 ELSE 0)
    + (IF "mem" \in IndexText(op) THEN 1 ELSE 0)

(* The markers of an indexed text: w, n, and d for (IX+d).                  *)
IndexOperands(op) ==
  (IF op \in {\h21, \h22, \h2A} THEN 2 ELSE IF op \in {\h26, \h2E, \h36} THEN 1 ELSE 0)
    + (IF "mem" \in IndexText(op) THEN 1 ELSE 0)

(* Decode: the instruction at s[i].  One byte of lookahead tells whether a  *)
(* prefix means anything.                                                   *)
Redundant(s, i) ==
  s[i] \in {\hDD, \hFD} /\ s[i + 1] # \hCB /\ (s[i + 1] = Data \/ IndexText(s[i + 1]) = {})

(* A prefix that the text names.                                            *)
Meant(s, i) == s[i] \in {\hDD, \hFD} /\ ~Redundant(s, i)

Length(s, i) ==
  IF s[i] = \hCB THEN 2
  ELSE IF s[i] = \hED THEN 2 + EDOperands(s[i + 1])
  ELSE IF Redundant(s, i) THEN 1
  ELSE IF ~Meant(s, i) THEN 1 + BaseOperands(s[i])
  ELSE IF s[i + 1] = \hCB THEN 4
  ELSE 2 + IndexOperands(s[i + 1])

Text(s, i) ==
  IF ~Meant(s, i) THEN [reg |-> "HL", roles |-> {}]
  ELSE [reg   |-> IF s[i] = \hDD THEN "IX" ELSE "IY",
        roles |-> IF s[i + 1] = \hCB THEN {"mem"} ELSE IndexText(s[i + 1])]

(* Where the instruction proper starts: behind the redundant prefixes.      *)
Start(s) == CHOOSE k \in DOMAIN s : ~Redundant(s, k) /\ \A i \in 1 .. k - 1 : Redundant(s, i)

----------------------------------------------------------------------------
(* Properties, of a Step that is about to return. *)

Stepped == todo = <<"end">> /\ doing = "instr"

(* "A decoder walking a stream always advances and never mis-frames what    *)
(* follows a prefix run" (disasm.go): the placeholders of the redundant     *)
(* prefixes and the one instruction behind them take exactly the bytes that *)
(* the Step took, between one and four of them, whatever the opcodes and    *)
(* their pages, for jumps, calls and returns too.                           *)
FramesStep ==
  Stepped => LET k == Start(stream) IN
               /\ k - 1 + Length(stream, k) = Len(stream)
               /\ Length(stream, k) \in 1 .. 4

(* The text names IX, IY, a half of one or (IX+d) exactly where the handler *)
(* that ran went through the index mode, with the register of the prefix    *)
(* that the CPU let win; and NOP* stands for the ED opcodes the CPU ignores.*)
ShowsWhatRan ==
  Stepped => LET k == Start(stream) IN
               /\ Text(stream, k) = Ran
               /\ (ins = "ed_nop" <=> stream[k] = \hED /\ EDPlaceholder(stream[k + 1]))
=============================================================================
