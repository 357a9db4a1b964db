----------------------------- MODULE Z80CpuProofs -----------------------------
(***************************************************************************)
(* Theorems about Z80Cpu, for every address space, R counter and choice of *)
(* bytes the memory and the device may supply.                             *)
(***************************************************************************)
EXTENDS Z80Cpu, SequenceTheorems, TLAPS

----------------------------------------------------------------------------
(* The rest of a Step. *)

(* What is left after one element has run is still a sequence of S. *)
LEMMA TailOf ==
  ASSUME NEW S, NEW s \in Seq(S), s # <<>>
  PROVE  Head(s) \in S /\ Tail(s) \in Seq(S)
BY HeadTailProperties

(* And so it is when an element is replaced by a body of elements of S. *)
LEMMA BodyAndTail ==
  ASSUME NEW S, NEW s \in Seq(S), s # <<>>, NEW b \in Seq(S)
  PROVE  b \o Tail(s) \in Seq(S)
BY TailOf, ConcatProperties

(* Operations that neither fetch an opcode nor touch eiPending, halted or R. *)
QuietOps == DOMAIN Cycle \cup
  {"selector", "fetch8", "ea", "ldmn", "disp", "setF", "IM0", "IM1", "IM2",
   "jump", "back", "DI", "RETN"}

(* The names, so that a leaf need not expand the two sets.                  *)
LEMMA QuietNames ==
  {"read", "write", "io", "ir1", "ir2", "ir7", "int1", "int2", "int4", "int5",
   "selector", "fetch8", "ea", "ldmn", "disp", "setF", "IM0", "IM1", "IM2",
   "jump", "back", "DI", "RETN"} = QuietOps
BY DEF QuietOps, Cycle

LEMMA QuietAreMicroOps == QuietOps \subseteq MicroOps
BY DEF QuietOps, MicroOps

(* Every schedule of the unprefixed page but halt and ei is quiet. *)
LEMMA BaseBodyQuiet == \A c \in (DOMAIN BaseBody \ {"halt", "ei"}) : BaseBody[c] \in Seq(QuietOps)
<1>1. DOMAIN BaseBody =
        {"ld_r_r", "alu_r", "scf", "ld_r_n", "alu_n", "ld_r_m",
         "ld_m_r", "alu_m", "inc_m", "ld_m_n", "ld_dd_nn", "ld_a_rr",
         "ld_rr_a", "ld_a_nn", "ld_nn_a", "ld_hl_nn", "ld_nn_hl", "inc_ss",
         "add_hl", "jp", "jp_hl", "jr", "jr_no", "djnz",
         "djnz_no", "call", "ret", "ret_cc", "ret_cc_no", "rst",
         "push", "pop", "ex_sp", "io_n", "halt", "di",
         "ei"}
  BY DEF BaseBody
<1>2. /\ BaseBody.ld_r_r \in Seq(QuietOps)
      /\ BaseBody.alu_r \in Seq(QuietOps)
      /\ BaseBody.scf \in Seq(QuietOps)
      /\ BaseBody.ld_r_n \in Seq(QuietOps)
      /\ BaseBody.alu_n \in Seq(QuietOps)
      /\ BaseBody.ld_r_m \in Seq(QuietOps)
      /\ BaseBody.ld_m_r \in Seq(QuietOps)
      /\ BaseBody.alu_m \in Seq(QuietOps)
      /\ BaseBody.inc_m \in Seq(QuietOps)
      /\ BaseBody.ld_m_n \in Seq(QuietOps)
  BY QuietNames DEF BaseBody
<1>3. /\ BaseBody.ld_dd_nn \in Seq(QuietOps)
      /\ BaseBody.ld_a_rr \in Seq(QuietOps)
      /\ BaseBody.ld_rr_a \in Seq(QuietOps)
      /\ BaseBody.ld_a_nn \in Seq(QuietOps)
      /\ BaseBody.ld_nn_a \in Seq(QuietOps)
      /\ BaseBody.ld_hl_nn \in Seq(QuietOps)
      /\ BaseBody.ld_nn_hl \in Seq(QuietOps)
      /\ BaseBody.inc_ss \in Seq(QuietOps)
      /\ BaseBody.add_hl \in Seq(QuietOps)
      /\ BaseBody.jp \in Seq(QuietOps)
  BY QuietNames DEF BaseBody
<1>4. /\ BaseBody.jp_hl \in Seq(QuietOps)
      /\ BaseBody.jr \in Seq(QuietOps)
      /\ BaseBody.jr_no \in Seq(QuietOps)
      /\ BaseBody.djnz \in Seq(QuietOps)
      /\ BaseBody.djnz_no \in Seq(QuietOps)
      /\ BaseBody.call \in Seq(QuietOps)
      /\ BaseBody.ret \in Seq(QuietOps)
      /\ BaseBody.ret_cc \in Seq(QuietOps)
      /\ BaseBody.ret_cc_no \in Seq(QuietOps)
      /\ BaseBody.rst \in Seq(QuietOps)
  BY QuietNames DEF BaseBody
<1>5. /\ BaseBody.push \in Seq(QuietOps)
      /\ BaseBody.pop \in Seq(QuietOps)
      /\ BaseBody.ex_sp \in Seq(QuietOps)
      /\ BaseBody.io_n \in Seq(QuietOps)
      /\ BaseBody.di \in Seq(QuietOps)
  BY QuietNames DEF BaseBody
<1> QED BY <1>1, <1>2, <1>3, <1>4, <1>5

(* Every schedule of the CB page is quiet. *)
LEMMA CBBodyQuiet == \A c \in DOMAIN CBBody : CBBody[c] \in Seq(QuietOps)
<1>1. DOMAIN CBBody =
        {"cb_rot_r", "cb_set_r", "cb_rot_m", "cb_bit_m", "cb_set_m"}
  BY DEF CBBody
<1>2. /\ CBBody.cb_rot_r \in Seq(QuietOps)
      /\ CBBody.cb_set_r \in Seq(QuietOps)
      /\ CBBody.cb_rot_m \in Seq(QuietOps)
      /\ CBBody.cb_bit_m \in Seq(QuietOps)
      /\ CBBody.cb_set_m \in Seq(QuietOps)
  BY QuietNames DEF CBBody
<1> QED BY <1>1, <1>2

(* Every schedule of the DDCB and FDCB pages is quiet. *)
LEMMA XCBBodyQuiet == \A c \in DOMAIN XCBBody : XCBBody[c] \in Seq(QuietOps)
<1>1. DOMAIN XCBBody =
        {"xcb_rot", "xcb_bit", "xcb_set"}
  BY DEF XCBBody
<1>2. /\ XCBBody.xcb_rot \in Seq(QuietOps)
      /\ XCBBody.xcb_bit \in Seq(QuietOps)
      /\ XCBBody.xcb_set \in Seq(QuietOps)
  BY QuietNames DEF XCBBody
<1> QED BY <1>1, <1>2

(* Every schedule of the ED page but ld_r_a is quiet. *)
LEMMA EDBodyQuiet == \A c \in (DOMAIN EDBody \ {"ld_r_a"}) : EDBody[c] \in Seq(QuietOps)
<1>1. DOMAIN EDBody =
        {"ed_nop", "in_r_c", "out_c_r", "sbc_hl", "ld_nn_dd", "ld_dd_ind",
         "neg", "retn", "im_0", "im_1", "im_2", "ld_i_a",
         "ld_r_a", "ld_a_i", "rrd", "ldi", "ldir", "cpi",
         "cpir", "ini", "inir", "outi", "otir"}
  BY DEF EDBody
<1>2. /\ EDBody.ed_nop \in Seq(QuietOps)
      /\ EDBody.in_r_c \in Seq(QuietOps)
      /\ EDBody.out_c_r \in Seq(QuietOps)
      /\ EDBody.sbc_hl \in Seq(QuietOps)
      /\ EDBody.ld_nn_dd \in Seq(QuietOps)
      /\ EDBody.ld_dd_ind \in Seq(QuietOps)
      /\ EDBody.neg \in Seq(QuietOps)
      /\ EDBody.retn \in Seq(QuietOps)
      /\ EDBody.im_0 \in Seq(QuietOps)
      /\ EDBody.im_1 \in Seq(QuietOps)
  BY QuietNames DEF EDBody
<1>3. /\ EDBody.im_2 \in Seq(QuietOps)
      /\ EDBody.ld_i_a \in Seq(QuietOps)
      /\ EDBody.ld_a_i \in Seq(QuietOps)
      /\ EDBody.rrd \in Seq(QuietOps)
      /\ EDBody.ldi \in Seq(QuietOps)
      /\ EDBody.ldir \in Seq(QuietOps)
      /\ EDBody.cpi \in Seq(QuietOps)
      /\ EDBody.cpir \in Seq(QuietOps)
      /\ EDBody.ini \in Seq(QuietOps)
      /\ EDBody.inir \in Seq(QuietOps)
  BY QuietNames DEF EDBody
<1>4. /\ EDBody.outi \in Seq(QuietOps)
      /\ EDBody.otir \in Seq(QuietOps)
  BY QuietNames DEF EDBody
<1> QED BY <1>1, <1>2, <1>3, <1>4

LEMMA CycleTime == \A c \in DOMAIN Cycle : Cycle[c] \in Nat
BY DEF Cycle

----------------------------------------------------------------------------
(* The inductive invariant. *)

(* What is left of a Step that accepts an interrupt or idles in HALT.       *)
NmiTodo  == {<<"nmiM1", "end">>, <<"ir1", "write", "write", "toNMI", "end">>,
             <<"write", "write", "toNMI", "end">>, <<"write", "toNMI", "end">>,
             <<"toNMI", "end">>, <<"end">>}
IntTodo  == {<<"ackM1", "end">>, <<"int1", "write", "write", "toIM1", "end">>,
             <<"write", "write", "toIM1", "end">>, <<"write", "toIM1", "end">>,
             <<"toIM1", "end">>,
             <<"ir1", "write", "write", "read", "read", "jump", "end">>,
             <<"write", "write", "read", "read", "jump", "end">>,
             <<"write", "read", "read", "jump", "end">>,
             <<"read", "read", "jump", "end">>, <<"read", "jump", "end">>,
             <<"jump", "end">>, <<"end">>}
HaltTodo == {<<"haltM1", "end">>, <<"end">>}

(* And of one that executes an instruction, until it is dispatched: an      *)
(* opcode is only ever fetched with nothing but the end of the Step behind. *)
Fetching  == {<<"opcode", "end">>, <<"opcodeCB", "end">>, <<"opcodeED", "end">>}
Selecting == {<<"fetch8", "selector", "end">>, <<"selector", "end">>}

QuietTodo(s) ==
  /\ s \in Seq(QuietOps \cup {"end"})
  /\ s # <<>> /\ s[Len(s)] = "end"
  /\ \A i \in 1 .. Len(s) - 1 : s[i] \in QuietOps

InstrTodo ==
  /\ ins = "none"   => todo \in Fetching \cup Selecting
  /\ ins = "ei"     => todo = <<"EI", "end">> \/ (todo = <<"end">> /\ eiPending)
  /\ ins = "halt"   => todo = <<"HALT", "end">> \/ todo = <<"end">>
  /\ ins = "ld_r_a" => todo \in {<<"ir1", "ldR", "end">>, <<"ldR", "end">>, <<"end">>}
  /\ ins \notin {"none", "ei", "halt", "ld_r_a"} => QuietTodo(todo)

Shape ==
  /\ doing = "idle" <=> todo = <<>>
  /\ doing \in {"idle", "nmi", "int", "halt"} => ins = "none"
  /\ doing = "nmi"  => todo \in NmiTodo
  /\ doing = "int"  => todo \in IntTodo
  /\ doing = "halt" => todo \in HaltTodo
  /\ doing \in {"instr", "inject"} => InstrTodo

(* eiPending lives from the EI to the next sample of the lines.             *)
EiDeferral ==
  /\ eiPending /\ todo # <<>> => ins = "ei"
  /\ todo = <<>> /\ last = "EI" => eiPending

FirstM1 == {"opcode", "nmiM1", "haltM1", "ackM1"}

(* Fetches go to the device while an injected instruction executes.         *)
InjectionEnds == im0 <=> doing = "inject"

(* From the first M1 of a Step to its last operation, lastIR is the R of    *)
(* the latest M1.                                                           *)
RefreshFresh ==
  todo \notin {<<>>, <<"end">>} /\ Head(todo) \notin FirstM1 => r = IncR(lastIR)

(* What Q holds until the end of the Step, and why a halt cycle may keep it.*)
Executing == doing \in {"instr", "inject"}

QLatch ==
  /\ Executing => (q <=> last = "flags" /\ pre = 0)
  /\ ~Executing => (q <=> last = "flags") /\ pre = 0
  /\ doing = "halt" \/ (doing = "idle" /\ halted) => ~q
  /\ Executing /\ ins \in {"none", "ei", "halt"} => ~flagsSet

IInv ==
  /\ TypeOK
  /\ Shape
  /\ EiDeferral
  /\ IffOrder
  /\ InjectionEnds
  /\ AcceptanceKeepsPC
  /\ RefreshFresh
  /\ HaltedExecutesNothing
  /\ QLatch

----------------------------------------------------------------------------
(* Types. *)

(* The members of the type sets that the actions name, so that no leaf has  *)
(* to expand them.                                                          *)
LEMMA NamedValues ==
  /\ 0 \in Addr /\ 0 \in RVal /\ 0 \in PreCount /\ IMs = {0, 1, 2}
  /\ Modes = {"HL", "IX", "IY"}
  /\ "none" \in Dispatched
  /\ Lasts = {"EI", "flags", "other"}
  /\ Cases = {"idle", "nmi", "int", "inject", "halt", "instr"}
BY ModAssumption DEF Addr, RVal, PreCount, IMs, Modes, Dispatched, Lasts, Cases

LEMMA OneMorePrefix ==
  ASSUME pre \in PreCount, pre < MaxPre
  PROVE  pre + 1 \in PreCount
BY ModAssumption DEF PreCount

(* PC moves within the address space and R within its counter. *)
LEMMA PcType ==
  ASSUME pc \in Addr
  PROVE  (pc + 1) % AddrMod \in Addr /\ (pc - 2) % AddrMod \in Addr
BY ModAssumption DEF Addr

LEMMA RType ==
  ASSUME r \in RVal
  PROVE  IncR(r) \in RVal
BY ModAssumption DEF RVal, IncR

LEMMA BodyTypes ==
  /\ \A c \in DOMAIN BaseBody : BaseBody[c] \in Seq(MicroOps)
  /\ \A c \in DOMAIN CBBody   : CBBody[c]   \in Seq(MicroOps)
  /\ \A c \in DOMAIN XCBBody  : XCBBody[c]  \in Seq(MicroOps)
  /\ \A c \in DOMAIN EDBody   : EDBody[c]   \in Seq(MicroOps)
  /\ EaBody \in Seq(MicroOps) /\ LdmnBody \in Seq(MicroOps)
  /\ NmiRest \in Seq(MicroOps) /\ Im1Rest \in Seq(MicroOps) /\ Im2Rest \in Seq(MicroOps)
<1>1. \A s : s \in Seq(QuietOps) => s \in Seq(MicroOps)
  BY QuietAreMicroOps
<1>2. {"EI", "HALT", "ir1", "ldR", "int1", "write", "read", "jump", "toNMI", "toIM1",
       "fetch8", "int5", "disp", "int2", "end"} \subseteq MicroOps
  BY DEF MicroOps, Cycle
<1>3. \A c \in DOMAIN BaseBody : BaseBody[c] \in Seq(MicroOps)
  <2>1. BaseBody.ei \in Seq(MicroOps) /\ BaseBody.halt \in Seq(MicroOps)
    BY <1>2 DEF BaseBody
  <2> QED BY <1>1, <2>1, BaseBodyQuiet
<1>4. \A c \in DOMAIN EDBody : EDBody[c] \in Seq(MicroOps)
  <2>1. EDBody.ld_r_a \in Seq(MicroOps)
    BY <1>2 DEF EDBody
  <2> QED BY <1>1, <2>1, EDBodyQuiet
<1>5. EaBody \in Seq(MicroOps) /\ LdmnBody \in Seq(MicroOps)
  BY <1>2 DEF EaBody, LdmnBody
<1>6. NmiRest \in Seq(MicroOps) /\ Im1Rest \in Seq(MicroOps) /\ Im2Rest \in Seq(MicroOps)
  BY <1>2 DEF NmiRest, Im1Rest, Im2Rest
<1> QED BY <1>1, <1>3, <1>4, <1>5, <1>6, CBBodyQuiet, XCBBodyQuiet

LEMMA InitType == Init => TypeOK
<1> SUFFICES ASSUME Init PROVE TypeOK
  OBVIOUS
<1>1. todo \in Seq(MicroOps)
  BY DEF Init
<1> QED BY <1>1, NamedValues DEF Init, TypeOK

LEMMA PagesDispatched ==
  (DOMAIN BaseBody \cup DOMAIN CBBody \cup DOMAIN XCBBody \cup DOMAIN EDBody)
    \subseteq Dispatched
BY DEF Dispatched, Classes, Bytes, Prefixes, BaseBody, CBBody, XCBBody, EDBody

(* The sequence of micro-operations, in the three ways an action moves it.  *)
LEMMA TodoType ==
  ASSUME TypeOK
  PROVE  /\ todo # <<>> /\ Done => todo' \in Seq(MicroOps)
         /\ \A b \in Seq(MicroOps) : todo # <<>> /\ Then(b) => todo' \in Seq(MicroOps)
         /\ todo' = todo => todo' \in Seq(MicroOps)
<1>1. todo \in Seq(MicroOps)
  BY DEF TypeOK
<1>2. ASSUME todo # <<>>, Done PROVE todo' \in Seq(MicroOps)
  BY <1>1, <1>2, TailOf DEF Done
<1>3. ASSUME NEW b \in Seq(MicroOps), todo # <<>>, Then(b) PROVE todo' \in Seq(MicroOps)
  BY <1>1, <1>3, BodyAndTail DEF Then
<1> QED BY <1>1, <1>2, <1>3

LEMMA StepType == TypeOK /\ [Next]_vars => TypeOK'
<1> SUFFICES ASSUME TypeOK, [Next]_vars PROVE TypeOK'
  OBVIOUS
<1> USE DEF TypeOK, fetched, lines, enables, latches, index, observe
<1>1. ASSUME NEW level \in BOOLEAN, SetINT(level) PROVE TypeOK'
  BY <1>1 DEF SetINT
<1>2. CASE NMI
  BY <1>2 DEF NMI
<1>3. CASE Reset
  BY <1>3, NamedValues DEF Reset
<1>4. CASE SpecialReset
  BY <1>4, NamedValues DEF SpecialReset
<1>5. ASSUME NEW c \in Cases, NEW op \in MicroOps, Begin(c, op)
      PROVE  todo' \in Seq(MicroOps)
  <2>1. "end" \in MicroOps
    BY DEF MicroOps
  <2> QED BY <1>5, <2>1 DEF Begin
<1>6. {"nmiM1", "ackM1", "opcode", "haltM1"} \subseteq MicroOps
  BY DEF MicroOps
<1>7. CASE AcceptNMI
  <2>1. todo' \in Seq(MicroOps)
    BY <1>7, <1>5, <1>6, NamedValues DEF AcceptNMI
  <2> QED BY <1>7, <2>1, NamedValues DEF AcceptNMI, Begin
<1>8. CASE AcceptINT
  <2>1. todo' \in Seq(MicroOps)
    BY <1>8, <1>5, <1>6, NamedValues DEF AcceptINT, EnterINT
  <2> QED BY <1>8, <2>1, NamedValues DEF AcceptINT, EnterINT, Begin
<1>9. CASE InjectINT
  <2>1. todo' \in Seq(MicroOps)
    BY <1>9, <1>5, <1>6, NamedValues DEF InjectINT, EnterINT
  <2> QED BY <1>9, <2>1, NamedValues DEF InjectINT, EnterINT, Begin, FreshIndex
<1>10. CASE HaltCycle
  <2>1. todo' \in Seq(MicroOps)
    BY <1>10, <1>5, <1>6, NamedValues DEF HaltCycle
  <2> QED BY <1>10, <2>1, NamedValues DEF HaltCycle, Begin
<1>11. CASE Execute
  <2>1. todo' \in Seq(MicroOps)
    BY <1>11, <1>5, <1>6, NamedValues DEF Execute
  <2> QED BY <1>11, <2>1, NamedValues DEF Execute, Begin, FreshIndex
<1>12. CASE EndStep
  <2>1. last' \in Lasts
    BY <1>12, NamedValues DEF EndStep
  <2>2. q' \in BOOLEAN
    BY <1>12 DEF EndStep, LatchedQ
  <2>3. <<>> \in Seq(MicroOps)
    OBVIOUS
  <2> QED BY <1>12, <2>1, <2>2, <2>3, NamedValues DEF EndStep
<1>13. ASSUME FetchOpcode
       PROVE  pc' \in Addr /\ r' \in RVal /\ lastIR' \in RVal
  BY <1>13, PcType, RType DEF FetchOpcode, AfterFetch, Refresh
<1>14. OpcodeTime \in Nat
  BY DEF OpcodeTime
<1>15. ASSUME NEW byte \in Prefixes, FetchPrefix(byte) PROVE TypeOK'
  <2>1. idx' \in Modes
    BY <1>15, NamedValues DEF FetchPrefix
  <2>2. pre' \in PreCount /\ t' \in Nat
    BY <1>14, <1>15, OneMorePrefix DEF FetchPrefix, Take
  <2>3. pc' \in Addr /\ r' \in RVal /\ lastIR' \in RVal
    BY <1>13, <1>15 DEF FetchPrefix
  <2> QED BY <1>15, <2>1, <2>2, <2>3 DEF FetchPrefix
<1>16. ASSUME NEW byte \in DOMAIN BaseBody, FetchBase(byte) PROVE TypeOK'
  <2>1. todo' \in Seq(MicroOps)
    BY <1>16, BodyTypes, TodoType DEF FetchBase, At
  <2>2. ins' \in Dispatched
    BY <1>16, PagesDispatched DEF FetchBase
  <2>3. pc' \in Addr /\ r' \in RVal /\ lastIR' \in RVal /\ t' \in Nat
    BY <1>13, <1>14, <1>16 DEF FetchBase, Take
  <2> QED BY <1>16, <2>1, <2>2, <2>3 DEF FetchBase
<1>17. CASE FetchCB
  <2>1. /\ <<"opcodeCB">> \in Seq(MicroOps)
        /\ <<"fetch8", "selector">> \in Seq(MicroOps)
    BY DEF MicroOps
  <2>2. todo' \in Seq(MicroOps)
    BY <1>17, <2>1, TodoType DEF FetchCB, At
  <2>3. pc' \in Addr /\ r' \in RVal /\ lastIR' \in RVal /\ t' \in Nat
    BY <1>13, <1>14, <1>17 DEF FetchCB, Take
  <2> QED BY <1>17, <2>2, <2>3 DEF FetchCB
<1>18. CASE FetchED
  <2>1. <<"opcodeED">> \in Seq(MicroOps)
    BY DEF MicroOps
  <2>2. todo' \in Seq(MicroOps)
    BY <1>18, <2>1, TodoType DEF FetchED, At
  <2>3. pc' \in Addr /\ r' \in RVal /\ lastIR' \in RVal /\ t' \in Nat
    BY <1>13, <1>14, <1>18 DEF FetchED, Take
  <2> QED BY <1>18, <2>2, <2>3, NamedValues DEF FetchED
<1>19. ASSUME NEW op, NEW page, FetchPaged(op, page),
              \A c \in DOMAIN page : page[c] \in Seq(MicroOps) /\ c \in Dispatched
       PROVE  TypeOK'
  <2>1. todo' \in Seq(MicroOps) /\ ins' \in Dispatched
    BY <1>19, TodoType DEF FetchPaged, At
  <2>2. pc' \in Addr /\ r' \in RVal /\ lastIR' \in RVal /\ t' \in Nat
    BY <1>13, <1>14, <1>19 DEF FetchPaged, Take
  <2> QED BY <1>19, <2>1, <2>2 DEF FetchPaged
<1>20. CASE FetchPaged("opcodeCB", CBBody)
  BY <1>19, <1>20, BodyTypes, PagesDispatched
<1>21. CASE FetchPaged("opcodeED", EDBody)
  BY <1>19, <1>21, BodyTypes, PagesDispatched
<1>22. CASE Selector
  <2>1. todo' \in Seq(MicroOps) /\ ins' \in Dispatched
    BY <1>22, TodoType, BodyTypes, PagesDispatched DEF Selector, At
  <2>2. pc' \in Addr /\ t' \in Nat
    BY <1>22, PcType DEF Selector, Take
  <2> QED BY <1>22, <2>1, <2>2 DEF Selector
<1>23. CASE NmiM1
  <2>1. todo' \in Seq(MicroOps)
    BY <1>23, BodyTypes DEF NmiM1
  <2> QED BY <1>23, <2>1, RType DEF NmiM1, DiscardedM1, Refresh, Take
<1>24. CASE HaltM1
  <2>1. todo' \in Seq(MicroOps)
    BY <1>24, TodoType DEF HaltM1, At
  <2> QED BY <1>24, <2>1, RType DEF HaltM1, DiscardedM1, Refresh, Take
<1>25. CASE IntAckM1
  <2>1. todo' \in Seq(MicroOps)
    BY <1>25, BodyTypes DEF IntAckM1
  <2> QED BY <1>25, <2>1, RType DEF IntAckM1, Refresh, Take
<1>26. CASE Fetch8
  <2>1. todo' \in Seq(MicroOps)
    BY <1>26, TodoType DEF Fetch8, At
  <2>2. pc' \in Addr
    BY <1>26, PcType DEF Fetch8, AfterFetch
  <2> QED BY <1>26, <2>1, <2>2 DEF Fetch8, Take
<1>27. CASE RunCycle
  <2>1. todo' \in Seq(MicroOps)
    BY <1>27, TodoType DEF RunCycle
  <2>2. t' \in Nat
    BY <1>27, CycleTime DEF RunCycle, Take
  <2> QED BY <1>27, <2>1, <2>2 DEF RunCycle
<1>28. CASE Resolve
  <2>1. todo' \in Seq(MicroOps)
    BY <1>28, TodoType, BodyTypes DEF Resolve, At
  <2> QED BY <1>28, <2>1 DEF Resolve
<1>29. ASSUME NEW op, At(op), Done PROVE todo' \in Seq(MicroOps)
  BY <1>29, TodoType DEF At
<1>30. CASE CacheDisp
  BY <1>29, <1>30 DEF CacheDisp
<1>31. CASE SetF
  BY <1>29, <1>31 DEF SetF
<1>32. CASE LdR
  BY <1>29, <1>32 DEF LdR
<1>33. CASE SetIM
  <2>1. todo' \in Seq(MicroOps)
    BY <1>29, <1>33 DEF SetIM
  <2>2. im' \in IMs
    BY <1>33 DEF SetIM, IMs
  <2> QED BY <1>33, <2>1, <2>2 DEF SetIM
<1>34. CASE Jump
  <2>1. todo' \in Seq(MicroOps)
    BY <1>29, <1>34 DEF Jump
  <2>2. pc' \in Addr
    BY <1>34, PcType, VecAssumption DEF Jump
  <2> QED BY <1>34, <2>1, <2>2 DEF Jump
<1>35. CASE EI
  BY <1>29, <1>35 DEF EI
<1>36. CASE DI
  BY <1>29, <1>36 DEF DI
<1>37. CASE RETN
  BY <1>29, <1>37 DEF RETN
<1>38. CASE HALT
  BY <1>29, <1>38 DEF HALT
<1>39. CASE UNCHANGED vars
  BY <1>39 DEF vars
<1> QED
  BY <1>1, <1>2, <1>3, <1>4, <1>7, <1>8, <1>9, <1>10, <1>11, <1>12, <1>15, <1>16, <1>17,
     <1>18, <1>20, <1>21, <1>22, <1>23, <1>24, <1>25, <1>26, <1>27, <1>28, <1>30, <1>31,
     <1>32, <1>33, <1>34, <1>35, <1>36, <1>37, <1>38, <1>39
  DEF Next, Machine, Step, BeginStep, Exec, Effect

(* Every reachable state of the core has the types of its fields. *)
THEOREM TypeCorrect == Spec => []TypeOK
<1> QED BY InitType, StepType, PTL DEF Spec

----------------------------------------------------------------------------
(* The shape of a Step. *)

LEMMA QuietTail ==
  ASSUME NEW s, QuietTodo(s), Head(s) # "end"
  PROVE  Head(s) \in QuietOps /\ QuietTodo(Tail(s))
<1> DEFINE Ops == QuietOps \cup {"end"}
<1>1. s \in Seq(Ops) /\ s # <<>> /\ Len(s) \in Nat /\ Head(s) = s[1]
  BY HeadTailProperties, LenProperties DEF QuietTodo
<1>2. Len(s) > 1
  BY <1>1, EmptySeq, LenProperties DEF QuietTodo
<1>3. /\ Tail(s) \in Seq(Ops) /\ Len(Tail(s)) = Len(s) - 1
      /\ \A i \in 1 .. Len(Tail(s)) : Tail(s)[i] = s[i + 1]
  BY <1>1, HeadTailProperties
<1>4. Tail(s) # <<>> /\ Tail(s)[Len(Tail(s))] = "end"
  <2>1. Len(Tail(s)) \in 1 .. Len(Tail(s))
    BY <1>1, <1>2, <1>3
  <2>2. Tail(s)[Len(Tail(s))] = s[Len(s)]
    BY <1>1, <1>3, <2>1
  <2>3. Tail(s) # <<>>
    <3>1. Len(<<>>) = 0
      OBVIOUS
    <3>2. Len(Tail(s)) # 0
      BY <1>1, <1>2, <1>3
    <3> QED BY <3>1, <3>2, Zenon
  <2>4. s[Len(s)] = "end"
    BY DEF QuietTodo
  <2> QED BY <2>2, <2>3, <2>4
<1>5. \A i \in 1 .. Len(Tail(s)) - 1 : Tail(s)[i] \in QuietOps
  BY <1>1, <1>2, <1>3 DEF QuietTodo
<1> QED BY <1>1, <1>2, <1>3, <1>4, <1>5 DEF QuietTodo

LEMMA QuietConcat ==
  ASSUME NEW s, QuietTodo(s), NEW b \in Seq(QuietOps)
  PROVE  QuietTodo(b \o s)
<1> DEFINE Ops == QuietOps \cup {"end"}
<1>1. s \in Seq(Ops) /\ b \in Seq(Ops) /\ s # <<>>
  BY DEF QuietTodo
<1>2. /\ b \o s \in Seq(Ops) /\ Len(b \o s) = Len(b) + Len(s)
      /\ \A i \in 1 .. Len(b) + Len(s) :
           (b \o s)[i] = IF i <= Len(b) THEN b[i] ELSE s[i - Len(b)]
  BY <1>1, ConcatProperties
<1>3. Len(s) \in Nat /\ Len(s) > 0 /\ Len(b) \in Nat /\ \A i \in 1 .. Len(b) : b[i] \in QuietOps
  BY <1>1, EmptySeq, LenProperties, ElementOfSeq
<1>4. b \o s # <<>> /\ (b \o s)[Len(b \o s)] = "end"
  BY <1>2, <1>3 DEF QuietTodo
<1>5. \A i \in 1 .. Len(b \o s) - 1 : (b \o s)[i] \in QuietOps
  BY <1>2, <1>3 DEF QuietTodo
<1> QED BY <1>2, <1>4, <1>5 DEF QuietTodo

LEMMA QuietEnd == QuietTodo(<<"end">>)
BY DEF QuietTodo

(* Short sequences put together. *)
LEMMA ConcatOne ==
  ASSUME NEW a, NEW b
  PROVE  <<a>> \o <<b>> = <<a, b>>
<1> DEFINE S == {a, b}
<1> DEFINE u == <<a>> \o <<b>>
<1> DEFINE v == <<a, b>>
<1>1. <<a>> \in Seq(S) /\ <<b>> \in Seq(S) /\ v \in Seq(S)
  OBVIOUS
<1>2. Len(<<a>>) = 1 /\ Len(<<b>>) = 1 /\ Len(v) = 2
  OBVIOUS
<1>3. /\ u \in Seq(S) /\ Len(u) = 2
      /\ \A i \in 1 .. 2 : u[i] = IF i <= 1 THEN <<a>>[i] ELSE <<b>>[i - 1]
  BY <1>1, <1>2, ConcatProperties
<1>4. \A i \in 1 .. Len(u) : u[i] = v[i]
  BY <1>3
<1>5. Len(u) = Len(v) /\ v \in Seq(S)
  BY <1>1, <1>2, <1>3
<1> HIDE DEF u, v, S
<1>6. u = v
  BY <1>3, <1>4, <1>5, SeqEqual
<1> QED BY <1>6 DEF u, v

LEMMA ConcatTwo ==
  ASSUME NEW a, NEW b, NEW c
  PROVE  <<a, b>> \o <<c>> = <<a, b, c>>
<1> DEFINE S == {a, b, c}
<1> DEFINE u == <<a, b>> \o <<c>>
<1> DEFINE v == <<a, b, c>>
<1>1. <<a, b>> \in Seq(S) /\ <<c>> \in Seq(S) /\ v \in Seq(S)
  OBVIOUS
<1>2. Len(<<a, b>>) = 2 /\ Len(<<c>>) = 1 /\ Len(v) = 3
  OBVIOUS
<1>3. /\ u \in Seq(S) /\ Len(u) = 3
      /\ \A i \in 1 .. 3 : u[i] = IF i <= 2 THEN <<a, b>>[i] ELSE <<c>>[i - 2]
  BY <1>1, <1>2, ConcatProperties
<1>4. \A i \in 1 .. Len(u) : u[i] = v[i]
  BY <1>3
<1>5. Len(u) = Len(v) /\ v \in Seq(S)
  BY <1>1, <1>2, <1>3
<1> HIDE DEF u, v, S
<1>6. u = v
  BY <1>3, <1>4, <1>5, SeqEqual
<1> QED BY <1>6 DEF u, v

(* What a Step that accepts an interrupt or idles has left, M-cycle by      *)
(* M-cycle.                                                                 *)
LEMMA NmiShape ==
  ASSUME NEW s \in NmiTodo
  PROVE  /\ s # <<>> /\ Head(s) \in {"nmiM1", "ir1", "write", "toNMI", "end"}
         /\ Head(s) \notin {"nmiM1", "end"} => Tail(s) \in NmiTodo
         /\ Head(s) = "toNMI" => Tail(s) = <<"end">>
<1>1. CASE s = <<"nmiM1", "end">>
  BY <1>1 DEF NmiTodo
<1>2. CASE s = <<"ir1", "write", "write", "toNMI", "end">>
  BY <1>2 DEF NmiTodo
<1>3. CASE s = <<"write", "write", "toNMI", "end">>
  BY <1>3 DEF NmiTodo
<1>4. CASE s = <<"write", "toNMI", "end">>
  BY <1>4 DEF NmiTodo
<1>5. CASE s = <<"toNMI", "end">>
  BY <1>5 DEF NmiTodo
<1>6. CASE s = <<"end">>
  BY <1>6 DEF NmiTodo
<1> QED BY <1>1, <1>2, <1>3, <1>4, <1>5, <1>6 DEF NmiTodo

LEMMA IntShape ==
  ASSUME NEW s \in IntTodo
  PROVE  /\ s # <<>>
         /\ Head(s) \in {"ackM1", "int1", "ir1", "write", "read", "toIM1", "jump", "end"}
         /\ Head(s) \notin {"ackM1", "end"} => Tail(s) \in IntTodo
         /\ Head(s) \in {"toIM1", "jump"} => Tail(s) = <<"end">>
<1>1. CASE s = <<"ackM1", "end">>
  BY <1>1 DEF IntTodo
<1>2. CASE s = <<"int1", "write", "write", "toIM1", "end">>
  BY <1>2 DEF IntTodo
<1>3. CASE s = <<"write", "write", "toIM1", "end">>
  BY <1>3 DEF IntTodo
<1>4. CASE s = <<"write", "toIM1", "end">>
  BY <1>4 DEF IntTodo
<1>5. CASE s = <<"toIM1", "end">>
  BY <1>5 DEF IntTodo
<1>6. CASE s = <<"ir1", "write", "write", "read", "read", "jump", "end">>
  BY <1>6 DEF IntTodo
<1>7. CASE s = <<"write", "write", "read", "read", "jump", "end">>
  BY <1>7 DEF IntTodo
<1>8. CASE s = <<"write", "read", "read", "jump", "end">>
  BY <1>8 DEF IntTodo
<1>9. CASE s = <<"read", "read", "jump", "end">>
  BY <1>9 DEF IntTodo
<1>10. CASE s = <<"read", "jump", "end">>
  BY <1>10 DEF IntTodo
<1>11. CASE s = <<"jump", "end">>
  BY <1>11 DEF IntTodo
<1>12. CASE s = <<"end">>
  BY <1>12 DEF IntTodo
<1> QED BY <1>1, <1>2, <1>3, <1>4, <1>5, <1>6, <1>7, <1>8, <1>9, <1>10, <1>11, <1>12 DEF IntTodo

LEMMA HaltShape ==
  ASSUME NEW s \in HaltTodo
  PROVE  /\ s # <<>> /\ Head(s) \in {"haltM1", "end"}
         /\ Head(s) = "haltM1" => Tail(s) \in HaltTodo
<1>1. CASE s = <<"haltM1", "end">>
  BY <1>1 DEF HaltTodo
<1>2. CASE s = <<"end">>
  BY <1>2 DEF HaltTodo
<1> QED BY <1>1, <1>2 DEF HaltTodo

(* The same for an instruction.                                             *)
LEMMA FetchingShape ==
  ASSUME NEW s \in Fetching
  PROVE  s # <<>> /\ Tail(s) = <<"end">> /\ Head(s) \in {"opcode", "opcodeCB", "opcodeED"}
<1>1. CASE s = <<"opcode", "end">>
  BY <1>1
<1>2. CASE s = <<"opcodeCB", "end">>
  BY <1>2
<1>3. CASE s = <<"opcodeED", "end">>
  BY <1>3
<1> QED BY <1>1, <1>2, <1>3 DEF Fetching

LEMMA SelectingShape ==
  ASSUME NEW s \in Selecting
  PROVE  /\ s # <<>> /\ Head(s) \in {"fetch8", "selector"}
         /\ Head(s) = "fetch8" => Tail(s) \in Selecting
         /\ Head(s) = "selector" => Tail(s) = <<"end">>
<1>1. CASE s = <<"fetch8", "selector", "end">>
  BY <1>1 DEF Selecting
<1>2. CASE s = <<"selector", "end">>
  BY <1>2
<1> QED BY <1>1, <1>2 DEF Selecting

LEMMA QuietShape ==
  ASSUME NEW s, QuietTodo(s)
  PROVE  s # <<>> /\ Head(s) \in QuietOps \cup {"end"}
BY QuietTail DEF QuietTodo

LEMMA NotQuiet ==
  {"opcode", "opcodeCB", "opcodeED", "nmiM1", "haltM1", "ackM1", "toNMI", "toIM1",
   "EI", "HALT", "ldR", "end"} \cap QuietOps = {}
BY QuietNames

(* Which Step an operation belongs to.                                      *)
LEMMA Where ==
  ASSUME TypeOK, Shape, todo # <<>>
  PROVE  /\ Head(todo) \in {"opcode", "opcodeCB", "opcodeED"}
              => /\ doing \in {"instr", "inject"} /\ ins = "none"
                 /\ Tail(todo) = <<"end">>
         /\ Head(todo) = "nmiM1"  => doing = "nmi"
         /\ Head(todo) = "toNMI"  => doing = "nmi"
         /\ Head(todo) = "haltM1" => doing = "halt"
         /\ Head(todo) \in {"ackM1", "toIM1"} => doing = "int"
         /\ Head(todo) = "EI"   => doing \in {"instr", "inject"} /\ ins = "ei"
         /\ Head(todo) = "HALT" => doing \in {"instr", "inject"} /\ ins = "halt"
         /\ Head(todo) = "ldR"  => doing \in {"instr", "inject"} /\ ins = "ld_r_a"
         /\ Head(todo) \in {"fetch8", "selector", "ea", "ldmn", "disp", "setF", "back",
                           "DI", "RETN"}
              => doing \in {"instr", "inject"} /\ ins \notin {"ei", "halt", "ld_r_a"}
         /\ Head(todo) \in {"ea", "ldmn", "disp", "setF", "back", "DI", "RETN"}
              => ins # "none"
<1>1. CASE doing = "nmi"
  BY <1>1, NmiShape DEF Shape
<1>2. CASE doing = "int"
  BY <1>2, IntShape DEF Shape
<1>3. CASE doing = "halt"
  BY <1>3, HaltShape DEF Shape
<1>4. CASE doing \in {"instr", "inject"}
  <2>1. CASE ins = "none"
    BY <1>4, <2>1, FetchingShape, SelectingShape DEF Shape, InstrTodo
  <2>2. CASE ins \in {"ei", "halt", "ld_r_a"}
    BY <1>4, <2>2 DEF Shape, InstrTodo
  <2>3. CASE ins \notin {"none", "ei", "halt", "ld_r_a"}
    BY <1>4, <2>3, QuietShape, NotQuiet DEF Shape, InstrTodo
  <2> QED BY <2>1, <2>2, <2>3
<1> QED BY <1>1, <1>2, <1>3, <1>4, NamedValues DEF TypeOK, Shape

(* Inside an instruction, what follows an operation that is replaced by     *)
(* others is quiet.                                                         *)
LEMMA Replaceable ==
  ASSUME TypeOK, Shape, todo # <<>>, Head(todo) \in {"selector", "ea", "ldmn"}
  PROVE  /\ doing \in {"instr", "inject"} /\ ins \notin {"ei", "halt", "ld_r_a"}
         /\ QuietTodo(Tail(todo))
<1>1. doing \in {"instr", "inject"}
  BY NmiShape, IntShape, HaltShape, NamedValues DEF TypeOK, Shape
<1>2. CASE ins = "none"
  BY <1>1, <1>2, FetchingShape, SelectingShape, QuietEnd DEF Shape, InstrTodo
<1>3. CASE ins \in {"ei", "halt", "ld_r_a"}
  BY <1>1, <1>3 DEF Shape, InstrTodo
<1>4. CASE ins \notin {"none", "ei", "halt", "ld_r_a"}
  BY <1>1, <1>4, QuietTail DEF Shape, InstrTodo
<1> QED BY <1>1, <1>2, <1>3, <1>4

(* An operation that only leaves the head of `todo` keeps the shape.        *)
LEMMA DoneShape ==
  ASSUME TypeOK, Shape, todo # <<>>, Done,
         Head(todo) \in (QuietOps \ {"selector"}) \cup {"toNMI", "toIM1"},
         doing' = doing, ins' = ins, eiPending' = eiPending
  PROVE  Shape'
<1>0. Head(todo) \notin {"opcode", "opcodeCB", "opcodeED", "nmiM1", "haltM1", "ackM1",
                        "EI", "HALT", "ldR", "end"}
  BY NotQuiet
<1>1. CASE doing = "nmi"
  BY <1>0, <1>1, NmiShape DEF Shape, Done
<1>2. CASE doing = "int"
  BY <1>0, <1>2, IntShape DEF Shape, Done
<1>3. CASE doing = "halt"
  BY <1>0, <1>3, HaltShape DEF Shape
<1>4. CASE doing \in {"instr", "inject"}
  <2>1. CASE ins = "none"
    <3>1. todo \in Selecting
      BY <1>0, <1>4, <2>1, FetchingShape DEF Shape, InstrTodo
    <3>2. Head(todo) = "fetch8"
      BY <3>1, SelectingShape
    <3>3. Tail(todo) \in Selecting /\ Tail(todo) # <<>>
      BY <3>1, <3>2, SelectingShape
    <3> QED BY <1>4, <2>1, <3>3 DEF Shape, InstrTodo, Done
  <2>2. CASE ins \in {"ei", "halt"}
    BY <1>0, <1>4, <2>2 DEF Shape, InstrTodo
  <2>3. CASE ins = "ld_r_a"
    <3>1. todo = <<"ir1", "ldR", "end">>
      BY <1>0, <1>4, <2>3 DEF Shape, InstrTodo
    <3>2. todo' = <<"ldR", "end">>
      BY <3>1 DEF Done
    <3> QED BY <1>4, <2>3, <3>2 DEF Shape, InstrTodo
  <2>4. CASE ins \notin {"none", "ei", "halt", "ld_r_a"}
    <3>1. QuietTodo(Tail(todo))
      BY <1>0, <1>4, <2>4, QuietTail DEF Shape, InstrTodo
    <3> QED BY <1>4, <2>4, <3>1 DEF Shape, InstrTodo, Done, QuietTodo
  <2> QED BY <2>1, <2>2, <2>3, <2>4
<1> QED BY <1>1, <1>2, <1>3, <1>4, NamedValues DEF TypeOK, Shape

(* An opcode fetch replaces the last operation but "end" by the body of the *)
(* instruction dispatched.                                                  *)
LEMMA ThenEnd ==
  ASSUME NEW b, Tail(todo) = <<"end">>, Then(b)
  PROVE  /\ b \in Seq(QuietOps) => QuietTodo(todo')
         /\ \A op : b = <<op>> => todo' = <<op, "end">>
         /\ \A op, next : b = <<op, next>> => todo' = <<op, next, "end">>
BY QuietConcat, QuietEnd, ConcatOne, ConcatTwo DEF Then

LEMMA DispatchNames ==
  /\ "none" \notin DOMAIN BaseBody /\ "ld_r_a" \notin DOMAIN BaseBody
  /\ DOMAIN CBBody \cap {"none", "ei", "halt", "ld_r_a"} = {}
  /\ DOMAIN XCBBody \cap {"none", "ei", "halt", "ld_r_a"} = {}
  /\ DOMAIN EDBody \cap {"none", "ei", "halt"} = {}
  /\ BaseBody["ei"] = <<"EI">> /\ BaseBody["halt"] = <<"HALT">>
  /\ EDBody["ld_r_a"] = <<"ir1", "ldR">>
BY DEF BaseBody, CBBody, XCBBody, EDBody

(* How a Step begins. *)
LEMMA BeginShape ==
  ASSUME TypeOK, Shape, NEW c, NEW op, Begin(c, op),
         <<c, op>> \in {<<"nmi", "nmiM1">>, <<"int", "ackM1">>, <<"inject", "opcode">>,
                        <<"halt", "haltM1">>, <<"instr", "opcode">>}
  PROVE  Shape'
<1>1. doing = "idle" /\ ins' = "none" /\ doing' = c /\ todo' = <<op, "end">>
  BY DEF Begin, Shape
<1>2. todo' # <<>>
  BY <1>1
<1>3. CASE c = "nmi" /\ op = "nmiM1"
  BY <1>1, <1>2, <1>3 DEF Shape, NmiTodo
<1>4. CASE c = "int" /\ op = "ackM1"
  BY <1>1, <1>2, <1>4 DEF Shape, IntTodo
<1>5. CASE c = "halt" /\ op = "haltM1"
  BY <1>1, <1>2, <1>5 DEF Shape, HaltTodo
<1>6. CASE c \in {"inject", "instr"} /\ op = "opcode"
  BY <1>1, <1>2, <1>6 DEF Shape, InstrTodo, Fetching
<1> QED BY <1>3, <1>4, <1>5, <1>6

LEMMA StepShape ==
  ASSUME TypeOK, Shape, [Next]_vars
  PROVE  Shape'
<1> USE DEF fetched, lines, enables, latches, index, observe
<1>1. ASSUME UNCHANGED <<todo, doing, ins, eiPending>> PROVE Shape'
  BY <1>1 DEF Shape, InstrTodo, QuietTodo
<1>2. ASSUME NEW level \in BOOLEAN, SetINT(level) PROVE Shape'
  BY <1>1, <1>2 DEF SetINT
<1>3. CASE NMI
  BY <1>1, <1>3 DEF NMI
<1>4. CASE Reset
  BY <1>4 DEF Reset, Shape
<1>5. CASE SpecialReset
  BY <1>1, <1>5 DEF SpecialReset
<1>6. CASE BeginStep
  BY <1>6, BeginShape DEF BeginStep, AcceptNMI, AcceptINT, InjectINT, EnterINT, HaltCycle, Execute
<1>7. CASE EndStep
  BY <1>7 DEF EndStep, Shape
<1>8. ASSUME NEW byte \in Prefixes, FetchPrefix(byte) PROVE Shape'
  BY <1>1, <1>8 DEF FetchPrefix
<1>9. ASSUME Head(todo) \in {"opcode", "opcodeCB", "opcodeED"}, todo # <<>>
      PROVE  /\ doing \in {"instr", "inject"} /\ ins = "none"
             /\ Tail(todo) = <<"end">>
  BY <1>9, Where
<1>10. ASSUME NEW byte \in DOMAIN BaseBody, FetchBase(byte) PROVE Shape'
  <2>1. doing' \in {"instr", "inject"} /\ ins' = byte /\ Tail(todo) = <<"end">>
        /\ Then(BaseBody[byte])
    BY <1>9, <1>10 DEF FetchBase, At
  <2>2. CASE byte = "ei"
    <3>1. todo' = <<"EI", "end">>
      BY <2>1, <2>2, ThenEnd, DispatchNames
    <3> QED BY <2>1, <2>2, <3>1 DEF Shape, InstrTodo
  <2>3. CASE byte = "halt"
    <3>1. todo' = <<"HALT", "end">>
      BY <2>1, <2>3, ThenEnd, DispatchNames
    <3> QED BY <2>1, <2>3, <3>1 DEF Shape, InstrTodo
  <2>4. CASE byte \notin {"ei", "halt"}
    <3>1. QuietTodo(todo')
      BY <2>1, <2>4, ThenEnd, BaseBodyQuiet
    <3> QED BY <2>1, <2>4, <3>1, DispatchNames DEF Shape, InstrTodo, QuietTodo
  <2> QED BY <2>2, <2>3, <2>4
<1>11. CASE FetchCB
  <2>1. doing' \in {"instr", "inject"} /\ ins' = "none" /\ Tail(todo) = <<"end">>
    BY <1>9, <1>11 DEF FetchCB, At
  <2>2. CASE idx = "HL"
    <3>1. todo' = <<"opcodeCB", "end">>
      BY <1>11, <2>1, <2>2, ThenEnd DEF FetchCB
    <3> QED BY <2>1, <3>1 DEF Shape, InstrTodo, Fetching
  <2>3. CASE idx # "HL"
    <3>1. todo' = <<"fetch8", "selector", "end">>
      BY <1>11, <2>1, <2>3, ThenEnd DEF FetchCB
    <3> QED BY <2>1, <3>1 DEF Shape, InstrTodo, Selecting
  <2> QED BY <2>2, <2>3
<1>12. CASE FetchED
  <2>1. doing' \in {"instr", "inject"} /\ ins' = "none" /\ Tail(todo) = <<"end">>
    BY <1>9, <1>12 DEF FetchED, At
  <2>2. todo' = <<"opcodeED", "end">>
    BY <1>12, <2>1, ThenEnd DEF FetchED
  <2> QED BY <2>1, <2>2 DEF Shape, InstrTodo, Fetching
<1>13. CASE FetchPaged("opcodeCB", CBBody)
  <2>1. PICK byte \in DOMAIN CBBody : ins' = byte /\ Then(CBBody[byte])
    BY <1>13 DEF FetchPaged
  <2>2. doing' \in {"instr", "inject"} /\ Tail(todo) = <<"end">>
    BY <1>9, <1>13 DEF FetchPaged, At
  <2>3. QuietTodo(todo')
    BY <2>1, <2>2, ThenEnd, CBBodyQuiet
  <2> QED BY <2>1, <2>2, <2>3, DispatchNames DEF Shape, InstrTodo, QuietTodo
<1>14. CASE FetchPaged("opcodeED", EDBody)
  <2>1. PICK byte \in DOMAIN EDBody : ins' = byte /\ Then(EDBody[byte])
    BY <1>14 DEF FetchPaged
  <2>2. doing' \in {"instr", "inject"} /\ Tail(todo) = <<"end">>
    BY <1>9, <1>14 DEF FetchPaged, At
  <2>3. CASE byte = "ld_r_a"
    <3>1. todo' = <<"ir1", "ldR", "end">>
      BY <2>1, <2>2, <2>3, ThenEnd, DispatchNames
    <3> QED BY <2>1, <2>2, <2>3, <3>1 DEF Shape, InstrTodo
  <2>4. CASE byte # "ld_r_a"
    <3>1. QuietTodo(todo')
      BY <2>1, <2>2, <2>4, ThenEnd, EDBodyQuiet
    <3> QED BY <2>1, <2>2, <2>4, <3>1, DispatchNames DEF Shape, InstrTodo, QuietTodo
  <2> QED BY <2>3, <2>4
<1>15. CASE Selector
  <2>1. PICK byte \in DOMAIN XCBBody : ins' = byte /\ Then(XCBBody[byte])
    BY <1>15 DEF Selector
  <2>2. doing' \in {"instr", "inject"} /\ QuietTodo(Tail(todo))
    BY <1>15, Replaceable DEF Selector, At
  <2>3. QuietTodo(todo')
    BY <2>1, <2>2, QuietConcat, XCBBodyQuiet DEF Then
  <2> QED BY <2>1, <2>2, <2>3, DispatchNames DEF Shape, InstrTodo, QuietTodo
<1>16. CASE NmiM1
  <2>1. doing' = "nmi" /\ todo' \in NmiTodo /\ todo' # <<>> /\ ins' = ins
    BY <1>16, Where DEF NmiM1, At, NmiRest, NmiTodo
  <2> QED BY <1>16, <2>1, Where DEF NmiM1, At, Shape
<1>17. CASE HaltM1
  <2>1. doing' = "halt" /\ todo' \in HaltTodo /\ todo' # <<>> /\ ins' = ins
    BY <1>17, Where, HaltShape DEF HaltM1, At, Shape, Done
  <2> QED BY <1>17, <2>1, Where DEF HaltM1, At, Shape
<1>18. CASE IntAckM1
  <2>1. doing' = "int" /\ todo' \in IntTodo /\ todo' # <<>> /\ ins' = ins
    BY <1>18, Where DEF IntAckM1, At, Im1Rest, Im2Rest, IntTodo
  <2> QED BY <1>18, <2>1, Where DEF IntAckM1, At, Shape
<1>19. CASE Fetch8
  BY <1>19, DoneShape, QuietNames DEF Fetch8, At
<1>20. CASE RunCycle
  BY <1>20, DoneShape DEF RunCycle, QuietOps, Cycle
<1>21. CASE Resolve
  <2>1. EaBody \in Seq(QuietOps) /\ LdmnBody \in Seq(QuietOps)
    BY QuietNames DEF EaBody, LdmnBody
  <2>2. /\ doing' \in {"instr", "inject"}
        /\ ins' \notin {"none", "ei", "halt", "ld_r_a"}
        /\ QuietTodo(Tail(todo))
    BY <1>21, Replaceable, Where DEF Resolve, At
  <2>3. QuietTodo(todo')
    BY <1>21, <2>1, <2>2, QuietConcat DEF Resolve, Then
  <2> QED BY <2>2, <2>3 DEF Shape, InstrTodo, QuietTodo
<1>22. CASE CacheDisp
  BY <1>22, DoneShape, QuietNames DEF CacheDisp, At
<1>23. CASE SetF
  BY <1>23, DoneShape, QuietNames DEF SetF, At
<1>24. CASE SetIM
  BY <1>24, DoneShape, QuietNames DEF SetIM, At
<1>25. CASE Jump
  BY <1>25, DoneShape, QuietNames DEF Jump, At
<1>26. CASE DI
  BY <1>26, DoneShape, QuietNames DEF DI, At
<1>27. CASE RETN
  BY <1>27, DoneShape, QuietNames DEF RETN, At
<1>28. CASE LdR
  <2>1. doing' \in {"instr", "inject"} /\ ins' = "ld_r_a" /\ todo = <<"ldR", "end">>
    BY <1>28, Where DEF LdR, At, Shape, InstrTodo
  <2>2. todo' = <<"end">>
    BY <1>28, <2>1 DEF LdR, Done
  <2> QED BY <2>1, <2>2 DEF Shape, InstrTodo
<1>29. CASE EI
  <2>1. doing' \in {"instr", "inject"} /\ ins' = "ei" /\ todo = <<"EI", "end">>
    BY <1>29, Where DEF EI, At, Shape, InstrTodo
  <2>2. todo' = <<"end">>
    BY <1>29, <2>1 DEF EI, Done
  <2> QED BY <1>29, <2>1, <2>2 DEF EI, Shape, InstrTodo
<1>30. CASE HALT
  <2>1. doing' \in {"instr", "inject"} /\ ins' = "halt" /\ todo = <<"HALT", "end">>
    BY <1>30, Where DEF HALT, At, Shape, InstrTodo
  <2>2. todo' = <<"end">>
    BY <1>30, <2>1 DEF HALT, Done
  <2> QED BY <2>1, <2>2 DEF Shape, InstrTodo
<1>31. CASE UNCHANGED vars
  BY <1>1, <1>31 DEF vars
<1> QED
  BY <1>2, <1>3, <1>4, <1>5, <1>6, <1>7, <1>8, <1>10, <1>11, <1>12, <1>13, <1>14, <1>15,
     <1>16, <1>17, <1>18, <1>19, <1>20, <1>21, <1>22, <1>23, <1>24, <1>25, <1>26, <1>27,
     <1>28, <1>29, <1>30, <1>31
  DEF Next, Machine, Step, Exec, Effect

----------------------------------------------------------------------------
(* What each action does to the variables the invariants relate, told once. *)

(* Only these actions change the interrupt enables or eiPending.            *)
LEMMA EnablesSteps ==
  ASSUME TypeOK, [Next]_vars
  PROVE  \/ UNCHANGED <<iff1, iff2, eiPending>>
         \/ Reset \/ BeginStep \/ EI \/ DI \/ RETN
BY DEF Next, Machine, SetINT, NMI, SpecialReset, Step, EndStep, Exec, FetchPrefix, FetchBase,
       FetchCB, FetchED, FetchPaged, Selector, NmiM1, HaltM1, IntAckM1, Fetch8, RunCycle,
       Effect, Resolve, CacheDisp, SetF, LdR, SetIM, Jump, HALT,
       vars, enables, fetched, lines, latches, index, observe

(* A Step that has begun keeps its case, and the instruction dispatched     *)
(* last, until it ends.                                                     *)
LEMMA ObserveSteps ==
  ASSUME TypeOK, [Next]_vars
  PROVE  /\ doing' # doing => BeginStep \/ EndStep
         /\ ins' # ins => Exec \/ EndStep
         /\ last' # last => Reset \/ EndStep
         /\ pc0' # pc0 => BeginStep \/ EndStep
BY DEF Next, Machine, SetINT, NMI, Reset, SpecialReset, Step, BeginStep, AcceptNMI, AcceptINT,
       InjectINT, EnterINT, HaltCycle, Execute, Begin, Exec, FetchPrefix, FetchBase,
       FetchCB, FetchED, FetchPaged, Selector, NmiM1, HaltM1, IntAckM1, Fetch8, RunCycle,
       Effect, Resolve, CacheDisp, SetF, LdR, SetIM, Jump, EI, DI, RETN, HALT,
       vars, enables, fetched, lines, latches, index, observe

LEMMA BeginFacts ==
  ASSUME BeginStep
  PROVE  /\ todo = <<>> /\ todo' # <<>> /\ ~eiPending' /\ pc' = pc /\ pc0' = pc
         /\ ins' = ins /\ pre' = pre /\ last' = last /\ q' = q /\ r' = r /\ lastIR' = lastIR
         /\ doing' \in {"nmi", "int", "inject", "halt", "instr"}
         /\ Head(todo') \in FirstM1
BY DEF BeginStep, AcceptNMI, AcceptINT, InjectINT, EnterINT, HaltCycle, Execute, Begin, FirstM1,
       fetched

LEMMA EndFacts ==
  ASSUME EndStep
  PROVE  /\ todo = <<"end">> /\ todo' = <<>> /\ doing' = "idle" /\ ins' = "none" /\ pre' = 0
         /\ eiPending' = eiPending /\ halted' = halted /\ im0' = FALSE
         /\ last' = "EI" <=> ins = "ei"
         /\ last' = "flags" <=> ins # "ei" /\ doing = "instr" /\ flagsSet
         /\ doing = "instr" => q' = flagsSet
         /\ doing = "halt" => q' = q
         /\ doing \notin {"instr", "halt"} => q' = FALSE
<1>1. /\ last' = "EI" <=> ins = "ei"
      /\ last' = "flags" <=> ins # "ei" /\ doing = "instr" /\ flagsSet
  BY DEF EndStep
<1>2. /\ doing = "instr" => q' = flagsSet
      /\ doing = "halt" => q' = q
      /\ doing \notin {"instr", "halt"} => q' = FALSE
  BY DEF EndStep, LatchedQ
<1>3. todo = <<"end">> /\ todo' = <<>> /\ doing' = "idle" /\ ins' = "none" /\ pre' = 0
  BY DEF EndStep
<1>4. eiPending' = eiPending /\ halted' = halted /\ im0' = FALSE
  BY DEF EndStep, enables
<1> QED BY <1>1, <1>2, <1>3, <1>4

LEMMA ExecFacts ==
  ASSUME Exec
  PROVE  /\ todo # <<>>
         /\ Head(todo) \in {"opcode", "opcodeCB", "opcodeED", "selector"}
         /\ doing' = doing /\ UNCHANGED <<enables, flagsSet, im0, pc0, last>>
         /\ ins' = ins \/ ins' \in Dispatched \ {"none"}
BY PagesDispatched, DispatchNames
   DEF Exec, FetchPrefix, FetchBase, FetchCB, FetchED, FetchPaged, Selector, At,
       enables, index, latches, observe

----------------------------------------------------------------------------
(* Every step preserves the inductive invariant, part by part.              *)

LEMMA StepEiDeferral ==
  ASSUME TypeOK, Shape, Shape', EiDeferral, [Next]_vars
  PROVE  EiDeferral'
<1>1. CASE BeginStep
  BY <1>1, BeginFacts DEF EiDeferral
<1>2. CASE EndStep
  <2>1. ins = "ei" => eiPending
    BY <1>2, EndFacts, NamedValues DEF TypeOK, Shape, InstrTodo
  <2> QED BY <1>2, <2>1, EndFacts DEF EiDeferral
<1>3. CASE Reset
  BY <1>3 DEF Reset, EiDeferral
<1>4. CASE ~BeginStep /\ ~EndStep /\ ~Reset
  <2>1. doing' = doing /\ last' = last /\ (todo' = <<>> <=> todo = <<>>)
    BY <1>4, ObserveSteps DEF Shape
  <2>2. CASE EI
    <3>1. ins' = "ei" /\ todo # <<>>
      BY <2>2, Where DEF EI, At, observe
    <3> QED BY <2>1, <3>1 DEF EiDeferral
  <2>3. CASE Exec
    <3>1. ~eiPending /\ todo # <<>>
      BY <2>3, Where, ExecFacts DEF EiDeferral
    <3> QED BY <2>1, <2>3, <3>1, ExecFacts DEF EiDeferral, enables
  <2>4. CASE DI \/ RETN
    BY <2>1, <2>4 DEF DI, RETN, observe, EiDeferral
  <2>5. CASE ~EI /\ ~Exec /\ ~DI /\ ~RETN
    <3>1. eiPending' = eiPending
      BY <1>4, <2>5, EnablesSteps
    <3>2. ins' = ins
      BY <1>4, <2>5, ObserveSteps
    <3> QED BY <2>1, <3>1, <3>2 DEF EiDeferral
  <2> QED BY <2>2, <2>3, <2>4, <2>5
<1> QED BY <1>1, <1>2, <1>3, <1>4

LEMMA StepIffOrder ==
  ASSUME TypeOK, Shape, EiDeferral, IffOrder, [Next]_vars
  PROVE  IffOrder'
<1>1. CASE UNCHANGED <<iff1, iff2, eiPending>>
  BY <1>1 DEF IffOrder
<1>2. CASE Reset
  BY <1>2 DEF Reset, IffOrder
<1>3. CASE BeginStep
  <2>1. ~eiPending'
    BY <1>3, BeginFacts
  <2>2. iff1' = FALSE \/ UNCHANGED <<iff1, iff2>>
    BY <1>3 DEF BeginStep, AcceptNMI, AcceptINT, InjectINT, EnterINT, HaltCycle, Execute
  <2> QED BY <2>1, <2>2 DEF IffOrder
<1>4. CASE EI
  BY <1>4 DEF EI, IffOrder
<1>5. CASE DI
  <2>1. ~eiPending
    BY <1>5, Where DEF DI, At, EiDeferral
  <2> QED BY <1>5, <2>1 DEF DI, IffOrder
<1>6. CASE RETN
  <2>1. ~eiPending
    BY <1>6, Where DEF RETN, At, EiDeferral
  <2> QED BY <1>6, <2>1 DEF RETN, IffOrder
<1> QED BY <1>1, <1>2, <1>3, <1>4, <1>5, <1>6, EnablesSteps

LEMMA StepInjectionEnds ==
  ASSUME TypeOK, Shape, InjectionEnds, [Next]_vars
  PROVE  InjectionEnds'
<1>1. CASE BeginStep
  <2>1. doing = "idle" /\ ~im0
    BY <1>1, BeginFacts DEF Shape, InjectionEnds
  <2> QED BY <1>1, <2>1 DEF BeginStep, AcceptNMI, AcceptINT, InjectINT, EnterINT, HaltCycle,
                          Execute, Begin, InjectionEnds, index
<1>2. CASE EndStep
  BY <1>2, EndFacts DEF InjectionEnds
<1>3. CASE ~BeginStep /\ ~EndStep
  <2>1. im0' = im0
    BY <1>3 DEF Next, Machine, SetINT, NMI, Reset, SpecialReset, Step, Exec, FetchPrefix,
       FetchBase, FetchCB, FetchED, FetchPaged, Selector, NmiM1, HaltM1, IntAckM1, Fetch8,
       RunCycle, Effect, Resolve, CacheDisp, SetF, LdR, SetIM, Jump, EI, DI, RETN, HALT,
       vars, index
  <2> QED BY <1>3, <2>1, ObserveSteps DEF InjectionEnds
<1> QED BY <1>1, <1>2, <1>3

(* Only fetches and jumps move PC.                                          *)
LEMMA PcSteps ==
  ASSUME TypeOK, [Next]_vars
  PROVE  pc' # pc => \/ Reset \/ SpecialReset \/ Exec \/ Fetch8 \/ Jump
BY DEF Next, Machine, SetINT, NMI, Step, BeginStep, AcceptNMI, AcceptINT, InjectINT, EnterINT,
       HaltCycle, Execute, Begin, EndStep, NmiM1, HaltM1, DiscardedM1, IntAckM1, RunCycle,
       Effect, Resolve, CacheDisp, SetF, LdR, SetIM, EI, DI, RETN, HALT, vars, fetched

LEMMA StepAcceptanceKeepsPC ==
  ASSUME TypeOK, Shape, AcceptanceKeepsPC, [Next]_vars
  PROVE  AcceptanceKeepsPC'
<1>1. CASE BeginStep
  BY <1>1, BeginFacts DEF AcceptanceKeepsPC
<1>2. CASE EndStep
  BY <1>2, EndFacts DEF AcceptanceKeepsPC
<1>3. CASE ~BeginStep /\ ~EndStep
  <2>0. doing' = doing /\ pc0' = pc0
    BY <1>3, ObserveSteps
  <2>1. todo = <<"end">> => todo' = <<"end">>
    <3>1. SUFFICES ASSUME todo = <<"end">> PROVE UNCHANGED todo
      OBVIOUS
    <3>2. Head(todo) = "end" /\ todo # <<>> /\ "end" \notin DOMAIN Cycle
      BY <3>1 DEF Cycle
    <3>3. ~Exec
      BY <3>2, ExecFacts
    <3> QED
      BY <1>3, <3>2, <3>3 DEF Next, Machine, SetINT, NMI, Reset, SpecialReset, Step, NmiM1,
         HaltM1, IntAckM1, Fetch8, RunCycle, Effect, Resolve, CacheDisp, SetF, LdR, SetIM,
         Jump, EI, DI, RETN, HALT, At, vars
  <2>2. CASE pc' = pc
    BY <2>0, <2>1, <2>2 DEF AcceptanceKeepsPC
  <2>3. CASE Reset \/ SpecialReset
    BY <2>0, <2>3 DEF Reset, SpecialReset, Shape, AcceptanceKeepsPC
  <2>4. CASE Exec \/ Fetch8
    <3>1. doing \in {"instr", "inject"}
      BY <2>4, ExecFacts, Where DEF Fetch8, At
    <3> QED BY <2>0, <3>1 DEF AcceptanceKeepsPC
  <2>5. CASE Jump
    <3>1. Head(todo) \in {"jump", "toNMI", "toIM1", "back"} /\ todo # <<>> /\ Done
      BY <2>5 DEF Jump, At
    <3>2. CASE doing = "nmi"
      BY <2>0, <3>1, <3>2, NmiShape DEF Shape, Done, AcceptanceKeepsPC
    <3>3. CASE doing = "int"
      BY <2>0, <3>1, <3>3, IntShape DEF Shape, Done, AcceptanceKeepsPC
    <3>4. CASE doing = "halt"
      BY <3>1, <3>4, HaltShape DEF Shape
    <3> QED BY <2>0, <3>2, <3>3, <3>4 DEF AcceptanceKeepsPC
  <2> QED BY <2>2, <2>3, <2>4, <2>5, PcSteps
<1> QED BY <1>1, <1>2, <1>3

(* lastIR and R move together, in the refresh half of an M1, but for LD R,A *)
(* and Reset.                                                               *)
LEMMA RefreshSteps ==
  ASSUME TypeOK, [Next]_vars
  PROVE  \/ UNCHANGED <<r, lastIR>> \/ Refresh \/ LdR \/ Reset
BY DEF Next, Machine, SetINT, NMI, SpecialReset, Step, BeginStep, AcceptNMI, AcceptINT,
       InjectINT, EnterINT, HaltCycle, Execute, Begin, EndStep, Exec, FetchPrefix, FetchBase,
       FetchCB, FetchED, FetchPaged, Selector, FetchOpcode, NmiM1, HaltM1, DiscardedM1,
       IntAckM1, Fetch8, RunCycle, Effect, Resolve, CacheDisp, SetF, SetIM, Jump, EI, DI,
       RETN, HALT, vars, fetched

LEMMA FirstM1Steps ==
  ASSUME TypeOK, Shape, [Next]_vars, todo # <<>>, todo # <<"end">>, Head(todo) \in FirstM1
  PROVE  UNCHANGED <<todo, r, lastIR>> \/ Refresh
<1>1. Head(todo) \notin DOMAIN Cycle /\ ~BeginStep /\ ~EndStep /\ ~Reset /\ ~SpecialReset
  BY BeginFacts DEF FirstM1, Cycle, EndStep, Reset, SpecialReset
<1>2. CASE Exec
  BY <1>2, <1>1 DEF Exec, FetchPrefix, FetchBase, FetchCB, FetchED, FetchPaged, Selector,
     FetchOpcode, At, FirstM1
<1>3. CASE NmiM1 \/ HaltM1 \/ IntAckM1
  BY <1>3 DEF NmiM1, HaltM1, IntAckM1, DiscardedM1
<1>4. CASE ~Exec /\ ~(NmiM1 \/ HaltM1 \/ IntAckM1)
  BY <1>1, <1>4 DEF Next, Machine, SetINT, NMI, Step, Fetch8, RunCycle, Effect, Resolve,
     CacheDisp, SetF, LdR, SetIM, Jump, EI, DI, RETN, HALT, At, FirstM1, vars, fetched
<1> QED BY <1>2, <1>3, <1>4

LEMMA StepRefreshFresh ==
  ASSUME TypeOK, Shape, Shape', RefreshFresh, [Next]_vars
  PROVE  RefreshFresh'
<1>1. CASE Refresh
  BY <1>1 DEF Refresh, RefreshFresh
<1>2. CASE LdR
  <2>1. todo = <<"ldR", "end">>
    BY <1>2, Where DEF LdR, At, Shape, InstrTodo
  <2>2. todo' = <<"end">>
    BY <1>2, <2>1 DEF LdR, Done
  <2> QED BY <2>2 DEF RefreshFresh
<1>3. CASE Reset
  BY <1>3 DEF Reset, RefreshFresh
<1>4. CASE UNCHANGED <<r, lastIR>> /\ ~Refresh
  <2>1. CASE todo = <<>>
    <3>1. CASE BeginStep
      BY <3>1, BeginFacts DEF RefreshFresh
    <3>2. CASE ~BeginStep
      <4>1. todo' = todo
        BY <2>1, <3>2, ExecFacts DEF Next, Machine, SetINT, NMI, Reset, SpecialReset, Step,
           EndStep, NmiM1, HaltM1, IntAckM1, Fetch8, RunCycle, Effect, Resolve, CacheDisp,
           SetF, LdR, SetIM, Jump, EI, DI, RETN, HALT, At, vars
      <4> QED BY <2>1, <4>1 DEF RefreshFresh
    <3> QED BY <3>1, <3>2
  <2>2. CASE todo = <<"end">>
    <3>1. CASE EndStep
      BY <3>1, EndFacts DEF RefreshFresh
    <3>2. CASE ~EndStep
      <4>1. Head(todo) = "end" /\ todo # <<>> /\ "end" \notin DOMAIN Cycle
        BY <2>2 DEF Cycle
      <4>2. ~Exec /\ ~BeginStep
        BY <4>1, ExecFacts, BeginFacts
      <4>3. todo' = todo
        BY <3>2, <4>1, <4>2 DEF Next, Machine, SetINT, NMI, Reset, SpecialReset, Step,
           NmiM1, HaltM1, IntAckM1, Fetch8, RunCycle, Effect, Resolve, CacheDisp,
           SetF, LdR, SetIM, Jump, EI, DI, RETN, HALT, At, vars
      <4> QED BY <2>2, <4>3 DEF RefreshFresh
    <3> QED BY <3>1, <3>2
  <2>3. CASE todo \notin {<<>>, <<"end">>} /\ Head(todo) \in FirstM1
    BY <1>4, <2>3, FirstM1Steps DEF RefreshFresh
  <2>4. CASE todo \notin {<<>>, <<"end">>} /\ Head(todo) \notin FirstM1
    BY <1>4, <2>4 DEF RefreshFresh, IncR
  <2> QED BY <2>1, <2>2, <2>3, <2>4
<1> QED BY <1>1, <1>2, <1>3, <1>4, RefreshSteps

(* Only these actions change halted, Q, flagsSet or the prefix count.       *)
LEMMA LatchSteps ==
  ASSUME TypeOK, [Next]_vars
  PROVE  /\ halted' # halted => Reset \/ SpecialReset \/ BeginStep \/ HALT
         /\ q' # q => Reset \/ EndStep \/ Exec
         /\ pre' # pre => EndStep \/ Exec
         /\ flagsSet' # flagsSet => BeginStep \/ SetF
BY ExecFacts
   DEF Next, Machine, SetINT, NMI, Reset, SpecialReset, Step, BeginStep, AcceptNMI, AcceptINT,
       InjectINT, EnterINT, HaltCycle, Execute, Begin, EndStep, NmiM1, HaltM1, IntAckM1,
       Fetch8, RunCycle, Effect, Resolve, CacheDisp, SetF, LdR, SetIM, Jump, EI, DI, RETN,
       HALT, vars, enables, latches, observe

LEMMA StepHalted ==
  ASSUME TypeOK, Shape, HaltedExecutesNothing, [Next]_vars
  PROVE  HaltedExecutesNothing'
<1>1. CASE BeginStep
  BY <1>1 DEF BeginStep, AcceptNMI, AcceptINT, InjectINT, EnterINT, HaltCycle, Execute, Begin,
              HaltedExecutesNothing
<1>2. CASE EndStep
  BY <1>2, EndFacts DEF HaltedExecutesNothing
<1>3. CASE Reset \/ SpecialReset
  BY <1>3 DEF Reset, SpecialReset, HaltedExecutesNothing
<1>4. CASE HALT
  BY <1>4, Where DEF HALT, At, observe, HaltedExecutesNothing
<1>5. CASE Exec
  <2>1. doing \in {"instr", "inject"} /\ ins # "halt"
    BY <1>5, ExecFacts, Where
  <2> QED BY <1>5, <2>1, ExecFacts DEF HaltedExecutesNothing, enables
<1>6. CASE ~BeginStep /\ ~EndStep /\ ~Reset /\ ~SpecialReset /\ ~HALT /\ ~Exec
  <2>1. halted' = halted
    BY <1>6, LatchSteps
  <2>2. doing' = doing /\ ins' = ins
    BY <1>6, ObserveSteps
  <2> QED BY <2>1, <2>2 DEF HaltedExecutesNothing
<1> QED BY <1>1, <1>2, <1>3, <1>4, <1>5, <1>6

LEMMA StepQLatch ==
  ASSUME TypeOK, Shape, HaltedExecutesNothing, QLatch, [Next]_vars
  PROVE  QLatch'
<1>1. CASE BeginStep
  <2>1. doing = "idle"
    BY <1>1, BeginFacts DEF Shape
  <2>2. /\ q <=> last = "flags"
        /\ pre = 0
        /\ halted => ~q
    BY <2>1 DEF QLatch, Executing
  <2>3. doing' \in {"instr", "inject"} => flagsSet' = FALSE
    BY <1>1 DEF BeginStep, AcceptNMI, AcceptINT, InjectINT, EnterINT, HaltCycle, Execute, Begin
  <2>4. doing' = "halt" => halted
    BY <1>1 DEF BeginStep, AcceptNMI, AcceptINT, InjectINT, EnterINT, HaltCycle, Execute, Begin
  <2> QED BY <1>1, <2>2, <2>3, <2>4, BeginFacts DEF QLatch, Executing
<1>2. CASE EndStep
  <2>1. CASE doing = "instr"
    <3>1. q' = flagsSet /\ (last' = "flags" <=> ins # "ei" /\ flagsSet) /\ halted' = halted
      BY <1>2, <2>1, EndFacts
    <3>2. ins = "ei" => ~flagsSet
      BY <2>1 DEF QLatch, Executing
    <3>3. halted => ~flagsSet
      BY <2>1 DEF QLatch, Executing, HaltedExecutesNothing
    <3> QED BY <1>2, <3>1, <3>2, <3>3, EndFacts DEF QLatch, Executing
  <2>2. CASE doing = "halt"
    <3>1. ~q /\ q' = q /\ last' # "flags"
      BY <1>2, <2>2, EndFacts DEF QLatch, Executing
    <3> QED BY <1>2, <3>1, EndFacts DEF QLatch, Executing
  <2>3. CASE doing \notin {"instr", "halt"}
    <3>1. ~q' /\ last' # "flags"
      BY <1>2, <2>3, EndFacts
    <3> QED BY <1>2, <3>1, EndFacts DEF QLatch, Executing
  <2> QED BY <2>1, <2>2, <2>3
<1>3. CASE Reset
  <2>1. doing = "idle" /\ doing' = doing /\ pre' = pre /\ ~q' /\ last' = "other" /\ ~halted'
    BY <1>3 DEF Reset, Shape
  <2> QED BY <2>1 DEF QLatch, Executing
<1>4. CASE SpecialReset
  BY <1>4 DEF SpecialReset, QLatch, Executing, latches, observe
<1>5. CASE Exec
  <2>1. doing \in {"instr", "inject"} /\ ins \notin {"ei", "halt"} /\ doing' = doing
        /\ last' = last /\ flagsSet' = flagsSet
    BY <1>5, ExecFacts, Where
  <2>2. ins' \in {"none", "ei", "halt"} => ~flagsSet
    <3>1. CASE ins = "none"
      BY <2>1, <3>1 DEF QLatch, Executing
    <3>2. CASE ins # "none"
      <4>1. Selector
        BY <1>5, <3>2, Where DEF Exec, FetchPrefix, FetchBase, FetchCB, FetchED, FetchPaged, At
      <4> QED BY <4>1, DispatchNames DEF Selector
    <3> QED BY <3>1, <3>2
  <2>3. q' <=> last' = "flags" /\ pre' = 0
    <3>1. CASE \E byte \in Prefixes : FetchPrefix(byte)
      <4>1. ~q' /\ pre' # 0
        BY <3>1, ModAssumption DEF FetchPrefix, TypeOK, PreCount
      <4> QED BY <4>1
    <3>2. CASE ~\E byte \in Prefixes : FetchPrefix(byte)
      <4>1. q' = q /\ pre' = pre
        BY <1>5, <3>2 DEF Exec, FetchBase, FetchCB, FetchED, FetchPaged, Selector, latches,
           observe
      <4> QED BY <2>1, <4>1 DEF QLatch, Executing
    <3> QED BY <3>1, <3>2
  <2> QED BY <2>1, <2>2, <2>3 DEF QLatch, Executing
<1>6. CASE SetF
  <2>1. doing \in {"instr", "inject"} /\ ins \notin {"none", "ei", "halt"}
    BY <1>6, Where DEF SetF, At
  <2> QED BY <1>6, <2>1 DEF SetF, QLatch, Executing, observe, enables
<1>7. CASE HALT
  <2>1. doing \in {"instr", "inject"} /\ doing' = doing
    BY <1>7, Where DEF HALT, At, observe
  <2> QED BY <1>7, <2>1 DEF HALT, QLatch, Executing, latches, observe
<1>8. CASE ~BeginStep /\ ~EndStep /\ ~Reset /\ ~SpecialReset /\ ~Exec /\ ~SetF /\ ~HALT
  BY <1>8, ObserveSteps, LatchSteps DEF QLatch, Executing
<1> QED BY <1>1, <1>2, <1>3, <1>4, <1>5, <1>6, <1>7, <1>8

----------------------------------------------------------------------------
(* The invariant, and what follows from it.                                 *)

LEMMA InitInv == Init => IInv
<1> SUFFICES ASSUME Init PROVE IInv
  OBVIOUS
<1>1. TypeOK
  BY InitType
<1>2. Shape
  BY DEF Init, Shape
<1>3. EiDeferral /\ IffOrder /\ InjectionEnds /\ AcceptanceKeepsPC
  BY DEF Init, EiDeferral, IffOrder, InjectionEnds, AcceptanceKeepsPC
<1>4. RefreshFresh /\ HaltedExecutesNothing /\ QLatch
  BY DEF Init, RefreshFresh, HaltedExecutesNothing, QLatch, Executing
<1> QED BY <1>1, <1>2, <1>3, <1>4 DEF IInv

LEMMA StepInv == IInv /\ [Next]_vars => IInv'
<1> SUFFICES ASSUME IInv, [Next]_vars PROVE IInv'
  OBVIOUS
<1>1. TypeOK'
  BY StepType DEF IInv
<1>2. Shape'
  BY StepShape DEF IInv
<1>3. EiDeferral' /\ IffOrder' /\ InjectionEnds' /\ AcceptanceKeepsPC'
  BY <1>2, StepEiDeferral, StepIffOrder, StepInjectionEnds, StepAcceptanceKeepsPC DEF IInv
<1>4. RefreshFresh' /\ HaltedExecutesNothing' /\ QLatch'
  BY <1>2, StepRefreshFresh, StepHalted, StepQLatch DEF IInv
<1> QED BY <1>1, <1>2, <1>3, <1>4 DEF IInv

LEMMA Invariance == Spec => []IInv
BY InitInv, StepInv, PTL DEF Spec

LEMMA RefreshAtIrCycles == IInv => RefreshAddress
<1> SUFFICES ASSUME IInv, todo # <<>>, Head(todo) \in IrCycles
             PROVE  r = IncR(lastIR)
  BY DEF RefreshAddress
<1>1. Head(<<"end">>) = "end" /\ "end" \notin IrCycles
  BY DEF IrCycles
<1>2. Head(todo) \notin FirstM1 /\ todo # <<"end">>
  BY <1>1 DEF FirstM1, IrCycles
<1> QED BY <1>2 DEF IInv, RefreshFresh

LEMMA QAtSamples == IInv => QIsOfPrevious
<1> SUFFICES ASSUME IInv PROVE QIsOfPrevious
  OBVIOUS
<1>1. todo = <<>> => (q <=> last = "flags")
  BY DEF IInv, Shape, QLatch, Executing
<1>2. ins = "scf" => doing \in {"instr", "inject"}
  BY NamedValues DEF IInv, TypeOK, Shape
<1> QED BY <1>1, <1>2 DEF IInv, QLatch, Executing, QIsOfPrevious

(* IFF1 is never set without IFF2, nor eiPending without both, whatever the *)
(* interleaving of EI, DI, RETN, acceptances, resets and requests.          *)
THEOREM IffOrderHolds == Spec => []IffOrder
<1>1. IInv => IffOrder
  BY DEF IInv
<1> QED BY <1>1, Invariance, PTL

(* An acceptance pushes, and a halt cycle keeps, the PC its Step began with.*)
THEOREM AcceptanceKeepsPCHolds == Spec => []AcceptanceKeepsPC
<1>1. IInv => AcceptanceKeepsPC
  BY DEF IInv
<1> QED BY <1>1, Invariance, PTL

(* Internal T-states on the refresh address use the latest M1's.            *)
THEOREM RefreshAddressHolds == Spec => []RefreshAddress
BY RefreshAtIrCycles, Invariance, PTL

(* Q is non-zero exactly when the instruction before set flags.             *)
THEOREM QIsOfPreviousHolds == Spec => []QIsOfPrevious
BY QAtSamples, Invariance, PTL

(* A halted CPU executes nothing.                                           *)
THEOREM HaltedExecutesNothingHolds == Spec => []HaltedExecutesNothing
<1>1. IInv => HaltedExecutesNothing
  BY DEF IInv
<1> QED BY <1>1, Invariance, PTL

LEMMA EiShadowStep ==
  ASSUME IInv, [Next]_vars, todo = <<>>, last = "EI"
  PROVE  doing' \notin {"int", "inject"}
<1>1. eiPending /\ doing = "idle"
  BY DEF IInv, Shape, EiDeferral
<1>2. CASE BeginStep
  BY <1>1, <1>2 DEF BeginStep, AcceptNMI, AcceptINT, InjectINT, EnterINT, HaltCycle, Execute,
                    Begin, IntAcceptable
<1>3. CASE EndStep
  BY <1>3, EndFacts
<1>4. CASE ~BeginStep /\ ~EndStep
  BY <1>1, <1>4, ObserveSteps DEF IInv
<1> QED BY <1>2, <1>3, <1>4

(* No Step that follows an EI accepts an INT. *)
THEOREM EiShadowHolds == Spec => EiShadow
<1>1. IInv /\ [Next]_vars => [todo = <<>> /\ last = "EI" => doing' \notin {"int", "inject"}]_vars
  BY EiShadowStep
<1> QED BY <1>1, Invariance, PTL DEF Spec, EiShadow

----------------------------------------------------------------------------
(* The core implements the interrupt contract: every M-cycle and effect is  *)
(* one of its steps or leaves its state alone.                              *)

LEMMA InitContract == Init => Interrupts!Init
BY DEF Init, Interrupts!Init

LEMMA BeginContract ==
  ASSUME IInv, BeginStep
  PROVE  Interrupts!Next
<1>1. doing = "idle"
  BY BeginFacts DEF IInv, Shape
<1>2. IntAcceptable <=> Interrupts!IntAcceptable
  BY DEF IntAcceptable, Interrupts!IntAcceptable
<1>3. CASE AcceptNMI
  <2>1. Interrupts!AcceptNMI
    BY <1>1, <1>3 DEF AcceptNMI, Begin, Interrupts!AcceptNMI
  <2> QED BY <2>1 DEF Interrupts!Next
<1>4. CASE AcceptINT \/ InjectINT
  <2>1. Interrupts!AcceptINT
    BY <1>1, <1>2, <1>4 DEF AcceptINT, InjectINT, EnterINT, Begin, Interrupts!AcceptINT
  <2> QED BY <2>1 DEF Interrupts!Next
<1>5. CASE HaltCycle \/ Execute
  <2>1. Interrupts!Proceed
    BY <1>1, <1>2, <1>5 DEF HaltCycle, Execute, Begin, Interrupts!Proceed
  <2> QED BY <2>1 DEF Interrupts!Next
<1> QED BY <1>3, <1>4, <1>5 DEF BeginStep

(* The effects of an instruction on the interrupt state.                    *)
LEMMA EffectContract ==
  ASSUME IInv, EI \/ DI \/ RETN \/ HALT
  PROVE  Interrupts!Next
<1> USE DEF observe, lines, Interrupts!Executing
<1>1. doing \in {"instr", "inject"}
  BY Where DEF IInv, EI, DI, RETN, HALT, At
<1>2. CASE EI
  <2>1. Interrupts!EI
    BY <1>1, <1>2 DEF EI, Interrupts!EI
  <2> QED BY <2>1 DEF Interrupts!Next
<1>3. CASE DI
  <2>1. Interrupts!DI
    BY <1>1, <1>3 DEF DI, Interrupts!DI
  <2> QED BY <2>1 DEF Interrupts!Next
<1>4. CASE RETN
  <2>1. Interrupts!RETN
    BY <1>1, <1>4 DEF RETN, Interrupts!RETN
  <2> QED BY <2>1 DEF Interrupts!Next
<1>5. CASE HALT
  <2>1. Interrupts!HALT
    BY <1>1, <1>5 DEF HALT, Interrupts!HALT
  <2> QED BY <2>1 DEF Interrupts!Next
<1> QED BY <1>2, <1>3, <1>4, <1>5

LEMMA MachineContract ==
  ASSUME IInv, Machine
  PROVE  Interrupts!Next
<1> USE DEF observe, lines, enables
<1>1. ASSUME NEW level \in BOOLEAN, SetINT(level) PROVE Interrupts!Next
  <2>1. Interrupts!SetINT(level)
    BY <1>1 DEF SetINT, Interrupts!SetINT
  <2> QED BY <2>1 DEF Interrupts!Next
<1>2. CASE NMI
  <2>1. Interrupts!NMI
    BY <1>2 DEF NMI, Interrupts!NMI
  <2> QED BY <2>1 DEF Interrupts!Next
<1>3. CASE Reset
  <2>1. Interrupts!Reset
    BY <1>3 DEF Reset, Interrupts!Reset, IInv, Shape
  <2> QED BY <2>1 DEF Interrupts!Next
<1>4. CASE SpecialReset
  <2>1. Interrupts!SpecialReset
    BY <1>4 DEF SpecialReset, Interrupts!SpecialReset, IInv, Shape
  <2> QED BY <2>1 DEF Interrupts!Next
<1> QED BY <1>1, <1>2, <1>3, <1>4 DEF Machine

LEMMA StepContract ==
  ASSUME IInv, [Next]_vars
  PROVE  [Interrupts!Next]_(Interrupts!vars)
<1> USE DEF Interrupts!vars
<1>1. CASE Machine
  BY <1>1, MachineContract
<1>2. CASE BeginStep
  BY <1>2, BeginContract
<1>3. CASE EI \/ DI \/ RETN \/ HALT
  BY <1>3, EffectContract
<1>4. CASE EndStep
  <2>1. doing # "idle"
    BY <1>4, EndFacts DEF IInv, Shape
  <2>2. Interrupts!Return
    BY <1>4, <2>1 DEF EndStep, Interrupts!Return, enables, lines
  <2> QED BY <2>2 DEF Interrupts!Next
<1>5. CASE Exec \/ NmiM1 \/ HaltM1 \/ IntAckM1 \/ Fetch8 \/ RunCycle
  BY <1>5 DEF Exec, FetchPrefix, FetchBase, FetchCB, FetchED, FetchPaged, Selector, NmiM1,
     HaltM1, IntAckM1, Fetch8, RunCycle, enables, lines, observe
<1>6. CASE Resolve \/ CacheDisp \/ SetF \/ LdR \/ SetIM \/ Jump
  BY <1>6 DEF Resolve, CacheDisp, SetF, LdR, SetIM, Jump, enables, lines, observe
<1>7. CASE UNCHANGED vars
  BY <1>7 DEF vars, enables, lines, observe
<1> QED BY <1>1, <1>2, <1>3, <1>4, <1>5, <1>6, <1>7 DEF Next, Step, Effect

(* The core implements Z80Interrupts: its M-cycles keep every promise that  *)
(* the comments of SetINT, NMI and Step make about interrupts.              *)
THEOREM ImplementsInterrupts == Spec => KeepsInterruptContract
BY InitContract, StepContract, Invariance, PTL
   DEF Spec, KeepsInterruptContract, Interrupts!Spec

----------------------------------------------------------------------------
(* The T-states of a Step.                                                  *)

(* The operations with a time of their own; the M1s, the last opcode byte   *)
(* of DDCB and the operations that depend on the index mode are the others. *)
Settled == DOMAIN Cycle \cup
  {"fetch8", "disp", "setF", "ldR", "IM0", "IM1", "IM2", "jump", "back",
   "toNMI", "toIM1", "EI", "DI", "RETN", "HALT", "end"}

Cost(op) == IF op \in DOMAIN Cycle THEN Cycle[op] ELSE IF op = "fetch8" THEN 3 ELSE 0

(* The T-states a sequence still takes.  No Step has more than eight        *)
(* operations ahead of it, so that the sum is an explicit one.              *)
CostAt(s, i) == IF i <= Len(s) THEN Cost(s[i]) ELSE 0
Left(s) == CostAt(s, 1) + CostAt(s, 2) + CostAt(s, 3) + CostAt(s, 4)
             + CostAt(s, 5) + CostAt(s, 6) + CostAt(s, 7) + CostAt(s, 8)

(* A schedule of n T-states, which the end of the Step may follow.          *)
Takes(s, n) == s \in Seq(Settled) /\ Len(s) <= 7 /\ Left(s) = n

(* The instructions that address (HL) or (IX+d), before they do.            *)
Addressing == [ld_r_m |-> <<"ea", "read", "end">>,
               ld_m_r |-> <<"ea", "write", "end">>,
               alu_m  |-> <<"ea", "read", "setF", "end">>,
               inc_m  |-> <<"ea", "read", "int1", "setF", "write", "end">>,
               ld_m_n |-> <<"ldmn", "end">>]

(* The time n opcode fetches take.                                          *)
FetchTime(n) == 4 * n + (IF im0 THEN 2 * n ELSE 0)

(* Until an instruction is dispatched, only its fetches have taken time. No *)
(* displacement is there yet, and a prefix in force is one that counts.     *)
FetchTimes ==
  /\ ~dispValid
  /\ todo = <<"opcode", "end">> => (idx = "HL" <=> pre = 0) /\ t = FetchTime(pre)
  /\ todo = <<"opcodeCB", "end">> => pre = 0 /\ t = FetchTime(1)
  /\ todo = <<"opcodeED", "end">> => t = FetchTime(pre + 1)
  /\ todo = <<"fetch8", "selector", "end">> => t = FetchTime(pre + 1)
  /\ todo = <<"selector", "end">> => t = FetchTime(pre + 1) + 3

Unresolved ==
  /\ ins \in DOMAIN Addressing /\ todo = Addressing[ins]
  /\ ~dispValid /\ (idx = "HL" <=> pre = 0) /\ t = FetchTime(pre + 1)

(* The time taken and the time left make up the documented time, from the   *)
(* moment the length of the Step is decided.                                *)
TimeInv ==
  /\ doing = "idle" => t = 0
  /\ todo \in {<<"nmiM1", "end">>, <<"ackM1", "end">>, <<"haltM1", "end">>} => t = 0
  /\ doing = "int" => im # 0
  /\ Executing /\ ins = "none" => FetchTimes
  /\ Executing /\ ins # "none" => todo \in Seq(Settled) \/ Unresolved
  /\ todo # <<>> /\ todo \in Seq(Settled) => Len(todo) <= 8 /\ Documented(t + Left(todo))

----------------------------------------------------------------------------
(* Sequences and the time they take.                                        *)

LEMMA Costs ==
  /\ Cost("read") = 3 /\ Cost("write") = 3 /\ Cost("io") = 4 /\ Cost("fetch8") = 3
  /\ Cost("ir1") = 1 /\ Cost("ir2") = 2 /\ Cost("ir7") = 7
  /\ Cost("int1") = 1 /\ Cost("int2") = 2 /\ Cost("int4") = 4 /\ Cost("int5") = 5
  /\ \A op \in {"disp", "setF", "ldR", "IM0", "IM1", "IM2", "jump", "back", "toNMI",
                "toIM1", "EI", "DI", "RETN", "HALT", "end"} : Cost(op) = 0
BY DEF Cost, Cycle

LEMMA CostType == \A op : Cost(op) \in Nat
BY CycleTime DEF Cost

LEMMA SettledNames ==
  Settled = {"read", "write", "io", "ir1", "ir2", "ir7", "int1", "int2", "int4", "int5",
             "fetch8", "disp", "setF", "ldR", "IM0", "IM1", "IM2", "jump", "back",
             "toNMI", "toIM1", "EI", "DI", "RETN", "HALT", "end"}
BY DEF Settled, Cycle

(* What an operation takes is what is left no more after it.                *)
LEMMA LeftTail ==
  ASSUME NEW s \in Seq(Settled), s # <<>>, Len(s) <= 8
  PROVE  /\ Head(s) \in Settled /\ Tail(s) \in Seq(Settled) /\ Len(Tail(s)) <= 7
         /\ Left(s) = Cost(Head(s)) + Left(Tail(s))
<1>. DEFINE rest == Tail(s)
<1>. DEFINE first == Cost(Head(s))
<1>1. Len(s) \in Nat /\ Len(s) >= 1
  BY EmptySeq
<1>2. /\ Head(s) \in Settled /\ rest \in Seq(Settled) /\ Len(rest) = Len(s) - 1
      /\ \A i \in 1 .. Len(rest) : rest[i] = s[i + 1]
  BY HeadTailProperties
<1>3. \A i \in 1 .. 7 : CostAt(rest, i) = CostAt(s, i + 1)
  BY <1>1, <1>2 DEF CostAt
<1>4. CostAt(s, 1) = first /\ CostAt(rest, 8) = 0
  BY <1>1, <1>2 DEF CostAt
<1>5. \A i : CostAt(s, i) \in Nat
  BY CostType DEF CostAt
<1>. HIDE DEF rest, first
<1>6. /\ CostAt(rest, 1) = CostAt(s, 2) /\ CostAt(rest, 2) = CostAt(s, 3)
      /\ CostAt(rest, 3) = CostAt(s, 4) /\ CostAt(rest, 4) = CostAt(s, 5)
      /\ CostAt(rest, 5) = CostAt(s, 6) /\ CostAt(rest, 6) = CostAt(s, 7)
      /\ CostAt(rest, 7) = CostAt(s, 8)
  BY <1>3
<1>7. /\ CostAt(s, 1) \in Nat /\ CostAt(s, 2) \in Nat /\ CostAt(s, 3) \in Nat
      /\ CostAt(s, 4) \in Nat /\ CostAt(s, 5) \in Nat /\ CostAt(s, 6) \in Nat
      /\ CostAt(s, 7) \in Nat /\ CostAt(s, 8) \in Nat
  BY <1>5
<1>8. Left(s) = first + Left(rest)
  <2>. SUFFICES ASSUME NEW a \in Nat, NEW b \in Nat, NEW c \in Nat, NEW d \in Nat,
                       NEW e \in Nat, NEW f \in Nat, NEW g \in Nat, NEW h \in Nat,
                       CostAt(s, 1) = a, CostAt(s, 2) = b, CostAt(s, 3) = c, CostAt(s, 4) = d,
                       CostAt(s, 5) = e, CostAt(s, 6) = f, CostAt(s, 7) = g, CostAt(s, 8) = h
                PROVE  Left(s) = first + Left(rest)
    BY <1>7
  <2>1. Left(s) = a + b + c + d + e + f + g + h
    BY DEF Left
  <2>2. Left(rest) = b + c + d + e + f + g + h + 0
    BY <1>4, <1>6 DEF Left
  <2>. QED
    BY <1>4, <2>1, <2>2
<1>. QED
  BY <1>1, <1>2, <1>8 DEF rest, first

(* A body and the end of the Step behind it take what the body takes.       *)
LEMMA LeftEnd ==
  ASSUME NEW s, NEW n, Takes(s, n)
  PROVE  /\ s \o <<"end">> \in Seq(Settled) /\ s \o <<"end">> # <<>>
         /\ Len(s \o <<"end">>) <= 8 /\ Left(s \o <<"end">>) = n
<1>. DEFINE u == s \o <<"end">>
<1>1. s \in Seq(Settled) /\ Len(s) \in Nat /\ Len(s) <= 7 /\ Left(s) = n
  BY DEF Takes
<1>2. <<"end">> \in Seq(Settled) /\ Len(<<"end">>) = 1 /\ <<"end">>[1] = "end"
  BY SettledNames
<1>3. /\ u \in Seq(Settled) /\ Len(u) = Len(s) + 1
      /\ \A i \in 1 .. Len(s) + 1 : u[i] = IF i <= Len(s) THEN s[i] ELSE <<"end">>[i - Len(s)]
  BY <1>1, <1>2, ConcatProperties
<1>. HIDE DEF u
<1>4. \A i \in 1 .. 8 : CostAt(u, i) = CostAt(s, i)
  BY <1>1, <1>2, <1>3, Costs DEF CostAt
<1>5. Left(u) = Left(s)
  BY <1>4 DEF Left
<1>6. u # <<>>
  BY <1>1, <1>3
<1>. QED
  BY <1>1, <1>3, <1>5, <1>6 DEF u

(* The time of a short schedule. *)
LEMMA TakesNothing == Takes(<<>>, 0)
BY DEF Takes, Left, CostAt

LEMMA Takes1 ==
  ASSUME NEW a \in Settled,
         NEW n \in Nat, n = Cost(a)
  PROVE  Takes(<<a>>, n)
<1>. DEFINE s == <<a>>
<1>1. s \in Seq(Settled) /\ Len(s) = 1
  OBVIOUS
<1>2. s[1] = a
  OBVIOUS
<1>. HIDE DEF s
<1>3. Left(s) = n
  BY <1>1, <1>2, CostType DEF Left, CostAt
<1>. QED
  BY <1>1, <1>3 DEF Takes, s

LEMMA Takes2 ==
  ASSUME NEW a \in Settled, NEW b \in Settled,
         NEW n \in Nat, n = Cost(a) + Cost(b)
  PROVE  Takes(<<a, b>>, n)
<1>. DEFINE s == <<a, b>>
<1>1. s \in Seq(Settled) /\ Len(s) = 2
  OBVIOUS
<1>2. s[1] = a /\ s[2] = b
  OBVIOUS
<1>. HIDE DEF s
<1>3. Left(s) = n
  BY <1>1, <1>2, CostType DEF Left, CostAt
<1>. QED
  BY <1>1, <1>3 DEF Takes, s

LEMMA Takes3 ==
  ASSUME NEW a \in Settled, NEW b \in Settled, NEW c \in Settled,
         NEW n \in Nat, n = Cost(a) + Cost(b) + Cost(c)
  PROVE  Takes(<<a, b, c>>, n)
<1>. DEFINE s == <<a, b, c>>
<1>1. s \in Seq(Settled) /\ Len(s) = 3
  OBVIOUS
<1>2. s[1] = a /\ s[2] = b /\ s[3] = c
  OBVIOUS
<1>. HIDE DEF s
<1>3. Left(s) = n
  BY <1>1, <1>2, CostType DEF Left, CostAt
<1>. QED
  BY <1>1, <1>3 DEF Takes, s

LEMMA Takes4 ==
  ASSUME NEW a \in Settled, NEW b \in Settled, NEW c \in Settled, NEW d \in Settled,
         NEW n \in Nat, n = Cost(a) + Cost(b) + Cost(c) + Cost(d)
  PROVE  Takes(<<a, b, c, d>>, n)
<1>. DEFINE s == <<a, b, c, d>>
<1>1. s \in Seq(Settled) /\ Len(s) = 4
  OBVIOUS
<1>2. s[1] = a /\ s[2] = b /\ s[3] = c /\ s[4] = d
  OBVIOUS
<1>. HIDE DEF s
<1>3. Left(s) = n
  BY <1>1, <1>2, CostType DEF Left, CostAt
<1>. QED
  BY <1>1, <1>3 DEF Takes, s

LEMMA Takes5 ==
  ASSUME NEW a \in Settled, NEW b \in Settled, NEW c \in Settled, NEW d \in Settled,
         NEW e \in Settled,
         NEW n \in Nat, n = Cost(a) + Cost(b) + Cost(c) + Cost(d) + Cost(e)
  PROVE  Takes(<<a, b, c, d, e>>, n)
<1>. DEFINE s == <<a, b, c, d, e>>
<1>1. s \in Seq(Settled) /\ Len(s) = 5
  OBVIOUS
<1>2. s[1] = a /\ s[2] = b /\ s[3] = c /\ s[4] = d /\ s[5] = e
  OBVIOUS
<1>. HIDE DEF s
<1>3. Left(s) = n
  BY <1>1, <1>2, CostType DEF Left, CostAt
<1>. QED
  BY <1>1, <1>3 DEF Takes, s

LEMMA Takes6 ==
  ASSUME NEW a \in Settled, NEW b \in Settled, NEW c \in Settled, NEW d \in Settled,
         NEW e \in Settled, NEW f \in Settled,
         NEW n \in Nat, n = Cost(a) + Cost(b) + Cost(c) + Cost(d) + Cost(e) + Cost(f)
  PROVE  Takes(<<a, b, c, d, e, f>>, n)
<1>. DEFINE s == <<a, b, c, d, e, f>>
<1>1. s \in Seq(Settled) /\ Len(s) = 6
  OBVIOUS
<1>2. s[1] = a /\ s[2] = b /\ s[3] = c /\ s[4] = d /\ s[5] = e /\ s[6] = f
  OBVIOUS
<1>. HIDE DEF s
<1>3. Left(s) = n
  BY <1>1, <1>2, CostType DEF Left, CostAt
<1>. QED
  BY <1>1, <1>3 DEF Takes, s

LEMMA Takes7 ==
  ASSUME NEW a \in Settled, NEW b \in Settled, NEW c \in Settled, NEW d \in Settled,
         NEW e \in Settled, NEW f \in Settled, NEW g \in Settled,
         NEW n \in Nat, n = Cost(a) + Cost(b) + Cost(c) + Cost(d) + Cost(e) + Cost(f) + Cost(g)
  PROVE  Takes(<<a, b, c, d, e, f, g>>, n)
<1>. DEFINE s == <<a, b, c, d, e, f, g>>
<1>1. s \in Seq(Settled) /\ Len(s) = 7
  OBVIOUS
<1>2. s[1] = a /\ s[2] = b /\ s[3] = c /\ s[4] = d /\ s[5] = e /\ s[6] = f /\ s[7] = g
  OBVIOUS
<1>. HIDE DEF s
<1>3. Left(s) = n
  BY <1>1, <1>2, CostType DEF Left, CostAt
<1>. QED
  BY <1>1, <1>3 DEF Takes, s
LEMMA SettledMembers ==
  /\ "read" \in Settled /\ "write" \in Settled /\ "io" \in Settled /\ "fetch8" \in Settled
  /\ "ir1" \in Settled /\ "ir2" \in Settled /\ "ir7" \in Settled
  /\ "int1" \in Settled /\ "int2" \in Settled /\ "int4" \in Settled /\ "int5" \in Settled
  /\ "disp" \in Settled /\ "setF" \in Settled /\ "ldR" \in Settled /\ "IM0" \in Settled
  /\ "IM1" \in Settled /\ "IM2" \in Settled /\ "jump" \in Settled /\ "back" \in Settled
  /\ "toNMI" \in Settled /\ "toIM1" \in Settled /\ "EI" \in Settled /\ "DI" \in Settled
  /\ "RETN" \in Settled /\ "HALT" \in Settled /\ "end" \in Settled
BY SettledNames

LEMMA CostNames ==
  /\ Cost("disp") = 0 /\ Cost("setF") = 0 /\ Cost("ldR") = 0 /\ Cost("IM0") = 0
  /\ Cost("IM1") = 0 /\ Cost("IM2") = 0 /\ Cost("jump") = 0 /\ Cost("back") = 0
  /\ Cost("toNMI") = 0 /\ Cost("toIM1") = 0 /\ Cost("EI") = 0 /\ Cost("DI") = 0
  /\ Cost("RETN") = 0 /\ Cost("HALT") = 0 /\ Cost("end") = 0
BY Costs

(* The schedules of four operations and more.                               *)
LEMMA LongSchedules ==
  /\ Takes(<<"fetch8", "fetch8", "read", "read">>, 12)
  /\ Takes(<<"fetch8", "fetch8", "write", "write">>, 12)
  /\ Takes(<<"ir1", "fetch8", "int5", "jump">>, 9)
  /\ Takes(<<"fetch8", "fetch8", "int1", "write", "write", "jump">>, 13)
  /\ Takes(<<"ir1", "read", "read", "jump">>, 7)
  /\ Takes(<<"ir1", "write", "write", "jump">>, 7)
  /\ Takes(<<"read", "read", "int1", "write", "write", "int2">>, 15)
  /\ Takes(<<"read", "int1", "setF", "write">>, 7)
  /\ Takes(<<"int2", "read", "int1", "setF", "write">>, 9)
  /\ Takes(<<"int2", "read", "int1", "setF">>, 6)
  /\ Takes(<<"int2", "read", "int1", "write">>, 9)
  /\ Takes(<<"RETN", "read", "read", "jump">>, 6)
  /\ Takes(<<"read", "int4", "write", "setF">>, 10)
  /\ Takes(<<"read", "write", "int2", "setF">>, 8)
  /\ Takes(<<"read", "write", "int2", "setF", "int5", "back", "setF">>, 13)
  /\ Takes(<<"read", "int5", "setF", "int5", "back", "setF">>, 13)
  /\ Takes(<<"ir1", "io", "write", "setF">>, 8)
  /\ Takes(<<"ir1", "io", "write", "setF", "int5", "back", "setF">>, 13)
  /\ Takes(<<"ir1", "read", "io", "setF">>, 8)
  /\ Takes(<<"ir1", "read", "io", "setF", "int5", "back", "setF">>, 13)
<1>1. Takes(<<"fetch8", "fetch8", "read", "read">>, 12)
  <2>1. 12 = Cost("fetch8") + Cost("fetch8") + Cost("read") + Cost("read")
    BY Costs, CostNames
  <2>. QED
    BY <2>1, Takes4, SettledMembers
<1>2. Takes(<<"fetch8", "fetch8", "write", "write">>, 12)
  <2>1. 12 = Cost("fetch8") + Cost("fetch8") + Cost("write") + Cost("write")
    BY Costs, CostNames
  <2>. QED
    BY <2>1, Takes4, SettledMembers
<1>3. Takes(<<"ir1", "fetch8", "int5", "jump">>, 9)
  <2>1. 9 = Cost("ir1") + Cost("fetch8") + Cost("int5") + Cost("jump")
    BY Costs, CostNames
  <2>. QED
    BY <2>1, Takes4, SettledMembers
<1>4. Takes(<<"fetch8", "fetch8", "int1", "write", "write", "jump">>, 13)
  <2>1. 13 = Cost("fetch8") + Cost("fetch8") + Cost("int1") + Cost("write")
               + Cost("write") + Cost("jump")
    BY Costs, CostNames
  <2>. QED
    BY <2>1, Takes6, SettledMembers
<1>5. Takes(<<"ir1", "read", "read", "jump">>, 7)
  <2>1. 7 = Cost("ir1") + Cost("read") + Cost("read") + Cost("jump")
    BY Costs, CostNames
  <2>. QED
    BY <2>1, Takes4, SettledMembers
<1>6. Takes(<<"ir1", "write", "write", "jump">>, 7)
  <2>1. 7 = Cost("ir1") + Cost("write") + Cost("write") + Cost("jump")
    BY Costs, CostNames
  <2>. QED
    BY <2>1, Takes4, SettledMembers
<1>7. Takes(<<"read", "read", "int1", "write", "write", "int2">>, 15)
  <2>1. 15 = Cost("read") + Cost("read") + Cost("int1") + Cost("write")
               + Cost("write") + Cost("int2")
    BY Costs, CostNames
  <2>. QED
    BY <2>1, Takes6, SettledMembers
<1>8. Takes(<<"read", "int1", "setF", "write">>, 7)
  <2>1. 7 = Cost("read") + Cost("int1") + Cost("setF") + Cost("write")
    BY Costs, CostNames
  <2>. QED
    BY <2>1, Takes4, SettledMembers
<1>9. Takes(<<"int2", "read", "int1", "setF", "write">>, 9)
  <2>1. 9 = Cost("int2") + Cost("read") + Cost("int1") + Cost("setF")
               + Cost("write")
    BY Costs, CostNames
  <2>. QED
    BY <2>1, Takes5, SettledMembers
<1>10. Takes(<<"int2", "read", "int1", "setF">>, 6)
  <2>1. 6 = Cost("int2") + Cost("read") + Cost("int1") + Cost("setF")
    BY Costs, CostNames
  <2>. QED
    BY <2>1, Takes4, SettledMembers
<1>11. Takes(<<"int2", "read", "int1", "write">>, 9)
  <2>1. 9 = Cost("int2") + Cost("read") + Cost("int1") + Cost("write")
    BY Costs, CostNames
  <2>. QED
    BY <2>1, Takes4, SettledMembers
<1>12. Takes(<<"RETN", "read", "read", "jump">>, 6)
  <2>1. 6 = Cost("RETN") + Cost("read") + Cost("read") + Cost("jump")
    BY Costs, CostNames
  <2>. QED
    BY <2>1, Takes4, SettledMembers
<1>13. Takes(<<"read", "int4", "write", "setF">>, 10)
  <2>1. 10 = Cost("read") + Cost("int4") + Cost("write") + Cost("setF")
    BY Costs, CostNames
  <2>. QED
    BY <2>1, Takes4, SettledMembers
<1>14. Takes(<<"read", "write", "int2", "setF">>, 8)
  <2>1. 8 = Cost("read") + Cost("write") + Cost("int2") + Cost("setF")
    BY Costs, CostNames
  <2>. QED
    BY <2>1, Takes4, SettledMembers
<1>15. Takes(<<"read", "write", "int2", "setF", "int5", "back", "setF">>, 13)
  <2>1. 13 = Cost("read") + Cost("write") + Cost("int2") + Cost("setF")
               + Cost("int5") + Cost("back") + Cost("setF")
    BY Costs, CostNames
  <2>. QED
    BY <2>1, Takes7, SettledMembers
<1>16. Takes(<<"read", "int5", "setF", "int5", "back", "setF">>, 13)
  <2>1. 13 = Cost("read") + Cost("int5") + Cost("setF") + Cost("int5")
               + Cost("back") + Cost("setF")
    BY Costs, CostNames
  <2>. QED
    BY <2>1, Takes6, SettledMembers
<1>17. Takes(<<"ir1", "io", "write", "setF">>, 8)
  <2>1. 8 = Cost("ir1") + Cost("io") + Cost("write") + Cost("setF")
    BY Costs, CostNames
  <2>. QED
    BY <2>1, Takes4, SettledMembers
<1>18. Takes(<<"ir1", "io", "write", "setF", "int5", "back", "setF">>, 13)
  <2>1. 13 = Cost("ir1") + Cost("io") + Cost("write") + Cost("setF")
               + Cost("int5") + Cost("back") + Cost("setF")
    BY Costs, CostNames
  <2>. QED
    BY <2>1, Takes7, SettledMembers
<1>19. Takes(<<"ir1", "read", "io", "setF">>, 8)
  <2>1. 8 = Cost("ir1") + Cost("read") + Cost("io") + Cost("setF")
    BY Costs, CostNames
  <2>. QED
    BY <2>1, Takes4, SettledMembers
<1>20. Takes(<<"ir1", "read", "io", "setF", "int5", "back", "setF">>, 13)
  <2>1. 13 = Cost("ir1") + Cost("read") + Cost("io") + Cost("setF")
               + Cost("int5") + Cost("back") + Cost("setF")
    BY Costs, CostNames
  <2>. QED
    BY <2>1, Takes7, SettledMembers
<1>. QED
  BY <1>1, <1>2, <1>3, <1>4, <1>5, <1>6, <1>7, <1>8, <1>9, <1>10, <1>11, <1>12, <1>13, <1>14,
     <1>15, <1>16, <1>17, <1>18, <1>19, <1>20

(* The unprefixed page: the documented T-states but for the 4 of its fetches.*)
LEMMA BaseBodyTakes ==
  \A c \in (DOMAIN BaseBody \ DOMAIN Addressing) : Takes(BaseBody[c], DocT[c] - 4)
<1>1. DOMAIN BaseBody \ DOMAIN Addressing =
        {"ld_r_r", "alu_r", "scf", "ld_r_n", "alu_n", "ld_dd_nn", "ld_a_rr",
         "ld_rr_a", "ld_a_nn", "ld_nn_a", "ld_hl_nn", "ld_nn_hl", "inc_ss", "add_hl",
         "jp", "jp_hl", "jr", "jr_no", "djnz", "djnz_no", "call", "ret", "ret_cc",
         "ret_cc_no", "rst", "push", "pop", "ex_sp", "io_n", "halt", "di", "ei"}
  BY DEF BaseBody, Addressing
<1>2. /\ BaseBody.ld_r_r = <<>>
      /\ BaseBody.alu_r = <<"setF">>
      /\ BaseBody.scf = <<"setF">>
      /\ BaseBody.ld_r_n = <<"fetch8">>
      /\ BaseBody.alu_n = <<"fetch8", "setF">>
  BY DEF BaseBody
<1>3. /\ Takes(BaseBody.ld_r_r, 0)
      /\ Takes(BaseBody.alu_r, 0)
      /\ Takes(BaseBody.scf, 0)
      /\ Takes(BaseBody.ld_r_n, 3)
      /\ Takes(BaseBody.alu_n, 3)
  BY <1>2, Takes1, Takes2, TakesNothing, Costs, CostNames, SettledMembers
<1>4. /\ BaseBody.ld_dd_nn = <<"fetch8", "fetch8">>
      /\ BaseBody.ld_a_rr = <<"read">>
      /\ BaseBody.ld_rr_a = <<"write">>
      /\ BaseBody.ld_a_nn = <<"fetch8", "fetch8", "read">>
      /\ BaseBody.ld_nn_a = <<"fetch8", "fetch8", "write">>
  BY DEF BaseBody
<1>5. /\ Takes(BaseBody.ld_dd_nn, 6)
      /\ Takes(BaseBody.ld_a_rr, 3)
      /\ Takes(BaseBody.ld_rr_a, 3)
      /\ Takes(BaseBody.ld_a_nn, 9)
      /\ Takes(BaseBody.ld_nn_a, 9)
  BY <1>4, Takes1, Takes2, Takes3, Costs, CostNames, SettledMembers
<1>6. /\ BaseBody.inc_ss = <<"ir2">>
      /\ BaseBody.add_hl = <<"ir7", "setF">>
      /\ BaseBody.jp = <<"fetch8", "fetch8", "jump">>
      /\ BaseBody.jp_hl = <<"jump">>
      /\ BaseBody.jr = <<"fetch8", "int5", "jump">>
  BY DEF BaseBody
<1>7. /\ Takes(BaseBody.inc_ss, 2)
      /\ Takes(BaseBody.add_hl, 7)
      /\ Takes(BaseBody.jp, 6)
      /\ Takes(BaseBody.jp_hl, 0)
      /\ Takes(BaseBody.jr, 8)
  BY <1>6, Takes1, Takes2, Takes3, Costs, CostNames, SettledMembers
<1>8. /\ BaseBody.jr_no = <<"fetch8">>
      /\ BaseBody.djnz_no = <<"ir1", "fetch8">>
      /\ BaseBody.ret = <<"read", "read", "jump">>
      /\ BaseBody.ret_cc_no = <<"ir1">>
      /\ BaseBody.push = <<"ir1", "write", "write">>
  BY DEF BaseBody
<1>9. /\ Takes(BaseBody.jr_no, 3)
      /\ Takes(BaseBody.djnz_no, 4)
      /\ Takes(BaseBody.ret, 6)
      /\ Takes(BaseBody.ret_cc_no, 1)
      /\ Takes(BaseBody.push, 7)
  BY <1>8, Takes1, Takes2, Takes3, Costs, CostNames, SettledMembers
<1>10. /\ BaseBody.pop = <<"read", "read">>
      /\ BaseBody.io_n = <<"fetch8", "io">>
      /\ BaseBody.halt = <<"HALT">>
      /\ BaseBody.di = <<"DI">>
      /\ BaseBody.ei = <<"EI">>
  BY DEF BaseBody
<1>11. /\ Takes(BaseBody.pop, 6)
      /\ Takes(BaseBody.io_n, 7)
      /\ Takes(BaseBody.halt, 0)
      /\ Takes(BaseBody.di, 0)
      /\ Takes(BaseBody.ei, 0)
  BY <1>10, Takes1, Takes2, Costs, CostNames, SettledMembers
<1>12. /\ BaseBody.ld_hl_nn = <<"fetch8", "fetch8", "read", "read">>
      /\ BaseBody.ld_nn_hl = <<"fetch8", "fetch8", "write", "write">>
      /\ BaseBody.djnz = <<"ir1", "fetch8", "int5", "jump">>
      /\ BaseBody.call = <<"fetch8", "fetch8", "int1", "write", "write", "jump">>
  BY DEF BaseBody
<1>13. /\ Takes(BaseBody.ld_hl_nn, 12)
      /\ Takes(BaseBody.ld_nn_hl, 12)
      /\ Takes(BaseBody.djnz, 9)
      /\ Takes(BaseBody.call, 13)
  BY <1>12, LongSchedules
<1>14. /\ BaseBody.ret_cc = <<"ir1", "read", "read", "jump">>
      /\ BaseBody.rst = <<"ir1", "write", "write", "jump">>
      /\ BaseBody.ex_sp = <<"read", "read", "int1", "write", "write", "int2">>
  BY DEF BaseBody
<1>15. /\ Takes(BaseBody.ret_cc, 7)
      /\ Takes(BaseBody.rst, 7)
      /\ Takes(BaseBody.ex_sp, 15)
  BY <1>14, LongSchedules
<1>16. /\ DocT.ld_r_r = 4 /\ DocT.alu_r = 4 /\ DocT.scf = 4 /\ DocT.ld_r_n = 7
      /\ DocT.alu_n = 7 /\ DocT.ld_dd_nn = 10 /\ DocT.ld_a_rr = 7 /\ DocT.ld_rr_a = 7
      /\ DocT.ld_a_nn = 13 /\ DocT.ld_nn_a = 13 /\ DocT.ld_hl_nn = 16 /\ DocT.ld_nn_hl = 16
      /\ DocT.inc_ss = 6 /\ DocT.add_hl = 11 /\ DocT.jp = 10 /\ DocT.jp_hl = 4
      /\ DocT.jr = 12 /\ DocT.jr_no = 7 /\ DocT.djnz = 13 /\ DocT.djnz_no = 8
      /\ DocT.call = 17 /\ DocT.ret = 10 /\ DocT.ret_cc = 11 /\ DocT.ret_cc_no = 5
      /\ DocT.rst = 11 /\ DocT.push = 11 /\ DocT.pop = 10 /\ DocT.ex_sp = 19
      /\ DocT.io_n = 11 /\ DocT.halt = 4 /\ DocT.di = 4 /\ DocT.ei = 4
  BY DEF DocT
<1>. QED
  BY <1>1, <1>3, <1>5, <1>7, <1>9, <1>11, <1>13, <1>15, <1>16

(* The CB page: the documented T-states but for the 8 of its fetches.       *)
LEMMA CBBodyTakes ==
  \A c \in DOMAIN CBBody : Takes(CBBody[c], DocT[c] - 8)
<1>1. DOMAIN CBBody =
        {"cb_rot_r", "cb_set_r", "cb_rot_m", "cb_bit_m", "cb_set_m"}
  BY DEF CBBody
<1>2. /\ CBBody.cb_rot_r = <<"setF">>
      /\ CBBody.cb_set_r = <<>>
      /\ CBBody.cb_bit_m = <<"read", "int1", "setF">>
      /\ CBBody.cb_set_m = <<"read", "int1", "write">>
  BY DEF CBBody
<1>3. /\ Takes(CBBody.cb_rot_r, 0)
      /\ Takes(CBBody.cb_set_r, 0)
      /\ Takes(CBBody.cb_bit_m, 4)
      /\ Takes(CBBody.cb_set_m, 7)
  BY <1>2, Takes1, Takes3, TakesNothing, Costs, CostNames, SettledMembers
<1>4. /\ CBBody.cb_rot_m = <<"read", "int1", "setF", "write">>
  BY DEF CBBody
<1>5. /\ Takes(CBBody.cb_rot_m, 7)
  BY <1>4, LongSchedules
<1>6. /\ DocT.cb_rot_r = 8 /\ DocT.cb_set_r = 8 /\ DocT.cb_rot_m = 15 /\ DocT.cb_bit_m = 12
      /\ DocT.cb_set_m = 15
  BY DEF DocT
<1>. QED
  BY <1>1, <1>3, <1>5, <1>6

(* The DDCB and FDCB pages: the documented T-states but for the 10 of its fetches.*)
LEMMA XCBBodyTakes ==
  \A c \in DOMAIN XCBBody : Takes(XCBBody[c], DocT[c] - 10)
<1>1. DOMAIN XCBBody =
        {"xcb_rot", "xcb_bit", "xcb_set"}
  BY DEF XCBBody
<1>2. /\ XCBBody.xcb_rot = <<"int2", "read", "int1", "setF", "write">>
      /\ XCBBody.xcb_bit = <<"int2", "read", "int1", "setF">>
      /\ XCBBody.xcb_set = <<"int2", "read", "int1", "write">>
  BY DEF XCBBody
<1>3. /\ Takes(XCBBody.xcb_rot, 9)
      /\ Takes(XCBBody.xcb_bit, 6)
      /\ Takes(XCBBody.xcb_set, 9)
  BY <1>2, LongSchedules
<1>4. /\ DocT.xcb_rot = 19 /\ DocT.xcb_bit = 16 /\ DocT.xcb_set = 19
  BY DEF DocT
<1>. QED
  BY <1>1, <1>3, <1>4

(* The ED page: the documented T-states but for the 8 of its fetches.       *)
LEMMA EDBodyTakes ==
  \A c \in DOMAIN EDBody : Takes(EDBody[c], DocT[c] - 8)
<1>1. DOMAIN EDBody =
        {"ed_nop", "in_r_c", "out_c_r", "sbc_hl", "ld_nn_dd", "ld_dd_ind", "neg",
         "retn", "im_0", "im_1", "im_2", "ld_i_a", "ld_r_a", "ld_a_i", "rrd", "ldi",
         "ldir", "cpi", "cpir", "ini", "inir", "outi", "otir"}
  BY DEF EDBody
<1>2. /\ EDBody.ed_nop = <<>>
      /\ EDBody.in_r_c = <<"io", "setF">>
      /\ EDBody.out_c_r = <<"io">>
      /\ EDBody.sbc_hl = <<"ir7", "setF">>
      /\ EDBody.neg = <<"setF">>
  BY DEF EDBody
<1>3. /\ Takes(EDBody.ed_nop, 0)
      /\ Takes(EDBody.in_r_c, 4)
      /\ Takes(EDBody.out_c_r, 4)
      /\ Takes(EDBody.sbc_hl, 7)
      /\ Takes(EDBody.neg, 0)
  BY <1>2, Takes1, Takes2, TakesNothing, Costs, CostNames, SettledMembers
<1>4. /\ EDBody.im_0 = <<"IM0">>
      /\ EDBody.im_1 = <<"IM1">>
      /\ EDBody.im_2 = <<"IM2">>
      /\ EDBody.ld_i_a = <<"ir1">>
      /\ EDBody.ld_r_a = <<"ir1", "ldR">>
  BY DEF EDBody
<1>5. /\ Takes(EDBody.im_0, 0)
      /\ Takes(EDBody.im_1, 0)
      /\ Takes(EDBody.im_2, 0)
      /\ Takes(EDBody.ld_i_a, 1)
      /\ Takes(EDBody.ld_r_a, 1)
  BY <1>4, Takes1, Takes2, Costs, CostNames, SettledMembers
<1>6. /\ EDBody.ld_a_i = <<"ir1", "setF">>
      /\ EDBody.cpi = <<"read", "int5", "setF">>
  BY DEF EDBody
<1>7. /\ Takes(EDBody.ld_a_i, 1)
      /\ Takes(EDBody.cpi, 8)
  BY <1>6, Takes2, Takes3, Costs, CostNames, SettledMembers
<1>8. /\ EDBody.ld_nn_dd = <<"fetch8", "fetch8", "write", "write">>
      /\ EDBody.ld_dd_ind = <<"fetch8", "fetch8", "read", "read">>
      /\ EDBody.retn = <<"RETN", "read", "read", "jump">>
      /\ EDBody.rrd = <<"read", "int4", "write", "setF">>
  BY DEF EDBody
<1>9. /\ Takes(EDBody.ld_nn_dd, 12)
      /\ Takes(EDBody.ld_dd_ind, 12)
      /\ Takes(EDBody.retn, 6)
      /\ Takes(EDBody.rrd, 10)
  BY <1>8, LongSchedules
<1>10. /\ EDBody.ldi = <<"read", "write", "int2", "setF">>
      /\ EDBody.ldir = <<"read", "write", "int2", "setF", "int5", "back", "setF">>
      /\ EDBody.cpir = <<"read", "int5", "setF", "int5", "back", "setF">>
      /\ EDBody.ini = <<"ir1", "io", "write", "setF">>
  BY DEF EDBody
<1>11. /\ Takes(EDBody.ldi, 8)
      /\ Takes(EDBody.ldir, 13)
      /\ Takes(EDBody.cpir, 13)
      /\ Takes(EDBody.ini, 8)
  BY <1>10, LongSchedules
<1>12. /\ EDBody.inir = <<"ir1", "io", "write", "setF", "int5", "back", "setF">>
      /\ EDBody.outi = <<"ir1", "read", "io", "setF">>
      /\ EDBody.otir = <<"ir1", "read", "io", "setF", "int5", "back", "setF">>
  BY DEF EDBody
<1>13. /\ Takes(EDBody.inir, 13)
      /\ Takes(EDBody.outi, 8)
      /\ Takes(EDBody.otir, 13)
  BY <1>12, LongSchedules
<1>14. /\ DocT.ed_nop = 8 /\ DocT.in_r_c = 12 /\ DocT.out_c_r = 12 /\ DocT.sbc_hl = 15
      /\ DocT.ld_nn_dd = 20 /\ DocT.ld_dd_ind = 20 /\ DocT.neg = 8 /\ DocT.retn = 14
      /\ DocT.im_0 = 8 /\ DocT.im_1 = 8 /\ DocT.im_2 = 8 /\ DocT.ld_i_a = 9
      /\ DocT.ld_r_a = 9 /\ DocT.ld_a_i = 9 /\ DocT.rrd = 18 /\ DocT.ldi = 16
      /\ DocT.ldir = 21 /\ DocT.cpi = 16 /\ DocT.cpir = 21 /\ DocT.ini = 16
      /\ DocT.inir = 21 /\ DocT.outi = 16 /\ DocT.otir = 21
  BY DEF DocT
<1>. QED
  BY <1>1, <1>3, <1>5, <1>7, <1>9, <1>11, <1>13, <1>14

LEMMA RestsTake ==
  /\ Takes(NmiRest, 7) /\ Takes(Im1Rest, 7) /\ Takes(Im2Rest, 13) /\ Takes(<<"end">>, 0)
<1>1. Takes(NmiRest, 7)
  <2>1. 7 = Cost("ir1") + Cost("write") + Cost("write") + Cost("toNMI") + Cost("end")
    BY Costs, CostNames
  <2>. QED
    BY <2>1, Takes5, SettledMembers DEF NmiRest
<1>2. Takes(Im1Rest, 7)
  <2>1. 7 = Cost("int1") + Cost("write") + Cost("write") + Cost("toIM1") + Cost("end")
    BY Costs, CostNames
  <2>. QED
    BY <2>1, Takes5, SettledMembers DEF Im1Rest
<1>3. Takes(Im2Rest, 13)
  <2>1. 13 = Cost("ir1") + Cost("write") + Cost("write") + Cost("read")
               + Cost("read") + Cost("jump") + Cost("end")
    BY Costs, CostNames
  <2>. QED
    BY <2>1, Takes7, SettledMembers DEF Im2Rest
<1>4. Takes(<<"end">>, 0)
  BY Takes1, CostNames, SettledMembers
<1>. QED
  BY <1>1, <1>2, <1>3, <1>4

(* What follows the address of an instruction that has one, and the fetch   *)
(* of a displacement before it.                                             *)
LEMMA AddressedTake ==
  /\ Takes(<<"read", "end">>, 3) /\ Takes(<<"write", "end">>, 3)
  /\ Takes(<<"read", "setF", "end">>, 3)
  /\ Takes(<<"read", "int1", "setF", "write", "end">>, 7)
  /\ Takes(<<"fetch8", "write">>, 6) /\ Takes(<<"fetch8", "fetch8", "int2", "write">>, 11)
<1>1. /\ Takes(<<"read", "end">>, 3) /\ Takes(<<"write", "end">>, 3)
      /\ Takes(<<"read", "setF", "end">>, 3) /\ Takes(<<"fetch8", "write">>, 6)
  BY Takes2, Takes3, Costs, CostNames, SettledMembers
<1>2. Takes(<<"read", "int1", "setF", "write", "end">>, 7)
  <2>1. 7 = Cost("read") + Cost("int1") + Cost("setF") + Cost("write") + Cost("end")
    BY Costs, CostNames
  <2>. QED
    BY <2>1, Takes5, SettledMembers
<1>3. Takes(<<"fetch8", "fetch8", "int2", "write">>, 11)
  <2>1. 11 = Cost("fetch8") + Cost("fetch8") + Cost("int2") + Cost("write")
    BY Costs, CostNames
  <2>. QED
    BY <2>1, Takes4, SettledMembers
<1>. QED
  BY <1>1, <1>2, <1>3

LEMMA LeftAfterDisp ==
  ASSUME NEW s \in Seq(Settled), Len(s) <= 5
  PROVE  LET u == <<"fetch8", "int5", "disp">> \o s
         IN  /\ u \in Seq(Settled) /\ u # <<>> /\ Len(u) <= 8 /\ Left(u) = 8 + Left(s)
<1>. DEFINE b == <<"fetch8", "int5", "disp">>
<1>. DEFINE u == b \o s
<1>1. b \in Seq(Settled) /\ Len(b) = 3 /\ b[1] = "fetch8" /\ b[2] = "int5" /\ b[3] = "disp"
  BY SettledMembers
<1>. HIDE DEF b
<1>2. /\ u \in Seq(Settled) /\ Len(u) = 3 + Len(s) /\ Len(s) \in Nat
      /\ \A i \in 1 .. 3 + Len(s) : u[i] = IF i <= 3 THEN b[i] ELSE s[i - 3]
  <2>1. /\ u \in Seq(Settled) /\ Len(u) = Len(b) + Len(s)
        /\ \A i \in 1 .. Len(b) + Len(s) : u[i] = IF i <= Len(b) THEN b[i] ELSE s[i - Len(b)]
    BY <1>1, ConcatProperties
  <2>. QED
    BY <1>1, <2>1
<1>. HIDE DEF u
<1>3. /\ CostAt(u, 1) = 3 /\ CostAt(u, 2) = 5 /\ CostAt(u, 3) = 0
      /\ CostAt(s, 6) = 0 /\ CostAt(s, 7) = 0 /\ CostAt(s, 8) = 0
  BY <1>1, <1>2, Costs, CostNames DEF CostAt
<1>4. \A i \in 4 .. 8 : CostAt(u, i) = CostAt(s, i - 3)
  BY <1>2 DEF CostAt
<1>5. /\ CostAt(u, 4) = CostAt(s, 1) /\ CostAt(u, 5) = CostAt(s, 2)
      /\ CostAt(u, 6) = CostAt(s, 3) /\ CostAt(u, 7) = CostAt(s, 4)
      /\ CostAt(u, 8) = CostAt(s, 5)
  BY <1>4
<1>6. \A i : CostAt(s, i) \in Nat
  BY CostType DEF CostAt
<1>7. Left(u) = 8 + Left(s)
  <2>. SUFFICES ASSUME NEW c \in Nat, NEW d \in Nat, NEW e \in Nat, NEW f \in Nat, NEW g \in Nat,
                       CostAt(s, 1) = c, CostAt(s, 2) = d, CostAt(s, 3) = e,
                       CostAt(s, 4) = f, CostAt(s, 5) = g
                PROVE  Left(u) = 8 + Left(s)
    BY <1>6
  <2>1. Left(u) = 3 + 5 + 0 + c + d + e + f + g
    BY <1>3, <1>5 DEF Left
  <2>2. Left(s) = c + d + e + f + g + 0 + 0 + 0
    BY <1>3 DEF Left
  <2>. QED
    BY <2>1, <2>2
<1>8. u # <<>>
  BY <1>2
<1>. QED
  BY <1>2, <1>7, <1>8 DEF u, b

(* A sequence of settled operations starts with one.                        *)
LEMMA SettledHead ==
  ASSUME NEW s \in Seq(Settled), s # <<>>
  PROVE  Head(s) \in Settled
BY HeadTailProperties

LEMMA NotSettled ==
  {"opcode", "opcodeCB", "opcodeED", "selector", "nmiM1", "haltM1", "ackM1", "ea", "ldmn"}
    \cap Settled = {}
BY SettledNames

LEMMA LeftType == \A s : Left(s) \in Nat
<1>1. \A s, i : CostAt(s, i) \in Nat
  BY CostType DEF CostAt
<1>. QED
  BY <1>1 DEF Left

----------------------------------------------------------------------------
(* The time taken and the time left, action by action.                      *)

(* What TimeInv says of one Step ahead, for actions that decide its length. *)
LEMMA SettledStart ==
  ASSUME doing' # "idle", todo' \in Seq(Settled), todo' # <<>>, Len(todo') <= 8,
         Documented(t + Left(todo))', doing' = "int" => im' # 0,
         doing' \in {"instr", "inject"} => ins' # "none"
  PROVE  TimeInv'
<1>1. todo' \notin {<<"nmiM1", "end">>, <<"ackM1", "end">>, <<"haltM1", "end">>}
  BY SettledHead, NotSettled
<1>. QED
  BY <1>1 DEF TimeInv, Executing

LEMMA SameTime ==
  ASSUME TimeInv, UNCHANGED <<todo, t, doing, ins, pre, im, idx, dispValid, im0>>
  PROVE  TimeInv'
BY DEF TimeInv, Executing, FetchTimes, Unresolved, FetchTime, Documented, InstrTime, Indexed,
       M1Count

(* Until it runs an instruction, a Step has a settled length after its M1.  *)
LEMMA ServiceSettled ==
  ASSUME TypeOK, Shape, todo # <<>>, Head(todo) \in Settled, ~Executing
  PROVE  todo \in Seq(Settled)
<1>1. doing \in {"nmi", "int", "halt"}
  BY NamedValues DEF TypeOK, Shape, Executing
<1>2. CASE doing = "nmi"
  <2>1. todo \in NmiTodo \ {<<"nmiM1", "end">>}
    BY <1>2, NotSettled DEF Shape
  <2>2. /\ <<"ir1", "write", "write", "toNMI", "end">> \in Seq(Settled)
        /\ <<"write", "write", "toNMI", "end">> \in Seq(Settled)
        /\ <<"write", "toNMI", "end">> \in Seq(Settled)
        /\ <<"toNMI", "end">> \in Seq(Settled) /\ <<"end">> \in Seq(Settled)
    BY SettledMembers
  <2>. QED
    BY <2>1, <2>2 DEF NmiTodo
<1>3. CASE doing = "int"
  <2>1. todo \in IntTodo \ {<<"ackM1", "end">>}
    BY <1>3, NotSettled DEF Shape
  <2>2. /\ <<"int1", "write", "write", "toIM1", "end">> \in Seq(Settled)
        /\ <<"write", "write", "toIM1", "end">> \in Seq(Settled)
        /\ <<"write", "toIM1", "end">> \in Seq(Settled)
        /\ <<"toIM1", "end">> \in Seq(Settled)
    BY SettledMembers
  <2>3. /\ <<"ir1", "write", "write", "read", "read", "jump", "end">> \in Seq(Settled)
        /\ <<"write", "write", "read", "read", "jump", "end">> \in Seq(Settled)
        /\ <<"write", "read", "read", "jump", "end">> \in Seq(Settled)
        /\ <<"read", "read", "jump", "end">> \in Seq(Settled)
    BY SettledMembers
  <2>4. /\ <<"read", "jump", "end">> \in Seq(Settled)
        /\ <<"jump", "end">> \in Seq(Settled) /\ <<"end">> \in Seq(Settled)
    BY SettledMembers
  <2>. QED
    BY <2>1, <2>2, <2>3, <2>4 DEF IntTodo
<1>4. CASE doing = "halt"
  <2>1. todo = <<"end">>
    BY <1>4, NotSettled DEF Shape, HaltTodo
  <2>. QED
    BY <2>1, SettledMembers
<1>. QED
  BY <1>1, <1>2, <1>3, <1>4

(* An operation that leaves the head of todo and takes its time.            *)
LEMMA DoneTime ==
  ASSUME TypeOK, Shape, TimeInv, todo # <<>>, Head(todo) \in Settled \ {"end"}, Done,
         t' = t + Cost(Head(todo)), UNCHANGED <<doing, ins, pre, im0, idx>>,
         im' = im \/ Executing, dispValid' = dispValid \/ Head(todo) # "fetch8",
         Tail(todo) # <<>>
  PROVE  TimeInv'
<1>1. CASE Executing /\ ins = "none"
  <2>1. todo \in Selecting /\ Head(todo) = "fetch8"
    BY <1>1, FetchingShape, SelectingShape, NotSettled DEF Shape, InstrTodo, Executing
  <2>2. todo = <<"fetch8", "selector", "end">>
    BY <2>1 DEF Selecting
  <2>3. todo' = <<"selector", "end">> /\ ~dispValid' /\ t' = FetchTime(pre + 1)' + 3
    BY <1>1, <2>1, <2>2, Costs DEF Done, TimeInv, FetchTimes, FetchTime
  <2>4. todo' \notin Seq(Settled)
    BY <2>3, SettledHead, NotSettled
  <2>. QED
    BY <1>1, <2>3, <2>4 DEF TimeInv, Executing, FetchTimes
<1>2. CASE ~(Executing /\ ins = "none")
  <2>1. todo \in Seq(Settled)
    <3>1. CASE Executing
      <4>1. ~Unresolved
        BY NotSettled DEF Unresolved, Addressing
      <4>. QED
        BY <1>2, <3>1, <4>1 DEF TimeInv
    <3>2. CASE ~Executing
      BY <3>2, ServiceSettled
    <3>. QED
      BY <3>1, <3>2
  <2>2. /\ Len(todo) <= 8 /\ Documented(t + Left(todo))
        /\ doing = "int" => im # 0
    BY <2>1 DEF TimeInv
  <2>3. /\ todo' \in Seq(Settled) /\ Len(todo') <= 7 /\ todo' # <<>>
        /\ Left(todo) = Cost(Head(todo)) + Left(todo')
    BY <2>1, <2>2, LeftTail DEF Done
  <2>4. t + Left(todo) = t' + Left(todo')
    BY <2>3, LeftType, CostType DEF TypeOK
  <2>5. Documented(t + Left(todo))'
    BY <2>2, <2>4 DEF Documented, InstrTime, Indexed, M1Count, Executing
  <2>6. Len(todo') <= 8 /\ doing' # "idle" /\ (doing' = "int" => im' # 0)
    BY <2>1, <2>2, <2>3 DEF Shape, Executing
  <2>7. doing' \in {"instr", "inject"} => ins' # "none"
    BY <1>2 DEF Executing
  <2>. QED
    BY <2>3, <2>5, <2>6, <2>7, SettledStart
<1>. QED
  BY <1>1, <1>2

(* What a dispatched instruction still takes, after n fetches and the m     *)
(* T-states of operands read on the way.                                    *)
LEMMA InstrStart ==
  ASSUME InjectionEnds', Executing', NEW c, NEW body, NEW n \in Nat, ins' = c,
         c \notin DOMAIN DispT, DocT[c] \in Nat, pre' \in Nat,
         Takes(body, DocT[c] - n), todo' = body \o <<"end">>,
         t' + (DocT[c] - n)
           = DocT[c] + 4 * pre' + (IF im0' THEN 2 * M1Count' ELSE 0), c # "none"
  PROVE  TimeInv'
<1>1. /\ todo' \in Seq(Settled) /\ todo' # <<>> /\ Len(todo') <= 8
      /\ Left(todo') = DocT[c] - n
  BY LeftEnd
<1>2. Indexed' = 0 /\ InstrTime' = DocT[c] + 4 * pre' + 0
  BY DEF Indexed, InstrTime
<1>. DEFINE time == DocT[c]
<1>. HIDE DEF time
<1>3. /\ doing' = "instr"  => t' + Left(todo') = InstrTime'
      /\ doing' = "inject" => t' + Left(todo') = InstrTime' + 2 * M1Count'
  <2>1. im0' <=> doing' = "inject"
    BY DEF InjectionEnds
  <2>. QED
    BY <1>1, <1>2, <2>1 DEF M1Count
<1>4. Documented(t + Left(todo))'
  BY <1>3 DEF Documented, Executing
<1>. QED
  BY <1>1, <1>4, SettledStart DEF Executing

LEMMA PageNames ==
  /\ DOMAIN DispT = DOMAIN Addressing
  /\ DOMAIN CBBody \cap (DOMAIN BaseBody \cup DOMAIN XCBBody \cup {"none"}) = {}
  /\ DOMAIN EDBody \cap (DOMAIN BaseBody \cup DOMAIN XCBBody \cup {"none"}) = {}
  /\ DOMAIN DispT \cap (DOMAIN CBBody \cup DOMAIN XCBBody \cup DOMAIN EDBody \cup {"none"}) = {}
  /\ "none" \notin DOMAIN XCBBody
BY DEF DispT, Addressing, BaseBody, CBBody, XCBBody, EDBody

LEMMA DocTType ==
  \A c \in DOMAIN BaseBody \cup DOMAIN CBBody \cup DOMAIN XCBBody \cup DOMAIN EDBody :
    DocT[c] \in Nat
BY DEF DocT, BaseBody, CBBody, XCBBody, EDBody

(* The state in which an opcode of the first page is fetched.               *)
LEMMA AtOpcode ==
  ASSUME TypeOK, Shape, TimeInv, At("opcode")
  PROVE  /\ Executing /\ ins = "none" /\ todo = <<"opcode", "end">> /\ ~dispValid
         /\ (idx = "HL" <=> pre = 0) /\ t = FetchTime(pre) /\ Tail(todo) = <<"end">>
<1>1. Executing /\ ins = "none"
  BY Where DEF At, Executing
<1>2. todo = <<"opcode", "end">>
  BY <1>1, SelectingShape DEF Shape, InstrTodo, At, Fetching, Executing
<1>. QED
  BY <1>1, <1>2 DEF TimeInv, FetchTimes

LEMMA OneMoreFetch ==
  ASSUME pre \in Nat
  PROVE  FetchTime(pre) + OpcodeTime = FetchTime(pre + 1)
BY DEF FetchTime, OpcodeTime

LEMMA PrefixTime ==
  ASSUME TypeOK, Shape, TimeInv, NEW byte \in Prefixes, FetchPrefix(byte)
  PROVE  TimeInv'
<1>1. /\ Executing /\ ins = "none" /\ todo = <<"opcode", "end">> /\ ~dispValid
      /\ t = FetchTime(pre)
  BY AtOpcode DEF FetchPrefix
<1>2. /\ UNCHANGED <<todo, doing, ins, dispValid, im0>> /\ idx' # "HL"
      /\ IF pre < MaxPre THEN pre' = pre + 1 /\ t' = t + OpcodeTime ELSE UNCHANGED <<pre, t>>
  BY DEF FetchPrefix, Take, lines, observe
<1>3. pre \in Nat /\ pre' # 0 /\ pre' \in Nat
  BY <1>2, ModAssumption DEF TypeOK, PreCount
<1>4. t' = FetchTime(pre)'
  BY <1>1, <1>2, <1>3, OneMoreFetch DEF FetchTime, OpcodeTime
<1>5. todo' \notin Seq(Settled) /\ todo' = <<"opcode", "end">>
  BY <1>1, <1>2, SettledHead, NotSettled
<1>. QED
  BY <1>1, <1>2, <1>3, <1>4, <1>5 DEF TimeInv, FetchTimes, Executing

(* More short sequences put together. *)
LEMMA ConcatThree ==
  ASSUME NEW a, NEW b, NEW c, NEW d
  PROVE  <<a, b, c>> \o <<d>> = <<a, b, c, d>>
<1>. DEFINE S == {a, b, c, d}
<1>. DEFINE u == <<a, b, c>> \o <<d>>
<1>. DEFINE v == <<a, b, c, d>>
<1>1. <<a, b, c>> \in Seq(S) /\ <<d>> \in Seq(S) /\ v \in Seq(S)
  OBVIOUS
<1>2. Len(<<a, b, c>>) = 3 /\ Len(<<d>>) = 1 /\ Len(v) = 4
  OBVIOUS
<1>3. /\ u \in Seq(S) /\ Len(u) = 4
      /\ \A i \in 1 .. 4 : u[i] = IF i <= 3 THEN <<a, b, c>>[i] ELSE <<d>>[i - 3]
  BY <1>1, <1>2, ConcatProperties
<1>4. \A i \in 1 .. Len(u) : u[i] = v[i]
  BY <1>3
<1>5. Len(u) = Len(v) /\ v \in Seq(S)
  BY <1>1, <1>2, <1>3
<1>. HIDE DEF u, v, S
<1>6. u = v
  BY <1>3, <1>4, <1>5, SeqEqual
<1>. QED
  BY <1>6 DEF u, v

LEMMA ConcatFive ==
  ASSUME NEW a, NEW b, NEW c, NEW d, NEW e, NEW f
  PROVE  <<a, b, c, d, e>> \o <<f>> = <<a, b, c, d, e, f>>
<1>. DEFINE S == {a, b, c, d, e, f}
<1>. DEFINE u == <<a, b, c, d, e>> \o <<f>>
<1>. DEFINE v == <<a, b, c, d, e, f>>
<1>1. <<a, b, c, d, e>> \in Seq(S) /\ <<f>> \in Seq(S) /\ v \in Seq(S)
  OBVIOUS
<1>2. Len(<<a, b, c, d, e>>) = 5 /\ Len(<<f>>) = 1 /\ Len(v) = 6
  OBVIOUS
<1>3. /\ u \in Seq(S) /\ Len(u) = 6
      /\ \A i \in 1 .. 6 : u[i] = IF i <= 5 THEN <<a, b, c, d, e>>[i] ELSE <<f>>[i - 5]
  BY <1>1, <1>2, ConcatProperties
<1>4. \A i \in 1 .. Len(u) : u[i] = v[i]
  BY <1>3
<1>5. Len(u) = Len(v) /\ v \in Seq(S)
  BY <1>1, <1>2, <1>3
<1>. HIDE DEF u, v, S
<1>6. u = v
  BY <1>3, <1>4, <1>5, SeqEqual
<1>. QED
  BY <1>6 DEF u, v

(* The opcodes that address memory through HL or an index register start    *)
(* with that, whichever it will be.                                         *)
LEMMA AddressingBodies ==
  \A c \in DOMAIN Addressing : /\ c \in DOMAIN BaseBody /\ c # "none"
                               /\ BaseBody[c] \o <<"end">> = Addressing[c]
                               /\ Addressing[c] # <<>>
                               /\ Head(Addressing[c]) \in {"ea", "ldmn"}
<1>1. DOMAIN Addressing = {"ld_r_m", "ld_m_r", "alu_m", "inc_m", "ld_m_n"}
  BY DEF Addressing
<1>2. /\ BaseBody.ld_r_m = <<"ea", "read">> /\ BaseBody.ld_m_r = <<"ea", "write">>
      /\ BaseBody.alu_m = <<"ea", "read", "setF">> /\ BaseBody.ld_m_n = <<"ldmn">>
      /\ BaseBody.inc_m = <<"ea", "read", "int1", "setF", "write">>
  BY DEF BaseBody
<1>3. /\ Addressing.ld_r_m = <<"ea", "read", "end">>
      /\ Addressing.ld_m_r = <<"ea", "write", "end">>
      /\ Addressing.alu_m = <<"ea", "read", "setF", "end">>
      /\ Addressing.inc_m = <<"ea", "read", "int1", "setF", "write", "end">>
      /\ Addressing.ld_m_n = <<"ldmn", "end">>
  BY DEF Addressing
<1>4. /\ <<"ea", "read">> \o <<"end">> = <<"ea", "read", "end">>
      /\ <<"ea", "write">> \o <<"end">> = <<"ea", "write", "end">>
      /\ <<"ldmn">> \o <<"end">> = <<"ldmn", "end">>
  BY ConcatOne, ConcatTwo
<1>5. <<"ea", "read", "setF">> \o <<"end">> = <<"ea", "read", "setF", "end">>
  BY ConcatThree
<1>6. <<"ea", "read", "int1", "setF", "write">> \o <<"end">>
        = <<"ea", "read", "int1", "setF", "write", "end">>
  BY ConcatFive
<1>7. \A c \in DOMAIN Addressing : c \in DOMAIN BaseBody /\ c # "none"
  BY DEF Addressing, BaseBody
<1>8. \A c \in DOMAIN Addressing : BaseBody[c] \o <<"end">> = Addressing[c]
  BY <1>1, <1>2, <1>3, <1>4, <1>5, <1>6
<1>9. \A c \in DOMAIN Addressing : /\ Addressing[c] # <<>>
                                   /\ Head(Addressing[c]) \in {"ea", "ldmn"}
  BY <1>1, <1>3
<1>. QED
  BY <1>7, <1>8, <1>9

LEMMA BaseTime ==
  ASSUME TypeOK, Shape, InjectionEnds, InjectionEnds', TimeInv,
         NEW byte \in DOMAIN BaseBody, FetchBase(byte)
  PROVE  TimeInv'
<1>1. /\ Executing /\ ~dispValid /\ (idx = "HL" <=> pre = 0) /\ t = FetchTime(pre)
      /\ Tail(todo) = <<"end">>
  BY AtOpcode DEF FetchBase
<1>2. /\ UNCHANGED <<doing, pre, dispValid, idx, im0>> /\ ins' = byte
      /\ t' = t + OpcodeTime /\ todo' = BaseBody[byte] \o <<"end">>
  BY <1>1 DEF FetchBase, Take, lines, index, Then
<1>3. pre \in Nat
  BY ModAssumption DEF TypeOK, PreCount
<1>4. t' = FetchTime(pre + 1)
  BY <1>1, <1>2, <1>3, OneMoreFetch
<1>5. CASE byte \in DOMAIN Addressing
  <2>1. /\ todo' = Addressing[byte] /\ byte # "none"
        /\ todo' # <<>> /\ Head(todo') \in {"ea", "ldmn"}
    BY <1>2, <1>5, AddressingBodies
  <2>2. todo' \notin Seq(Settled)
    BY <2>1, SettledHead, NotSettled
  <2>3. todo' \notin {<<"nmiM1", "end">>, <<"ackM1", "end">>, <<"haltM1", "end">>}
    BY <2>1
  <2>4. Unresolved'
    BY <1>1, <1>2, <1>4, <1>5, <2>1 DEF Unresolved, FetchTime
  <2>. QED
    BY <1>1, <1>2, <2>1, <2>2, <2>3, <2>4 DEF TimeInv, Executing
<1>6. CASE byte \notin DOMAIN Addressing
  <2>1. Takes(BaseBody[byte], DocT[byte] - 4) /\ DocT[byte] \in Nat /\ byte \notin DOMAIN DispT
    BY <1>6, BaseBodyTakes, DocTType, PageNames
  <2>2. M1Count' = pre + 1 /\ byte # "none"
    BY <1>2, DispatchNames DEF M1Count
  <2>3. t' = 4 * (pre + 1) + (IF im0 THEN 2 * (pre + 1) ELSE 0)
    BY <1>4 DEF FetchTime
  <2>4. t' + (DocT[byte] - 4)
          = DocT[byte] + 4 * pre' + (IF im0' THEN 2 * M1Count' ELSE 0)
    <3>1. SUFFICES ASSUME NEW d \in Nat, d = DocT[byte]
                   PROVE  t' + (d - 4) = d + 4 * pre' + (IF im0' THEN 2 * M1Count' ELSE 0)
      BY <2>1
    <3>. QED
      BY <1>2, <1>3, <2>2, <2>3
  <2>5. Executing' /\ pre' \in Nat
    BY <1>1, <1>2, <1>3 DEF Executing
  <2>. QED
    BY <1>2, <2>1, <2>2, <2>4, <2>5, InstrStart
<1>. QED
  BY <1>5, <1>6

LEMMA CBTime ==
  ASSUME TypeOK, Shape, TimeInv, FetchCB
  PROVE  TimeInv'
<1>1. /\ Executing /\ ins = "none" /\ ~dispValid /\ (idx = "HL" <=> pre = 0)
      /\ t = FetchTime(pre) /\ Tail(todo) = <<"end">>
  BY AtOpcode DEF FetchCB
<1>2. /\ UNCHANGED <<doing, ins, pre, dispValid, im0>> /\ t' = t + OpcodeTime
      /\ Then(IF idx = "HL" THEN <<"opcodeCB">> ELSE <<"fetch8", "selector">>)
  BY DEF FetchCB, Take, lines, index, observe
<1>3. pre \in Nat
  BY ModAssumption DEF TypeOK, PreCount
<1>4. t' = FetchTime(pre + 1)'
  BY <1>1, <1>2, <1>3, OneMoreFetch DEF FetchTime
<1>5. CASE idx = "HL"
  <2>1. todo' = <<"opcodeCB", "end">> /\ pre' = 0
    BY <1>1, <1>2, <1>5, ThenEnd
  <2>2. todo' \notin Seq(Settled)
    BY <2>1, SettledHead, NotSettled
  <2>. QED
    BY <1>1, <1>2, <1>4, <2>1, <2>2 DEF TimeInv, FetchTimes, Executing
<1>6. CASE idx # "HL"
  <2>1. todo' = <<"fetch8", "selector", "end">>
    BY <1>1, <1>2, <1>6, ThenEnd
  <2>2. todo' \notin Seq(Settled)
    <3>1. todo'[2] = "selector" /\ Len(todo') = 3
      BY <2>1
    <3>. QED
      BY <3>1, NotSettled, ElementOfSeq
  <2>. QED
    BY <1>1, <1>2, <1>4, <2>1, <2>2 DEF TimeInv, FetchTimes, Executing
<1>. QED
  BY <1>5, <1>6

LEMMA EDTime ==
  ASSUME TypeOK, Shape, TimeInv, FetchED
  PROVE  TimeInv'
<1>1. /\ Executing /\ ins = "none" /\ ~dispValid
      /\ t = FetchTime(pre) /\ Tail(todo) = <<"end">>
  BY AtOpcode DEF FetchED
<1>2. /\ UNCHANGED <<doing, ins, pre, dispValid, im0>> /\ t' = t + OpcodeTime
      /\ Then(<<"opcodeED">>)
  BY DEF FetchED, Take, lines, observe
<1>3. pre \in Nat
  BY ModAssumption DEF TypeOK, PreCount
<1>4. t' = FetchTime(pre + 1)'
  BY <1>1, <1>2, <1>3, OneMoreFetch DEF FetchTime
<1>5. todo' = <<"opcodeED", "end">>
  BY <1>1, <1>2, ThenEnd
<1>6. todo' \notin Seq(Settled)
  BY <1>5, SettledHead, NotSettled
<1>. QED
  BY <1>1, <1>2, <1>4, <1>5, <1>6 DEF TimeInv, FetchTimes, Executing

(* The second opcode of the CB and ED pages, and the last byte of DDCB.     *)
LEMMA PagedTime ==
  ASSUME TypeOK, Shape, InjectionEnds, InjectionEnds', TimeInv,
         NEW op \in {"opcodeCB", "opcodeED"}, NEW page,
         NEW c \in DOMAIN page, FetchPaged(op, page), ins' = c, Then(page[c]),
         Takes(page[c], DocT[c] - 8), DocT[c] \in Nat, c \notin DOMAIN DispT,
         c \notin DOMAIN BaseBody \cup DOMAIN XCBBody \cup {"none"}
  PROVE  TimeInv'
<1>1. Executing /\ ins = "none" /\ Tail(todo) = <<"end">>
  BY Where DEF FetchPaged, At, Executing
<1>2. todo = <<op, "end">>
  BY <1>1, SelectingShape DEF Shape, InstrTodo, FetchPaged, At, Fetching, Executing
<1>3. t = FetchTime(pre + 1)
  BY <1>1, <1>2 DEF TimeInv, FetchTimes
<1>4. UNCHANGED <<doing, pre, im0>> /\ t' = t + OpcodeTime /\ todo' = page[c] \o <<"end">>
  BY <1>1 DEF FetchPaged, Take, lines, index, Then
<1>5. pre \in Nat
  BY ModAssumption DEF TypeOK, PreCount
<1>6. M1Count' = pre + 2
  BY <1>4 DEF M1Count
<1>7. t' + (DocT[c] - 8) = DocT[c] + 4 * pre' + (IF im0' THEN 2 * M1Count' ELSE 0)
  <2>1. SUFFICES ASSUME NEW d \in Nat, d = DocT[c]
                 PROVE  t' + (d - 8) = d + 4 * pre' + (IF im0' THEN 2 * M1Count' ELSE 0)
    OBVIOUS
  <2>. QED
    BY <1>3, <1>4, <1>5, <1>6 DEF FetchTime, OpcodeTime
<1>8. Executing' /\ pre' \in Nat
  BY <1>1, <1>4, <1>5 DEF Executing
<1>. QED
  BY <1>4, <1>7, <1>8, InstrStart

LEMMA SelectorTime ==
  ASSUME TypeOK, Shape, InjectionEnds, InjectionEnds', TimeInv, Selector
  PROVE  TimeInv'
<1>1. PICK c \in DOMAIN XCBBody : ins' = c /\ Then(XCBBody[c])
  BY DEF Selector
<1>2. Executing /\ todo # <<>> /\ Head(todo) = "selector"
  BY Where DEF Selector, At, Executing
<1>3. ins = "none"
  BY <1>2, SettledHead, NotSettled DEF TimeInv, Unresolved, Addressing
<1>4. todo = <<"selector", "end">>
  BY <1>2, <1>3, FetchingShape DEF Shape, InstrTodo, Executing, Selecting
<1>5. t = FetchTime(pre + 1) + 3
  BY <1>2, <1>3, <1>4 DEF TimeInv, FetchTimes
<1>6. UNCHANGED <<doing, pre, im0>> /\ t' = t + 3 /\ todo' = XCBBody[c] \o <<"end">>
  BY <1>1, <1>4 DEF Selector, Take, lines, index, Then
<1>7. pre \in Nat /\ DocT[c] \in Nat /\ c \notin DOMAIN DispT /\ c # "none"
  BY ModAssumption, DocTType, PageNames DEF TypeOK, PreCount
<1>8. M1Count' = pre + 1
  BY <1>1, <1>6 DEF M1Count
<1>9. t' + (DocT[c] - 10) = DocT[c] + 4 * pre' + (IF im0' THEN 2 * M1Count' ELSE 0)
  <2>1. SUFFICES ASSUME NEW d \in Nat, d = DocT[c]
                 PROVE  t' + (d - 10) = d + 4 * pre' + (IF im0' THEN 2 * M1Count' ELSE 0)
    BY <1>7
  <2>. QED
    BY <1>5, <1>6, <1>7, <1>8 DEF FetchTime
<1>10. Executing' /\ pre' \in Nat /\ Takes(XCBBody[c], DocT[c] - 10)
  BY <1>2, <1>6, <1>7, XCBBodyTakes DEF Executing
<1>. QED
  BY <1>1, <1>6, <1>7, <1>9, <1>10, InstrStart

(* Resolving (HL) or (IX+d) fixes what is left of the Step.                 *)
LEMMA ResolveTime ==
  ASSUME TypeOK, Shape, InjectionEnds, TimeInv, Resolve
  PROVE  TimeInv'
<1>1. /\ Executing /\ ins # "none" /\ todo # <<>> /\ Head(todo) \in {"ea", "ldmn"}
  BY Where DEF Resolve, At, Executing
<1>2. Unresolved
  BY <1>1, SettledHead, NotSettled DEF TimeInv
<1>3. /\ UNCHANGED <<doing, ins, pre, im, im0, t>>
  BY DEF Resolve, index, observe
<1>4. pre \in Nat
  BY ModAssumption DEF TypeOK, PreCount
<1>5. ASSUME NEW n \in Nat, NEW m \in {0, 5, 8}, todo' \in Seq(Settled), todo' # <<>>,
             Len(todo') <= 8, Left(todo') = n + m, ins \in DOMAIN Addressing,
             DocT[ins] = 4 + n, m = IF pre = 0 THEN 0 ELSE DispT[ins]
      PROVE  TimeInv'
  <2>1. Indexed' = m /\ M1Count' = pre + 1 /\ InstrTime' = 4 + n + 4 * pre + m
    <3>1. Indexed' = m
      BY <1>3, <1>5, PageNames DEF Indexed
    <3>2. M1Count' = pre + 1
      BY <1>3, <1>5, AddressingBodies DEF M1Count
    <3>. QED
      BY <1>3, <1>5, <3>1, <3>2 DEF InstrTime
  <2>2. t' + Left(todo') = 4 + n + 4 * pre + m + (IF im0 THEN 2 * (pre + 1) ELSE 0)
    <3>1. t' = 4 * (pre + 1) + (IF im0 THEN 2 * (pre + 1) ELSE 0)
      BY <1>2, <1>3 DEF Unresolved, FetchTime
    <3>2. SUFFICES ASSUME NEW k \in Nat, k = m, NEW p \in Nat, p = pre,
                          t' = 4 * (p + 1) + (IF im0 THEN 2 * (p + 1) ELSE 0)
                   PROVE  t' + (n + k)
                            = 4 + n + 4 * p + k + (IF im0 THEN 2 * (p + 1) ELSE 0)
      BY <1>4, <1>5, <3>1
    <3>3. CASE im0
      BY <3>2, <3>3
    <3>4. CASE ~im0
      BY <3>2, <3>4
    <3>. QED
      BY <3>3, <3>4
  <2>3. Documented(t + Left(todo))'
    BY <1>1, <1>3, <1>4, <1>5, <2>1, <2>2 DEF Documented, InjectionEnds, Executing
  <2>. QED
    BY <1>1, <1>3, <1>5, <2>3, SettledStart DEF Executing
<1>6. /\ DocT.ld_r_m = 7 /\ DocT.ld_m_r = 7 /\ DocT.alu_m = 7 /\ DocT.inc_m = 11
      /\ DocT.ld_m_n = 10
  BY DEF DocT
<1>7. /\ DispT.ld_r_m = 8 /\ DispT.ld_m_r = 8 /\ DispT.alu_m = 8 /\ DispT.inc_m = 8
      /\ DispT.ld_m_n = 5
  BY DEF DispT
<1>8. ASSUME NEW n \in Nat, DocT[ins] = 4 + n, Takes(Tail(todo), n), Len(Tail(todo)) <= 5,
             Tail(todo) # <<>>, DispT[ins] = 8, Then(EaBody), ins \in DOMAIN Addressing
      PROVE  TimeInv'
  <2>. DEFINE rest == Tail(todo)
  <2>1. rest \in Seq(Settled) /\ Left(rest) = n /\ Len(rest) <= 5 /\ rest # <<>>
    BY <1>8 DEF Takes
  <2>2. todo' = EaBody \o rest
    BY <1>8 DEF Then
  <2>. HIDE DEF rest
  <2>3. CASE pre = 0
    <3>1. EaBody = <<>>
      BY <1>2, <2>3 DEF EaBody, Unresolved
    <3>2. todo' = rest
      BY <2>1, <2>2, <3>1, ConcatEmptySeq
    <3>. QED
      BY <1>5, <1>8, <2>1, <2>3, <3>2
  <2>4. CASE pre # 0
    <3>1. EaBody = <<"fetch8", "int5", "disp">>
      BY <1>2, <2>4 DEF EaBody, Unresolved
    <3>2. /\ todo' \in Seq(Settled) /\ todo' # <<>> /\ Len(todo') <= 8
          /\ Left(todo') = 8 + n
      BY <2>1, <2>2, <3>1, LeftAfterDisp
    <3>3. Left(todo') = n + 8
      BY <1>8, <3>2
    <3>. QED
      BY <1>5, <1>8, <2>4, <3>2, <3>3
  <2>. QED
    BY <2>3, <2>4
<1>9. /\ Addressing.ld_r_m = <<"ea", "read", "end">>
      /\ Addressing.ld_m_r = <<"ea", "write", "end">>
      /\ Addressing.alu_m = <<"ea", "read", "setF", "end">>
      /\ Addressing.inc_m = <<"ea", "read", "int1", "setF", "write", "end">>
      /\ Addressing.ld_m_n = <<"ldmn", "end">>
      /\ DOMAIN Addressing = {"ld_r_m", "ld_m_r", "alu_m", "inc_m", "ld_m_n"}
  BY DEF Addressing
<1>10. CASE ins = "ld_r_m"
  <2>1. todo = <<"ea", "read", "end">>
    BY <1>2, <1>9, <1>10 DEF Unresolved
  <2>2. Head(todo) = "ea" /\ Tail(todo) = <<"read", "end">>
    BY <2>1
  <2>3. Then(EaBody)
    BY <2>2 DEF Resolve, At
  <2>4. Takes(Tail(todo), 3)
    BY <2>2, AddressedTake, Zenon
  <2>5. Len(Tail(todo)) <= 5 /\ Tail(todo) # <<>>
    <3>1. Len(<<"read", "end">>) <= 5 /\ <<"read", "end">> # <<>>
      OBVIOUS
    <3>. QED
      BY <2>2, <3>1, Zenon
  <2>. QED
    BY <1>6, <1>7, <1>8, <1>9, <1>10, <2>3, <2>4, <2>5
<1>11. CASE ins = "ld_m_r"
  <2>1. todo = <<"ea", "write", "end">>
    BY <1>2, <1>9, <1>11 DEF Unresolved
  <2>2. Head(todo) = "ea" /\ Tail(todo) = <<"write", "end">>
    BY <2>1
  <2>3. Then(EaBody)
    BY <2>2 DEF Resolve, At
  <2>4. Takes(Tail(todo), 3)
    BY <2>2, AddressedTake, Zenon
  <2>5. Len(Tail(todo)) <= 5 /\ Tail(todo) # <<>>
    <3>1. Len(<<"write", "end">>) <= 5 /\ <<"write", "end">> # <<>>
      OBVIOUS
    <3>. QED
      BY <2>2, <3>1, Zenon
  <2>. QED
    BY <1>6, <1>7, <1>8, <1>9, <1>11, <2>3, <2>4, <2>5
<1>12. CASE ins = "alu_m"
  <2>1. todo = <<"ea", "read", "setF", "end">>
    BY <1>2, <1>9, <1>12 DEF Unresolved
  <2>2. Head(todo) = "ea" /\ Tail(todo) = <<"read", "setF", "end">>
    BY <2>1
  <2>3. Then(EaBody)
    BY <2>2 DEF Resolve, At
  <2>4. Takes(Tail(todo), 3)
    BY <2>2, AddressedTake, Zenon
  <2>5. Len(Tail(todo)) <= 5 /\ Tail(todo) # <<>>
    <3>1. Len(<<"read", "setF", "end">>) <= 5 /\ <<"read", "setF", "end">> # <<>>
      OBVIOUS
    <3>. QED
      BY <2>2, <3>1, Zenon
  <2>. QED
    BY <1>6, <1>7, <1>8, <1>9, <1>12, <2>3, <2>4, <2>5
<1>13. CASE ins = "inc_m"
  <2>1. todo = <<"ea", "read", "int1", "setF", "write", "end">>
    BY <1>2, <1>9, <1>13 DEF Unresolved
  <2>2. Head(todo) = "ea" /\ Tail(todo) = <<"read", "int1", "setF", "write", "end">>
    BY <2>1
  <2>3. Then(EaBody)
    BY <2>2 DEF Resolve, At
  <2>4. Takes(Tail(todo), 7)
    BY <2>2, AddressedTake, Zenon
  <2>5. Len(Tail(todo)) <= 5 /\ Tail(todo) # <<>>
    <3>1. /\ Len(<<"read", "int1", "setF", "write", "end">>) <= 5
          /\ <<"read", "int1", "setF", "write", "end">> # <<>>
      OBVIOUS
    <3>. QED
      BY <2>2, <3>1, Zenon
  <2>. QED
    BY <1>6, <1>7, <1>8, <1>9, <1>13, <2>3, <2>4, <2>5
<1>14. CASE ins = "ld_m_n"
  <2>1. todo = <<"ldmn", "end">>
    BY <1>2, <1>9, <1>14 DEF Unresolved
  <2>2. Head(todo) = "ldmn" /\ Tail(todo) = <<"end">>
    BY <2>1
  <2>3. todo' = LdmnBody \o <<"end">>
    BY <2>2 DEF Resolve, At, Then
  <2>4. CASE pre = 0
    <3>1. LdmnBody = <<"fetch8", "write">>
      BY <1>2, <2>4 DEF LdmnBody, Unresolved
    <3>2. /\ todo' \in Seq(Settled) /\ todo' # <<>> /\ Len(todo') <= 8
          /\ Left(todo') = 6
      BY <2>3, <3>1, AddressedTake, LeftEnd
    <3>3. DocT[ins] = 4 + 6 /\ ins \in DOMAIN Addressing
      BY <1>6, <1>9, <1>14
    <3>4. Left(todo') = 6 + 0
      BY <3>2
    <3>. QED
      BY <1>5, <2>4, <3>2, <3>3, <3>4
  <2>5. CASE pre # 0
    <3>1. LdmnBody = <<"fetch8", "fetch8", "int2", "write">>
      BY <1>2, <2>5 DEF LdmnBody, Unresolved
    <3>2. /\ todo' \in Seq(Settled) /\ todo' # <<>> /\ Len(todo') <= 8
          /\ Left(todo') = 11
      BY <2>3, <3>1, AddressedTake, LeftEnd
    <3>3. DocT[ins] = 4 + 6 /\ ins \in DOMAIN Addressing /\ DispT[ins] = 5
      BY <1>6, <1>7, <1>9, <1>14
    <3>4. Left(todo') = 6 + 5
      BY <3>2
    <3>. QED
      BY <1>5, <2>5, <3>2, <3>3, <3>4
  <2>. QED
    BY <2>4, <2>5
<1>. QED
  BY <1>2, <1>9, <1>10, <1>11, <1>12, <1>13, <1>14 DEF Unresolved

(* The end of a Step is reached in one operation at a time.                 *)
LEMMA MoreToDo ==
  ASSUME TypeOK, Shape, todo # <<>>, Head(todo) # "end"
  PROVE  Tail(todo) # <<>>
<1>1. CASE doing = "nmi"
  <2>1. todo \in NmiTodo
    BY <1>1 DEF Shape
  <2>2. CASE Head(todo) = "nmiM1"
    <3>1. todo = <<"nmiM1", "end">>
      BY <2>1, <2>2 DEF NmiTodo
    <3>. QED
      BY <3>1
  <2>. QED
    BY <2>1, <2>2, NmiShape
<1>2. CASE doing = "int"
  <2>1. todo \in IntTodo
    BY <1>2 DEF Shape
  <2>2. CASE Head(todo) = "ackM1"
    <3>1. todo = <<"ackM1", "end">>
      BY <2>1, <2>2 DEF IntTodo
    <3>. QED
      BY <3>1
  <2>. QED
    BY <2>1, <2>2, IntShape
<1>3. CASE doing = "halt"
  BY <1>3, HaltShape DEF Shape
<1>4. CASE doing \in {"instr", "inject"}
  <2>1. CASE ins = "none"
    <3>1. CASE todo \in Fetching
      BY <3>1, FetchingShape
    <3>2. CASE todo = <<"fetch8", "selector", "end">>
      BY <3>2
    <3>3. CASE todo = <<"selector", "end">>
      BY <3>3
    <3>. QED
      BY <1>4, <2>1, <3>1, <3>2, <3>3 DEF Shape, InstrTodo, Selecting
  <2>2. CASE ins \in {"ei", "halt", "ld_r_a"}
    <3>1. todo \in {<<"EI", "end">>, <<"HALT", "end">>, <<"ir1", "ldR", "end">>, <<"ldR", "end">>}
      BY <1>4, <2>2 DEF Shape, InstrTodo
    <3>2. CASE todo = <<"EI", "end">>
      BY <3>2
    <3>3. CASE todo = <<"HALT", "end">>
      BY <3>3
    <3>4. CASE todo = <<"ir1", "ldR", "end">>
      BY <3>4
    <3>5. CASE todo = <<"ldR", "end">>
      BY <3>5
    <3>. QED
      BY <3>1, <3>2, <3>3, <3>4, <3>5
  <2>3. CASE ins \notin {"none", "ei", "halt", "ld_r_a"}
    BY <1>4, <2>3, QuietTail DEF Shape, InstrTodo, QuietTodo
  <2>. QED
    BY <2>1, <2>2, <2>3
<1>. QED
  BY <1>1, <1>2, <1>3, <1>4, NamedValues DEF TypeOK, Shape

(* The M1 of a service, or of a halt cycle, is the first of the Step.       *)
LEMMA ServiceTime ==
  ASSUME TypeOK, Shape, TimeInv, NmiM1 \/ HaltM1 \/ IntAckM1
  PROVE  TimeInv'
<1>1. ASSUME NEW rest, NEW n \in Nat, NEW m \in Nat, Takes(rest, m), rest # <<>>,
             todo' = rest, t' = n, ~Executing', Documented(n + m)',
             doing' # "idle", doing' = "int" => im' # 0
      PROVE  TimeInv'
  <2>1. /\ todo' \in Seq(Settled) /\ Len(todo') <= 8 /\ Left(todo') = m /\ todo' # <<>>
    <3>1. Len(rest) \in Nat /\ Len(rest) <= 7
      BY <1>1 DEF Takes
    <3>. QED
      BY <1>1, <3>1 DEF Takes
  <2>2. t' + Left(todo') = n + m
    BY <1>1, <2>1
  <2>3. Documented(t + Left(todo))'
    BY <1>1, <2>2 DEF Documented
  <2>. QED
    BY <1>1, <2>1, <2>3, SettledStart DEF Executing
<1>2. CASE NmiM1
  <2>1. todo # <<>> /\ Head(todo) = "nmiM1" /\ doing = "nmi"
    BY <1>2, Where DEF NmiM1, At
  <2>2. todo = <<"nmiM1", "end">>
    BY <2>1 DEF Shape, NmiTodo
  <2>3. t' = 4 /\ todo' = NmiRest /\ doing' = "nmi"
    BY <1>2, <2>1, <2>2 DEF NmiM1, Take, TimeInv, observe
  <2>4. NmiRest # <<>>
    BY DEF NmiRest
  <2>5. Documented(4 + 7)'
    BY <2>3 DEF Documented
  <2>. QED
    BY <1>1, <2>3, <2>4, <2>5, RestsTake DEF Executing
<1>3. CASE HaltM1
  <2>1. todo # <<>> /\ Head(todo) = "haltM1" /\ doing = "halt"
    BY <1>3, Where DEF HaltM1, At
  <2>2. todo = <<"haltM1", "end">>
    BY <2>1 DEF Shape, HaltTodo
  <2>3. t' = 4 /\ todo' = <<"end">> /\ doing' = "halt"
    BY <1>3, <2>1, <2>2 DEF HaltM1, Take, TimeInv, observe, Done
  <2>4. <<"end">> # <<>>
    OBVIOUS
  <2>5. Documented(4 + 0)'
    BY <2>3 DEF Documented
  <2>. QED
    BY <1>1, <2>3, <2>4, <2>5, RestsTake DEF Executing
<1>4. CASE IntAckM1
  <2>1. todo # <<>> /\ Head(todo) = "ackM1" /\ doing = "int"
    BY <1>4, Where DEF IntAckM1, At
  <2>2. todo = <<"ackM1", "end">>
    BY <2>1 DEF Shape, IntTodo
  <2>3. /\ t' = 6 /\ doing' = "int" /\ im' = im /\ im # 0
        /\ todo' = IF im = 1 THEN Im1Rest ELSE Im2Rest
    BY <1>4, <2>1, <2>2 DEF IntAckM1, Take, TimeInv, observe
  <2>4. Im1Rest # <<>> /\ Im2Rest # <<>>
    BY DEF Im1Rest, Im2Rest
  <2>5. CASE im = 1
    <3>1. Documented(6 + 7)'
      BY <2>3, <2>5 DEF Documented
    <3>. QED
      BY <1>1, <2>3, <2>4, <2>5, <3>1, RestsTake DEF Executing
  <2>6. CASE im # 1
    <3>1. Documented(6 + 13)'
      BY <2>3, <2>6 DEF Documented
    <3>. QED
      BY <1>1, <2>3, <2>4, <2>6, <3>1, RestsTake DEF Executing
  <2>. QED
    BY <2>5, <2>6
<1>. QED
  BY <1>2, <1>3, <1>4

(* A Step begins with no time taken, and its end starts the next at zero.   *)
LEMMA BeginTime ==
  ASSUME Shape, QLatch, TimeInv, BeginStep
  PROVE  TimeInv'
<1>1. doing = "idle" /\ t = 0 /\ pre = 0 /\ ins = "none"
  BY BeginFacts DEF Shape, TimeInv, QLatch, Executing
<1>2. t' = 0 /\ pre' = 0 /\ ins' = "none"
  BY <1>1 DEF BeginStep, AcceptNMI, AcceptINT, InjectINT, EnterINT, HaltCycle, Execute, Begin
<1>3. FetchTime(0)' = 0
  BY DEF FetchTime
<1>4. todo' # <<>> /\ Head(todo') \in {"nmiM1", "ackM1", "opcode", "haltM1"} /\ doing' # "idle"
  BY DEF BeginStep, AcceptNMI, AcceptINT, InjectINT, EnterINT, HaltCycle, Execute, Begin
<1>5. todo' \notin Seq(Settled)
  BY <1>4, SettledHead, NotSettled
<1>6. doing' = "int" => im' # 0
  BY DEF BeginStep, AcceptNMI, AcceptINT, InjectINT, EnterINT, HaltCycle, Execute, Begin
<1>7. ASSUME Executing' PROVE FetchTimes'
  <2>1. todo' = <<"opcode", "end">> /\ idx' = "HL" /\ ~dispValid'
    BY <1>7 DEF BeginStep, AcceptNMI, AcceptINT, InjectINT, EnterINT, HaltCycle, Execute, Begin,
                Executing, FreshIndex
  <2>. QED
    BY <1>2, <1>3, <2>1 DEF FetchTimes, FetchTime
<1>. QED
  BY <1>2, <1>4, <1>5, <1>6, <1>7 DEF TimeInv

LEMMA NoTimeBetween ==
  ASSUME TimeInv, todo' = <<>>, doing' = "idle", t' = 0
  PROVE  TimeInv'
BY DEF TimeInv, Executing

(* Everything else runs the head of the schedule and takes its time.        *)
LEMMA HeadTime ==
  ASSUME TypeOK, Shape, TimeInv,
         \/ Fetch8 \/ RunCycle \/ CacheDisp \/ SetF \/ LdR \/ SetIM \/ Jump
         \/ EI \/ DI \/ RETN \/ HALT
  PROVE  TimeInv'
<1>1. todo # <<>> /\ Done /\ UNCHANGED <<doing, ins, pre, im0, idx>>
  BY DEF Fetch8, RunCycle, CacheDisp, SetF, LdR, SetIM, Jump, EI, DI, RETN, HALT, At, index,
         observe
<1>2. Head(todo) \in Settled \ {"end"}
  BY SettledNames
     DEF Fetch8, RunCycle, CacheDisp, SetF, LdR, SetIM, Jump, EI, DI, RETN, HALT, At, Cycle
<1>3. Tail(todo) # <<>>
  BY <1>1, <1>2, MoreToDo
<1>4. t' = t + Cost(Head(todo))
  <2>1. CASE Fetch8
    BY <2>1, Costs DEF Fetch8, At, Take
  <2>2. CASE RunCycle
    BY <2>2 DEF RunCycle, Cost, Take
  <2>3. CASE CacheDisp \/ SetF \/ LdR \/ SetIM \/ Jump \/ EI \/ DI \/ RETN \/ HALT
    <3>1. t' = t
      BY <2>3 DEF CacheDisp, SetF, LdR, SetIM, Jump, EI, DI, RETN, HALT
    <3>2. Head(todo) \in {"disp", "setF", "ldR", "IM0", "IM1", "IM2", "jump", "back", "toNMI",
                          "toIM1", "EI", "DI", "RETN", "HALT"}
      BY <2>3 DEF CacheDisp, SetF, LdR, SetIM, Jump, EI, DI, RETN, HALT, At
    <3>3. Cost(Head(todo)) = 0
      BY <3>2, Costs
    <3>. QED
      BY <3>1, <3>3 DEF TypeOK
  <2>. QED
    BY <2>1, <2>2, <2>3
<1>5. dispValid' = dispValid \/ Head(todo) # "fetch8"
  BY DEF Fetch8, RunCycle, CacheDisp, SetF, LdR, SetIM, Jump, EI, DI, RETN, HALT, At, index, Cycle
<1>6. im' = im \/ Executing
  <2>1. CASE SetIM
    <3>1. Head(todo) \in {"IM0", "IM1", "IM2"} /\ todo # <<>>
      BY <2>1 DEF SetIM, At
    <3>2. doing \notin {"idle", "nmi", "int", "halt"}
      BY <3>1, NmiShape, IntShape, HaltShape DEF Shape
    <3>. QED
      BY <3>2, NamedValues DEF TypeOK, Executing
  <2>2. CASE ~SetIM
    BY <2>2 DEF Fetch8, RunCycle, CacheDisp, SetF, LdR, Jump, EI, DI, RETN, HALT
  <2>. QED
    BY <2>1, <2>2
<1>. QED
  BY <1>1, <1>2, <1>3, <1>4, <1>5, <1>6, DoneTime

LEMMA ExecTime ==
  ASSUME TypeOK, Shape, InjectionEnds, InjectionEnds', TimeInv, Exec
  PROVE  TimeInv'
<1>1. ASSUME NEW byte \in Prefixes, FetchPrefix(byte) PROVE TimeInv'
  BY <1>1, PrefixTime
<1>2. ASSUME NEW byte \in DOMAIN BaseBody, FetchBase(byte) PROVE TimeInv'
  BY <1>2, BaseTime
<1>3. CASE FetchCB
  BY <1>3, CBTime
<1>4. CASE FetchED
  BY <1>4, EDTime
<1>5. CASE FetchPaged("opcodeCB", CBBody)
  <2>1. PICK c \in DOMAIN CBBody : ins' = c /\ Then(CBBody[c])
    BY <1>5 DEF FetchPaged
  <2>2. /\ Takes(CBBody[c], DocT[c] - 8) /\ DocT[c] \in Nat /\ c \notin DOMAIN DispT
        /\ c \notin DOMAIN BaseBody \cup DOMAIN XCBBody \cup {"none"}
    BY CBBodyTakes, DocTType, PageNames
  <2>. QED
    BY <1>5, <2>1, <2>2, PagedTime
<1>6. CASE FetchPaged("opcodeED", EDBody)
  <2>1. PICK c \in DOMAIN EDBody : ins' = c /\ Then(EDBody[c])
    BY <1>6 DEF FetchPaged
  <2>2. /\ Takes(EDBody[c], DocT[c] - 8) /\ DocT[c] \in Nat /\ c \notin DOMAIN DispT
        /\ c \notin DOMAIN BaseBody \cup DOMAIN XCBBody \cup {"none"}
    BY EDBodyTakes, DocTType, PageNames
  <2>. QED
    BY <1>6, <2>1, <2>2, PagedTime
<1>7. CASE Selector
  BY <1>7, SelectorTime
<1>. QED
  BY <1>1, <1>2, <1>3, <1>4, <1>5, <1>6, <1>7 DEF Exec

LEMMA StepTimeInv ==
  ASSUME IInv, TimeInv, [Next]_vars
  PROVE  TimeInv'
<1>1. TypeOK /\ Shape /\ InjectionEnds /\ QLatch /\ InjectionEnds'
  BY StepInv DEF IInv
<1>2. CASE UNCHANGED <<todo, t, doing, ins, pre, im, idx, dispValid, im0>>
  BY <1>2, SameTime
<1>3. CASE Machine
  <2>1. CASE (\E level \in BOOLEAN : SetINT(level)) \/ NMI \/ SpecialReset
    BY <1>2, <2>1 DEF SetINT, NMI, SpecialReset, index, observe
  <2>2. CASE Reset
    <3>1. todo' = <<>> /\ doing' = "idle" /\ t' = 0
      BY <1>1, <2>2 DEF Reset, Shape, TimeInv
    <3>. QED
      BY <3>1, NoTimeBetween
  <2>. QED
    BY <1>3, <2>1, <2>2 DEF Machine
<1>4. CASE BeginStep
  BY <1>1, <1>4, BeginTime
<1>5. CASE Exec
  BY <1>1, <1>5, ExecTime
<1>6. CASE NmiM1 \/ HaltM1 \/ IntAckM1
  BY <1>1, <1>6, ServiceTime
<1>7. CASE EndStep
  BY <1>7, NoTimeBetween DEF EndStep
<1>8. CASE Fetch8 \/ RunCycle \/ CacheDisp \/ SetF \/ LdR \/ SetIM \/ Jump \/ EI \/ DI \/ RETN
             \/ HALT
  BY <1>1, <1>8, HeadTime
<1>9. CASE Resolve
  BY <1>1, <1>9, ResolveTime
<1>10. CASE UNCHANGED vars
  BY <1>2, <1>10 DEF vars, index, observe
<1>. QED
  BY <1>3, <1>4, <1>5, <1>6, <1>7, <1>8, <1>9, <1>10 DEF Next, Step, Effect

LEMMA InitTime == Init => TimeInv
BY DEF Init, TimeInv, Executing

LEMMA EndTime ==
  ASSUME TypeOK, TimeInv
  PROVE  StepTime
<1>1. SUFFICES ASSUME todo = <<"end">> PROVE Documented(t)
  BY DEF StepTime
<1>2. todo \in Seq(Settled) /\ todo # <<>> /\ Left(todo) = 0
  BY <1>1, RestsTake DEF Takes
<1>3. Documented(t + Left(todo))
  BY <1>2 DEF TimeInv
<1>4. t + Left(todo) = t
  BY <1>2 DEF TypeOK
<1>. QED
  BY <1>3, <1>4 DEF Documented

(* Every Step takes the number of T-states documented for what it did, for  *)
(* every memory, every answer of the device and any requests made meanwhile. *)
(* The Tick calls a host counts to keep time are those of the datasheet.    *)
THEOREM StepTimeHolds == Spec => []StepTime
<1>1. Init => IInv /\ TimeInv
  BY InitInv, InitTime
<1>2. IInv /\ TimeInv /\ [Next]_vars => IInv' /\ TimeInv'
  BY StepInv, StepTimeInv
<1>3. IInv /\ TimeInv => StepTime
  BY EndTime DEF IInv
<1>. QED
  BY <1>1, <1>2, <1>3, PTL DEF Spec

----------------------------------------------------------------------------
(* PC under an injected instruction.                                        *)

(* Operations that leave PC alone when the bytes come from the device.      *)
StillOps == (QuietOps \ {"selector", "jump", "back"}) \cup {"EI", "HALT", "ldR", "end"}

(* A device that never injects the DDCB and FDCB pages.                     *)
InjectsNoIndexedCB == "CB" \notin AckBytes \/ AckBytes \cap Prefixes = {}

(* What a repeating block instruction is made of, and the rest of one whose *)
(* PC has still to go back, once.                                           *)
RepeatOps == {"read", "write", "io", "ir1", "int2", "int5", "setF", "end"}

AheadOfBack(s) ==
  /\ s \in Seq(RepeatOps \cup {"back"})
  /\ \E k \in 1 .. Len(s) : /\ s[k] = "back"
                          /\ \A i \in 1 .. Len(s) : i # k => s[i] \in RepeatOps

(* An injected instruction has left PC where it was, until a jump is        *)
(* dispatched, and has nothing ahead of it that moves PC, unless it is to   *)
(* repeat: then PC goes back once, and nothing that follows moves it.       *)
PcKept ==
  /\ ins = "none" => /\ todo \in Fetching /\ pc = pc0
                     /\ AckBytes \cap Prefixes = {} => idx = "HL"
  /\ ins # "none" /\ ins \notin Jumping =>
       \/ AheadOfBack(todo) /\ ins \in Repeating /\ pc = pc0
       \/ /\ todo \in Seq(StillOps)
          /\ pc = IF ins \in Repeating THEN (pc0 - 2) % AddrMod ELSE pc0

InjectInv == doing = "inject" => PcKept

LEMMA StillNames ==
  StillOps = {"read", "write", "io", "ir1", "ir2", "ir7", "int1", "int2", "int4", "int5",
              "fetch8", "ea", "ldmn", "disp", "setF", "IM0", "IM1", "IM2", "DI", "RETN",
              "EI", "HALT", "ldR", "end"}
BY QuietNames DEF StillOps

(* The classes that jump.                                                   *)
LEMMA JumpNames ==
  {"jp", "jp_hl", "jr", "djnz", "call", "ret", "ret_cc", "rst", "retn"} \subseteq Jumping
<1>1. DOMAIN BaseBody \cap {"jp", "jp_hl", "jr", "djnz", "call", "ret", "ret_cc", "rst"}
        = {"jp", "jp_hl", "jr", "djnz", "call", "ret", "ret_cc", "rst"}
  BY DEF BaseBody
<1>2. "retn" \in DOMAIN EDBody
  BY DEF EDBody
<1>3. /\ BaseBody.jp = <<"fetch8", "fetch8", "jump">> /\ BaseBody.jp_hl = <<"jump">>
      /\ BaseBody.jr = <<"fetch8", "int5", "jump">>
      /\ BaseBody.djnz = <<"ir1", "fetch8", "int5", "jump">>
      /\ BaseBody.call = <<"fetch8", "fetch8", "int1", "write", "write", "jump">>
      /\ BaseBody.ret = <<"read", "read", "jump">>
      /\ BaseBody.ret_cc = <<"ir1", "read", "read", "jump">>
      /\ BaseBody.rst = <<"ir1", "write", "write", "jump">>
  BY DEF BaseBody
<1>4. EDBody.retn = <<"RETN", "read", "read", "jump">>
  BY DEF EDBody
<1>5. /\ Has(BaseBody.jp, "jump") /\ Has(BaseBody.jp_hl, "jump") /\ Has(BaseBody.jr, "jump")
      /\ Has(BaseBody.ret, "jump")
  BY <1>3 DEF Has
<1>6. /\ Has(BaseBody.djnz, "jump") /\ Has(BaseBody.call, "jump")
      /\ Has(BaseBody.ret_cc, "jump") /\ Has(BaseBody.rst, "jump")
  BY <1>3 DEF Has
<1>7. Has(EDBody.retn, "jump")
  BY <1>4 DEF Has
<1>. HIDE DEF Has, BaseBody, EDBody
<1>. QED
  BY <1>1, <1>2, <1>5, <1>6, <1>7 DEF Jumping

(* An instruction of any page that does not jump leaves PC alone.            *)
LEMMA BaseBodyStill == \A c \in DOMAIN BaseBody \ Jumping : BaseBody[c] \in Seq(StillOps)
<1>1. DOMAIN BaseBody =
        {"ld_r_r", "alu_r", "scf", "ld_r_n", "alu_n", "ld_r_m", "ld_m_r", "alu_m",
         "inc_m", "ld_m_n", "ld_dd_nn", "ld_a_rr", "ld_rr_a", "ld_a_nn", "ld_nn_a",
         "ld_hl_nn", "ld_nn_hl", "inc_ss", "add_hl", "jr_no", "djnz_no", "ret_cc_no",
         "push", "pop", "ex_sp", "io_n", "halt", "di", "ei", "jp", "jp_hl", "jr", "djnz",
         "call", "ret", "ret_cc", "rst"}
  BY DEF BaseBody
<1>2. /\ BaseBody.ld_r_r \in Seq(StillOps)
      /\ BaseBody.alu_r \in Seq(StillOps)
      /\ BaseBody.scf \in Seq(StillOps)
      /\ BaseBody.ld_r_n \in Seq(StillOps)
      /\ BaseBody.alu_n \in Seq(StillOps)
      /\ BaseBody.ld_r_m \in Seq(StillOps)
      /\ BaseBody.ld_m_r \in Seq(StillOps)
      /\ BaseBody.alu_m \in Seq(StillOps)
      /\ BaseBody.inc_m \in Seq(StillOps)
      /\ BaseBody.ld_m_n \in Seq(StillOps)
  BY StillNames DEF BaseBody
<1>3. /\ BaseBody.ld_dd_nn \in Seq(StillOps)
      /\ BaseBody.ld_a_rr \in Seq(StillOps)
      /\ BaseBody.ld_rr_a \in Seq(StillOps)
      /\ BaseBody.ld_a_nn \in Seq(StillOps)
      /\ BaseBody.ld_nn_a \in Seq(StillOps)
      /\ BaseBody.ld_hl_nn \in Seq(StillOps)
      /\ BaseBody.ld_nn_hl \in Seq(StillOps)
      /\ BaseBody.inc_ss \in Seq(StillOps)
      /\ BaseBody.add_hl \in Seq(StillOps)
      /\ BaseBody.jr_no \in Seq(StillOps)
  BY StillNames DEF BaseBody
<1>4. /\ BaseBody.djnz_no \in Seq(StillOps)
      /\ BaseBody.ret_cc_no \in Seq(StillOps)
      /\ BaseBody.push \in Seq(StillOps)
      /\ BaseBody.pop \in Seq(StillOps)
      /\ BaseBody.ex_sp \in Seq(StillOps)
      /\ BaseBody.io_n \in Seq(StillOps)
      /\ BaseBody.halt \in Seq(StillOps)
      /\ BaseBody.di \in Seq(StillOps)
      /\ BaseBody.ei \in Seq(StillOps)
  BY StillNames DEF BaseBody
<1>5. \A c \in DOMAIN BaseBody \ Jumping :
        c \notin {"jp", "jp_hl", "jr", "djnz", "call", "ret", "ret_cc", "rst"}
  BY JumpNames
<1>. QED
  BY <1>1, <1>2, <1>3, <1>4, <1>5

LEMMA EDBodyStill ==
  \A c \in DOMAIN EDBody \ (Jumping \cup {"ldir", "cpir", "inir", "otir"}) :
    EDBody[c] \in Seq(StillOps)
<1>1. DOMAIN EDBody =
        {"ed_nop", "in_r_c", "out_c_r", "sbc_hl", "ld_nn_dd", "ld_dd_ind", "neg", "im_0",
         "im_1", "im_2", "ld_i_a", "ld_r_a", "ld_a_i", "rrd", "ldi", "cpi", "ini",
         "outi", "retn", "ldir", "cpir", "inir", "otir"}
  BY DEF EDBody
<1>2. /\ EDBody.ed_nop \in Seq(StillOps)
      /\ EDBody.in_r_c \in Seq(StillOps)
      /\ EDBody.out_c_r \in Seq(StillOps)
      /\ EDBody.sbc_hl \in Seq(StillOps)
      /\ EDBody.ld_nn_dd \in Seq(StillOps)
      /\ EDBody.ld_dd_ind \in Seq(StillOps)
      /\ EDBody.neg \in Seq(StillOps)
      /\ EDBody.im_0 \in Seq(StillOps)
      /\ EDBody.im_1 \in Seq(StillOps)
      /\ EDBody.im_2 \in Seq(StillOps)
  BY StillNames DEF EDBody
<1>3. /\ EDBody.ld_i_a \in Seq(StillOps)
      /\ EDBody.ld_r_a \in Seq(StillOps)
      /\ EDBody.ld_a_i \in Seq(StillOps)
      /\ EDBody.rrd \in Seq(StillOps)
      /\ EDBody.ldi \in Seq(StillOps)
      /\ EDBody.cpi \in Seq(StillOps)
      /\ EDBody.ini \in Seq(StillOps)
      /\ EDBody.outi \in Seq(StillOps)
  BY StillNames DEF EDBody
<1>. QED
  BY <1>1, <1>2, <1>3, JumpNames

LEMMA CBBodyStill == \A c \in DOMAIN CBBody \ Jumping : CBBody[c] \in Seq(StillOps)
<1>1. DOMAIN CBBody =
        {"cb_rot_r", "cb_set_r", "cb_rot_m", "cb_bit_m", "cb_set_m"}
  BY DEF CBBody
<1>2. /\ CBBody.cb_rot_r \in Seq(StillOps)
      /\ CBBody.cb_set_r \in Seq(StillOps)
      /\ CBBody.cb_rot_m \in Seq(StillOps)
      /\ CBBody.cb_bit_m \in Seq(StillOps)
      /\ CBBody.cb_set_m \in Seq(StillOps)
  BY StillNames DEF CBBody
<1>. QED
  BY <1>1, <1>2

(* Sequences of such operations.                                            *)
LEMMA StillTail ==
  ASSUME NEW s \in Seq(StillOps), s # <<>>
  PROVE  Head(s) \in StillOps /\ Tail(s) \in Seq(StillOps)
BY HeadTailProperties

LEMMA StillThen ==
  ASSUME NEW b \in Seq(StillOps), Then(b), todo # <<>>, Tail(todo) \in Seq(StillOps)
  PROVE  todo' \in Seq(StillOps)
BY ConcatProperties DEF Then

LEMMA EndStill == <<"end">> \in Seq(StillOps)
BY StillNames

LEMMA StillHasNoBack ==
  ASSUME NEW s \in Seq(StillOps)
  PROVE  ~Has(s, "back")
BY StillNames, ElementOfSeq DEF Has

(* The instructions that repeat, and the way there is before they do.       *)
LEMMA RepeatNames ==
  /\ {"ldir", "cpir", "inir", "otir"} \subseteq Repeating
  /\ Repeating \subseteq DOMAIN EDBody
  /\ DOMAIN BaseBody \cap Repeating = {} /\ DOMAIN CBBody \cap Repeating = {}
<1>1. /\ EDBody.ldir = <<"read", "write", "int2", "setF", "int5", "back", "setF">>
      /\ EDBody.cpir = <<"read", "int5", "setF", "int5", "back", "setF">>
      /\ EDBody.inir = <<"ir1", "io", "write", "setF", "int5", "back", "setF">>
      /\ EDBody.otir = <<"ir1", "read", "io", "setF", "int5", "back", "setF">>
      /\ {"ldir", "cpir", "inir", "otir"} \subseteq DOMAIN EDBody
  BY DEF EDBody
<1>2. /\ Has(EDBody.ldir, "back") /\ Has(EDBody.cpir, "back")
      /\ Has(EDBody.inir, "back") /\ Has(EDBody.otir, "back")
  BY <1>1 DEF Has
<1>3. DOMAIN BaseBody \cap DOMAIN EDBody = {} /\ DOMAIN CBBody \cap DOMAIN EDBody = {}
  BY DEF BaseBody, CBBody, EDBody
<1>. HIDE DEF Has, BaseBody, CBBody, EDBody
<1>. QED
  BY <1>1, <1>2, <1>3 DEF Repeating

LEMMA RepeatingAhead ==
  \A c \in {"ldir", "cpir", "inir", "otir"} :
    \A u : u = EDBody[c] \o <<"end">> => AheadOfBack(u)
<1>1. ASSUME NEW b, AheadOfBack(b) PROVE AheadOfBack(b \o <<"end">>)
  <2>0. PICK k \in 1 .. Len(b) : /\ b[k] = "back"
                                /\ \A i \in 1 .. Len(b) : i # k => b[i] \in RepeatOps
    BY <1>1 DEF AheadOfBack
  <2>. DEFINE S == RepeatOps \cup {"back"}
  <2>. DEFINE u == b \o <<"end">>
  <2>1. <<"end">> \in Seq(S) /\ Len(<<"end">>) = 1 /\ <<"end">>[1] = "end"
    BY DEF RepeatOps
  <2>2. /\ u \in Seq(S) /\ Len(u) = Len(b) + 1
        /\ \A i \in 1 .. Len(b) + 1 : u[i] = IF i <= Len(b) THEN b[i] ELSE <<"end">>[i - Len(b)]
    BY <1>1, <2>1, ConcatProperties DEF AheadOfBack
  <2>3. Len(b) \in Nat
    BY <1>1, LenProperties DEF AheadOfBack
  <2>. HIDE DEF S, u
  <2>4. \A i \in 1 .. Len(u) : u[i] = IF i <= Len(b) THEN b[i] ELSE "end"
    BY <2>1, <2>2, <2>3
  <2>5. k \in 1 .. Len(u) /\ u[k] = "back"
    BY <2>0, <2>2, <2>3, <2>4
  <2>6. \A i \in 1 .. Len(u) : i # k => u[i] \in RepeatOps
    BY <2>0, <2>2, <2>3, <2>4 DEF RepeatOps
  <2>. QED
    BY <2>2, <2>5, <2>6 DEF AheadOfBack, S, u
<1>2. /\ EDBody.ldir = <<"read", "write", "int2", "setF", "int5", "back", "setF">>
      /\ EDBody.cpir = <<"read", "int5", "setF", "int5", "back", "setF">>
      /\ EDBody.inir = <<"ir1", "io", "write", "setF", "int5", "back", "setF">>
      /\ EDBody.otir = <<"ir1", "read", "io", "setF", "int5", "back", "setF">>
  BY DEF EDBody
<1>3. AheadOfBack(EDBody.ldir)
  <2>. DEFINE b == <<"read", "write", "int2", "setF", "int5", "back", "setF">>
  <2>1. b \in Seq(RepeatOps \cup {"back"}) /\ Len(b) = 7 /\ b[6] = "back"
    BY DEF RepeatOps
  <2>2. \A i \in 1 .. 7 : i # 6 => b[i] \in RepeatOps
    BY DEF RepeatOps
  <2>. HIDE DEF b
  <2>3. 6 \in 1 .. Len(b) /\ \A i \in 1 .. Len(b) : i # 6 => b[i] \in RepeatOps
    BY <2>1, <2>2
  <2>4. AheadOfBack(b)
    BY <2>1, <2>3, Zenon DEF AheadOfBack
  <2>. QED
    BY <1>2, <2>4 DEF b
<1>4. AheadOfBack(EDBody.cpir)
  <2>. DEFINE b == <<"read", "int5", "setF", "int5", "back", "setF">>
  <2>1. b \in Seq(RepeatOps \cup {"back"}) /\ Len(b) = 6 /\ b[5] = "back"
    BY DEF RepeatOps
  <2>2. \A i \in 1 .. 6 : i # 5 => b[i] \in RepeatOps
    BY DEF RepeatOps
  <2>. HIDE DEF b
  <2>3. 5 \in 1 .. Len(b) /\ \A i \in 1 .. Len(b) : i # 5 => b[i] \in RepeatOps
    BY <2>1, <2>2
  <2>4. AheadOfBack(b)
    BY <2>1, <2>3, Zenon DEF AheadOfBack
  <2>. QED
    BY <1>2, <2>4 DEF b
<1>5. AheadOfBack(EDBody.inir)
  <2>. DEFINE b == <<"ir1", "io", "write", "setF", "int5", "back", "setF">>
  <2>1. b \in Seq(RepeatOps \cup {"back"}) /\ Len(b) = 7 /\ b[6] = "back"
    BY DEF RepeatOps
  <2>2. \A i \in 1 .. 7 : i # 6 => b[i] \in RepeatOps
    BY DEF RepeatOps
  <2>. HIDE DEF b
  <2>3. 6 \in 1 .. Len(b) /\ \A i \in 1 .. Len(b) : i # 6 => b[i] \in RepeatOps
    BY <2>1, <2>2
  <2>4. AheadOfBack(b)
    BY <2>1, <2>3, Zenon DEF AheadOfBack
  <2>. QED
    BY <1>2, <2>4 DEF b
<1>6. AheadOfBack(EDBody.otir)
  <2>. DEFINE b == <<"ir1", "read", "io", "setF", "int5", "back", "setF">>
  <2>1. b \in Seq(RepeatOps \cup {"back"}) /\ Len(b) = 7 /\ b[6] = "back"
    BY DEF RepeatOps
  <2>2. \A i \in 1 .. 7 : i # 6 => b[i] \in RepeatOps
    BY DEF RepeatOps
  <2>. HIDE DEF b
  <2>3. 6 \in 1 .. Len(b) /\ \A i \in 1 .. Len(b) : i # 6 => b[i] \in RepeatOps
    BY <2>1, <2>2
  <2>4. AheadOfBack(b)
    BY <2>1, <2>3, Zenon DEF AheadOfBack
  <2>. QED
    BY <1>2, <2>4 DEF b
<1>. HIDE DEF AheadOfBack
<1>. QED
  BY <1>1, <1>3, <1>4, <1>5, <1>6

LEMMA AheadTail ==
  ASSUME NEW s, AheadOfBack(s)
  PROVE  /\ s # <<>> /\ Has(s, "back")
         /\ \/ Head(s) = "back" /\ Tail(s) \in Seq(StillOps)
            \/ Head(s) \in RepeatOps /\ AheadOfBack(Tail(s))
<1>1. PICK k \in 1 .. Len(s) : /\ s[k] = "back"
                              /\ \A i \in 1 .. Len(s) : i # k => s[i] \in RepeatOps
  BY DEF AheadOfBack
<1>2. s \in Seq(RepeatOps \cup {"back"}) /\ Len(s) \in Nat
  BY LenProperties DEF AheadOfBack
<1>3. s # <<>> /\ Has(s, "back")
  BY <1>1, <1>2, LenProperties DEF Has
<1>4. /\ Head(s) = s[1] /\ Tail(s) \in Seq(RepeatOps \cup {"back"})
      /\ Len(Tail(s)) = Len(s) - 1
      /\ \A i \in 1 .. Len(Tail(s)) : Tail(s)[i] = s[i + 1]
  BY <1>2, <1>3, HeadTailProperties
<1>5. CASE k = 1
  <2>1. \A i \in 1 .. Len(Tail(s)) : Tail(s)[i] \in RepeatOps
    BY <1>1, <1>2, <1>4, <1>5
  <2>2. RepeatOps \subseteq StillOps
    BY StillNames DEF RepeatOps
  <2>3. Tail(s) \in [1 .. Len(Tail(s)) -> StillOps] /\ Len(Tail(s)) \in Nat
    BY <1>4, <2>1, <2>2, LenProperties
  <2>4. Tail(s) \in Seq(StillOps)
    BY <2>3, SeqDef
  <2>. QED
    BY <1>1, <1>3, <1>4, <1>5, <2>4
<1>6. CASE k # 1
  <2>1. k - 1 \in 1 .. Len(Tail(s)) /\ Tail(s)[k - 1] = "back"
    BY <1>1, <1>2, <1>4, <1>6
  <2>2. \A i \in 1 .. Len(Tail(s)) : i # k - 1 => Tail(s)[i] \in RepeatOps
    BY <1>1, <1>2, <1>4, <1>6
  <2>3. Head(s) \in RepeatOps
    BY <1>1, <1>2, <1>3, <1>4, <1>6
  <2>. QED
    BY <1>3, <1>4, <2>1, <2>2, <2>3 DEF AheadOfBack
<1>. QED
  BY <1>5, <1>6

(* What an injected opcode leads to.                                        *)
LEMMA ExecKeepsPC ==
  ASSUME InjectsNoIndexedCB, TypeOK, Shape, InjectionEnds, TimeInv, InjectInv,
         Exec, doing = "inject"
  PROVE  PcKept'
<1>1. im0 /\ AfterFetch = pc /\ FromBus = AckBytes
  BY DEF InjectionEnds, AfterFetch, FromBus
<1>2. /\ todo # <<>> /\ ins = "none" /\ todo \in Fetching /\ Tail(todo) = <<"end">>
      /\ pc = pc0 /\ (AckBytes \cap Prefixes = {} => idx = "HL")
  <2>1. todo # <<>> /\ Head(todo) \in {"opcode", "opcodeCB", "opcodeED", "selector"}
    BY ExecFacts
  <2>2. Head(todo) # "selector" => ins = "none"
    BY <2>1, Where
  <2>3. Head(todo) = "selector" => ins = "none"
    BY <2>1, SettledHead, NotSettled DEF TimeInv, Unresolved, Addressing, Executing
  <2>. QED
    BY <2>1, <2>2, <2>3, FetchingShape DEF InjectInv, PcKept
<1>3. UNCHANGED pc0
  BY ExecFacts
<1>4. ASSUME NEW page, NEW c \in DOMAIN page, ins' = c, c # "none", Then(page[c]), pc' = pc,
             c \notin Jumping => page[c] \in Seq(StillOps) /\ c \notin Repeating
      PROVE  PcKept'
  BY <1>2, <1>3, <1>4, StillThen, EndStill DEF PcKept
<1>5. ASSUME NEW byte \in Prefixes, FetchPrefix(byte) PROVE PcKept'
  <2>1. UNCHANGED <<todo, ins>> /\ pc' = pc /\ byte \in AckBytes \cap Prefixes
    BY <1>1, <1>5 DEF FetchPrefix, FetchOpcode
  <2>. QED
    BY <1>2, <1>3, <2>1 DEF PcKept
<1>6. ASSUME NEW byte \in DOMAIN BaseBody, FetchBase(byte) PROVE PcKept'
  <2>1. ins' = byte /\ Then(BaseBody[byte]) /\ pc' = pc
    BY <1>1, <1>6 DEF FetchBase, FetchOpcode
  <2>. QED
    BY <1>4, <2>1, BaseBodyStill, DispatchNames, RepeatNames
<1>7. CASE FetchCB
  <2>1. /\ "CB" \in AckBytes /\ pc' = pc /\ UNCHANGED <<ins, idx>>
        /\ Then(IF idx = "HL" THEN <<"opcodeCB">> ELSE <<"fetch8", "selector">>)
    BY <1>1, <1>7 DEF FetchCB, FetchOpcode, observe, index
  <2>2. idx = "HL"
    BY <1>2, <2>1 DEF InjectsNoIndexedCB
  <2>3. todo' = <<"opcodeCB", "end">>
    BY <1>2, <2>1, <2>2, ThenEnd
  <2>. QED
    BY <1>2, <1>3, <2>1, <2>2, <2>3 DEF PcKept, Fetching
<1>8. CASE FetchED
  <2>1. pc' = pc /\ UNCHANGED ins /\ idx' = "HL" /\ Then(<<"opcodeED">>)
    BY <1>1, <1>8 DEF FetchED, FetchOpcode, observe
  <2>2. todo' = <<"opcodeED", "end">>
    BY <1>2, <2>1, ThenEnd
  <2>. QED
    BY <1>2, <1>3, <2>1, <2>2 DEF PcKept, Fetching
<1>9. CASE FetchPaged("opcodeCB", CBBody)
  <2>1. PICK c \in DOMAIN CBBody : ins' = c /\ Then(CBBody[c]) /\ pc' = pc
    BY <1>1, <1>9 DEF FetchPaged, FetchOpcode
  <2>. QED
    BY <1>4, <2>1, CBBodyStill, DispatchNames, RepeatNames
<1>10. CASE FetchPaged("opcodeED", EDBody)
  <2>1. PICK c \in DOMAIN EDBody : ins' = c /\ Then(EDBody[c]) /\ pc' = pc
    BY <1>1, <1>10 DEF FetchPaged, FetchOpcode
  <2>2. CASE c \in {"ldir", "cpir", "inir", "otir"}
    <3>1. AheadOfBack(todo')
      BY <1>2, <2>1, <2>2, RepeatingAhead DEF Then
    <3>2. c \in Repeating /\ c # "none"
      BY <2>2, RepeatNames, DispatchNames
    <3>. QED
      BY <1>2, <1>3, <2>1, <3>1, <3>2 DEF PcKept
  <2>3. CASE c \notin {"ldir", "cpir", "inir", "otir"}
    <3>1. c \notin Jumping => EDBody[c] \in Seq(StillOps)
      BY <2>3, EDBodyStill
    <3>2. c \notin Jumping => c \notin Repeating
      BY <3>1, StillHasNoBack DEF Repeating
    <3>. QED
      BY <1>4, <2>1, <3>1, <3>2, DispatchNames
  <2>. QED
    BY <2>2, <2>3
<1>11. ~Selector
  BY <1>2, FetchingShape DEF Selector, At
<1>. QED
  BY <1>5, <1>6, <1>7, <1>8, <1>9, <1>10, <1>11 DEF Exec

(* What an instruction that does not jump runs after it is dispatched.      *)
LEMMA BodyKeepsPC ==
  ASSUME TypeOK, Shape, InjectionEnds, InjectInv, doing = "inject",
         UNCHANGED <<ins, pc0>>,
         Fetch8 \/ RunCycle \/ Effect
  PROVE  PcKept'
<1>1. todo # <<>>
  BY DEF Fetch8, RunCycle, Effect, Resolve, CacheDisp, SetF, LdR, SetIM, Jump, EI, DI, RETN, HALT,
         At
<1>2. ins # "none"
  <2>1. Head(todo) \notin {"opcode", "opcodeCB", "opcodeED"}
    BY DEF Fetch8, RunCycle, Effect, Resolve, CacheDisp, SetF, LdR, SetIM, Jump, EI, DI, RETN,
           HALT, At, Cycle
  <2>. QED
    BY <2>1, FetchingShape DEF InjectInv, PcKept
<1>3. CASE ins \notin Jumping /\ AheadOfBack(todo) /\ ins \in Repeating /\ pc = pc0
  <2>1. CASE Head(todo) = "back" /\ Tail(todo) \in Seq(StillOps)
    <3>1. pc' = (pc - 2) % AddrMod /\ Done
      BY <2>1 DEF Fetch8, RunCycle, Effect, Resolve, CacheDisp, SetF, LdR, SetIM, Jump, EI, DI,
                  RETN, HALT, At, Cycle
    <3>. QED
      BY <1>2, <1>3, <2>1, <3>1 DEF PcKept, Done
  <2>2. CASE Head(todo) \in RepeatOps /\ AheadOfBack(Tail(todo))
    <3>1. UNCHANGED pc /\ Done
      BY <2>2 DEF RepeatOps, Fetch8, RunCycle, Effect, Resolve, CacheDisp, SetF, LdR, SetIM,
                  Jump, EI, DI, RETN, HALT, At, fetched
    <3>. QED
      BY <1>2, <1>3, <2>2, <3>1 DEF PcKept, Done
  <2>. QED
    BY <1>3, <2>1, <2>2, AheadTail
<1>4. CASE ins \notin Jumping /\ ~(AheadOfBack(todo) /\ ins \in Repeating /\ pc = pc0)
  <2>1. /\ todo \in Seq(StillOps) /\ Head(todo) \in StillOps
        /\ pc = IF ins \in Repeating THEN (pc0 - 2) % AddrMod ELSE pc0
        /\ Tail(todo) \in Seq(StillOps)
    BY <1>1, <1>2, <1>4, StillTail DEF InjectInv, PcKept
  <2>2. pc' = pc
    <3>1. ~Jump
      BY <2>1, StillNames DEF Jump, At
    <3>2. Fetch8 => pc' = pc
      BY DEF Fetch8, AfterFetch, InjectionEnds
    <3>. QED
      BY <3>1, <3>2
         DEF RunCycle, Effect, Resolve, CacheDisp, SetF, LdR, SetIM, EI, DI, RETN, HALT, fetched
  <2>3. todo' \in Seq(StillOps)
    <3>1. CASE Resolve
      <4>1. EaBody \in Seq(StillOps) /\ LdmnBody \in Seq(StillOps)
        <5>1. /\ <<>> \in Seq(StillOps) /\ <<"fetch8", "int5", "disp">> \in Seq(StillOps)
              /\ <<"fetch8", "write">> \in Seq(StillOps)
              /\ <<"fetch8", "fetch8", "int2", "write">> \in Seq(StillOps)
          BY StillNames
        <5>. QED
          BY <5>1, Zenon DEF EaBody, LdmnBody
      <4>. QED
        BY <1>1, <2>1, <3>1, <4>1, StillThen DEF Resolve
    <3>2. CASE Done
      BY <2>1, <3>2 DEF Done
    <3>. QED
      BY <3>1, <3>2
         DEF Fetch8, RunCycle, Effect, CacheDisp, SetF, LdR, SetIM, Jump, EI, DI, RETN, HALT
  <2>. QED
    BY <1>2, <2>1, <2>2, <2>3 DEF PcKept
<1>. QED
  BY <1>2, <1>3, <1>4 DEF PcKept

LEMMA StepInjectInv ==
  ASSUME InjectsNoIndexedCB, IInv, TimeInv, InjectInv, [Next]_vars
  PROVE  InjectInv'
<1>1. TypeOK /\ Shape /\ InjectionEnds
  BY DEF IInv
<1>2. CASE UNCHANGED <<todo, doing, ins, pc, pc0, idx>>
  BY <1>2 DEF InjectInv, PcKept
<1>3. CASE Machine
  <2>1. CASE (\E level \in BOOLEAN : SetINT(level)) \/ NMI
    BY <1>2, <2>1 DEF SetINT, NMI, index, observe, fetched
  <2>2. CASE Reset \/ SpecialReset
    BY <1>1, <2>2 DEF Reset, SpecialReset, Shape, InjectInv, observe
  <2>. QED
    BY <1>3, <2>1, <2>2 DEF Machine
<1>4. CASE BeginStep
  <2>1. SUFFICES ASSUME doing' = "inject" PROVE PcKept'
    BY DEF InjectInv
  <2>2. todo' = <<"opcode", "end">> /\ idx' = "HL"
    BY <1>4, <2>1 DEF BeginStep, AcceptNMI, AcceptINT, InjectINT, EnterINT, HaltCycle, Execute,
                      Begin, FreshIndex
  <2>3. ins' = "none" /\ pc' = pc0'
    BY <1>1, <1>4, BeginFacts DEF Shape
  <2>. QED
    BY <2>2, <2>3 DEF PcKept, Fetching
<1>5. CASE EndStep
  BY <1>5 DEF EndStep, InjectInv
<1>6. ASSUME doing' = doing, doing = "inject" => PcKept' PROVE InjectInv'
  BY <1>6 DEF InjectInv
<1>7. CASE Exec
  BY <1>1, <1>6, <1>7, ExecKeepsPC, ExecFacts
<1>8. CASE NmiM1 \/ HaltM1 \/ IntAckM1
  <2>1. doing' = doing /\ todo # <<>> /\ Head(todo) \in {"nmiM1", "haltM1", "ackM1"}
    BY <1>8 DEF NmiM1, HaltM1, IntAckM1, At, observe
  <2>2. doing # "inject"
    BY <1>1, <2>1, Where
  <2>. QED
    BY <1>6, <2>1, <2>2
<1>9. CASE Fetch8 \/ RunCycle \/ Effect
  <2>1. UNCHANGED <<doing, ins, pc0>>
    BY <1>9 DEF Fetch8, RunCycle, Effect, Resolve, CacheDisp, SetF, LdR, SetIM, Jump, EI, DI, RETN,
                HALT, observe
  <2>. QED
    BY <1>1, <1>6, <1>9, <2>1, BodyKeepsPC
<1>10. CASE UNCHANGED vars
  BY <1>2, <1>10 DEF vars, index, observe, fetched
<1>. QED
  BY <1>3, <1>4, <1>5, <1>7, <1>8, <1>9, <1>10 DEF Next, Step

(* An injected instruction that does not jump leaves PC where it was, but   *)
(* for the two that a repeating block instruction takes from it, whatever   *)
(* the device injects except the DDCB and FDCB pages, whose last byte is    *)
(* read at PC.  With these InjectionKeepsPC is violated.                    *)
THEOREM InjectionKeepsPCHolds ==
  ASSUME InjectsNoIndexedCB
  PROVE  Spec => []InjectionKeepsPC
<1>1. Init => IInv /\ TimeInv /\ InjectInv
  BY InitInv, InitTime DEF Init, InjectInv
<1>2. IInv /\ TimeInv /\ InjectInv /\ [Next]_vars => IInv' /\ TimeInv' /\ InjectInv'
  BY StepInv, StepTimeInv, StepInjectInv
<1>3. IInv /\ TimeInv /\ InjectInv => InjectionKeepsPC
  <2>1. SUFFICES ASSUME InjectInv, doing = "inject", ins \notin Jumping
                 PROVE  pc = IF WentBack THEN (pc0 - 2) % AddrMod ELSE pc0
    BY DEF InjectionKeepsPC
  <2>2. CASE ins = "none"
    <3>1. "none" \notin Repeating
      BY RepeatNames, DispatchNames
    <3>. QED
      BY <2>1, <2>2, <3>1 DEF InjectInv, PcKept, WentBack
  <2>3. CASE ins # "none" /\ AheadOfBack(todo) /\ ins \in Repeating /\ pc = pc0
    BY <2>3, AheadTail DEF WentBack
  <2>4. CASE /\ ins # "none" /\ todo \in Seq(StillOps)
             /\ pc = IF ins \in Repeating THEN (pc0 - 2) % AddrMod ELSE pc0
    BY <2>4, StillHasNoBack DEF WentBack
  <2>. QED
    BY <2>1, <2>2, <2>3, <2>4 DEF InjectInv, PcKept
<1>. QED
  BY <1>1, <1>2, <1>3, PTL DEF Spec
=============================================================================
