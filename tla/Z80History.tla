----------------------------- MODULE Z80History -----------------------------
(***************************************************************************)
(* Z80Cpu with two history variables, for what spans more than one Step or *)
(* the whole of one: what IFF1 was before the NMI that is being handled,   *)
(* and what R was when the Step in progress began.  They only watch: every *)
(* step of Z80Cpu is a step here.                                          *)
(***************************************************************************)
EXTENDS Z80Cpu

VARIABLES
  before,      \* IFF1 before the NMI: "on", "off"; "none" if it was set since
  r0           \* R when the Step in progress began

historyVars == <<vars, before, r0>>

Setting(enabled) == IF enabled THEN "on" ELSE "off"

(* EI, DI, the acceptance of an INT and Reset give both flip-flops a new    *)
(* setting, and what was before the NMI no longer matters.                  *)
SetsBoth == EI \/ DI \/ AcceptINT \/ InjectINT \/ Reset

(* An NMI that interrupts the handler of another finds IFF1 cleared by it:  *)
(* what counts is the setting before the outermost.                         *)
Watch ==
  /\ before' = IF SetsBoth THEN "none"
               ELSE IF AcceptNMI /\ before = "none" THEN Setting(iff1) ELSE before
  /\ r0' = IF BeginStep THEN r ELSE IF EndStep THEN 0 ELSE r0

HistoryInit == Init /\ before = "none" /\ r0 = 0

HistoryNext == Next /\ Watch

HistorySpec == HistoryInit /\ [][HistoryNext]_historyVars

(* The fairness of Z80Cpu, which the history does not touch.                *)
FairHistory == HistorySpec /\ Fairness

----------------------------------------------------------------------------
(* Properties. *)

(* acceptNMI clears IFF1 and preserves IFF2, so that RETN gives back the    *)
(* interrupt enable that the NMI took, however many NMIs were nested,       *)
(* special resets made and Steps taken in between, unless the handler       *)
(* itself, an INT or a reset has decided anew.                              *)
RetnRestores == [][RETN /\ before # "none" => iff1' = (before = "on")]_historyVars

(* The M1 cycles of a Step: the acknowledge or discarded fetch of a service *)
(* or halt cycle, and one per prefix and opcode byte of an instruction, but *)
(* none for the last byte of a DDCB or FDCB opcode.                         *)
M1Cycles == IF doing \in {"instr", "inject"} THEN M1Count ELSE 1

(* "incremented once per M1" (SPEC.md): whatever ran before and whatever    *)
(* interrupted, a Step moves R on by the number of its M1 cycles.  Only     *)
(* LD R,A sets it, and a prefix run is counted up to the bound.             *)
RefreshCounted ==
  todo = <<"end">> /\ pre < MaxPre /\ ins # "ld_r_a" => r = (r0 + M1Cycles) % RMod
=============================================================================
