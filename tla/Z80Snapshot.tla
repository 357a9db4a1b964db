----------------------------- MODULE Z80Snapshot -----------------------------
(***************************************************************************)
(* Save states (State and SetState of z80/state.go).  One CPU runs, is     *)
(* saved between two Steps and restored into a second CPU, the twin, which *)
(* may have run anything before.  From then on both meet the same machine: *)
(* the same bytes, the same calls at the same moments.                     *)
(*                                                                         *)
(* A State leaves out the request lines (intLine, nmiPending) and what the *)
(* CPU keeps only within a Step (lastIR, idx, dispValid, flagsSet, im0).   *)
(* The lines the machine must bring along: it drives the level of /INT in  *)
(* any case, and calls NMI again for an edge that was latched when it      *)
(* saved.  SetState does not unlatch an edge either, so the twin must not  *)
(* hold one of its own.  The rest is whatever the twin was left with.      *)
(***************************************************************************)
EXTENDS Z80Cpu

VARIABLES
  restored,                             \* the twin runs beside the CPU
  pc2, r2, lastIR2, im2, iff1b, iff2b, halted2, eiPending2, q2, flagsSet2,
  idx2, dispValid2, im02, intLine2, nmiPending2,
  todo2, doing2, ins2, pre2, t2, pc02, last2

Twin == INSTANCE Z80Cpu WITH
  pc <- pc2, r <- r2, lastIR <- lastIR2, im <- im2, iff1 <- iff1b, iff2 <- iff2b,
  halted <- halted2, eiPending <- eiPending2, q <- q2, flagsSet <- flagsSet2,
  idx <- idx2, dispValid <- dispValid2, im0 <- im02,
  intLine <- intLine2, nmiPending <- nmiPending2,
  todo <- todo2, doing <- doing2, ins <- ins2, pre <- pre2, t <- t2,
  pc0 <- pc02, last <- last2

twinVars == <<pc2, r2, lastIR2, im2, iff1b, iff2b, halted2, eiPending2, q2, flagsSet2,
              idx2, dispValid2, im02, intLine2, nmiPending2,
              todo2, doing2, ins2, pre2, t2, pc02, last2>>

SnapshotInit == Init /\ Twin!Init /\ restored = FALSE

----------------------------------------------------------------------------
(* The CPU before it is saved.                                              *)
RunAlone == ~restored /\ Next /\ UNCHANGED <<twinVars, restored>>

(* The fields of a State.                                                   *)
RestoreInterrupts_NoEI ==               \* mutant: EIPending forgotten
  /\ im2' = im /\ iff1b' = iff1 /\ iff2b' = iff2 /\ halted2' = halted
  /\ eiPending2' \in BOOLEAN

RestoreInterrupts ==
  /\ im2' = im /\ iff1b' = iff1 /\ iff2b' = iff2
  /\ halted2' = halted /\ eiPending2' = eiPending

RestoreRegisters == pc2' = pc /\ r2' = r /\ q2' = q

(* What SetState leaves alone: any value a CPU may hold between two Steps.  *)
LeftOver == /\ lastIR2' \in RVal /\ flagsSet2' \in BOOLEAN
            /\ idx2' \in {"HL", "IX", "IY"} /\ dispValid2' \in BOOLEAN
            /\ im02' = FALSE

BringLines == intLine2' = intLine /\ nmiPending2' = nmiPending

SaveAndRestore ==
  /\ ~restored /\ restored' = TRUE
  /\ todo = <<>>
  /\ RestoreInterrupts /\ RestoreRegisters /\ LeftOver /\ BringLines
  /\ last2' = last
  /\ UNCHANGED <<vars, todo2, doing2, ins2, pre2, t2, pc02>>

----------------------------------------------------------------------------
(* Side by side: the same call of the machine, or the same piece of a Step  *)
(* with the same byte from the bus.                                         *)

SameMachine ==
  \/ \E level \in BOOLEAN : SetINT(level) /\ Twin!SetINT(level)
  \/ NMI /\ Twin!NMI
  \/ Reset /\ Twin!Reset
  \/ SpecialReset /\ Twin!SpecialReset

SameFetch ==
  \/ \E byte \in Prefixes : FetchPrefix(byte) /\ Twin!FetchPrefix(byte)
  \/ \E byte \in DOMAIN BaseBody : FetchBase(byte) /\ Twin!FetchBase(byte)
  \/ FetchCB /\ Twin!FetchCB
  \/ FetchED /\ Twin!FetchED
  \/ /\ \/ FetchPaged("opcodeCB", CBBody) /\ Twin!FetchPaged("opcodeCB", CBBody)
        \/ FetchPaged("opcodeED", EDBody) /\ Twin!FetchPaged("opcodeED", EDBody)
        \/ Selector /\ Twin!Selector
     /\ ins2' = ins'
  \/ Fetch8 /\ Twin!Fetch8

(* Effect takes a value from memory in two places only, JP's target and A   *)
(* for LD R,A.                                                              *)
SameEffect ==
  /\ Effect /\ Twin!Effect
  /\ At("jump") => pc2' = pc'
  /\ At("ldR") => r2' = r'

SameRest ==
  \/ BeginStep /\ Twin!BeginStep
  \/ NmiM1 /\ Twin!NmiM1
  \/ HaltM1 /\ Twin!HaltM1
  \/ IntAckM1 /\ Twin!IntAckM1
  \/ RunCycle /\ Twin!RunCycle
  \/ EndStep /\ Twin!EndStep

RunBoth == restored /\ (SameMachine \/ SameFetch \/ SameEffect \/ SameRest)
                    /\ UNCHANGED restored

SnapshotNext == RunAlone \/ SaveAndRestore \/ RunBoth

SnapshotSpec == SnapshotInit /\ [][SnapshotNext]_<<vars, twinVars, restored>>

----------------------------------------------------------------------------
(* Properties. *)

(* "SetState followed by identical bus behavior reproduces execution        *)
(* byte-for-byte" (state.go): whenever the CPU was saved, in HALT, behind   *)
(* an EI or after an SCF, the twin takes the same Steps through the same    *)
(* M-cycles in as many T-states, puts the same PC and refresh address on    *)
(* the bus, and reads back the same State; nothing that SetState leaves     *)
(* alone can be told apart.                                                 *)
Reproduces ==
  restored =>
    /\ <<todo2, doing2, ins2, t2>> = <<todo, doing, ins, t>>
    /\ <<pc2, r2, q2, im2, iff1b, iff2b, halted2, eiPending2>>
         = <<pc, r, q, im, iff1, iff2, halted, eiPending>>
    /\ todo # <<>> /\ Head(todo) \in IrCycles => lastIR2 = lastIR
=============================================================================
