-------------------------- MODULE Z80SnapshotProofs --------------------------
(***************************************************************************)
(* A restored CPU reproduces the saved one, for every program, every       *)
(* interrupting machine and whatever the restored CPU did before.          *)
(***************************************************************************)
EXTENDS Z80Snapshot, Z80CpuProofs

(* What the two CPUs have in common from the restore on: the fields of a    *)
(* State, the lines, and where in a Step they are.                          *)
SamePlace == /\ todo2 = todo /\ doing2 = doing /\ ins2 = ins /\ pre2 = pre /\ t2 = t
             /\ im02 = im0
SameLines == intLine2 = intLine /\ nmiPending2 = nmiPending
SameState == /\ pc2 = pc /\ r2 = r /\ q2 = q /\ im2 = im
             /\ iff1b = iff1 /\ iff2b = iff2 /\ halted2 = halted /\ eiPending2 = eiPending

(* What SetState leaves alone is the same wherever the code reads it: the   *)
(* latches of an instruction while one executes, lastIR after an M1.        *)
SameLatches == Executing => flagsSet2 = flagsSet /\ idx2 = idx /\ dispValid2 = dispValid
SameRefresh == todo # <<>> /\ Head(todo) \notin FirstM1 => lastIR2 = lastIR

Sim == SamePlace /\ SameLines /\ SameState /\ SameLatches /\ SameRefresh

TwinIdle == todo2 = <<>> /\ doing2 = "idle" /\ ins2 = "none" /\ pre2 = 0 /\ t2 = 0

(* Between two Steps no T-states are counted.                               *)
IdleTime == todo = <<>> => t = 0

SimInv == /\ IdleTime
          /\ restored \in BOOLEAN
          /\ ~restored => TwinIdle
          /\ restored => Sim

----------------------------------------------------------------------------
(* The CPU that is saved is the CPU of Z80Cpu. *)

LEMMA SnapshotStepIsCoreStep == [SnapshotNext]_<<vars, twinVars, restored>> => [Next]_vars
<1>. SUFFICES ASSUME [SnapshotNext]_<<vars, twinVars, restored>> PROVE [Next]_vars
  OBVIOUS
<1>1. CASE RunAlone
  BY <1>1 DEF RunAlone
<1>2. CASE SaveAndRestore
  BY <1>2 DEF SaveAndRestore
<1>3. CASE SameMachine
  BY <1>3 DEF SameMachine, Next, Machine
<1>4. CASE SameFetch
  BY <1>4 DEF SameFetch, Next, Step, Exec
<1>5. CASE SameEffect \/ SameRest
  BY <1>5 DEF SameEffect, SameRest, Next, Step
<1>6. CASE UNCHANGED <<vars, twinVars, restored>>
  BY <1>6
<1>. QED
  BY <1>1, <1>2, <1>3, <1>4, <1>5, <1>6 DEF SnapshotNext, RunBoth

LEMMA SnapshotRunsTheCore == SnapshotSpec => Spec
<1>1. SnapshotInit => Init
  BY DEF SnapshotInit
<1>. QED
  BY <1>1, SnapshotStepIsCoreStep, PTL DEF SnapshotSpec, Spec

(* Time passes in the middle of a Step only.                                *)
LEMMA TimeSteps ==
  ASSUME [Next]_vars, todo = <<>>
  PROVE  t' = t
BY DEF Next, Machine, SetINT, NMI, Reset, SpecialReset, Step, BeginStep, AcceptNMI, AcceptINT,
       InjectINT, EnterINT, HaltCycle, Execute, Begin, EndStep, Exec, FetchPrefix, FetchBase,
       FetchCB, FetchED, FetchPaged, Selector, NmiM1, HaltM1, IntAckM1, Fetch8, RunCycle,
       Effect, Resolve, CacheDisp, SetF, LdR, SetIM, Jump, EI, DI, RETN, HALT, At, vars

LEMMA StepIdleTime ==
  ASSUME TypeOK, Shape, Shape', IdleTime, [Next]_vars
  PROVE  IdleTime'
<1>. SUFFICES ASSUME todo' = <<>> PROVE t' = 0
  BY DEF IdleTime
<1>1. CASE EndStep
  BY <1>1 DEF EndStep
<1>2. CASE ~EndStep
  <2>1. ~BeginStep
    BY BeginFacts
  <2>2. todo = <<>>
    BY <1>2, <2>1, ObserveSteps DEF Shape
  <2>. QED
    BY <2>2, TimeSteps DEF IdleTime
<1>. QED
  BY <1>1, <1>2

----------------------------------------------------------------------------
(* The twin's definitions are those of the CPU, over its own variables. *)

LEMMA TwinConstants ==
  /\ Twin!BaseBody = BaseBody /\ Twin!CBBody = CBBody /\ Twin!XCBBody = XCBBody
  /\ Twin!EDBody = EDBody /\ Twin!Cycle = Cycle /\ Twin!Prefixes = Prefixes
  /\ Twin!NmiRest = NmiRest /\ Twin!Im1Rest = Im1Rest /\ Twin!Im2Rest = Im2Rest
<1>1. Twin!BaseBody = BaseBody
  BY DEF Twin!BaseBody, BaseBody
<1>2. Twin!CBBody = CBBody
  BY DEF Twin!CBBody, CBBody
<1>3. Twin!XCBBody = XCBBody
  BY DEF Twin!XCBBody, XCBBody
<1>4. Twin!EDBody = EDBody
  BY DEF Twin!EDBody, EDBody
<1>5. Twin!Cycle = Cycle
  BY DEF Twin!Cycle, Cycle
<1>. QED
  BY <1>1, <1>2, <1>3, <1>4, <1>5
  DEF Twin!Prefixes, Prefixes, Twin!NmiRest, NmiRest, Twin!Im1Rest, Im1Rest, Twin!Im2Rest, Im2Rest

LEMMA SameMachineStep ==
  ASSUME Sim, SameMachine
  PROVE  Sim'
<1>. USE DEF Sim, SamePlace, SameLines, SameState, SameLatches, SameRefresh, Executing,
     fetched, enables, latches, index, lines, observe,
     Twin!fetched, Twin!enables, Twin!latches, Twin!index, Twin!lines, Twin!observe
<1>1. ASSUME NEW level \in BOOLEAN, SetINT(level), Twin!SetINT(level) PROVE Sim'
  BY <1>1 DEF SetINT, Twin!SetINT
<1>2. ASSUME NMI, Twin!NMI PROVE Sim'
  BY <1>2 DEF NMI, Twin!NMI
<1>3. ASSUME Reset, Twin!Reset PROVE Sim'
  BY <1>3 DEF Reset, Twin!Reset
<1>4. ASSUME SpecialReset, Twin!SpecialReset PROVE Sim'
  BY <1>4 DEF SpecialReset, Twin!SpecialReset
<1>. QED
  BY <1>1, <1>2, <1>3, <1>4 DEF SameMachine

(* The fetches.  The same byte moves PC and R alike in both.                *)
LEMMA SameFetchStep ==
  ASSUME TypeOK, Shape, Sim, SameFetch
  PROVE  Sim'
<1>. USE DEF Sim, SamePlace, SameLines, SameState, SameLatches, SameRefresh, Executing, FirstM1,
     fetched, enables, latches, index, lines, observe,
     Twin!fetched, Twin!enables, Twin!latches, Twin!index, Twin!lines, Twin!observe
<1>. USE DEF At, Twin!At, Then, Twin!Then, Take, Twin!Take, FetchOpcode, Twin!FetchOpcode,
     AfterFetch, Twin!AfterFetch, Refresh, Twin!Refresh, IncR, Twin!IncR,
     OpcodeTime, Twin!OpcodeTime
<1>1. ASSUME NEW byte \in Prefixes, FetchPrefix(byte), Twin!FetchPrefix(byte) PROVE Sim'
  <2>1. pre2' = pre' /\ t2' = t'
    BY <1>1 DEF FetchPrefix, Twin!FetchPrefix
  <2>2. SameState' /\ lastIR2' = lastIR'
    BY <1>1 DEF FetchPrefix, Twin!FetchPrefix
  <2>3. SamePlace' /\ SameLines'
    BY <1>1, <2>1 DEF FetchPrefix, Twin!FetchPrefix
  <2>4. SameLatches'
    BY <1>1 DEF FetchPrefix, Twin!FetchPrefix
  <2>. QED
    BY <2>2, <2>3, <2>4
<1>2. ASSUME NEW byte \in DOMAIN BaseBody, FetchBase(byte), Twin!FetchBase(byte) PROVE Sim'
  BY <1>2, TwinConstants DEF FetchBase, Twin!FetchBase
<1>3. ASSUME FetchCB, Twin!FetchCB PROVE Sim'
  <2>1. idx2 = idx
    BY <1>3, Where DEF FetchCB
  <2>. QED
    BY <1>3, <2>1 DEF FetchCB, Twin!FetchCB
<1>4. ASSUME FetchED, Twin!FetchED PROVE Sim'
  BY <1>4 DEF FetchED, Twin!FetchED
<1>5. ASSUME FetchPaged("opcodeCB", CBBody), Twin!FetchPaged("opcodeCB", CBBody), ins2' = ins'
      PROVE  Sim'
  BY <1>5 DEF FetchPaged, Twin!FetchPaged
<1>6. ASSUME FetchPaged("opcodeED", EDBody), Twin!FetchPaged("opcodeED", EDBody), ins2' = ins'
      PROVE  Sim'
  BY <1>6 DEF FetchPaged, Twin!FetchPaged
<1>7. ASSUME Selector, Twin!Selector, ins2' = ins' PROVE Sim'
  BY <1>7, TwinConstants DEF Selector, Twin!Selector
<1>8. ASSUME Fetch8, Twin!Fetch8 PROVE Sim'
  BY <1>8 DEF Fetch8, Twin!Fetch8, Done, Twin!Done
<1>. QED
  BY <1>1, <1>2, <1>3, <1>4, <1>5, <1>6, <1>7, <1>8 DEF SameFetch

(* The effects.  The head of the schedule says which.                       *)
LEMMA SameEffectStep ==
  ASSUME TypeOK, Shape, Sim, SameEffect
  PROVE  Sim'
<1>. USE DEF Sim, SamePlace, SameLines, SameState, SameLatches, SameRefresh, Executing, FirstM1,
     fetched, enables, latches, index, lines, observe,
     Twin!fetched, Twin!enables, Twin!latches, Twin!index, Twin!lines, Twin!observe
<1>. USE DEF At, Twin!At, Done, Twin!Done
<1>1. /\ Effect /\ Twin!Effect
      /\ At("jump") => pc2' = pc'
      /\ At("ldR") => r2' = r'
  BY DEF SameEffect
<1>2. CASE Resolve
  <2>1. Executing
    BY <1>2, Where DEF Resolve
  <2>2. Twin!EaBody = EaBody /\ Twin!LdmnBody = LdmnBody
    BY <2>1 DEF Twin!EaBody, EaBody, Twin!LdmnBody, LdmnBody
  <2>3. Twin!Resolve
    BY <1>1, <1>2 DEF Resolve, Twin!Effect, Twin!CacheDisp, Twin!SetF, Twin!LdR, Twin!SetIM,
       Twin!Jump, Twin!EI, Twin!DI, Twin!RETN, Twin!HALT
  <2>. QED
    BY <1>2, <2>2, <2>3 DEF Resolve, Twin!Resolve, Then, Twin!Then
<1>3. CASE CacheDisp
  <2>1. Twin!CacheDisp
    BY <1>1, <1>3 DEF CacheDisp, Twin!Effect, Twin!Resolve, Twin!SetF, Twin!LdR, Twin!SetIM, Twin!Jump, Twin!EI, Twin!DI,
       Twin!RETN, Twin!HALT
  <2>. QED
    BY <1>1, <1>3, <2>1 DEF CacheDisp, Twin!CacheDisp
<1>4. CASE SetF
  <2>1. Twin!SetF
    BY <1>1, <1>4 DEF SetF, Twin!Effect, Twin!Resolve, Twin!CacheDisp, Twin!LdR, Twin!SetIM, Twin!Jump, Twin!EI, Twin!DI,
       Twin!RETN, Twin!HALT
  <2>. QED
    BY <1>1, <1>4, <2>1 DEF SetF, Twin!SetF
<1>5. CASE LdR
  <2>1. Twin!LdR
    BY <1>1, <1>5 DEF LdR, Twin!Effect, Twin!Resolve, Twin!CacheDisp, Twin!SetF, Twin!SetIM, Twin!Jump, Twin!EI,
       Twin!DI, Twin!RETN, Twin!HALT
  <2>. QED
    BY <1>1, <1>5, <2>1 DEF LdR, Twin!LdR
<1>6. CASE SetIM
  <2>1. Twin!SetIM
    BY <1>1, <1>6 DEF SetIM, Twin!Effect, Twin!Resolve, Twin!CacheDisp, Twin!SetF, Twin!LdR, Twin!Jump, Twin!EI, Twin!DI,
       Twin!RETN, Twin!HALT
  <2>. QED
    BY <1>1, <1>6, <2>1 DEF SetIM, Twin!SetIM
<1>7. CASE Jump
  <2>1. Twin!Jump
    BY <1>1, <1>7 DEF Jump, Twin!Effect, Twin!Resolve, Twin!CacheDisp, Twin!SetF, Twin!LdR, Twin!SetIM, Twin!EI, Twin!DI,
       Twin!RETN, Twin!HALT
  <2>. QED
    BY <1>1, <1>7, <2>1 DEF Jump, Twin!Jump
<1>8. CASE EI
  <2>1. Twin!EI
    BY <1>1, <1>8 DEF EI, Twin!Effect, Twin!Resolve, Twin!CacheDisp, Twin!SetF, Twin!LdR, Twin!SetIM, Twin!Jump,
       Twin!DI, Twin!RETN, Twin!HALT
  <2>. QED
    BY <1>1, <1>8, <2>1 DEF EI, Twin!EI
<1>9. CASE DI
  <2>1. Twin!DI
    BY <1>1, <1>9 DEF DI, Twin!Effect, Twin!Resolve, Twin!CacheDisp, Twin!SetF, Twin!LdR, Twin!SetIM, Twin!Jump,
       Twin!EI, Twin!RETN, Twin!HALT
  <2>. QED
    BY <1>1, <1>9, <2>1 DEF DI, Twin!DI
<1>10. CASE RETN
  <2>1. Twin!RETN
    BY <1>1, <1>10 DEF RETN, Twin!Effect, Twin!Resolve, Twin!CacheDisp, Twin!SetF, Twin!LdR, Twin!SetIM, Twin!Jump,
       Twin!EI, Twin!DI, Twin!HALT
  <2>. QED
    BY <1>1, <1>10, <2>1 DEF RETN, Twin!RETN
<1>11. CASE HALT
  <2>1. Twin!HALT
    BY <1>1, <1>11 DEF HALT, Twin!Effect, Twin!Resolve, Twin!CacheDisp, Twin!SetF, Twin!LdR, Twin!SetIM, Twin!Jump,
       Twin!EI, Twin!DI, Twin!RETN
  <2>. QED
    BY <1>1, <1>11, <2>1 DEF HALT, Twin!HALT
<1>. QED
  BY <1>1, <1>2, <1>3, <1>4, <1>5, <1>6, <1>7, <1>8, <1>9, <1>10, <1>11 DEF Effect

(* The two CPUs sample the same lines, enables and mode.                    *)
LEMMA SameBegin ==
  ASSUME Sim, BeginStep, Twin!BeginStep
  PROVE  Sim'
<1>. USE DEF Sim, SamePlace, SameLines, SameState, SameLatches, SameRefresh, Executing, FirstM1,
     fetched, enables, latches, index, lines, observe,
     Twin!fetched, Twin!enables, Twin!latches, Twin!index, Twin!lines, Twin!observe
<1>. USE DEF Begin, Twin!Begin, IntAcceptable, Twin!IntAcceptable, EnterINT, Twin!EnterINT,
     FreshIndex, Twin!FreshIndex
<1>0. SameRefresh'
  BY BeginFacts
<1>1. CASE AcceptNMI
  <2>1. Twin!AcceptNMI
    BY <1>1 DEF AcceptNMI, Twin!BeginStep, Twin!AcceptINT, Twin!InjectINT, Twin!HaltCycle, Twin!Execute
  <2>2. SamePlace' /\ SameLines'
    BY <1>1, <2>1 DEF AcceptNMI, Twin!AcceptNMI
  <2>3. SameState' /\ SameLatches'
    BY <1>1, <2>1 DEF AcceptNMI, Twin!AcceptNMI
  <2>. QED
    BY <1>0, <2>2, <2>3
<1>2. CASE AcceptINT
  <2>1. Twin!AcceptINT
    BY <1>2 DEF AcceptINT, Twin!BeginStep, Twin!AcceptNMI, Twin!InjectINT, Twin!HaltCycle, Twin!Execute
  <2>2. SamePlace' /\ SameLines'
    BY <1>2, <2>1 DEF AcceptINT, Twin!AcceptINT
  <2>3. SameState' /\ SameLatches'
    BY <1>2, <2>1 DEF AcceptINT, Twin!AcceptINT
  <2>. QED
    BY <1>0, <2>2, <2>3
<1>3. CASE InjectINT
  <2>1. Twin!InjectINT
    BY <1>3 DEF InjectINT, Twin!BeginStep, Twin!AcceptNMI, Twin!AcceptINT, Twin!HaltCycle, Twin!Execute
  <2>2. SamePlace' /\ SameLines'
    BY <1>3, <2>1 DEF InjectINT, Twin!InjectINT
  <2>3. SameState' /\ SameLatches'
    BY <1>3, <2>1 DEF InjectINT, Twin!InjectINT
  <2>. QED
    BY <1>0, <2>2, <2>3
<1>4. CASE HaltCycle
  <2>1. Twin!HaltCycle
    BY <1>4 DEF HaltCycle, Twin!BeginStep, Twin!AcceptNMI, Twin!AcceptINT, Twin!InjectINT, Twin!Execute
  <2>2. SamePlace' /\ SameLines'
    BY <1>4, <2>1 DEF HaltCycle, Twin!HaltCycle
  <2>3. SameState' /\ SameLatches'
    BY <1>4, <2>1 DEF HaltCycle, Twin!HaltCycle
  <2>. QED
    BY <1>0, <2>2, <2>3
<1>5. CASE Execute
  <2>1. Twin!Execute
    BY <1>5 DEF Execute, Twin!BeginStep, Twin!AcceptNMI, Twin!AcceptINT, Twin!InjectINT, Twin!HaltCycle
  <2>2. SamePlace' /\ SameLines'
    BY <1>5, <2>1 DEF Execute, Twin!Execute
  <2>3. SameState' /\ SameLatches'
    BY <1>5, <2>1 DEF Execute, Twin!Execute
  <2>. QED
    BY <1>0, <2>2, <2>3
<1>. QED
  BY <1>1, <1>2, <1>3, <1>4, <1>5 DEF BeginStep

LEMMA SameRestStep ==
  ASSUME TypeOK, Shape, Sim, SameRest
  PROVE  Sim'
<1>. USE DEF Sim, SamePlace, SameLines, SameState, SameLatches, SameRefresh, Executing, FirstM1,
     fetched, enables, latches, index, lines, observe,
     Twin!fetched, Twin!enables, Twin!latches, Twin!index, Twin!lines, Twin!observe
<1>. USE DEF At, Twin!At, Done, Twin!Done, Take, Twin!Take, Refresh, Twin!Refresh, IncR, Twin!IncR
<1>1. ASSUME NmiM1, Twin!NmiM1 PROVE Sim'
  <2>1. todo' = NmiRest /\ todo2' = NmiRest /\ lastIR' = r /\ lastIR2' = r
    BY <1>1, TwinConstants DEF NmiM1, Twin!NmiM1, DiscardedM1, Twin!DiscardedM1
  <2>2. ~Executing'
    BY <1>1, Where DEF NmiM1
  <2>. QED
    BY <1>1, <2>1, <2>2 DEF NmiM1, Twin!NmiM1, DiscardedM1, Twin!DiscardedM1
<1>2. ASSUME HaltM1, Twin!HaltM1 PROVE Sim'
  BY <1>2 DEF HaltM1, Twin!HaltM1, DiscardedM1, Twin!DiscardedM1
<1>3. ASSUME IntAckM1, Twin!IntAckM1 PROVE Sim'
  BY <1>3, TwinConstants DEF IntAckM1, Twin!IntAckM1
<1>4. ASSUME RunCycle, Twin!RunCycle PROVE Sim'
  <2>1. Head(todo) \notin FirstM1
    BY <1>4 DEF RunCycle, Cycle
  <2>. QED
    BY <1>4, <2>1, TwinConstants DEF RunCycle, Twin!RunCycle
<1>5. ASSUME EndStep, Twin!EndStep PROVE Sim'
  <2>1. q2' = q'
    <3>1. q' = LatchedQ /\ q2' = Twin!LatchedQ
      BY <1>5 DEF EndStep, Twin!EndStep
    <3>. QED
      BY <3>1, Zenon DEF LatchedQ, Twin!LatchedQ
  <2>. QED
    BY <1>5, <2>1 DEF EndStep, Twin!EndStep
<1>. QED
  BY <1>1, <1>2, <1>3, <1>4, <1>5, SameBegin DEF SameRest

(* SetState: the fields of the State come over, the machine brings the      *)
(* lines, and between two Steps nothing else is told apart.                 *)
LEMMA SaveStep ==
  ASSUME IInv, SimInv, SaveAndRestore
  PROVE  Sim'
<1>1. /\ todo = <<>> /\ doing = "idle" /\ ins = "none" /\ pre = 0 /\ ~im0 /\ t = 0
  BY DEF SaveAndRestore, IInv, Shape, QLatch, Executing, InjectionEnds, SimInv, IdleTime
<1>2. TwinIdle
  BY DEF SaveAndRestore, SimInv
<1>3. im0 \in BOOLEAN
  BY DEF IInv, TypeOK
<1>4. UNCHANGED <<todo, doing, ins, pre, t, im0, todo2, doing2, ins2, pre2, t2>>
  BY DEF SaveAndRestore, vars, index, observe
<1>5. SamePlace'
  BY <1>1, <1>2, <1>3, <1>4 DEF SaveAndRestore, LeftOver, TwinIdle, SamePlace
<1>6. SameLines' /\ SameState'
  BY DEF SaveAndRestore, BringLines, RestoreInterrupts, RestoreRegisters, SameLines, SameState,
         vars, lines, fetched, enables, latches
<1>. QED
  BY <1>1, <1>4, <1>5, <1>6 DEF Sim, SameLatches, SameRefresh, Executing

LEMMA SimInvStep ==
  ASSUME IInv, IInv', SimInv, [SnapshotNext]_<<vars, twinVars, restored>>
  PROVE  SimInv'
<1>1. IdleTime'
  BY SnapshotStepIsCoreStep, StepIdleTime DEF IInv, SimInv
<1>2. CASE RunAlone
  BY <1>1, <1>2 DEF RunAlone, SimInv, TwinIdle, twinVars
<1>3. CASE SaveAndRestore
  BY <1>1, <1>3, SaveStep DEF SaveAndRestore, SimInv
<1>4. CASE RunBoth
  <2>1. restored /\ restored' /\ Sim
    BY <1>4 DEF RunBoth, SimInv
  <2>2. Sim'
    BY <1>4, <2>1, SameMachineStep, SameFetchStep, SameEffectStep, SameRestStep DEF RunBoth, IInv
  <2>. QED
    BY <1>1, <2>1, <2>2 DEF SimInv
<1>5. CASE UNCHANGED <<vars, twinVars, restored>>
  BY <1>1, <1>5 DEF SimInv, TwinIdle, Sim, SamePlace, SameLines, SameState, SameLatches,
     SameRefresh, Executing, vars, twinVars, fetched, enables, latches, index, lines, observe
<1>. QED
  BY <1>2, <1>3, <1>4, <1>5 DEF SnapshotNext

(* "SetState followed by identical bus behavior reproduces execution        *)
(* byte-for-byte": the restored CPU takes the same Steps through the same   *)
(* M-cycles and reads back the same State, for ever.                        *)
THEOREM ReproducesHolds == SnapshotSpec => []Reproduces
<1>1. SnapshotInit => SimInv
  BY DEF SnapshotInit, Init, Twin!Init, SimInv, IdleTime, TwinIdle
<1>2. SimInv => Reproduces
  <2>. SUFFICES ASSUME SimInv, restored PROVE Reproduces
    BY DEF Reproduces
  <2>1. \A op \in IrCycles : op \notin FirstM1
    BY DEF IrCycles, FirstM1
  <2>. QED
    BY <2>1 DEF SimInv, Sim, SamePlace, SameState, SameRefresh, Reproduces
<1>3. SnapshotSpec => []IInv
  BY SnapshotRunsTheCore, Invariance, PTL
<1>. QED
  BY <1>1, <1>2, <1>3, SimInvStep, PTL DEF SnapshotSpec
=============================================================================
