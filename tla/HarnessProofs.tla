--------------------------- MODULE HarnessProofs ---------------------------
(***************************************************************************)
(* The core watched over more than one Step, and the programs that run it. *)
(* RETN gives back what the NMI took, and R counts the M1 cycles of every  *)
(* Step.  The loops around Step stop in time, whatever the program, the    *)
(* budget and the machine that interrupts it.  The cross-check of the      *)
(* disassembler finds every instruction framed and named as the CPU ran it.*)
(***************************************************************************)
EXTENDS Drivers, Z80Decode, Z80History, Z80CpuProofs

(* The core with its history. *)

(* The core that is watched is the core.                                    *)
LEMMA WatchedIsCore == HistorySpec => Spec
<1>1. HistoryInit => Init
  BY DEF HistoryInit
<1>2. [HistoryNext]_historyVars => [Next]_vars
  BY DEF HistoryNext, historyVars
<1>. QED
  BY <1>1, <1>2, PTL DEF HistorySpec, Spec

(* While no NMI is being handled the flip-flops are equal; while one is,    *)
(* IFF2 keeps what IFF1 was before the outermost.                           *)
HandlerInv ==
  /\ before \in {"none", "on", "off"}
  /\ before = "none" => (iff1 <=> iff2)
  /\ before # "none" => (iff2 <=> before = "on")

LEMMA HandlerStep ==
  ASSUME TypeOK, HandlerInv, [HistoryNext]_historyVars
  PROVE  HandlerInv'
<1>1. CASE UNCHANGED historyVars
  BY <1>1 DEF historyVars, HandlerInv, vars, enables
<1>2. CASE HistoryNext /\ SetsBoth
  <2>1. iff1' = iff2'
    BY <1>2 DEF SetsBoth, EI, DI, AcceptINT, InjectINT, EnterINT, Reset
  <2>. QED
    BY <1>2, <2>1 DEF HistoryNext, Watch, HandlerInv
<1>3. CASE HistoryNext /\ ~SetsBoth /\ AcceptNMI
  <2>1. iff2' = iff2 /\ iff1' = FALSE
    BY <1>3 DEF AcceptNMI
  <2>2. before' = IF before = "none" THEN Setting(iff1) ELSE before
    BY <1>3 DEF HistoryNext, Watch
  <2>. QED
    BY <2>1, <2>2 DEF HandlerInv, Setting
<1>4. CASE HistoryNext /\ ~SetsBoth /\ ~AcceptNMI
  <2>1. before' = before
    BY <1>4 DEF HistoryNext, Watch
  <2>2. UNCHANGED <<iff1, iff2>> \/ (iff2' = iff2 /\ iff1' = iff2)
    <3>1. CASE BeginStep
      BY <1>4, <3>1 DEF BeginStep, SetsBoth, HaltCycle, Execute
    <3>2. CASE RETN
      BY <3>2 DEF RETN
    <3>. QED
      BY <1>4, <3>1, <3>2, EnablesSteps DEF HistoryNext, SetsBoth
  <2>. QED
    BY <2>1, <2>2 DEF HandlerInv, TypeOK
<1>. QED
  BY <1>1, <1>2, <1>3, <1>4

(* RETN gives back the interrupt enable that the NMI took, whatever nested, *)
(* halted or was reset to the entry point in between.                       *)
THEOREM RetnRestoresHolds == HistorySpec => RetnRestores
<1>1. HistoryInit => HandlerInv
  BY DEF HistoryInit, Init, HandlerInv
<1>2. IInv => TypeOK
  BY DEF IInv
<1>3. HandlerInv /\ TypeOK =>
        [RETN /\ before # "none" => iff1' = (before = "on")]_historyVars
  BY DEF HandlerInv, TypeOK, RETN
<1>. QED
  BY <1>1, <1>2, <1>3, HandlerStep, WatchedIsCore, Invariance, PTL
     DEF HistorySpec, RetnRestores
----------------------------------------------------------------------------
(* R. *)

LEMMA SmallMod == \A m \in Nat \ {0} : \A x \in 0 .. m - 1 : x % m = x
OBVIOUS

LEMMA NextMod ==
  ASSUME NEW a \in Nat, NEW m \in Nat \ {0}
  PROVE  ((a % m) + 1) % m = (a + 1) % m
<1>1. PICK d \in Int, x \in 0 .. m - 1 : a = d * m + x /\ a % m = x
  <2>1. a = (a \div m) * m + (a % m) /\ a % m \in 0 .. m - 1 /\ a \div m \in Int
    OBVIOUS
  <2>. QED
    BY <2>1
<1>2. \A p \in Int, y \in 0 .. m - 1 : (p * m + y) % m = y
  OBVIOUS
<1>3. CASE x + 1 < m
  <2>1. a + 1 = d * m + (x + 1) /\ x + 1 \in 0 .. m - 1
    BY <1>1, <1>3
  <2>. QED
    BY <1>1, <1>2, <2>1, SmallMod
<1>4. CASE x + 1 = m
  <2>1. (d + 1) * m = d * m + m /\ d + 1 \in Int
    OBVIOUS
  <2>2. a + 1 = (d + 1) * m + 0 /\ 0 \in 0 .. m - 1
    BY <1>1, <1>4, <2>1
  <2>3. (a + 1) % m = 0
    BY <1>2, <2>1, <2>2
  <2>4. m % m = 0
    OBVIOUS
  <2>. QED
    BY <1>1, <1>4, <2>3, <2>4
<1>. QED
  BY <1>1, <1>3, <1>4

(* The M1 cycles that the Step in progress has made.                        *)
M1sDone ==
  IF ~Executing      THEN IF Head(todo) \in FirstM1 THEN 0 ELSE 1
  ELSE IF ins # "none"         THEN M1Count
  ELSE IF Head(todo) = "opcode" THEN pre ELSE pre + 1

CountInv ==
  /\ r0 \in RVal
  /\ todo # <<>> /\ pre < MaxPre /\ ins # "ld_r_a" => r = (r0 + M1sDone) % RMod

LEMMA M1sType == ASSUME TypeOK PROVE M1sDone \in Nat
<1>1. pre \in Nat
  BY ModAssumption DEF TypeOK, PreCount
<1>. QED
  BY <1>1 DEF M1sDone, M1Count

(* Within a Step, r0 stays.                                                 *)
LEMMA WatchWithin ==
  ASSUME Watch, todo # <<>>, Head(todo) # "end"
  PROVE  r0' = r0
<1>1. ~BeginStep
  BY BeginFacts
<1>2. ~EndStep
  <2>1. Head(<<"end">>) = "end"
    OBVIOUS
  <2>. QED
    BY <2>1 DEF EndStep
<1>. QED
  BY <1>1, <1>2 DEF Watch

(* An M1 moves R and the count, everything else neither.                    *)
LEMMA M1Counted ==
  ASSUME TypeOK, CountInv, todo # <<>>, r0' = r0, Refresh,
         pre' < MaxPre /\ ins' # "ld_r_a"
           => pre < MaxPre /\ ins # "ld_r_a" /\ M1sDone' = M1sDone + 1
  PROVE  CountInv'
<1>1. r0 \in Nat /\ RMod \in Nat \ {0} /\ M1sDone \in Nat
  BY M1sType, ModAssumption DEF CountInv, RVal
<1>2. SUFFICES ASSUME pre' < MaxPre, ins' # "ld_r_a"
               PROVE  r' = (r0 + (M1sDone + 1)) % RMod
  BY DEF CountInv
<1>3. r = (r0 + M1sDone) % RMod
  BY <1>2 DEF CountInv
<1>4. r' = (r + 1) % RMod
  BY DEF Refresh, IncR
<1>5. (((r0 + M1sDone) % RMod) + 1) % RMod = ((r0 + M1sDone) + 1) % RMod
  <2>. DEFINE n == r0 + M1sDone
  <2>1. n \in Nat
    BY <1>1
  <2>. HIDE DEF n
  <2>2. ((n % RMod) + 1) % RMod = (n + 1) % RMod
    BY <1>1, <2>1, NextMod
  <2>. QED
    BY <2>2 DEF n
<1>6. (r0 + M1sDone) + 1 = r0 + (M1sDone + 1)
  BY <1>1
<1>. QED
  BY <1>3, <1>4, <1>5, <1>6

LEMMA NoM1Counted ==
  ASSUME CountInv, todo # <<>>, r0' = r0, r' = r, pre' = pre,
         ins' # "ld_r_a" => ins # "ld_r_a" /\ M1sDone' = M1sDone
  PROVE  CountInv'
BY DEF CountInv

LEMMA CountBegin ==
  ASSUME TypeOK, Shape, QLatch, Watch, BeginStep
  PROVE  CountInv'
<1>1. pre' = 0 /\ ins' = "none" /\ r' = r /\ r0' = r
  BY BeginFacts DEF Shape, QLatch, Executing, Watch
<1>2. Head(todo') \in FirstM1
  BY BeginFacts
<1>3. Executing' => Head(todo') = "opcode"
  BY DEF BeginStep, AcceptNMI, AcceptINT, InjectINT, EnterINT, HaltCycle, Execute, Begin,
         Executing
<1>4. M1sDone' = 0
  BY <1>1, <1>2, <1>3 DEF M1sDone
<1>5. r \in RVal /\ RMod \in Nat \ {0} /\ r + 0 = r
  BY ModAssumption DEF TypeOK, RVal
<1>6. r % RMod = r
  BY <1>5, SmallMod DEF RVal
<1>. QED
  BY <1>1, <1>4, <1>5, <1>6 DEF CountInv

LEMMA CountExec ==
  ASSUME TypeOK, Shape, TimeInv, CountInv, Watch, Exec
  PROVE  CountInv'
<1>1. /\ todo # <<>> /\ r0' = r0 /\ doing' = doing
      /\ Head(todo) \in {"opcode", "opcodeCB", "opcodeED", "selector"}
  BY ExecFacts, WatchWithin
<1>2. Executing /\ ins = "none"
  <2>1. Executing
    BY <1>1, Where DEF Executing
  <2>2. CASE Head(todo) = "selector"
    BY <1>1, <2>1, <2>2, SettledHead, NotSettled DEF TimeInv, Unresolved, Addressing
  <2>. QED
    BY <1>1, <2>1, <2>2, Where
<1>3. Executing' /\ M1sDone = IF Head(todo) = "opcode" THEN pre ELSE pre + 1
  BY <1>1, <1>2 DEF Executing, M1sDone
<1>4. pre \in Nat /\ MaxPre \in Nat
  BY ModAssumption DEF TypeOK, PreCount
<1>5. ASSUME NEW byte \in Prefixes, FetchPrefix(byte) PROVE CountInv'
  <2>1. /\ Refresh /\ todo' = todo /\ ins' = ins /\ Head(todo) = "opcode"
        /\ IF pre < MaxPre THEN pre' = pre + 1 ELSE pre' = pre
    BY <1>5 DEF FetchPrefix, FetchOpcode, At
  <2>. QED
    BY <1>1, <1>2, <1>3, <1>4, <2>1, M1Counted DEF M1sDone
<1>6. ASSUME NEW byte \in DOMAIN BaseBody, FetchBase(byte) PROVE CountInv'
  <2>1. Refresh /\ ins' = byte /\ pre' = pre /\ Head(todo) = "opcode" /\ byte # "none"
    BY <1>6, DispatchNames DEF FetchBase, FetchOpcode, At, Dispatched
  <2>2. M1sDone' = pre + 1
    BY <1>3, <2>1 DEF M1sDone, M1Count
  <2>. QED
    BY <1>1, <1>2, <1>3, <2>1, <2>2, M1Counted
<1>7. CASE FetchCB \/ FetchED
  <2>1. Refresh /\ ins' = ins /\ pre' = pre /\ Head(todo) = "opcode" /\ Tail(todo) = <<"end">>
    BY <1>7, Where DEF FetchCB, FetchED, FetchOpcode, At, observe
  <2>2. todo' \in {<<"opcodeCB", "end">>, <<"opcodeED", "end">>, <<"fetch8", "selector", "end">>}
    BY <1>7, <2>1, ConcatOne, ConcatTwo DEF FetchCB, FetchED, Then
  <2>3. Head(todo') # "opcode"
    BY <2>2
  <2>. QED
    BY <1>1, <1>2, <1>3, <2>1, <2>3, M1Counted DEF M1sDone
<1>8. CASE FetchPaged("opcodeCB", CBBody) \/ FetchPaged("opcodeED", EDBody)
  <2>1. /\ Refresh /\ pre' = pre /\ Head(todo) # "opcode"
        /\ ins' \in DOMAIN CBBody \cup DOMAIN EDBody
    BY <1>8 DEF FetchPaged, FetchOpcode, At
  <2>2. M1sDone' = pre + 2
    BY <1>3, <2>1, PageNames DEF M1sDone, M1Count
  <2>. QED
    BY <1>1, <1>2, <1>3, <1>4, <2>1, <2>2, M1Counted
<1>9. CASE Selector
  <2>1. r' = r /\ pre' = pre /\ Head(todo) # "opcode" /\ ins' \in DOMAIN XCBBody
    BY <1>9 DEF Selector, At
  <2>2. M1sDone' = pre + 1
    BY <1>3, <2>1, PageNames DEF M1sDone, M1Count
  <2>. QED
    BY <1>1, <1>2, <1>3, <2>1, <2>2, NoM1Counted
<1>. QED
  BY <1>5, <1>6, <1>7, <1>8, <1>9 DEF Exec

LEMMA CountService ==
  ASSUME TypeOK, Shape, CountInv, Watch, NmiM1 \/ HaltM1 \/ IntAckM1
  PROVE  CountInv'
<1>1. /\ todo # <<>> /\ Head(todo) \in FirstM1 /\ ~Executing /\ Head(todo) # "end"
      /\ UNCHANGED <<doing, ins, pre>> /\ Refresh
  BY Where DEF NmiM1, HaltM1, IntAckM1, DiscardedM1, At, FirstM1, Executing, observe
<1>2. Head(todo') \notin FirstM1
  <2>1. CASE NmiM1
    BY <2>1 DEF NmiM1, NmiRest, FirstM1
  <2>2. CASE IntAckM1
    BY <2>2 DEF IntAckM1, Im1Rest, Im2Rest, FirstM1
  <2>3. CASE HaltM1
    <3>1. todo = <<"haltM1", "end">>
      BY <2>3, Where DEF HaltM1, At, Shape, HaltTodo
    <3>2. todo' = <<"end">>
      BY <2>3, <3>1 DEF HaltM1, Done
    <3>. QED
      BY <3>2 DEF FirstM1
  <2>. QED
    BY <2>1, <2>2, <2>3
<1>3. M1sDone = 0 /\ M1sDone' = 1
  BY <1>1, <1>2 DEF M1sDone, Executing
<1>. QED
  BY <1>1, <1>3, M1Counted, WatchWithin

LEMMA CountOther ==
  ASSUME TypeOK, Shape, CountInv, Watch,
         \/ Resolve \/ Fetch8 \/ RunCycle \/ CacheDisp \/ SetF \/ LdR \/ SetIM \/ Jump
         \/ EI \/ DI \/ RETN \/ HALT
  PROVE  CountInv'
<1>1. /\ todo # <<>> /\ UNCHANGED <<doing, ins, pre>> /\ (Resolve \/ Done)
      /\ r' = r \/ LdR
  BY DEF Resolve, Fetch8, RunCycle, CacheDisp, SetF, LdR, SetIM, Jump, EI, DI, RETN, HALT, At,
     fetched, observe
<1>2. CASE Resolve
  <2>1. Head(todo) \in {"ea", "ldmn"}
    BY <1>2 DEF Resolve, At
  <2>2. Executing /\ ins # "none" /\ r' = r
    BY <1>1, <1>2, <2>1, Where DEF Executing, Resolve, fetched
  <2>3. M1sDone' = M1sDone
    BY <1>1, <2>2 DEF M1sDone, M1Count, Executing
  <2>. QED
    BY <1>1, <2>1, <2>2, <2>3, WatchWithin, NoM1Counted
<1>3. CASE LdR
  <2>1. ins = "ld_r_a" /\ Head(todo) = "ldR"
    BY <1>3, Where DEF LdR, At
  <2>. QED
    BY <1>1, <2>1, WatchWithin DEF CountInv
<1>4. CASE ~Resolve /\ ~LdR
  <2>1. Head(todo) \in Settled \ {"end"}
    BY <1>4, SettledNames
       DEF Fetch8, RunCycle, CacheDisp, SetF, SetIM, Jump, EI, DI, RETN, HALT, At, Cycle
  <2>2. Tail(todo) # <<>> /\ todo' = Tail(todo)
    BY <1>1, <1>4, <2>1, MoreToDo DEF Done
  <2>3. M1sDone' = M1sDone
    <3>1. CASE ~Executing
      <4>1. todo \in Seq(Settled)
        BY <1>1, <2>1, <3>1, ServiceSettled
      <4>2. todo' \in Seq(Settled)
        BY <1>1, <2>2, <4>1, HeadTailProperties
      <4>3. Head(todo) \notin FirstM1 /\ Head(todo') \notin FirstM1
        BY <1>1, <2>2, <4>1, <4>2, SettledHead, NotSettled DEF FirstM1
      <4>. QED
        BY <1>1, <3>1, <4>3 DEF M1sDone, Executing
    <3>2. CASE Executing /\ ins # "none"
      BY <1>1, <3>2 DEF M1sDone, M1Count, Executing
    <3>3. CASE Executing /\ ins = "none"
      <4>1. todo \in Selecting /\ Head(todo) = "fetch8"
        BY <2>1, <3>3, FetchingShape, SelectingShape, NotSettled
           DEF Shape, InstrTodo, Executing
      <4>2. Head(todo') # "opcode"
        BY <2>2, <4>1, SelectingShape
      <4>. QED
        BY <1>1, <3>3, <4>1, <4>2 DEF M1sDone, Executing
    <3>. QED
      BY <3>1, <3>2, <3>3
  <2>. QED
    BY <1>1, <1>4, <2>1, <2>3, WatchWithin, NoM1Counted
<1>. QED
  BY <1>2, <1>3, <1>4

LEMMA CountStep ==
  ASSUME IInv, TimeInv, CountInv, [HistoryNext]_historyVars
  PROVE  CountInv'
<1>1. TypeOK /\ Shape /\ QLatch
  BY DEF IInv
<1>2. CASE UNCHANGED historyVars
  BY <1>2 DEF historyVars, vars, fetched, observe, CountInv, M1sDone, M1Count, Executing
<1>3. CASE HistoryNext /\ BeginStep
  BY <1>1, <1>3, CountBegin DEF HistoryNext
<1>4. CASE HistoryNext /\ EndStep /\ ~BeginStep
  <2>1. 0 \in RVal /\ r0' = 0 /\ todo' = <<>>
    BY <1>4, ModAssumption DEF HistoryNext, Watch, EndStep, RVal
  <2>. QED
    BY <2>1 DEF CountInv
<1>5. CASE HistoryNext /\ Machine /\ ~BeginStep /\ ~EndStep
  <2>1. r0' = r0
    BY <1>5 DEF HistoryNext, Watch
  <2>2. CASE Reset \/ SpecialReset
    BY <2>1, <2>2 DEF Reset, SpecialReset, CountInv
  <2>3. CASE (\E level \in BOOLEAN : SetINT(level)) \/ NMI
    BY <2>1, <2>3 DEF SetINT, NMI, fetched, observe, CountInv, M1sDone, M1Count, Executing
  <2>. QED
    BY <1>5, <2>2, <2>3 DEF Machine
<1>6. CASE HistoryNext /\ Exec
  BY <1>1, <1>6, CountExec DEF HistoryNext
<1>7. CASE HistoryNext /\ (NmiM1 \/ HaltM1 \/ IntAckM1)
  BY <1>1, <1>7, CountService DEF HistoryNext
<1>8. CASE HistoryNext /\ (Fetch8 \/ RunCycle \/ Effect)
  BY <1>1, <1>8, CountOther DEF HistoryNext, Effect
<1>. QED
  BY <1>2, <1>3, <1>4, <1>5, <1>6, <1>7, <1>8 DEF HistoryNext, Next, Step

LEMMA CountedAtEnd == Shape /\ CountInv => RefreshCounted
<1>. SUFFICES ASSUME Shape, CountInv, todo = <<"end">>, pre < MaxPre, ins # "ld_r_a"
              PROVE  r = (r0 + M1Cycles) % RMod
  BY DEF RefreshCounted
<1>1. todo # <<>> /\ Head(todo) = "end"
  OBVIOUS
<1>2. Executing => ins # "none"
  BY <1>1, FetchingShape, SelectingShape DEF Shape, InstrTodo, Executing
<1>3. M1sDone = M1Cycles
  BY <1>1, <1>2 DEF M1sDone, M1Cycles, Executing, FirstM1
<1>. QED
  BY <1>1, <1>3 DEF CountInv

(* R counts the M1 cycles of every Step.                                    *)
THEOREM RefreshCountedHolds == HistorySpec => []RefreshCounted
<1>1. HistoryInit => CountInv
  BY ModAssumption DEF HistoryInit, Init, CountInv, RVal
<1>2. Init => IInv /\ TimeInv
  BY InitInv, InitTime
<1>3. IInv /\ TimeInv /\ [Next]_vars => IInv' /\ TimeInv'
  BY StepInv, StepTimeInv
<1>4. IInv /\ CountInv => RefreshCounted
  BY CountedAtEnd DEF IInv
<1>. QED
  BY <1>1, <1>2, <1>3, <1>4, CountStep, WatchedIsCore, PTL DEF HistorySpec, Spec

----------------------------------------------------------------------------
(* The core under the loops. *)

LEMMA LoopStepIsCoreStep == [DriverNext]_allVars => [Next]_vars
<1>. SUFFICES ASSUME [DriverNext]_allVars PROVE [Next]_vars
  OBVIOUS
<1>1. CASE StepBegins \/ StepRuns \/ StepEnds
  BY <1>1 DEF StepBegins, StepRuns, StepEnds, Next, Step
<1>2. CASE Return
  BY <1>2 DEF Return
<1>3. ASSUME NEW n \in Budgets, Call(n) PROVE UNCHANGED vars
  BY <1>3 DEF Call
<1>4. CASE Disturb
  BY <1>4 DEF Disturb, Next, Machine
<1>5. CASE UNCHANGED allVars
  BY <1>5 DEF allVars
<1>. QED
  BY <1>1, <1>2, <1>3, <1>4, <1>5 DEF DriverNext, DriverStep

(* The invariants of Z80Cpu hold of the CPU under the loops.                *)
LEMMA LoopsRunTheCore == DriverSpec => Spec
<1>1. DriverInit => Init
  BY DEF DriverInit
<1>. QED
  BY <1>1, LoopStepIsCoreStep, PTL DEF DriverSpec, Spec

----------------------------------------------------------------------------
(* What the loops count. *)

(* A Step in progress was still needed when it began.                       *)
Needed ==
  todo # <<>> => /\ calling
                 /\ driver \in {"Run", "steps"} => used < budget
                 /\ driver = "zrun" => used <= budget

(* So the count was within the budget before the latest Step, and a count   *)
(* of Steps is never past it.                                               *)
Counted ==
  calling => /\ budget \in Nat /\ budget < ClockMod
             /\ driver = "Run" => (used > 0 => used - latest < budget)
             /\ driver = "zrun" => used - latest <= budget
             /\ driver = "steps" => used <= budget

LoopInv == used \in Nat /\ latest \in Nat /\ Needed /\ Counted

LEMMA BudgetType == \A n \in Budgets : n \in Nat /\ n < ClockMod
BY BudgetsAssumption

LEMMA UintOfBudget == \A n \in Nat : n < ClockMod => AsUint(n) = n
BY BudgetsAssumption DEF AsUint

LEMMA LoopInvStep ==
  ASSUME TypeOK, LoopInv, [DriverNext]_allVars
  PROVE  LoopInv'
<1>1. CASE StepBegins
  <2>1. calling /\ MoreSteps /\ UNCHANGED loop
    BY <1>1 DEF StepBegins
  <2>2. budget \in Nat /\ AsUint(budget) = budget
    BY <2>1, UintOfBudget DEF LoopInv, Counted
  <2>3. /\ driver \in {"Run", "steps"} => used < budget
        /\ driver = "zrun" => used <= budget
    BY <2>1, <2>2 DEF MoreSteps, LimitPassed, LoopInv
  <2>. QED
    BY <2>1, <2>3 DEF LoopInv, Needed, Counted, loop
<1>2. CASE StepRuns
  BY <1>2 DEF StepRuns, LoopInv, Needed, Counted, loop
<1>3. CASE StepEnds
  <2>1. /\ todo = <<"end">> /\ todo' = <<>>
        /\ latest' = (IF driver = "steps" THEN 1 ELSE t) /\ used' = used + latest'
        /\ UNCHANGED <<driver, calling, budget>>
    BY <1>3 DEF StepEnds, EndStep
  <2>2. t \in Nat /\ used \in Nat
    BY DEF TypeOK, LoopInv
  <2>3. used' \in Nat /\ latest' \in Nat /\ used' - latest' = used
    BY <2>1, <2>2
  <2>4. /\ calling /\ (driver \in {"Run", "steps"} => used < budget)
        /\ (driver = "zrun" => used <= budget)
    BY <2>1 DEF LoopInv, Needed
  <2>5. Counted'
    BY <2>1, <2>2, <2>3, <2>4 DEF LoopInv, Counted
  <2>. QED
    BY <2>1, <2>3, <2>5 DEF LoopInv, Needed
<1>4. CASE Return
  BY <1>4 DEF Return, LoopInv, Needed, Counted, vars
<1>5. ASSUME NEW n \in Budgets, Call(n) PROVE LoopInv'
  <2>1. ~calling /\ calling' /\ budget' = n /\ used' = 0 /\ latest' = 0 /\ todo' = todo
    BY <1>5 DEF Call, vars
  <2>2. todo = <<>>
    BY <2>1 DEF LoopInv, Needed
  <2>. QED
    BY <2>1, <2>2, BudgetType DEF LoopInv, Needed, Counted
<1>6. CASE Disturb
  BY <1>6 DEF Disturb, SetINT, NMI, Reset, SpecialReset, LoopInv, Needed, Counted, loop
<1>7. CASE UNCHANGED allVars
  BY <1>7 DEF allVars, vars, loop, LoopInv, Needed, Counted
<1>. QED
  BY <1>1, <1>2, <1>3, <1>4, <1>5, <1>6, <1>7 DEF DriverNext, DriverStep

LEMMA LoopInvHolds == DriverSpec => [](TypeOK /\ LoopInv)
<1>1. DriverInit => LoopInv
  BY DEF DriverInit, Init, LoopInv, Needed, Counted
<1>. QED
  BY <1>1, LoopInvStep, LoopsRunTheCore, TypeCorrect, PTL DEF DriverSpec

(* A call that returns has counted enough and one Step before it had not:   *)
(* Run exceeds its budget and zrun its limit by less than one Step, and a   *)
(* loop that counts Steps returns early on a halted CPU only.               *)
THEOREM StopsInTimeHolds == DriverSpec => StopsInTime
<1>. DEFINE InTime ==
       /\ driver = "Run"   => /\ used >= budget
                              /\ used > 0 => used - latest < budget
       /\ driver = "zrun"  => /\ outcome' = "error" <=> ~halted
                              /\ outcome' = "error" => used > budget
                              /\ used - latest <= budget
       /\ driver = "steps" => used = budget \/ (halted /\ used < budget)
<1>1. ASSUME LoopInv, Return PROVE InTime
  <2>1. /\ calling /\ ~MoreSteps
        /\ outcome' = IF driver = "zrun" /\ ~halted THEN "error" ELSE "done"
    BY <1>1 DEF Return
  <2>2. used \in Nat /\ latest \in Nat /\ budget \in Nat /\ AsUint(budget) = budget
    BY <1>1, <2>1, UintOfBudget DEF LoopInv, Counted
  <2>3. CASE driver = "Run"
    BY <1>1, <2>1, <2>2, <2>3 DEF MoreSteps, LoopInv, Counted
  <2>4. CASE driver = "zrun"
    <3>1. outcome' = "error" <=> ~halted
      BY <2>1, <2>4
    <3>2. ~halted => used > budget
      BY <2>1, <2>2, <2>4 DEF MoreSteps, LimitPassed
    <3>3. used - latest <= budget
      BY <1>1, <2>1, <2>4 DEF LoopInv, Counted
    <3>. QED
      BY <2>4, <3>1, <3>2, <3>3
  <2>5. CASE driver = "steps"
    BY <1>1, <2>1, <2>2, <2>5 DEF MoreSteps, LoopInv, Counted
  <2>. QED
    BY <2>3, <2>4, <2>5
<1>2. ASSUME TypeOK /\ LoopInv, [DriverNext]_allVars PROVE [Return => InTime]_allVars
  BY <1>1, <1>2
<1>. QED
  BY <1>2, LoopInvHolds, PTL DEF DriverSpec, StopsInTime

----------------------------------------------------------------------------
(* The disassembler.  An instruction is framed rightly if, at every moment  *)
(* of its Step, the bytes taken and those that the rest of its schedule     *)
(* will take are the bytes that its text asks for.  `todo` is the schedule. *)

(* What takes no byte of an instruction from memory.                        *)
DryOps == DOMAIN Cycle \cup
  {"disp", "setF", "ldR", "IM0", "IM1", "IM2", "jump", "back", "toNMI", "toIM1",
   "EI", "DI", "RETN", "HALT", "end"}

Dry(s) == s \in Seq(DryOps)

(* Sequences that take one operand byte and two.                            *)
One(s) == s # <<>> /\ Head(s) = "fetch8" /\ Dry(Tail(s))
Two(s) == s # <<>> /\ Head(s) = "fetch8" /\ One(Tail(s))
Late(s) == s # <<>> /\ Head(s) = "ir1" /\ One(Tail(s))

(* And those that decide when they run.                                     *)
Addresses(s, op) == s # <<>> /\ Head(s) = op /\ Dry(Tail(s))
Disp == IF idx = "HL" THEN 0 ELSE 1

(* The sequence s takes n operand bytes, with the index mode as it is.      *)
Wants(s, n) ==
  /\ s \in Seq(MicroOps)
  /\ \/ n = 0 /\ Dry(s)
     \/ n = 1 /\ (One(s) \/ Late(s))
     \/ n = 2 /\ Two(s)
     \/ n = Disp     /\ Addresses(s, "ea")   /\ ~dispValid
     \/ n = Disp + 1 /\ Addresses(s, "ldmn") /\ ~dispValid

(* What the last of the prefixes taken makes of the index mode.             *)
Mode == IF pre = 0 THEN "HL" ELSE IF stream[pre] = \hDD THEN "IX" ELSE "IY"

(* The operand bytes that the text of a base opcode asks for, in the mode.  *)
Operands(op) ==
  IF idx = "HL" \/ IndexText(op) = {} THEN BaseOperands(op) ELSE IndexOperands(op)

(* The phases of an instruction by what its Step has taken: up to the first *)
(* opcode byte, up to the second or the last one of a page, and behind it,  *)
(* where what is taken and what the schedule still wants is what the text   *)
(* asks for.                                                                *)
Opening == /\ todo = <<"opcode", "end">>
           /\ idx = Mode /\ ~dispValid /\ Len(stream) = pre
CBOpening == /\ todo = <<"opcodeCB", "end">>
             /\ idx = "HL" /\ pre = 0 /\ Len(stream) = 1 /\ stream[1] = \hCB
EDOpening == /\ todo = <<"opcodeED", "end">>
             /\ idx = "HL" /\ Len(stream) = pre + 1 /\ stream[pre + 1] = \hED
XCBOpening == /\ pre # 0 /\ idx = Mode /\ stream[pre + 1] = \hCB
              /\ \/ todo = <<"fetch8", "selector", "end">> /\ Len(stream) = pre + 1
                 \/ todo = <<"selector", "end">> /\ Len(stream) = pre + 2
BaseRuns == /\ ins \in DOMAIN BaseBody /\ idx = Mode
            /\ Len(stream) >= pre + 1 /\ stream[pre + 1] \in BaseOpcodes[ins]
            /\ \E n \in 0 .. 2 : /\ Wants(todo, n)
                               /\ Len(stream) + n = pre + 1 + Operands(stream[pre + 1])
CBRuns == /\ ins \in DOMAIN CBBody /\ idx = "HL"
          /\ pre = 0 /\ stream[1] = \hCB /\ Len(stream) = 2 /\ Dry(todo)
XCBRuns == /\ ins \in DOMAIN XCBBody /\ idx = Mode
           /\ pre # 0 /\ stream[pre + 1] = \hCB /\ Len(stream) = pre + 3 /\ Dry(todo)
EDRuns == /\ ins \in DOMAIN EDBody /\ idx = "HL"
          /\ Len(stream) >= pre + 2 /\ stream[pre + 1] = \hED
          /\ stream[pre + 2] \in EDOpcodes[ins]
          /\ \E n \in 0 .. 2 : /\ Wants(todo, n)
                             /\ Len(stream) + n = pre + 2 + EDOperands(stream[pre + 2])

(* What is in front of the opcode is prefixes.                              *)
Prefixed == /\ pre <= Len(stream)
            /\ \A i \in 1 .. pre : stream[i] \in {\hDD, \hFD}

Framed == \/ Opening \/ CBOpening \/ EDOpening \/ XCBOpening
          \/ BaseRuns \/ CBRuns \/ XCBRuns \/ EDRuns

(* The inductive invariant of the harness, next to the IInv of the core.    *)
FrameInv ==
  /\ stream \in Seq(Nat) /\ pre \in Nat
  /\ todo # <<>> => Prefixed /\ Framed

----------------------------------------------------------------------------
(* Schedules. *)

LEMMA DryNames ==
  {"read", "write", "io", "ir1", "ir2", "ir7", "int1", "int2", "int4", "int5",
   "disp", "setF", "ldR", "IM0", "IM1", "IM2", "jump", "back", "toNMI", "toIM1",
   "EI", "DI", "RETN", "HALT", "end"} = DryOps
BY DEF DryOps, Cycle

LEMMA DryAreMicroOps == DryOps \subseteq MicroOps /\ "fetch8" \in MicroOps
BY DEF DryOps, MicroOps

(* The head and the tail of a concatenation.                                *)
LEMMA HeadAndRest ==
  ASSUME NEW S, NEW s \in Seq(S), s # <<>>, NEW e \in Seq(S)
  PROVE  /\ s \o e \in Seq(S) /\ s \o e # <<>>
         /\ Head(s \o e) = Head(s)
         /\ Tail(s \o e) = Tail(s) \o e
<1>1. /\ s \o e \in Seq(S) /\ Len(s \o e) = Len(s) + Len(e)
      /\ \A i \in 1 .. Len(s) + Len(e) : (s \o e)[i] = IF i <= Len(s) THEN s[i] ELSE e[i - Len(s)]
  BY ConcatProperties
<1>2. Len(s) \in Nat /\ Len(s) # 0 /\ Len(e) \in Nat
  BY EmptySeq, LenProperties
<1>3. s \o e # <<>>
  BY <1>1, <1>2
<1>4. Head(s \o e) = Head(s)
  BY <1>1, <1>2, <1>3, HeadTailProperties
<1>5. /\ Tail(s) \in Seq(S) /\ Len(Tail(s)) = Len(s) - 1
      /\ \A i \in 1 .. Len(Tail(s)) : Tail(s)[i] = s[i + 1]
  BY HeadTailProperties
<1>6. /\ Tail(s \o e) \in Seq(S) /\ Len(Tail(s \o e)) = Len(s \o e) - 1
      /\ \A i \in 1 .. Len(Tail(s \o e)) : Tail(s \o e)[i] = (s \o e)[i + 1]
  BY <1>1, <1>3, HeadTailProperties
<1>7. /\ Tail(s) \o e \in Seq(S) /\ Len(Tail(s) \o e) = Len(Tail(s)) + Len(e)
      /\ \A i \in 1 .. Len(Tail(s)) + Len(e) :
           (Tail(s) \o e)[i] = IF i <= Len(Tail(s)) THEN Tail(s)[i] ELSE e[i - Len(Tail(s))]
  BY <1>5, ConcatProperties
<1>8. Tail(s \o e) = Tail(s) \o e
  <2>. DEFINE u == Tail(s \o e)
              v == Tail(s) \o e
  <2>1. Len(u) = Len(v) /\ u \in Seq(S) /\ v \in Seq(S)
    BY <1>1, <1>2, <1>5, <1>6, <1>7
  <2>2. \A i \in 1 .. Len(u) : u[i] = v[i]
    BY <1>1, <1>2, <1>5, <1>6, <1>7
  <2>. HIDE DEF u, v
  <2>3. u = v
    BY <2>1, <2>2, SeqEqual
  <2>. QED
    BY <2>3 DEF u, v
<1>. QED
  BY <1>1, <1>3, <1>4, <1>8

LEMMA EndIsDry == <<"end">> \in Seq(DryOps) /\ <<"end">> # <<>>
<1>1. "end" \in DryOps
  BY DryNames
<1>. QED
  BY <1>1

LEMMA DryEnd ==
  ASSUME NEW s, Dry(s)
  PROVE  Dry(s \o <<"end">>) /\ s \o <<"end">> # <<>>
<1>. DEFINE e == <<"end">>
<1>1. s \in Seq(DryOps) /\ e \in Seq(DryOps) /\ e # <<>>
  BY EndIsDry DEF Dry
<1>. HIDE DEF e
<1>2. s \o e \in Seq(DryOps) /\ Len(s \o e) = Len(s) + Len(e)
  BY <1>1, ConcatProperties
<1>3. s \o e # <<>>
  BY <1>1, <1>2, EmptySeq, LenProperties
<1>. QED
  BY <1>2, <1>3 DEF Dry, e

LEMMA DryMicroOps ==
  ASSUME NEW s, Dry(s)
  PROVE  s \in Seq(MicroOps)
BY DryAreMicroOps DEF Dry

(* What follows a schedule in todo changes nothing to what it takes.        *)
LEMMA WantsEnd ==
  ASSUME NEW s \in Seq(MicroOps), NEW n, Wants(s, n)
  PROVE  Wants(s \o <<"end">>, n) /\ s \o <<"end">> # <<>>
<1>. DEFINE e == <<"end">>
<1>1. e \in Seq(MicroOps)
  BY EndIsDry, DryMicroOps DEF Dry
<1>2. \A d : Dry(d) => Dry(d \o e) /\ d \o e # <<>>
  BY DryEnd
<1>. HIDE DEF e
<1>3. \A x \in Seq(MicroOps) : x # <<>> =>
        x \o e # <<>> /\ Head(x \o e) = Head(x) /\ Tail(x \o e) = Tail(x) \o e
             /\ x \o e \in Seq(MicroOps) /\ Tail(x) \in Seq(MicroOps)
  BY <1>1, HeadAndRest, TailOf
<1>4. \A x \in Seq(MicroOps) : One(x) => One(x \o e)
  BY <1>2, <1>3 DEF One
<1>5. /\ Two(s) => Two(s \o e)
      /\ Late(s) => Late(s \o e)
  BY <1>3, <1>4 DEF Two, Late
<1>6. \A op : Addresses(s, op) => Addresses(s \o e, op)
  BY <1>2, <1>3 DEF Addresses
<1>7. s \o e \in Seq(MicroOps)
  BY <1>1, ConcatProperties
<1>8. s \o e # <<>>
  BY <1>2, <1>3 DEF Wants, Two, One, Late, Addresses
<1>9. Wants(s \o e, n)
  BY <1>2, <1>4, <1>5, <1>6, <1>7 DEF Wants
<1>. QED
  BY <1>8, <1>9 DEF e

----------------------------------------------------------------------------
(* The schedules of the classes. *)

(* The classes of the base table by the operands they take: none, a byte, a *)
(* word, or whatever their address in memory needs.                         *)
Plain == {"ld_r_r", "alu_r", "scf", "ld_a_rr", "ld_rr_a", "inc_ss", "add_hl", "jp_hl", "ret",
          "ret_cc", "ret_cc_no", "rst", "push", "pop", "ex_sp", "halt", "di", "ei"}
WithByte == {"ld_r_n", "alu_n", "jr", "jr_no", "djnz", "djnz_no", "io_n"}
WithWord == {"ld_dd_nn", "ld_a_nn", "ld_nn_a", "ld_hl_nn", "ld_nn_hl", "jp", "call"}
ThroughHL == {"ld_r_m", "ld_m_r", "alu_m", "inc_m"}

LEMMA BaseDry == \A c \in Plain : Dry(BaseBody[c])
<1>1. /\ Dry(BaseBody.ld_r_r)
      /\ Dry(BaseBody.alu_r)
      /\ Dry(BaseBody.scf)
      /\ Dry(BaseBody.ld_a_rr)
      /\ Dry(BaseBody.ld_rr_a)
      /\ Dry(BaseBody.inc_ss)
      /\ Dry(BaseBody.add_hl)
      /\ Dry(BaseBody.jp_hl)
      /\ Dry(BaseBody.ret)
  BY DryNames DEF BaseBody, Dry
<1>2. /\ Dry(BaseBody.ret_cc)
      /\ Dry(BaseBody.ret_cc_no)
      /\ Dry(BaseBody.rst)
      /\ Dry(BaseBody.push)
      /\ Dry(BaseBody.pop)
      /\ Dry(BaseBody.ex_sp)
      /\ Dry(BaseBody.halt)
      /\ Dry(BaseBody.di)
      /\ Dry(BaseBody.ei)
  BY DryNames DEF BaseBody, Dry
<1>. QED
  BY <1>1, <1>2 DEF Plain

(* The displacement of DJNZ comes behind an internal cycle.                 *)
LEMMA BaseOne ==
  /\ \A c \in WithByte \ {"djnz", "djnz_no"} : One(BaseBody[c])
  /\ \A c \in {"djnz", "djnz_no"} : Late(BaseBody[c])
<1>1. One(BaseBody.ld_r_n) /\ One(BaseBody.alu_n) /\ One(BaseBody.io_n)
  BY DryNames DEF BaseBody, One, Dry
<1>2. One(BaseBody.jr) /\ One(BaseBody.jr_no)
  BY DryNames DEF BaseBody, One, Dry
<1>3. Late(BaseBody.djnz) /\ Late(BaseBody.djnz_no)
  BY DryNames DEF BaseBody, Late, One, Dry
<1>. QED
  BY <1>1, <1>2, <1>3 DEF WithByte

LEMMA BaseTwo == \A c \in WithWord : Two(BaseBody[c])
<1>1. Two(BaseBody.ld_dd_nn) /\ Two(BaseBody.ld_a_nn) /\ Two(BaseBody.ld_nn_a)
  BY DryNames DEF BaseBody, Two, One, Dry
<1>2. Two(BaseBody.ld_hl_nn) /\ Two(BaseBody.ld_nn_hl)
  BY DryNames DEF BaseBody, Two, One, Dry
<1>3. Two(BaseBody.jp) /\ Two(BaseBody.call)
  BY DryNames DEF BaseBody, Two, One, Dry
<1>. QED
  BY <1>1, <1>2, <1>3 DEF WithWord

LEMMA BaseAddresses ==
  /\ \A c \in ThroughHL : Addresses(BaseBody[c], "ea")
  /\ Addresses(BaseBody.ld_m_n, "ldmn")
<1>1. Addresses(BaseBody.ld_r_m, "ea") /\ Addresses(BaseBody.ld_m_r, "ea")
  BY DryNames DEF BaseBody, Addresses, Dry
<1>2. Addresses(BaseBody.alu_m, "ea") /\ Addresses(BaseBody.inc_m, "ea")
  BY DryNames DEF BaseBody, Addresses, Dry
<1>3. Addresses(BaseBody.ld_m_n, "ldmn")
  BY DryNames DEF BaseBody, Addresses, Dry
<1>. QED
  BY <1>1, <1>2, <1>3 DEF ThroughHL

LEMMA EDDry ==
  \A c \in {"ed_nop", "in_r_c", "out_c_r", "sbc_hl", "neg", "retn", "im_0", "im_1", "im_2",
           "ld_i_a", "ld_r_a", "ld_a_i", "rrd", "ldi", "ldir", "cpi", "cpir", "ini", "inir",
           "outi", "otir"} : Dry(EDBody[c])
<1>1. /\ Dry(EDBody.ed_nop)
      /\ Dry(EDBody.in_r_c)
      /\ Dry(EDBody.out_c_r)
      /\ Dry(EDBody.sbc_hl)
      /\ Dry(EDBody.neg)
      /\ Dry(EDBody.retn)
      /\ Dry(EDBody.im_0)
      /\ Dry(EDBody.im_1)
      /\ Dry(EDBody.im_2)
  BY DryNames DEF EDBody, Dry
<1>2. /\ Dry(EDBody.ld_i_a)
      /\ Dry(EDBody.ld_r_a)
      /\ Dry(EDBody.ld_a_i)
      /\ Dry(EDBody.rrd)
      /\ Dry(EDBody.ldi)
      /\ Dry(EDBody.ldir)
      /\ Dry(EDBody.cpi)
      /\ Dry(EDBody.cpir)
      /\ Dry(EDBody.ini)
  BY DryNames DEF EDBody, Dry
<1>3. /\ Dry(EDBody.inir)
      /\ Dry(EDBody.outi)
      /\ Dry(EDBody.otir)
  BY DryNames DEF EDBody, Dry
<1>. QED
  BY <1>1, <1>2, <1>3

LEMMA EDTwo ==
  Two(EDBody.ld_nn_dd) /\ Two(EDBody.ld_dd_ind)
BY DryNames DEF EDBody, Two, One, Dry

LEMMA PagesDry ==
  /\ \A c \in DOMAIN CBBody : Dry(CBBody[c])
  /\ \A c \in DOMAIN XCBBody : Dry(XCBBody[c])
<1>1. /\ DOMAIN CBBody = {"cb_rot_r", "cb_set_r", "cb_rot_m", "cb_bit_m", "cb_set_m"}
      /\ DOMAIN XCBBody = {"xcb_rot", "xcb_bit", "xcb_set"}
  BY DEF CBBody, XCBBody
<1>2. /\ Dry(CBBody.cb_rot_r)
      /\ Dry(CBBody.cb_set_r)
      /\ Dry(CBBody.cb_rot_m)
      /\ Dry(CBBody.cb_bit_m)
      /\ Dry(CBBody.cb_set_m)
  BY DryNames DEF CBBody, Dry
<1>3. /\ Dry(XCBBody.xcb_rot)
      /\ Dry(XCBBody.xcb_bit)
      /\ Dry(XCBBody.xcb_set)
  BY DryNames DEF XCBBody, Dry
<1>. QED
  BY <1>1, <1>2, <1>3

----------------------------------------------------------------------------
(* The tables. *)

LEMMA Parts ==
  ASSUME NEW op \in Nat, op < 256
  PROVE  /\ X(op) \in 0 .. 3 /\ Y(op) \in 0 .. 7 /\ Z(op) \in 0 .. 7
         /\ op = 64 * X(op) + 8 * Y(op) + Z(op)
BY DEF X, Y, Z

LEMMA PartsOf ==
  ASSUME NEW x \in 0 .. 3, NEW y \in 0 .. 7, NEW z \in 0 .. 7
  PROVE  /\ Opcode(x, y, z) \in Nat /\ Opcode(x, y, z) < 256
         /\ X(Opcode(x, y, z)) = x /\ Y(Opcode(x, y, z)) = y /\ Z(Opcode(x, y, z)) = z
BY DEF X, Y, Z, Opcode

(* An opcode is in a quadrant's table if its three parts are.               *)
LEMMA InQuadrant ==
  ASSUME NEW op \in Nat, op < 256, NEW x \in 0 .. 3,
         NEW ys \in SUBSET (0 .. 7), NEW zs \in SUBSET (0 .. 7)
  PROVE  op \in Quadrant(x, ys, zs) <=> X(op) = x /\ Y(op) \in ys /\ Z(op) \in zs
<1>1. ASSUME op \in Quadrant(x, ys, zs) PROVE X(op) = x /\ Y(op) \in ys /\ Z(op) \in zs
  <2>1. PICK y \in ys, z \in zs : op = Opcode(x, y, z)
    BY <1>1 DEF Quadrant
  <2>. QED
    BY <2>1, PartsOf
<1>2. ASSUME X(op) = x, Y(op) \in ys, Z(op) \in zs PROVE op \in Quadrant(x, ys, zs)
  <2>1. op = Opcode(x, Y(op), Z(op))
    BY <1>2, Parts DEF Opcode
  <2>2. \E y \in ys, z \in zs : op = Opcode(x, y, z)
    BY <1>2, <2>1
  <2>. HIDE <1>2, <2>1
  <2>. QED
    BY <2>2 DEF Quadrant
<1>. QED
  BY <1>1, <1>2

LEMMA OfQuadrant ==
  ASSUME NEW x \in 0 .. 3, NEW ys \in SUBSET (0 .. 7), NEW zs \in SUBSET (0 .. 7),
         NEW op \in Quadrant(x, ys, zs)
  PROVE  op \in Nat /\ op < 256 /\ X(op) = x /\ Y(op) \in ys /\ Z(op) \in zs
<1>1. PICK y \in ys, z \in zs : op = Opcode(x, y, z)
  BY DEF Quadrant
<1>2. op \in Nat /\ op < 256
  BY <1>1, PartsOf
<1>. QED
  BY <1>2, InQuadrant

(* What the text shows in the place of HL is what the handler remaps.       *)
LEMMA TextShowsRemapped ==
  ASSUME NEW op \in Nat, op < 256
  PROVE  Remapped(op) = IndexText(op)
<1>. DEFINE x == X(op)
            y == Y(op)
            z == Z(op)
<1>1. x \in 0 .. 3 /\ y \in 0 .. 7 /\ z \in 0 .. 7 /\ op = 64 * x + 8 * y + z
  BY Parts
<1>2. /\ op \in Quadrant(1, Regs, Regs) <=> x = 1 /\ y \in Regs /\ z \in Regs
      /\ op \in Quadrant(1, Regs, {6}) <=> x = 1 /\ y \in Regs /\ z = 6
      /\ op \in Quadrant(1, {6}, Regs) <=> x = 1 /\ y = 6 /\ z \in Regs
  <2>1. Regs \in SUBSET (0 .. 7) /\ {6} \in SUBSET (0 .. 7) /\ 1 \in 0 .. 3
    BY DEF Regs, Codes
  <2>. QED
    BY <2>1, InQuadrant
<1>3. \A role : role \in IndexText(op) => role \in {"pair", "half", "mem"}
  BY DEF IndexText
<1>4. "pair" \in Remapped(op) <=> "pair" \in IndexText(op)
  BY DEF Remapped, IndexText, IndexPair
<1>5. "mem" \in Remapped(op) <=> "mem" \in IndexText(op)
  <2>. DEFINE shown == 6 \in Shown(op)
  <2>1. shown <=> (x = 1 /\ op # 118 /\ (y = 6 \/ z = 6)) \/ (x = 2 /\ z = 6)
    BY <1>1 DEF Shown
  <2>. HIDE DEF x, y, z, shown
  <2>2. "mem" \in IndexText(op) <=> op \notin IndexPair /\ (op \in {52, 53, 54} \/ shown)
    BY DEF IndexText, shown
  <2>3. "mem" \in Remapped(op) <=> \/ op \in {52, 53, 54}
                                   \/ x = 1 /\ y \in Regs /\ z = 6
                                   \/ x = 1 /\ y = 6 /\ z \in Regs
                                   \/ x = 2 /\ z = 6
    BY <1>2 DEF Remapped, x, y, z
  <2>. QED
    BY <1>1, <2>1, <2>2, <2>3 DEF Regs, Codes, IndexPair
<1>6. "half" \in Remapped(op) <=> "half" \in IndexText(op)
  <2>. DEFINE shown == Shown(op) \cap Halves # {}
  <2>1. shown <=> \/ x = 1 /\ op # 118 /\ (y \in {4, 5} \/ z \in {4, 5})
                  \/ x = 2 /\ z \in {4, 5}
    BY DEF Shown, Halves
  <2>2. 6 \in Shown(op) <=> (x = 1 /\ op # 118 /\ (y = 6 \/ z = 6)) \/ (x = 2 /\ z = 6)
    BY <1>1 DEF Shown
  <2>. HIDE DEF x, y, z, shown
  <2>3. "half" \in IndexText(op)
          <=> /\ op \notin IndexPair /\ op \notin {52, 53, 54} /\ 6 \notin Shown(op)
              /\ (op \in {36, 37, 38, 44, 45, 46} \/ shown)
    BY DEF IndexText, shown
  <2>4. "half" \in Remapped(op) <=> \/ x = 0 /\ y \in {4, 5} /\ z \in {4, 5, 6}
                                    \/ /\ x = 1 /\ y \in Regs /\ z \in Regs
                                       /\ (y \in {4, 5} \/ z \in {4, 5})
                                    \/ x = 2 /\ z \in {4, 5}
    BY <1>2 DEF Remapped, Halves, x, y, z
  <2>. QED
    BY <1>1, <2>1, <2>2, <2>3, <2>4 DEF Regs, Codes, IndexPair
<1>. QED
  BY <1>3, <1>4, <1>5, <1>6 DEF Remapped

(* The tables of the disassembler by the parts of an opcode.                *)
LEMMA TextParts ==
  ASSUME NEW op \in Nat, op < 256
  PROVE  /\ op \in WordTexts <=> \/ op \in {1, 17, 33, 49, 34, 42, 50, 58, 195, 205}
                                 \/ X(op) = 3 /\ Z(op) \in {2, 4}
         /\ op \in ByteTexts <=> \/ op \in {211, 219, 16, 24, 32, 40, 48, 56}
                                 \/ X(op) \in {0, 3} /\ Z(op) = 6
         /\ "mem" \in IndexText(op) <=> \/ op \in {52, 53, 54}
                                        \/ X(op) = 1 /\ op # 118 /\ (Y(op) = 6 \/ Z(op) = 6)
                                        \/ X(op) = 2 /\ Z(op) = 6
         /\ IndexText(op) = {} <=>
              /\ op \notin IndexPair /\ op \notin {36, 37, 38, 44, 45, 46, 52, 53, 54}
              /\ X(op) = 1 /\ op # 118 => Y(op) \notin {4, 5, 6} /\ Z(op) \notin {4, 5, 6}
              /\ X(op) = 2 => Z(op) \notin {4, 5, 6}
<1>. DEFINE x == X(op)
            y == Y(op)
            z == Z(op)
<1>1. x \in 0 .. 3 /\ y \in 0 .. 7 /\ z \in 0 .. 7 /\ op = 64 * x + 8 * y + z
  BY Parts
<1>2. /\ op \in Quadrant(3, Codes, {2, 4}) <=> x = 3 /\ z \in {2, 4}
      /\ op \in Quadrant(0, Codes, {6}) <=> x = 0 /\ z = 6
      /\ op \in Quadrant(3, Codes, {6}) <=> x = 3 /\ z = 6
  <2>1. /\ Codes \in SUBSET (0 .. 7) /\ {6} \in SUBSET (0 .. 7) /\ {2, 4} \in SUBSET (0 .. 7)
        /\ 0 \in 0 .. 3 /\ 3 \in 0 .. 3 /\ y \in Codes
    BY <1>1 DEF Codes
  <2>. QED
    BY <2>1, InQuadrant
<1>3. /\ 6 \in Shown(op) <=> (x = 1 /\ op # 118 /\ (y = 6 \/ z = 6)) \/ (x = 2 /\ z = 6)
      /\ Shown(op) \cap Halves # {}
           <=> (x = 1 /\ op # 118 /\ (y \in {4, 5} \/ z \in {4, 5})) \/ (x = 2 /\ z \in {4, 5})
  BY <1>1 DEF Shown, Halves
<1>. HIDE DEF x, y, z
<1>4. op \in WordTexts
        <=> op \in {1, 17, 33, 49, 34, 42, 50, 58, 195, 205} \/ (x = 3 /\ z \in {2, 4})
  BY <1>2 DEF WordTexts
<1>5. op \in ByteTexts <=> op \in {211, 219, 16, 24, 32, 40, 48, 56} \/ (x \in {0, 3} /\ z = 6)
  BY <1>2 DEF ByteTexts
<1>6. "mem" \in IndexText(op) <=> op \notin IndexPair /\ (op \in {52, 53, 54} \/ 6 \in Shown(op))
  BY DEF IndexText
<1>7. "mem" \in IndexText(op) <=> \/ op \in {52, 53, 54}
                                  \/ x = 1 /\ op # 118 /\ (y = 6 \/ z = 6)
                                  \/ x = 2 /\ z = 6
  BY <1>1, <1>3, <1>6 DEF IndexPair
<1>8. IndexText(op) = {} <=>
        /\ op \notin IndexPair /\ op \notin {36, 37, 38, 44, 45, 46, 52, 53, 54}
        /\ 6 \notin Shown(op) /\ Shown(op) \cap Halves = {}
  BY DEF IndexText
<1>9. IndexText(op) = {} <=>
        /\ op \notin IndexPair /\ op \notin {36, 37, 38, 44, 45, 46, 52, 53, 54}
        /\ x = 1 /\ op # 118 => y \notin {4, 5, 6} /\ z \notin {4, 5, 6}
        /\ x = 2 => z \notin {4, 5, 6}
  BY <1>1, <1>3, <1>8
<1>. QED
  BY <1>4, <1>5, <1>7, <1>9 DEF x, y, z

(* The bytes that set an opcode's page or register.                         *)
PrefixBytes == {\hCB, \hDD, \hED, \hFD}

(* An opcode that takes n operand bytes, and m more for the displacement    *)
(* when it addresses memory through an index register.                      *)
Asks(op, n, m) ==
  /\ op \in Nat /\ op < 256 /\ op \notin PrefixBytes
  /\ BaseOperands(op) = n
  /\ IndexText(op) # {} => IndexOperands(op) = n + m
  /\ m = 1 => IndexText(op) # {}

(* The texts with two markers, with one and with (HL), by number.           *)
WordForm(op) == \/ op \in {1, 17, 33, 49, 34, 42, 50, 58, 195, 205}
                \/ X(op) = 3 /\ Z(op) \in {2, 4}
ByteForm(op) == \/ op \in {211, 219, 16, 24, 32, 40, 48, 56}
                \/ X(op) \in {0, 3} /\ Z(op) = 6
MemForm(op) == \/ op \in {52, 53, 54}
               \/ X(op) = 1 /\ op # 118 /\ (Y(op) = 6 \/ Z(op) = 6)
               \/ X(op) = 2 /\ Z(op) = 6

LEMMA AsksFrom ==
  ASSUME NEW op \in Nat, op < 256, op \notin PrefixBytes,
         NEW n \in 0 .. 2, NEW m \in 0 .. 1,
         WordForm(op) <=> n = 2, ByteForm(op) <=> n = 1, MemForm(op) <=> m = 1
  PROVE  Asks(op, n, m)
<1>1. /\ op \in WordTexts <=> n = 2
      /\ op \in ByteTexts <=> n = 1
      /\ "mem" \in IndexText(op) <=> m = 1
  BY TextParts DEF WordForm, ByteForm, MemForm
<1>2. BaseOperands(op) = n
  BY <1>1 DEF BaseOperands
<1>3. /\ X(op) \in 0 .. 3 /\ Y(op) \in 0 .. 7 /\ Z(op) \in 0 .. 7
      /\ op = 64 * X(op) + 8 * Y(op) + Z(op)
  BY Parts
<1>4. ASSUME IndexText(op) # {} PROVE IndexOperands(op) = n + m
  <2>1. \/ op \in IndexPair \/ op \in {36, 37, 38, 44, 45, 46, 52, 53, 54}
        \/ X(op) = 1 /\ op # 118
        \/ X(op) = 2
    BY <1>4, TextParts
  <2>2. /\ n = 2 <=> op \in {33, 34, 42}
        /\ n = 1 <=> op \in {38, 46, 54}
    BY <1>3, <2>1 DEF IndexPair, WordForm, ByteForm
  <2>. QED
    BY <1>1, <2>2 DEF IndexOperands
<1>. QED
  BY <1>1, <1>2, <1>4 DEF Asks

LEMMA SubCodes ==
  /\ Codes \in SUBSET (0 .. 7) /\ Regs \in SUBSET (0 .. 7)
  /\ \A k \in 0 .. 7 : \A j \in 0 .. 7 : {k, j} \in SUBSET (0 .. 7) /\ {k} \in SUBSET (0 .. 7)
BY DEF Codes, Regs

(* What the texts of a class ask for: each class is made of quadrants, and  *)
(* of opcodes that the table lists.                                         *)
LEMMA NoOperand == \A c \in Plain : \A op \in BaseOpcodes[c] : Asks(op, 0, 0)
<1>1. ASSUME NEW op \in Quadrant(1, Regs, Regs) PROVE Asks(op, 0, 0)
  <2>1. /\ op \in Nat /\ op < 256 /\ X(op) = 1 /\ Y(op) \in Regs /\ Z(op) \in Regs
        /\ op = 64 * X(op) + 8 * Y(op) + Z(op)
    BY SubCodes, OfQuadrant, Parts
  <2>2. op \notin PrefixBytes
    BY <2>1 DEF PrefixBytes, Regs, Codes
  <2>3. /\ ~WordForm(op) /\ ~ByteForm(op) /\ ~MemForm(op)
    BY <2>1, <2>2 DEF WordForm, ByteForm, MemForm, Regs, Codes
  <2>. QED
    BY <2>1, <2>2, <2>3, AsksFrom
<1>2. ASSUME NEW op \in Quadrant(0, Regs, {4, 5}) PROVE Asks(op, 0, 0)
  <2>1. /\ op \in Nat /\ op < 256 /\ X(op) = 0 /\ Y(op) \in Regs /\ Z(op) \in {4, 5}
        /\ op = 64 * X(op) + 8 * Y(op) + Z(op)
    BY SubCodes, OfQuadrant, Parts
  <2>2. op \notin PrefixBytes
    BY <2>1 DEF PrefixBytes, Regs, Codes
  <2>3. /\ ~WordForm(op) /\ ~ByteForm(op) /\ ~MemForm(op)
    BY <2>1, <2>2 DEF WordForm, ByteForm, MemForm, Regs, Codes
  <2>. QED
    BY <2>1, <2>2, <2>3, AsksFrom
<1>3. ASSUME NEW op \in Quadrant(2, Codes, Regs) PROVE Asks(op, 0, 0)
  <2>1. /\ op \in Nat /\ op < 256 /\ X(op) = 2 /\ Y(op) \in Codes /\ Z(op) \in Regs
        /\ op = 64 * X(op) + 8 * Y(op) + Z(op)
    BY SubCodes, OfQuadrant, Parts
  <2>2. op \notin PrefixBytes
    BY <2>1 DEF PrefixBytes, Regs, Codes
  <2>3. /\ ~WordForm(op) /\ ~ByteForm(op) /\ ~MemForm(op)
    BY <2>1, <2>2 DEF WordForm, ByteForm, MemForm, Regs, Codes
  <2>. QED
    BY <2>1, <2>2, <2>3, AsksFrom
<1>4. ASSUME NEW op \in Quadrant(0, Codes, {3}) PROVE Asks(op, 0, 0)
  <2>1. /\ op \in Nat /\ op < 256 /\ X(op) = 0 /\ Y(op) \in Codes /\ Z(op) \in {3}
        /\ op = 64 * X(op) + 8 * Y(op) + Z(op)
    BY SubCodes, OfQuadrant, Parts
  <2>2. op \notin PrefixBytes
    BY <2>1 DEF PrefixBytes, Regs, Codes
  <2>3. /\ ~WordForm(op) /\ ~ByteForm(op) /\ ~MemForm(op)
    BY <2>1, <2>2 DEF WordForm, ByteForm, MemForm, Regs, Codes
  <2>. QED
    BY <2>1, <2>2, <2>3, AsksFrom
<1>5. ASSUME NEW op \in Quadrant(3, Codes, {0}) PROVE Asks(op, 0, 0)
  <2>1. /\ op \in Nat /\ op < 256 /\ X(op) = 3 /\ Y(op) \in Codes /\ Z(op) \in {0}
        /\ op = 64 * X(op) + 8 * Y(op) + Z(op)
    BY SubCodes, OfQuadrant, Parts
  <2>2. op \notin PrefixBytes
    BY <2>1 DEF PrefixBytes, Regs, Codes
  <2>3. /\ ~WordForm(op) /\ ~ByteForm(op) /\ ~MemForm(op)
    BY <2>1, <2>2 DEF WordForm, ByteForm, MemForm, Regs, Codes
  <2>. QED
    BY <2>1, <2>2, <2>3, AsksFrom
<1>6. ASSUME NEW op \in Quadrant(3, Codes, {7}) PROVE Asks(op, 0, 0)
  <2>1. /\ op \in Nat /\ op < 256 /\ X(op) = 3 /\ Y(op) \in Codes /\ Z(op) \in {7}
        /\ op = 64 * X(op) + 8 * Y(op) + Z(op)
    BY SubCodes, OfQuadrant, Parts
  <2>2. op \notin PrefixBytes
    BY <2>1 DEF PrefixBytes, Regs, Codes
  <2>3. /\ ~WordForm(op) /\ ~ByteForm(op) /\ ~MemForm(op)
    BY <2>1, <2>2 DEF WordForm, ByteForm, MemForm, Regs, Codes
  <2>. QED
    BY <2>1, <2>2, <2>3, AsksFrom
<1>7. ASSUME NEW op \in {\h00, \h08, \hD9, \hEB, \h07, \h0F, \h17, \h1F, \h27, \h2F, \h37, \h3F,
                         \h0A, \h1A, \h02, \h12, \hF9, \h09, \h19, \h29, \h39, \hE9, \hC9,
                         \hC5, \hD5, \hE5, \hF5, \hC1, \hD1, \hE1, \hF1, \hE3, \h76, \hF3,
                         \hFB}
      PROVE  Asks(op, 0, 0)
  <2>1. op \in Nat /\ op < 256 /\ op \notin PrefixBytes
    BY DEF PrefixBytes
  <2>2. /\ X(op) \in 0 .. 3 /\ Y(op) \in 0 .. 7 /\ Z(op) \in 0 .. 7
        /\ op = 64 * X(op) + 8 * Y(op) + Z(op)
    BY <2>1, Parts
  <2>3. /\ ~WordForm(op) /\ ~ByteForm(op) /\ ~MemForm(op)
    BY <2>1, <2>2 DEF WordForm, ByteForm, MemForm, Regs, Codes
  <2>. QED
    BY <2>1, <2>2, <2>3, AsksFrom
<1>. QED
  BY <1>1, <1>2, <1>3, <1>4, <1>5, <1>6, <1>7 DEF BaseOpcodes, Plain

LEMMA ByteOperand ==
  \A c \in WithByte : \A op \in BaseOpcodes[c] : Asks(op, 1, 0)
<1>1. ASSUME NEW op \in Quadrant(0, Regs, {6}) PROVE Asks(op, 1, 0)
  <2>1. /\ op \in Nat /\ op < 256 /\ X(op) = 0 /\ Y(op) \in Regs /\ Z(op) \in {6}
        /\ op = 64 * X(op) + 8 * Y(op) + Z(op)
    BY SubCodes, OfQuadrant, Parts
  <2>2. op \notin PrefixBytes
    BY <2>1 DEF PrefixBytes, Regs, Codes
  <2>3. /\ ~WordForm(op) /\ ByteForm(op) /\ ~MemForm(op)
    BY <2>1, <2>2 DEF WordForm, ByteForm, MemForm, Regs, Codes
  <2>. QED
    BY <2>1, <2>2, <2>3, AsksFrom
<1>2. ASSUME NEW op \in Quadrant(3, Codes, {6}) PROVE Asks(op, 1, 0)
  <2>1. /\ op \in Nat /\ op < 256 /\ X(op) = 3 /\ Y(op) \in Codes /\ Z(op) \in {6}
        /\ op = 64 * X(op) + 8 * Y(op) + Z(op)
    BY SubCodes, OfQuadrant, Parts
  <2>2. op \notin PrefixBytes
    BY <2>1 DEF PrefixBytes, Regs, Codes
  <2>3. /\ ~WordForm(op) /\ ByteForm(op) /\ ~MemForm(op)
    BY <2>1, <2>2 DEF WordForm, ByteForm, MemForm, Regs, Codes
  <2>. QED
    BY <2>1, <2>2, <2>3, AsksFrom
<1>3. ASSUME NEW op \in {\h18, \h20, \h28, \h30, \h38, \h10, \hD3, \hDB} PROVE Asks(op, 1, 0)
  <2>1. op \in Nat /\ op < 256 /\ op \notin PrefixBytes
    BY DEF PrefixBytes
  <2>2. /\ X(op) \in 0 .. 3 /\ Y(op) \in 0 .. 7 /\ Z(op) \in 0 .. 7
        /\ op = 64 * X(op) + 8 * Y(op) + Z(op)
    BY <2>1, Parts
  <2>3. /\ ~WordForm(op) /\ ByteForm(op) /\ ~MemForm(op)
    BY <2>1, <2>2 DEF WordForm, ByteForm, MemForm, Regs, Codes
  <2>. QED
    BY <2>1, <2>2, <2>3, AsksFrom
<1>. QED
  BY <1>1, <1>2, <1>3 DEF BaseOpcodes, WithByte

LEMMA MemoryOperand ==
  \A c \in ThroughHL : \A op \in BaseOpcodes[c] : Asks(op, 0, 1)
<1>1. ASSUME NEW op \in Quadrant(1, Regs, {6}) PROVE Asks(op, 0, 1)
  <2>1. /\ op \in Nat /\ op < 256 /\ X(op) = 1 /\ Y(op) \in Regs /\ Z(op) \in {6}
        /\ op = 64 * X(op) + 8 * Y(op) + Z(op)
    BY SubCodes, OfQuadrant, Parts
  <2>2. op \notin PrefixBytes
    BY <2>1 DEF PrefixBytes, Regs, Codes
  <2>3. /\ ~WordForm(op) /\ ~ByteForm(op) /\ MemForm(op)
    BY <2>1, <2>2 DEF WordForm, ByteForm, MemForm, Regs, Codes
  <2>. QED
    BY <2>1, <2>2, <2>3, AsksFrom
<1>2. ASSUME NEW op \in Quadrant(1, {6}, Regs) PROVE Asks(op, 0, 1)
  <2>1. /\ op \in Nat /\ op < 256 /\ X(op) = 1 /\ Y(op) \in {6} /\ Z(op) \in Regs
        /\ op = 64 * X(op) + 8 * Y(op) + Z(op)
    BY SubCodes, OfQuadrant, Parts
  <2>2. op \notin PrefixBytes
    BY <2>1 DEF PrefixBytes, Regs, Codes
  <2>3. /\ ~WordForm(op) /\ ~ByteForm(op) /\ MemForm(op)
    BY <2>1, <2>2 DEF WordForm, ByteForm, MemForm, Regs, Codes
  <2>. QED
    BY <2>1, <2>2, <2>3, AsksFrom
<1>3. ASSUME NEW op \in Quadrant(2, Codes, {6}) PROVE Asks(op, 0, 1)
  <2>1. /\ op \in Nat /\ op < 256 /\ X(op) = 2 /\ Y(op) \in Codes /\ Z(op) \in {6}
        /\ op = 64 * X(op) + 8 * Y(op) + Z(op)
    BY SubCodes, OfQuadrant, Parts
  <2>2. op \notin PrefixBytes
    BY <2>1 DEF PrefixBytes, Regs, Codes
  <2>3. /\ ~WordForm(op) /\ ~ByteForm(op) /\ MemForm(op)
    BY <2>1, <2>2 DEF WordForm, ByteForm, MemForm, Regs, Codes
  <2>. QED
    BY <2>1, <2>2, <2>3, AsksFrom
<1>4. ASSUME NEW op \in {\h34, \h35} PROVE Asks(op, 0, 1)
  <2>1. op \in Nat /\ op < 256 /\ op \notin PrefixBytes
    BY DEF PrefixBytes
  <2>2. /\ X(op) \in 0 .. 3 /\ Y(op) \in 0 .. 7 /\ Z(op) \in 0 .. 7
        /\ op = 64 * X(op) + 8 * Y(op) + Z(op)
    BY <2>1, Parts
  <2>3. /\ ~WordForm(op) /\ ~ByteForm(op) /\ MemForm(op)
    BY <2>1, <2>2 DEF WordForm, ByteForm, MemForm, Regs, Codes
  <2>. QED
    BY <2>1, <2>2, <2>3, AsksFrom
<1>. QED
  BY <1>1, <1>2, <1>3, <1>4 DEF BaseOpcodes, ThroughHL

LEMMA MemoryAndByte ==
  \A op \in BaseOpcodes["ld_m_n"] : Asks(op, 1, 1)
<1>1. ASSUME NEW op \in {\h36} PROVE Asks(op, 1, 1)
  <2>1. op \in Nat /\ op < 256 /\ op \notin PrefixBytes
    BY DEF PrefixBytes
  <2>2. /\ X(op) \in 0 .. 3 /\ Y(op) \in 0 .. 7 /\ Z(op) \in 0 .. 7
        /\ op = 64 * X(op) + 8 * Y(op) + Z(op)
    BY <2>1, Parts
  <2>3. /\ ~WordForm(op) /\ ByteForm(op) /\ MemForm(op)
    BY <2>1, <2>2 DEF WordForm, ByteForm, MemForm, Regs, Codes
  <2>. QED
    BY <2>1, <2>2, <2>3, AsksFrom
<1>. QED
  BY <1>1 DEF BaseOpcodes

LEMMA WordOperand ==
  \A c \in WithWord : \A op \in BaseOpcodes[c] : Asks(op, 2, 0)
<1>1. ASSUME NEW op \in Quadrant(3, Codes, {2, 4}) PROVE Asks(op, 2, 0)
  <2>1. /\ op \in Nat /\ op < 256 /\ X(op) = 3 /\ Y(op) \in Codes /\ Z(op) \in {2, 4}
        /\ op = 64 * X(op) + 8 * Y(op) + Z(op)
    BY SubCodes, OfQuadrant, Parts
  <2>2. op \notin PrefixBytes
    BY <2>1 DEF PrefixBytes, Regs, Codes
  <2>3. /\ WordForm(op) /\ ~ByteForm(op) /\ ~MemForm(op)
    BY <2>1, <2>2 DEF WordForm, ByteForm, MemForm, Regs, Codes
  <2>. QED
    BY <2>1, <2>2, <2>3, AsksFrom
<1>2. ASSUME NEW op \in Quadrant(3, Codes, {2}) PROVE Asks(op, 2, 0)
  <2>1. /\ op \in Nat /\ op < 256 /\ X(op) = 3 /\ Y(op) \in Codes /\ Z(op) \in {2}
        /\ op = 64 * X(op) + 8 * Y(op) + Z(op)
    BY SubCodes, OfQuadrant, Parts
  <2>2. op \notin PrefixBytes
    BY <2>1 DEF PrefixBytes, Regs, Codes
  <2>3. /\ WordForm(op) /\ ~ByteForm(op) /\ ~MemForm(op)
    BY <2>1, <2>2 DEF WordForm, ByteForm, MemForm, Regs, Codes
  <2>. QED
    BY <2>1, <2>2, <2>3, AsksFrom
<1>3. ASSUME NEW op \in Quadrant(3, Codes, {4}) PROVE Asks(op, 2, 0)
  <2>1. /\ op \in Nat /\ op < 256 /\ X(op) = 3 /\ Y(op) \in Codes /\ Z(op) \in {4}
        /\ op = 64 * X(op) + 8 * Y(op) + Z(op)
    BY SubCodes, OfQuadrant, Parts
  <2>2. op \notin PrefixBytes
    BY <2>1 DEF PrefixBytes, Regs, Codes
  <2>3. /\ WordForm(op) /\ ~ByteForm(op) /\ ~MemForm(op)
    BY <2>1, <2>2 DEF WordForm, ByteForm, MemForm, Regs, Codes
  <2>. QED
    BY <2>1, <2>2, <2>3, AsksFrom
<1>4. ASSUME NEW op \in {\h01, \h11, \h21, \h31, \h3A, \h32, \h2A, \h22, \hC3, \hCD}
      PROVE  Asks(op, 2, 0)
  <2>1. op \in Nat /\ op < 256 /\ op \notin PrefixBytes
    BY DEF PrefixBytes
  <2>2. /\ X(op) \in 0 .. 3 /\ Y(op) \in 0 .. 7 /\ Z(op) \in 0 .. 7
        /\ op = 64 * X(op) + 8 * Y(op) + Z(op)
    BY <2>1, Parts
  <2>3. /\ WordForm(op) /\ ~ByteForm(op) /\ ~MemForm(op)
    BY <2>1, <2>2 DEF WordForm, ByteForm, MemForm, Regs, Codes
  <2>. QED
    BY <2>1, <2>2, <2>3, AsksFrom
<1>. QED
  BY <1>1, <1>2, <1>3, <1>4 DEF BaseOpcodes, WithWord

(* The ED page: which opcodes take an address, and which do nothing.        *)
EDForm(op, n, nop) ==
  op \in Nat /\ op < 256 /\ EDOperands(op) = n /\ (EDPlaceholder(op) <=> nop = 1)

LEMMA BlockBytes ==
  ASSUME NEW op \in Nat, op < 256
  PROVE  op \in Blocks <=> op \in {\hA0, \hA1, \hA2, \hA3, \hA8, \hA9, \hAA, \hAB,
                                   \hB0, \hB1, \hB2, \hB3, \hB8, \hB9, \hBA, \hBB}
<1>1. /\ X(op) \in 0 .. 3 /\ Y(op) \in 0 .. 7 /\ Z(op) \in 0 .. 7
      /\ op = 64 * X(op) + 8 * Y(op) + Z(op)
  BY Parts
<1>. QED
  BY <1>1 DEF Blocks

LEMMA BlockForm ==
  ASSUME NEW op \in Blocks
  PROVE  EDForm(op, 0, 0)
<1>1. op \in Nat /\ op < 256
  BY DEF Blocks
<1>2. op \in {\hA0, \hA1, \hA2, \hA3, \hA8, \hA9, \hAA, \hAB,
              \hB0, \hB1, \hB2, \hB3, \hB8, \hB9, \hBA, \hBB}
  BY <1>1, BlockBytes
<1>3. X(op) # 1
  BY <1>1, <1>2, Parts
<1>. QED
  BY <1>1, <1>2, <1>3 DEF EDForm, EDOperands, EDPlaceholder

LEMMA ED4xForm ==
  ASSUME NEW op \in Nat, op < 256, X(op) = 1, Z(op) < 7 \/ Y(op) < 6,
         NEW n \in {0, 2}, n = 2 <=> Z(op) = 3
  PROVE  EDForm(op, n, 0)
BY DEF EDForm, EDOperands, EDPlaceholder

LEMMA EDWordOperand ==
  \A c \in {"ld_nn_dd", "ld_dd_ind"} : \A op \in EDOpcodes[c] : EDForm(op, 2, 0)
<1>1. ASSUME NEW op \in Quadrant(1, {0, 2, 4, 6}, {3}) PROVE EDForm(op, 2, 0)
  <2>1. {0, 2, 4, 6} \in SUBSET (0 .. 7) /\ {3} \in SUBSET (0 .. 7) /\ 1 \in 0 .. 3
    OBVIOUS
  <2>. QED
    BY <2>1, OfQuadrant, ED4xForm
<1>2. ASSUME NEW op \in Quadrant(1, {1, 3, 5, 7}, {3}) PROVE EDForm(op, 2, 0)
  <2>1. {1, 3, 5, 7} \in SUBSET (0 .. 7) /\ {3} \in SUBSET (0 .. 7) /\ 1 \in 0 .. 3
    OBVIOUS
  <2>. QED
    BY <2>1, OfQuadrant, ED4xForm
<1>. QED
  BY <1>1, <1>2 DEF EDOpcodes

LEMMA EDNothing ==
  \A op \in EDOpcodes["ed_nop"] : EDForm(op, 0, 1)
<1>. SUFFICES ASSUME NEW op \in EDOpcodes["ed_nop"] PROVE EDForm(op, 0, 1)
  OBVIOUS
<1>1. op \in Nat /\ op < 256 /\ \/ op \in {119, 127}
                                \/ op \notin Blocks /\ (op < 64 \/ 127 < op)
  BY DEF EDOpcodes, Byte
<1>2. /\ X(op) \in 0 .. 3 /\ Y(op) \in 0 .. 7 /\ Z(op) \in 0 .. 7
      /\ op = 64 * X(op) + 8 * Y(op) + Z(op)
  BY <1>1, Parts
<1>3. ~(X(op) = 1 /\ (Z(op) < 7 \/ Y(op) < 6))
  BY <1>1, <1>2
<1>4. op \notin {\hA0, \hA1, \hA2, \hA3, \hA8, \hA9, \hAA, \hAB,
                 \hB0, \hB1, \hB2, \hB3, \hB8, \hB9, \hBA, \hBB}
  BY <1>1, BlockBytes
<1>5. EDPlaceholder(op)
  BY <1>3, <1>4 DEF EDPlaceholder
<1>6. EDOperands(op) = 0
  BY <1>2, <1>3 DEF EDOperands
<1>. QED
  BY <1>1, <1>5, <1>6 DEF EDForm

LEMMA EDNoOperand ==
  \A c \in DOMAIN EDBody \ {"ld_nn_dd", "ld_dd_ind", "ed_nop"} :
    \A op \in EDOpcodes[c] : EDForm(op, 0, 0)
<1>1. DOMAIN EDBody \ {"ld_nn_dd", "ld_dd_ind", "ed_nop"} =
        {"in_r_c", "out_c_r", "sbc_hl", "neg", "retn", "im_0", "im_1", "im_2", "ld_i_a",
         "ld_r_a", "ld_a_i", "rrd", "ldi", "ldir", "cpi", "cpir", "ini", "inir", "outi", "otir"}
  BY DEF EDBody
<1>2. ASSUME NEW z \in {0, 1, 2, 4, 5, 6}, NEW ys \in SUBSET Codes, NEW op \in Quadrant(1, ys, {z})
      PROVE  EDForm(op, 0, 0)
  <2>1. ys \in SUBSET (0 .. 7) /\ {z} \in SUBSET (0 .. 7) /\ 1 \in 0 .. 3
    BY DEF Codes
  <2>2. op \in Nat /\ op < 256 /\ X(op) = 1 /\ Z(op) = z
    BY <2>1, OfQuadrant
  <2>. QED
    BY <2>2, ED4xForm
<1>3. {0, 1, 4, 5} \in SUBSET Codes /\ {2, 6} \in SUBSET Codes /\ {3, 7} \in SUBSET Codes
  BY DEF Codes
<1>4. ASSUME NEW op \in {\h47, \h4F, \h57, \h5F, \h67, \h6F} PROVE EDForm(op, 0, 0)
  <2>1. op \in Nat /\ op < 256
    BY <1>4
  <2>2. X(op) = 1 /\ Z(op) = 7 /\ Y(op) < 6
    BY <2>1, Parts
  <2>. QED
    BY <2>1, <2>2, ED4xForm
<1>5. \A c \in {"in_r_c", "out_c_r", "sbc_hl", "neg", "retn"} :
        \A op \in EDOpcodes[c] : EDForm(op, 0, 0)
  BY <1>2 DEF EDOpcodes
<1>6. \A c \in {"im_0", "im_1", "im_2"} : \A op \in EDOpcodes[c] : EDForm(op, 0, 0)
  BY <1>2, <1>3 DEF EDOpcodes
<1>7. \A c \in {"ld_i_a", "ld_r_a", "ld_a_i", "rrd"} : \A op \in EDOpcodes[c] : EDForm(op, 0, 0)
  BY <1>4 DEF EDOpcodes
<1>8. \A c \in {"ldi", "ldir", "cpi", "cpir", "ini", "inir", "outi", "otir"} :
        \A op \in EDOpcodes[c] : EDForm(op, 0, 0)
  <2>1. \A k : Block(k) \subseteq Blocks /\ Repeats(k) \subseteq Blocks
    BY DEF Block, Repeats
  <2>. QED
    BY <2>1, BlockForm DEF EDOpcodes
<1>. QED
  BY <1>1, <1>5, <1>6, <1>7, <1>8

(* The prefix bytes themselves show nothing in the place of HL.             *)
LEMMA PrefixesShowNothing ==
  IndexText(\hDD) = {} /\ IndexText(\hFD) = {} /\ IndexText(\hED) = {}
<1>1. ASSUME NEW op \in {\hDD, \hFD, \hED} PROVE IndexText(op) = {}
  <2>1. op \in Nat /\ op < 256
    BY <1>1
  <2>2. X(op) = 3 /\ op \notin IndexPair
    BY <2>1, Parts DEF IndexPair
  <2>. QED
    BY <2>1, <2>2, TextParts
<1>. QED
  BY <1>1

(* The base table, whatever the class.                                      *)
LEMMA BaseClasses ==
  DOMAIN BaseBody = Plain \cup WithByte \cup WithWord \cup ThroughHL \cup {"ld_m_n"}
BY DEF BaseBody, Plain, WithByte, WithWord, ThroughHL

LEMMA BaseAsks ==
  ASSUME NEW c \in DOMAIN BaseBody, NEW op \in BaseOpcodes[c]
  PROVE  \E n \in 0 .. 2, m \in 0 .. 1 : Asks(op, n, m) /\ n + m \in 0 .. 2
<1>1. CASE Asks(op, 0, 0)
  BY <1>1
<1>2. CASE Asks(op, 1, 0)
  BY <1>2
<1>3. CASE Asks(op, 0, 1)
  BY <1>3
<1>4. CASE Asks(op, 1, 1)
  BY <1>4
<1>5. CASE Asks(op, 2, 0)
  BY <1>5
<1>. QED
  BY <1>1, <1>2, <1>3, <1>4, <1>5, BaseClasses,
     NoOperand, ByteOperand, MemoryOperand, MemoryAndByte, WordOperand

(* Start, where it is known.                                                *)
LEMMA StartIs ==
  ASSUME NEW s \in Seq(Nat), NEW k \in 1 .. Len(s), ~Redundant(s, k),
         \A i \in 1 .. k - 1 : Redundant(s, i)
  PROVE  Start(s) = k
<1>. DEFINE P(j) == ~Redundant(s, j) /\ \A i \in 1 .. j - 1 : Redundant(s, i)
<1>1. DOMAIN s = 1 .. Len(s) /\ Len(s) \in Nat
  BY LenProperties
<1>2. k \in DOMAIN s /\ P(k)
  BY <1>1
<1>3. ASSUME NEW j \in DOMAIN s, P(j) PROVE j = k
  <2>1. j \in Nat /\ k \in Nat /\ j >= 1 /\ k >= 1
    BY <1>1
  <2>. HIDE DEF Redundant
  <2>2. ~(j < k)
    <3>. SUFFICES ASSUME j < k PROVE FALSE
      OBVIOUS
    <3>1. j \in 1 .. k - 1
      BY <2>1
    <3>. QED
      BY <3>1, <1>3
  <2>3. ~(k < j)
    <3>. SUFFICES ASSUME k < j PROVE FALSE
      OBVIOUS
    <3>1. k \in 1 .. j - 1
      BY <2>1
    <3>. QED
      BY <3>1, <1>3
  <2>. QED
    BY <2>1, <2>2, <2>3
<1>4. Start(s) = CHOOSE j \in DOMAIN s : P(j)
  BY DEF Start
<1>. HIDE DEF P
<1>. QED
  BY <1>2, <1>3, <1>4

(* The prefixes in front of another prefix are redundant.                   *)
LEMMA PrefixRun ==
  ASSUME NEW s \in Seq(Nat), NEW n \in Nat, n <= Len(s),
         \A i \in 1 .. n : s[i] \in {\hDD, \hFD},
         NEW i \in 1 .. n - 1
  PROVE  Redundant(s, i)
<1>1. i \in 1 .. n /\ i + 1 \in 1 .. n
  OBVIOUS
<1>2. s[i] \in {\hDD, \hFD} /\ s[i + 1] \in {\hDD, \hFD}
  BY <1>1
<1>3. IndexText(s[i + 1]) = {}
  BY <1>2, PrefixesShowNothing
<1>. QED
  BY <1>2, <1>3 DEF Redundant

----------------------------------------------------------------------------
(* The properties follow. *)

LEMMA EndWantsNothing ==
  ASSUME NEW n, Wants(<<"end">>, n)
  PROVE  n = 0
<1>1. Head(<<"end">>) = "end"
  OBVIOUS
<1>. QED
  BY <1>1 DEF Wants, One, Two, Late, Addresses

(* What the two properties say of the instruction proper, at k.             *)
Right(k) ==
  /\ Start(stream) = k
  /\ k - 1 + Length(stream, k) = Len(stream) /\ Length(stream, k) \in 1 .. 4
  /\ Text(stream, k) = Ran
  /\ ins = "ed_nop" <=> stream[k] = \hED /\ EDPlaceholder(stream[k + 1])

LEMMA RightIsEnough ==
  ASSUME NEW k, Right(k)
  PROVE  FramesStep /\ ShowsWhatRan
BY DEF Right, FramesStep, ShowsWhatRan

LEMMA PageClasses ==
  /\ "ed_nop" \notin DOMAIN BaseBody /\ "ed_nop" \notin DOMAIN CBBody
  /\ "ed_nop" \notin DOMAIN XCBBody
  /\ \A c \in DOMAIN BaseBody : c \notin DOMAIN XCBBody
BY DEF BaseBody, CBBody, XCBBody

LEMMA BaseRight ==
  ASSUME FrameInv, todo = <<"end">>, Prefixed, BaseRuns
  PROVE  \E k \in Nat : Right(k)
<1>. DEFINE op == stream[pre + 1]
<1>1. stream \in Seq(Nat) /\ pre \in Nat /\ pre + 1 \in 1 .. Len(stream) /\ Len(stream) \in Nat
  BY LenProperties DEF FrameInv, BaseRuns
<1>2. PICK n \in 0 .. 2, m \in 0 .. 1 : Asks(op, n, m) /\ n + m \in 0 .. 2
  BY BaseAsks DEF BaseRuns
<1>3. /\ op \in Nat /\ op < 256 /\ op \notin PrefixBytes
      /\ BaseOperands(op) = n
      /\ IndexText(op) # {} => IndexOperands(op) = n + m
  BY <1>2 DEF Asks
<1>4. Len(stream) = pre + 1 + Operands(op)
  <2>1. PICK w \in 0 .. 2 : Wants(todo, w) /\ Len(stream) + w = pre + 1 + Operands(op)
    BY DEF BaseRuns
  <2>2. w = 0
    BY <2>1, EndWantsNothing
  <2>. QED
    BY <1>1, <2>1, <2>2
<1>5. \A i \in 1 .. pre - 1 : Redundant(stream, i)
  BY <1>1, PrefixRun DEF Prefixed
<1>6. op # \hCB /\ op # \hDD /\ op # \hED /\ op # \hFD /\ op # Data
  BY <1>3 DEF PrefixBytes, Data
<1>7. idx = Mode /\ ins # "ed_nop" /\ ins \notin DOMAIN XCBBody
  BY PageClasses DEF BaseRuns
<1>8. Remapped(op) = IndexText(op)
  BY <1>3, TextShowsRemapped
<1>. HIDE DEF op
<1>9. CASE pre # 0 /\ IndexText(op) # {}
  <2>1. stream[pre] \in {\hDD, \hFD} /\ stream[pre + 1] = op /\ pre \in 1 .. Len(stream)
    BY <1>1, <1>9 DEF Prefixed, op
  <2>2. ~Redundant(stream, pre)
    BY <1>6, <1>9, <2>1 DEF Redundant
  <2>3. Start(stream) = pre
    BY <1>1, <1>5, <2>1, <2>2, StartIs
  <2>4. Meant(stream, pre)
    BY <2>1, <2>2 DEF Meant
  <2>5. Length(stream, pre) = 2 + n + m
    BY <1>3, <1>6, <1>9, <2>1, <2>2, <2>4 DEF Length
  <2>6. idx = IF stream[pre] = \hDD THEN "IX" ELSE "IY"
    BY <1>7, <1>9 DEF Mode
  <2>7. Len(stream) = pre + 1 + n + m
    BY <1>1, <1>3, <1>4, <1>9, <2>6 DEF Operands
  <2>8. Text(stream, pre) = [reg |-> idx, roles |-> IndexText(op)]
    BY <1>6, <2>1, <2>4, <2>6 DEF Text
  <2>9. Ran = [reg |-> idx, roles |-> IndexText(op)]
    BY <1>7, <1>8, <1>9, <2>1, <2>6 DEF Ran
  <2>10. stream[pre] # \hED
    BY <2>1
  <2>11. /\ pre - 1 + Length(stream, pre) = Len(stream)
         /\ Length(stream, pre) \in 1 .. 4
    BY <1>1, <1>2, <2>5, <2>7
  <2>12. Right(pre)
    BY <1>7, <2>3, <2>8, <2>9, <2>10, <2>11 DEF Right
  <2>. QED
    BY <1>1, <2>12
<1>10. CASE pre = 0 \/ IndexText(op) = {}
  <2>. DEFINE k == pre + 1
  <2>1. stream[k] = op /\ k \in 1 .. Len(stream) /\ k - 1 = pre /\ k \in Nat
    BY <1>1 DEF op
  <2>2. ~Redundant(stream, k) /\ ~Meant(stream, k)
    BY <1>6, <2>1 DEF Redundant, Meant
  <2>3. \A i \in 1 .. k - 1 : Redundant(stream, i)
    <3>1. CASE pre = 0
      BY <3>1
    <3>2. CASE pre # 0
      <4>1. stream[pre] \in {\hDD, \hFD} /\ IndexText(op) = {}
        BY <1>1, <1>10, <3>2 DEF Prefixed
      <4>2. Redundant(stream, pre)
        BY <1>6, <2>1, <4>1 DEF Redundant
      <4>. QED
        BY <1>1, <1>5, <4>2
    <3>. QED
      BY <3>1, <3>2
  <2>. HIDE DEF k
  <2>4. Start(stream) = k
    BY <1>1, <2>1, <2>2, <2>3, StartIs
  <2>5. Length(stream, k) = 1 + n
    BY <1>3, <1>6, <2>1, <2>2 DEF Length
  <2>6. Len(stream) = k + n
    <3>1. idx = "HL" \/ IndexText(op) = {}
      BY <1>7, <1>10 DEF Mode
    <3>. QED
      BY <1>1, <1>3, <1>4, <3>1 DEF Operands, k
  <2>7. Text(stream, k) = [reg |-> "HL", roles |-> {}]
    BY <2>2 DEF Text
  <2>8. Ran = [reg |-> "HL", roles |-> {}]
    <3>1. idx = "HL" \/ Remapped(op) = {}
      BY <1>7, <1>8, <1>10 DEF Mode
    <3>. QED
      BY <1>7, <2>1, <3>1 DEF Ran, k
  <2>9. /\ k - 1 + Length(stream, k) = Len(stream)
        /\ Length(stream, k) \in 1 .. 4
    BY <1>1, <1>2, <2>1, <2>5, <2>6
  <2>10. Right(k)
    BY <1>6, <1>7, <2>1, <2>4, <2>7, <2>8, <2>9 DEF Right
  <2>. QED
    BY <2>1, <2>10
<1>. QED
  BY <1>9, <1>10

LEMMA CBRight ==
  ASSUME FrameInv, CBRuns
  PROVE  Right(1)
<1>1. stream \in Seq(Nat) /\ Len(stream) = 2 /\ stream[1] = \hCB /\ pre = 0
  BY DEF FrameInv, CBRuns
<1>2. ~Redundant(stream, 1) /\ ~Meant(stream, 1)
  BY <1>1 DEF Redundant, Meant
<1>3. Start(stream) = 1
  <2>1. 1 \in 1 .. Len(stream) /\ \A i \in 1 .. 1 - 1 : Redundant(stream, i)
    BY <1>1
  <2>. QED
    BY <1>1, <1>2, <2>1, StartIs
<1>4. Length(stream, 1) = 2
  BY <1>1 DEF Length
<1>5. Text(stream, 1) = Ran
  BY <1>2 DEF Text, Ran, CBRuns
<1>6. ins # "ed_nop"
  BY PageClasses DEF CBRuns
<1>. QED
  BY <1>1, <1>3, <1>4, <1>5, <1>6 DEF Right

LEMMA XCBRight ==
  ASSUME FrameInv, Prefixed, XCBRuns
  PROVE  Right(pre)
<1>1. /\ stream \in Seq(Nat) /\ pre \in Nat \ {0} /\ Len(stream) = pre + 3
      /\ stream[pre] \in {\hDD, \hFD} /\ stream[pre + 1] = \hCB
  BY DEF FrameInv, XCBRuns, Prefixed
<1>2. ~Redundant(stream, pre) /\ Meant(stream, pre)
  BY <1>1 DEF Redundant, Meant
<1>3. Start(stream) = pre
  <2>1. \A i \in 1 .. pre - 1 : Redundant(stream, i)
    BY <1>1, PrefixRun DEF Prefixed
  <2>. QED
    BY <1>1, <1>2, <2>1, StartIs
<1>4. Length(stream, pre) = 4
  BY <1>1, <1>2 DEF Length
<1>5. ins \in DOMAIN XCBBody /\ ins # "ed_nop" /\ idx = IF stream[pre] = \hDD THEN "IX" ELSE "IY"
  BY <1>1, PageClasses DEF XCBRuns, Mode
<1>6. Text(stream, pre) = Ran
  <2>1. Text(stream, pre) = [reg |-> idx, roles |-> {"mem"}]
    BY <1>1, <1>2, <1>5 DEF Text
  <2>2. Ran = [reg |-> idx, roles |-> {"mem"}]
    BY <1>5 DEF Ran
  <2>. QED
    BY <2>1, <2>2
<1>7. stream[pre] # \hED
  BY <1>1
<1>. QED
  BY <1>1, <1>3, <1>4, <1>5, <1>6, <1>7 DEF Right

LEMMA EDRight ==
  ASSUME FrameInv, todo = <<"end">>, Prefixed, EDRuns
  PROVE  Right(pre + 1)
<1>. DEFINE k  == pre + 1
            op == stream[pre + 2]
<1>1. /\ stream \in Seq(Nat) /\ pre \in Nat /\ k \in 1 .. Len(stream) /\ k - 1 = pre
      /\ Len(stream) \in Nat /\ stream[k] = \hED /\ stream[k + 1] = op
  <2>1. stream \in Seq(Nat) /\ pre \in Nat /\ Len(stream) \in Nat /\ Len(stream) >= pre + 2
    BY LenProperties DEF FrameInv, EDRuns
  <2>2. k + 1 = pre + 2 /\ k - 1 = pre /\ k \in 1 .. Len(stream)
    BY <2>1
  <2>3. stream[k] = \hED
    BY DEF EDRuns
  <2>4. stream[k + 1] = op
    BY <2>2
  <2>. QED
    BY <2>1, <2>2, <2>3, <2>4
<1>2. EDForm(op, 0, 0) \/ EDForm(op, 2, 0) \/ EDForm(op, 0, 1)
  <2>1. ins \in DOMAIN EDBody /\ op \in EDOpcodes[ins]
    BY DEF EDRuns
  <2>2. CASE ins = "ed_nop"
    BY <2>1, <2>2, EDNothing
  <2>3. CASE ins \in {"ld_nn_dd", "ld_dd_ind"}
    BY <2>1, <2>3, EDWordOperand
  <2>4. CASE ins \notin {"ld_nn_dd", "ld_dd_ind", "ed_nop"}
    BY <2>1, <2>4, EDNoOperand
  <2>. QED
    BY <2>2, <2>3, <2>4
<1>3. EDOperands(op) \in {0, 2}
  BY <1>2 DEF EDForm
<1>4. Len(stream) = k + 1 + EDOperands(op)
  <2>1. PICK w \in 0 .. 2 : Wants(todo, w) /\ Len(stream) + w = pre + 2 + EDOperands(op)
    BY DEF EDRuns
  <2>2. w = 0
    BY <2>1, EndWantsNothing
  <2>. QED
    BY <1>1, <1>3, <2>1, <2>2
<1>5. ins = "ed_nop" <=> EDPlaceholder(op)
  <2>1. ins = "ed_nop" => EDForm(op, 0, 1)
    BY EDNothing DEF EDRuns
  <2>2. ins # "ed_nop" => EDForm(op, 0, 0) \/ EDForm(op, 2, 0)
    BY EDNoOperand, EDWordOperand DEF EDRuns
  <2>. QED
    BY <2>1, <2>2 DEF EDForm
<1>6. \A i \in 1 .. k - 1 : Redundant(stream, i)
  <2>1. \A i \in 1 .. pre - 1 : Redundant(stream, i)
    BY <1>1, PrefixRun DEF Prefixed
  <2>2. pre # 0 => Redundant(stream, pre)
    <3>1. ASSUME pre # 0 PROVE stream[pre] \in {\hDD, \hFD} /\ stream[pre + 1] = \hED
      BY <1>1, <3>1 DEF Prefixed
    <3>. QED
      BY <3>1, PrefixesShowNothing DEF Redundant
  <2>. QED
    BY <1>1, <2>1, <2>2
<1>. HIDE DEF k, op
<1>7. ~Redundant(stream, k) /\ ~Meant(stream, k)
  BY <1>1 DEF Redundant, Meant
<1>8. Start(stream) = k
  BY <1>1, <1>6, <1>7, StartIs
<1>9. Length(stream, k) = 2 + EDOperands(op)
  BY <1>1 DEF Length
<1>10. Text(stream, k) = Ran
  BY <1>7 DEF Text, Ran, EDRuns
<1>11. k - 1 + Length(stream, k) = Len(stream) /\ Length(stream, k) \in 1 .. 4
  BY <1>1, <1>3, <1>4, <1>9
<1>12. Right(k)
  BY <1>1, <1>5, <1>8, <1>10, <1>11 DEF Right
<1>. QED
  BY <1>12 DEF k

LEMMA FrameInvIsEnough == FrameInv => FramesStep /\ ShowsWhatRan
<1>. SUFFICES ASSUME FrameInv, todo = <<"end">> PROVE FramesStep /\ ShowsWhatRan
  BY DEF FramesStep, ShowsWhatRan, Stepped
<1>1. Prefixed /\ Framed
  BY DEF FrameInv
<1>2. ~Opening /\ ~CBOpening /\ ~EDOpening /\ ~XCBOpening
  BY DEF Opening, CBOpening, EDOpening, XCBOpening
<1>. QED
  BY <1>1, <1>2, BaseRight, CBRight, XCBRight, EDRight, RightIsEnough DEF Framed

----------------------------------------------------------------------------
(* The schedule in todo. *)

LEMMA WantsHead ==
  ASSUME NEW s, NEW n, Wants(s, n), s # <<>>
  PROVE  Head(s) \in DryOps \cup {"fetch8", "ea", "ldmn"}
<1>1. Dry(s) => Head(s) \in DryOps
  BY TailOf DEF Dry
<1>2. "ir1" \in DryOps
  BY DryNames
<1>. QED
  BY <1>1, <1>2 DEF Wants, One, Two, Late, Addresses

LEMMA NotDry ==
  {"opcode", "opcodeCB", "opcodeED", "selector", "fetch8", "ea", "ldmn"} \cap DryOps = {}
BY DryNames

(* An operation that takes no byte leaves as many to take.                  *)
LEMMA WantsTail ==
  ASSUME NEW n, Wants(todo, n), todo # <<>>, Head(todo) \in DryOps,
         todo' = Tail(todo), idx' = idx
  PROVE  Wants(todo, n)'
<1>1. todo' \in Seq(MicroOps)
  BY TailOf DEF Wants
<1>2. CASE n = 0 /\ Dry(todo)
  <2>1. Dry(todo')
    BY <1>2, TailOf DEF Dry
  <2>. QED
    BY <1>1, <1>2, <2>1 DEF Wants, Dry
<1>3. CASE n = 1 /\ Late(todo)
  <2>1. One(todo')
    BY <1>3 DEF Late
  <2>. QED
    BY <1>1, <1>3, <2>1 DEF Wants, One, Dry
<1>. QED
  BY <1>2, <1>3, NotDry DEF Wants, One, Two, Addresses

LEMMA WantsFetch ==
  ASSUME NEW n, Wants(todo, n), todo # <<>>, Head(todo) = "fetch8",
         todo' = Tail(todo), idx' = idx
  PROVE  \/ n = 1 /\ Wants(todo, 0)'
         \/ n = 2 /\ Wants(todo, 1)'
<1>1. todo' \in Seq(MicroOps)
  BY TailOf DEF Wants
<1>2. CASE n = 1 /\ One(todo)
  BY <1>1, <1>2 DEF Wants, One, Dry
<1>3. CASE n = 2 /\ Two(todo)
  BY <1>1, <1>3 DEF Wants, Two, One, Dry
<1>4. ~Dry(todo)
  BY TailOf, NotDry DEF Dry
<1>. QED
  BY <1>2, <1>3, <1>4 DEF Wants, Late, Addresses

(* A schedule in front of a dry one. *)
LEMMA DryAfter ==
  ASSUME NEW b, Dry(b), NEW d, Dry(d)
  PROVE  Dry(b \o d)
BY ConcatProperties DEF Dry

LEMMA EmptyIsDry == Dry(<<>>)
BY DEF Dry

LEMMA FetchAfter ==
  ASSUME NEW b \in Seq(MicroOps), NEW d, Dry(d)
  PROVE  One(b) => One(b \o d)
<1>. SUFFICES ASSUME One(b) PROVE One(b \o d)
  OBVIOUS
<1>1. d \in Seq(MicroOps)
  BY DryMicroOps
<1>2. b \o d # <<>> /\ Head(b \o d) = Head(b) /\ Tail(b \o d) = Tail(b) \o d
  BY <1>1, HeadAndRest DEF One
<1>. QED
  BY <1>2, DryAfter DEF One

LEMMA AddressingWants ==
  ASSUME NEW n, Wants(todo, n), Resolve
  PROVE  Wants(todo, n)'
<1>1. todo # <<>> /\ Head(todo) \in {"ea", "ldmn"} /\ idx' = idx /\ dispValid' = dispValid
  BY DEF Resolve, At, index
<1>2. ~Dry(todo)
  BY <1>1, TailOf, NotDry DEF Dry
<1>3. CASE Head(todo) = "ea"
  <2>1. n = Disp /\ Dry(Tail(todo)) /\ ~dispValid
    BY <1>1, <1>2, <1>3 DEF Wants, One, Two, Late, Addresses
  <2>2. todo' = EaBody \o Tail(todo)
    BY <1>3 DEF Resolve, At, Then
  <2>3. CASE idx = "HL"
    <3>1. todo' = <<>> \o Tail(todo)
      BY <2>2, <2>3 DEF EaBody
    <3>2. Dry(todo')
      BY <2>1, <3>1, DryAfter, EmptyIsDry
    <3>. QED
      BY <1>1, <2>1, <2>3, <3>2, DryMicroOps DEF Wants, Dry, Disp
  <2>4. CASE idx # "HL"
    <3>. DEFINE b == <<"fetch8", "int5", "disp">>
    <3>1. b \in Seq(MicroOps) /\ One(b)
      BY DryNames, DryAreMicroOps DEF One, Dry
    <3>2. todo' = b \o Tail(todo)
      BY <2>1, <2>2, <2>4 DEF EaBody
    <3>. HIDE DEF b
    <3>3. One(todo') /\ todo' \in Seq(MicroOps)
      BY <2>1, <3>1, <3>2, FetchAfter, DryMicroOps, ConcatProperties
    <3>. QED
      BY <1>1, <2>1, <2>4, <3>3 DEF Wants, One, Dry, Disp
  <2>. QED
    BY <2>3, <2>4
<1>4. CASE Head(todo) = "ldmn"
  <2>1. n = Disp + 1 /\ Dry(Tail(todo))
    BY <1>1, <1>2, <1>4 DEF Wants, One, Two, Late, Addresses
  <2>2. todo' = LdmnBody \o Tail(todo)
    BY <1>4 DEF Resolve, At, Then
  <2>3. CASE idx = "HL"
    <3>. DEFINE b == <<"fetch8", "write">>
    <3>1. b \in Seq(MicroOps) /\ One(b)
      BY DryNames, DryAreMicroOps DEF One, Dry
    <3>2. todo' = b \o Tail(todo)
      BY <2>2, <2>3 DEF LdmnBody
    <3>. HIDE DEF b
    <3>3. One(todo') /\ todo' \in Seq(MicroOps)
      BY <2>1, <3>1, <3>2, FetchAfter, DryMicroOps, ConcatProperties
    <3>. QED
      BY <1>1, <2>1, <2>3, <3>3 DEF Wants, One, Dry, Disp
  <2>4. CASE idx # "HL"
    <3>. DEFINE b == <<"fetch8", "fetch8", "int2", "write">>
    <3>1. b \in Seq(MicroOps) /\ Two(b)
      BY DryNames, DryAreMicroOps DEF Two, One, Dry
    <3>2. todo' = b \o Tail(todo)
      BY <2>2, <2>4 DEF LdmnBody
    <3>. HIDE DEF b
    <3>3. Two(todo') /\ todo' \in Seq(MicroOps)
      <4>1. Tail(todo) \in Seq(MicroOps)
        BY <2>1, DryMicroOps
      <4>2. todo' # <<>> /\ Head(todo') = Head(b) /\ Tail(todo') = Tail(b) \o Tail(todo)
        <5>1. b # <<>>
          BY <3>1 DEF Two
        <5>2. \A e \in Seq(MicroOps) : /\ b \o e # <<>> /\ Head(b \o e) = Head(b)
                                       /\ Tail(b \o e) = Tail(b) \o e
          BY <3>1, <5>1, HeadAndRest
        <5>. QED
          BY <3>2, <4>1, <5>2
      <4>3. Tail(b) \in Seq(MicroOps) /\ One(Tail(b))
        BY <3>1, TailOf DEF Two
      <4>4. One(Tail(todo'))
        BY <2>1, <4>2, <4>3, FetchAfter
      <4>5. todo' \in Seq(MicroOps)
        BY <3>1, <3>2, <4>1, ConcatProperties
      <4>. QED
        BY <3>1, <4>2, <4>4, <4>5 DEF Two
    <3>. QED
      BY <1>1, <2>1, <2>4, <3>3 DEF Wants, Two, One, Dry, Disp
  <2>. QED
    BY <2>3, <2>4
<1>. QED
  BY <1>1, <1>3, <1>4

(* What the operations between two fetches leave alone.                     *)
LEMMA InternalFacts ==
  ASSUME RunCycle \/ Effect
  PROVE  /\ todo # <<>> /\ idx' = idx /\ pre' = pre /\ ins' = ins
         /\ Resolve \/ (Head(todo) \in DryOps /\ todo' = Tail(todo))
<1>. USE DEF index, observe, At, Done
<1>1. CASE RunCycle
  BY <1>1 DEF RunCycle, DryOps
<1>2. CASE Resolve
  BY <1>2 DEF Resolve
<1>3. CASE SetIM
  <2>1. PICK m \in 0 .. 2 : At(<<"IM0", "IM1", "IM2">>[m + 1])
    BY <1>3 DEF SetIM
  <2>2. Head(todo) \in {"IM0", "IM1", "IM2"}
    BY <2>1
  <2>. QED
    BY <1>3, <2>1, <2>2, DryNames DEF SetIM
<1>4. CASE CacheDisp \/ SetF \/ LdR \/ Jump
  BY <1>4, DryNames DEF CacheDisp, SetF, LdR, Jump
<1>5. CASE EI \/ DI \/ RETN \/ HALT
  BY <1>5, DryNames DEF EI, DI, RETN, HALT
<1>. QED
  BY <1>1, <1>2, <1>3, <1>4, <1>5 DEF Effect

----------------------------------------------------------------------------
(* FrameInv is inductive. *)

(* In which phase the next operation is.                                    *)
LEMMA PhaseOf ==
  ASSUME FrameInv, todo # <<>>
  PROVE  /\ Head(todo) = "opcode"   => Opening
         /\ Head(todo) = "opcodeCB" => CBOpening
         /\ Head(todo) = "opcodeED" => EDOpening
         /\ Head(todo) = "selector" => XCBOpening /\ todo = <<"selector", "end">>
         /\ Head(todo) = "fetch8" => \/ XCBOpening /\ todo = <<"fetch8", "selector", "end">>
                                     \/ BaseRuns \/ EDRuns
         /\ Head(todo) \in DryOps => BaseRuns \/ CBRuns \/ XCBRuns \/ EDRuns
         /\ Head(todo) \in {"ea", "ldmn"} => BaseRuns \/ EDRuns
<1>1. Framed
  BY DEF FrameInv
<1>2. /\ Opening => Head(todo) = "opcode"
      /\ CBOpening => Head(todo) = "opcodeCB"
      /\ EDOpening => Head(todo) = "opcodeED"
      /\ XCBOpening => \/ Head(todo) = "fetch8" /\ todo = <<"fetch8", "selector", "end">>
                       \/ Head(todo) = "selector" /\ todo = <<"selector", "end">>
  BY DEF Opening, CBOpening, EDOpening, XCBOpening
<1>3. BaseRuns \/ EDRuns => Head(todo) \in DryOps \cup {"fetch8", "ea", "ldmn"}
  BY WantsHead DEF BaseRuns, EDRuns
<1>4. CBRuns \/ XCBRuns => Head(todo) \in DryOps
  BY TailOf DEF CBRuns, XCBRuns, Dry
<1>. HIDE DEF Opening, CBOpening, EDOpening, XCBOpening
<1>. QED
  BY <1>1, <1>2, <1>3, <1>4, NotDry DEF Framed

(* A byte taken. *)
LEMMA Consumed ==
  ASSUME FrameInv, NEW b \in Nat, Consumes(b)
  PROVE  /\ stream' \in Seq(Nat) /\ Len(stream) \in Nat /\ Len(stream') = Len(stream) + 1
         /\ stream'[Len(stream) + 1] = b
         /\ \A i \in 1 .. Len(stream) : stream'[i] = stream[i]
BY AppendProperties, LenProperties DEF FrameInv, Consumes

(* It changes nothing to the prefixes.                                      *)
LEMMA PrefixesStay ==
  ASSUME FrameInv, todo # <<>>, pre' = pre,
         stream' = stream \/ (\E b \in Nat : Consumes(b))
  PROVE  Prefixed' /\ Mode' = Mode
<1>1. pre \in Nat /\ pre <= Len(stream) /\ \A i \in 1 .. pre : stream[i] \in {\hDD, \hFD}
  BY DEF FrameInv, Prefixed
<1>2. CASE stream' = stream
  BY <1>1, <1>2 DEF Prefixed, Mode
<1>3. CASE \E b \in Nat : Consumes(b)
  <2>1. PICK b \in Nat : Consumes(b)
    BY <1>3
  <2>2. /\ Len(stream) \in Nat /\ Len(stream') = Len(stream) + 1
        /\ \A i \in 1 .. Len(stream) : stream'[i] = stream[i]
    BY <2>1, Consumed
  <2>3. \A i \in 1 .. pre : stream'[i] = stream[i]
    BY <1>1, <2>2
  <2>4. pre # 0 => stream'[pre] = stream[pre]
    BY <1>1, <2>3
  <2>. QED
    BY <1>1, <2>2, <2>3, <2>4 DEF Prefixed, Mode
<1>. QED
  BY <1>2, <1>3

(* The operations between two fetches.                                      *)
LEMMA InternalStep ==
  ASSUME FrameInv, RunCycle \/ Effect, UNCHANGED stream
  PROVE  FrameInv'
<1>1. /\ todo # <<>> /\ idx' = idx /\ pre' = pre /\ ins' = ins
      /\ Resolve \/ (Head(todo) \in DryOps /\ todo' = Tail(todo))
  BY InternalFacts
<1>2. Prefixed' /\ Mode' = Mode
  BY <1>1, PrefixesStay
<1>3. \A n : Wants(todo, n) => Wants(todo, n)'
  BY <1>1, WantsTail, AddressingWants
<1>4. \A op : Operands(op)' = Operands(op)
  BY <1>1 DEF Operands
<1>5. BaseRuns => BaseRuns'
  BY <1>1, <1>2, <1>3, <1>4 DEF BaseRuns
<1>6. EDRuns => EDRuns'
  BY <1>1, <1>3 DEF EDRuns
<1>7. Resolve => Head(todo) \in {"ea", "ldmn"}
  BY DEF Resolve, At
<1>8. Dry(todo) => Dry(todo)'
  <2>1. Dry(todo) => ~Resolve
    BY <1>1, <1>7, TailOf, NotDry DEF Dry
  <2>. QED
    BY <1>1, <2>1, TailOf DEF Dry
<1>9. CBRuns => CBRuns'
  BY <1>1, <1>8 DEF CBRuns
<1>10. XCBRuns => XCBRuns'
  BY <1>1, <1>2, <1>8 DEF XCBRuns
<1>11. BaseRuns \/ CBRuns \/ XCBRuns \/ EDRuns
  BY <1>1, <1>7, PhaseOf
<1>12. stream' \in Seq(Nat) /\ pre' \in Nat
  BY <1>1 DEF FrameInv
<1>. QED
  BY <1>2, <1>5, <1>6, <1>9, <1>10, <1>11, <1>12 DEF FrameInv, Framed

(* EndStep, and the next pattern.                                           *)
LEMMA IdleStep ==
  ASSUME FrameInv, todo' = <<>>, pre' = 0 \/ pre' = pre, stream' = <<>> \/ stream' = stream
  PROVE  FrameInv'
<1>1. stream' \in Seq(Nat) /\ pre' \in Nat
  <2>1. stream \in Seq(Nat) /\ pre \in Nat /\ <<>> \in Seq(Nat)
    BY DEF FrameInv
  <2>2. stream' \in Seq(Nat)
    BY <2>1, Zenon
  <2>3. pre' \in Nat
    BY <2>1
  <2>. QED
    BY <2>2, <2>3
<1>2. todo' = <<>>
  OBVIOUS
<1>. QED
  BY <1>1, <1>2, Zenon DEF FrameInv

LEMMA ExecuteStep ==
  ASSUME FrameInv, pre = 0, ExecutePattern
  PROVE  FrameInv'
<1>1. /\ stream = <<>> /\ stream' = <<>> /\ pre' = 0
      /\ todo' = <<"opcode", "end">> /\ idx' = "HL" /\ dispValid' = FALSE
  BY DEF ExecutePattern, Execute, Begin, Internal, FreshIndex
<1>2. stream' \in Seq(Nat) /\ Len(stream') = 0
  BY <1>1
<1>3. Prefixed' /\ Mode' = "HL"
  BY <1>1, <1>2 DEF Prefixed, Mode
<1>4. Opening'
  BY <1>1, <1>2, <1>3 DEF Opening
<1>. QED
  BY <1>1, <1>2, <1>3, <1>4 DEF FrameInv, Framed

LEMMA PrefixStep ==
  ASSUME FrameInv, DecodePrefix
  PROVE  FrameInv'
<1>1. ASSUME NEW p \in {"DD", "FD"}, pre < MaxPre, FetchPrefix(p)
      PROVE  /\ At("opcode") /\ pre' = pre + 1 /\ idx' = IF p = "DD" THEN "IX" ELSE "IY"
             /\ dispValid' = dispValid /\ todo' = todo
  BY <1>1 DEF FetchPrefix
<1>2. ASSUME NEW b \in Nat, b \in {\hDD, \hFD}, Consumes(b),
             At("opcode"), pre' = pre + 1, idx' = IF b = \hDD THEN "IX" ELSE "IY",
             dispValid' = dispValid, todo' = todo
      PROVE  FrameInv'
  <2>1. todo # <<>> /\ Opening
    BY <1>2, PhaseOf DEF At
  <2>2. /\ pre \in Nat /\ Len(stream) = pre /\ todo = <<"opcode", "end">> /\ ~dispValid
        /\ \A i \in 1 .. pre : stream[i] \in {\hDD, \hFD}
    BY <2>1 DEF FrameInv, Prefixed, Opening
  <2>3. /\ stream' \in Seq(Nat) /\ Len(stream') = pre + 1 /\ stream'[pre + 1] = b
        /\ \A i \in 1 .. pre : stream'[i] = stream[i]
    BY <1>2, <2>2, Consumed
  <2>4. Prefixed'
    BY <1>2, <2>2, <2>3 DEF Prefixed
  <2>5. Mode' = IF b = \hDD THEN "IX" ELSE "IY"
    BY <1>2, <2>2, <2>3 DEF Mode
  <2>6. Opening'
    BY <1>2, <2>2, <2>3, <2>5 DEF Opening
  <2>. QED
    BY <1>2, <2>2, <2>3, <2>4, <2>6 DEF FrameInv, Framed
<1>3. CASE pre < MaxPre /\ FetchPrefix("DD") /\ Consumes(\hDD)
  BY <1>1, <1>2, <1>3
<1>4. CASE pre < MaxPre /\ FetchPrefix("FD") /\ Consumes(\hFD)
  BY <1>1, <1>2, <1>4
<1>. QED
  BY <1>3, <1>4 DEF DecodePrefix

(* The operands that a base opcode asks for are those its schedule takes.   *)
LEMMA BaseWants ==
  ASSUME ~dispValid, NEW c \in DOMAIN BaseBody, NEW op \in BaseOpcodes[c]
  PROVE  op \in Nat /\ \E n \in 0 .. 2 : n = Operands(op) /\ Wants(BaseBody[c], n)
<1>1. ASSUME NEW n \in 0 .. 2, NEW m \in 0 .. 1, Asks(op, n, m)
      PROVE  /\ op \in Nat
             /\ m = 0 => Operands(op) = n
             /\ m = 1 => Operands(op) = n + Disp
  BY <1>1 DEF Asks, Operands, Disp
<1>2. ASSUME Dry(BaseBody[c]) PROVE Wants(BaseBody[c], 0)
  BY <1>2, DryMicroOps DEF Wants
<1>3. BaseBody[c] \in Seq(MicroOps)
  BY BodyTypes
<1>4. CASE c \in Plain
  BY <1>1, <1>2, <1>4, BaseDry, NoOperand
<1>5. CASE c \in WithByte
  <2>1. Wants(BaseBody[c], 1)
    BY <1>3, <1>5, BaseOne DEF Wants
  <2>. QED
    BY <1>1, <1>5, <2>1, ByteOperand
<1>6. CASE c \in WithWord
  <2>1. Wants(BaseBody[c], 2)
    BY <1>3, <1>6, BaseTwo DEF Wants
  <2>. QED
    BY <1>1, <1>6, <2>1, WordOperand
<1>7. CASE c \in ThroughHL
  <2>1. Wants(BaseBody[c], Disp)
    BY <1>3, <1>7, BaseAddresses DEF Wants
  <2>2. Asks(op, 0, 1)
    BY <1>7, MemoryOperand
  <2>3. Operands(op) = Disp /\ Disp \in 0 .. 2 /\ op \in Nat
    BY <1>1, <2>2 DEF Disp
  <2>. QED
    BY <2>1, <2>3
<1>8. CASE c = "ld_m_n"
  <2>1. Wants(BaseBody[c], Disp + 1)
    BY <1>3, <1>8, BaseAddresses DEF Wants
  <2>2. Asks(op, 1, 1)
    BY <1>8, MemoryAndByte
  <2>3. Operands(op) = Disp + 1 /\ Disp + 1 \in 0 .. 2 /\ op \in Nat
    BY <1>1, <2>2 DEF Disp
  <2>. QED
    BY <2>1, <2>3
<1>. QED
  BY <1>4, <1>5, <1>6, <1>7, <1>8, BaseClasses

LEMMA BaseStep ==
  ASSUME FrameInv, NEW c \in DOMAIN BaseBody, FetchBase(c),
         NEW op \in BaseOpcodes[c], Consumes(op)
  PROVE  FrameInv'
<1>1. todo # <<>> /\ Opening
  BY PhaseOf DEF FetchBase, At
<1>2. /\ pre \in Nat /\ Len(stream) = pre /\ todo = <<"opcode", "end">> /\ idx = Mode /\ ~dispValid
  BY <1>1 DEF FrameInv, Opening
<1>3. /\ idx' = idx /\ dispValid' = dispValid /\ pre' = pre /\ ins' = c
      /\ todo' = BaseBody[c] \o Tail(todo)
  BY DEF FetchBase, Then, index
<1>4. Tail(todo) = <<"end">>
  BY <1>2
<1>5. PICK n \in 0 .. 2 : n = Operands(op) /\ Wants(BaseBody[c], n)
  BY <1>2, BaseWants
<1>6. op \in Nat
  BY <1>2, BaseWants
<1>7. /\ stream' \in Seq(Nat) /\ Len(stream') = pre + 1 /\ stream'[pre + 1] = op
  BY <1>2, <1>6, Consumed
<1>8. Prefixed' /\ Mode' = Mode
  BY <1>1, <1>3, <1>6, PrefixesStay
<1>9. todo' = BaseBody[c] \o <<"end">>
  BY <1>3, <1>4
<1>10. Wants(todo', n) /\ todo' # <<>>
  BY <1>5, <1>9, WantsEnd, BodyTypes
<1>11. Wants(todo, n)'
  BY <1>3, <1>10 DEF Wants, Disp, Dry, One, Two, Late, Addresses
<1>12. Operands(op)' = n
  BY <1>3, <1>5 DEF Operands
<1>13. BaseRuns'
  BY <1>2, <1>3, <1>7, <1>8, <1>11, <1>12 DEF BaseRuns
<1>. QED
  BY <1>2, <1>3, <1>7, <1>8, <1>13 DEF FrameInv, Framed

LEMMA CBStep ==
  ASSUME FrameInv, DecodeCB
  PROVE  FrameInv'
<1>1. At("opcode") /\ Consumes(\hCB)
  BY DEF DecodeCB, FetchCB
<1>2. todo # <<>> /\ Opening
  BY <1>1, PhaseOf DEF At
<1>3. pre \in Nat /\ Len(stream) = pre /\ todo = <<"opcode", "end">> /\ idx = Mode
  BY <1>2 DEF FrameInv, Opening
<1>4. /\ idx' = idx /\ pre' = pre
      /\ todo' = (IF idx = "HL" THEN <<"opcodeCB">> ELSE <<"fetch8", "selector">>) \o Tail(todo)
  BY DEF DecodeCB, FetchCB, Then, index, observe
<1>5. Tail(todo) = <<"end">>
  BY <1>3
<1>6. stream' \in Seq(Nat) /\ Len(stream') = pre + 1 /\ stream'[pre + 1] = \hCB
  BY <1>1, <1>3, Consumed
<1>7. Prefixed' /\ Mode' = Mode
  BY <1>1, <1>2, <1>4, PrefixesStay
<1>8. idx = "HL" <=> pre = 0
  BY <1>3 DEF Mode
<1>9. CASE pre = 0
  <2>1. todo' = <<"opcodeCB", "end">>
    <3>1. todo' = <<"opcodeCB">> \o <<"end">>
      BY <1>4, <1>5, <1>8, <1>9
    <3>. QED
      BY <3>1, ConcatOne
  <2>2. stream'[1] = \hCB /\ Len(stream') = 1
    BY <1>6, <1>9
  <2>3. idx' = "HL" /\ pre' = 0
    BY <1>4, <1>8, <1>9
  <2>4. CBOpening'
    BY <2>1, <2>2, <2>3 DEF CBOpening
  <2>. QED
    BY <1>3, <1>4, <1>6, <1>7, <2>4 DEF FrameInv, Framed
<1>10. CASE pre # 0
  <2>1. todo' = <<"fetch8", "selector", "end">>
    BY <1>4, <1>5, <1>8, <1>10, ConcatTwo
  <2>2. XCBOpening'
    BY <1>3, <1>4, <1>6, <1>7, <1>10, <2>1 DEF XCBOpening
  <2>. QED
    BY <1>3, <1>4, <1>6, <1>7, <2>2 DEF FrameInv, Framed
<1>. QED
  BY <1>9, <1>10

LEMMA EDStep ==
  ASSUME FrameInv, DecodeED
  PROVE  FrameInv'
<1>1. At("opcode") /\ Consumes(\hED)
  BY DEF DecodeED, FetchED
<1>2. todo # <<>> /\ Opening
  BY <1>1, PhaseOf DEF At
<1>3. pre \in Nat /\ Len(stream) = pre /\ todo = <<"opcode", "end">>
  BY <1>2 DEF FrameInv, Opening
<1>4. idx' = "HL" /\ pre' = pre /\ todo' = <<"opcodeED">> \o Tail(todo)
  BY DEF DecodeED, FetchED, Then, observe
<1>5. todo' = <<"opcodeED", "end">>
  <2>1. Tail(todo) = <<"end">>
    BY <1>3
  <2>. QED
    BY <1>4, <2>1, ConcatOne
<1>6. stream' \in Seq(Nat) /\ Len(stream') = pre + 1 /\ stream'[pre + 1] = \hED
  BY <1>1, <1>3, Consumed
<1>7. Prefixed'
  BY <1>1, <1>2, <1>4, PrefixesStay
<1>8. EDOpening'
  BY <1>4, <1>5, <1>6 DEF EDOpening
<1>. QED
  BY <1>3, <1>4, <1>6, <1>7, <1>8 DEF FrameInv, Framed

(* The second and the last opcode of a page.                                *)
LEMMA PagedBytes ==
  /\ \A c \in DOMAIN CBBody : \A op \in CBOpcodes[c] : op \in Nat
  /\ \A c \in DOMAIN XCBBody : \A op \in XCBOpcodes[c] : op \in Nat
<1>1. ASSUME NEW x \in 0 .. 3, NEW ys \in SUBSET (0 .. 7), NEW zs \in SUBSET (0 .. 7)
      PROVE  \A op \in Quadrant(x, ys, zs) : op \in Nat
  BY OfQuadrant
<1>2. \A x \in 0 .. 3 : /\ \A op \in Quadrant(x, Codes, Regs) : op \in Nat
                        /\ \A op \in Quadrant(x, Codes, {6}) : op \in Nat
                        /\ \A op \in Quadrant(x, Codes, Codes) : op \in Nat
  BY <1>1, SubCodes
<1>3. /\ DOMAIN CBBody = {"cb_rot_r", "cb_set_r", "cb_rot_m", "cb_bit_m", "cb_set_m"}
      /\ DOMAIN XCBBody = {"xcb_rot", "xcb_bit", "xcb_set"}
  BY DEF CBBody, XCBBody
<1>4. \A c \in DOMAIN CBBody : \A op \in CBOpcodes[c] : op \in Nat
  BY <1>2, <1>3 DEF CBOpcodes
<1>5. \A c \in DOMAIN XCBBody : \A op \in XCBOpcodes[c] : op \in Nat
  BY <1>2, <1>3 DEF XCBOpcodes
<1>. QED
  BY <1>4, <1>5

LEMMA CBPageStep ==
  ASSUME FrameInv, FetchPaged("opcodeCB", CBBody), NEW op \in CBOpcodes[ins'], Consumes(op)
  PROVE  FrameInv'
<1>1. todo # <<>> /\ CBOpening
  BY PhaseOf DEF FetchPaged, At
<1>2. /\ pre = 0 /\ Len(stream) = 1 /\ todo = <<"opcodeCB", "end">> /\ idx = "HL"
      /\ stream[1] = \hCB
  BY <1>1 DEF FrameInv, CBOpening
<1>3. /\ idx' = idx /\ pre' = pre /\ ins' \in DOMAIN CBBody
      /\ todo' = CBBody[ins'] \o Tail(todo)
  BY DEF FetchPaged, Then, index
<1>4. op \in Nat
  BY <1>3, PagedBytes
<1>5. stream' \in Seq(Nat) /\ Len(stream') = 2 /\ stream'[1] = \hCB
  BY <1>2, <1>4, Consumed
<1>6. Prefixed'
  BY <1>1, <1>3, <1>4, PrefixesStay
<1>7. Dry(todo')
  <2>1. Tail(todo) = <<"end">>
    BY <1>2
  <2>2. todo' = CBBody[ins'] \o <<"end">>
    BY <1>3, <2>1
  <2>. QED
    BY <1>3, <2>2, PagesDry, DryEnd
<1>8. CBRuns'
  BY <1>2, <1>3, <1>5, <1>7 DEF CBRuns, Dry
<1>. QED
  BY <1>2, <1>3, <1>5, <1>6, <1>8 DEF FrameInv, Framed

LEMMA SelectorStep ==
  ASSUME FrameInv, Selector, NEW op \in XCBOpcodes[ins'], Consumes(op)
  PROVE  FrameInv'
<1>1. todo # <<>> /\ XCBOpening /\ todo = <<"selector", "end">>
  BY PhaseOf DEF Selector, At
<1>2. /\ pre \in Nat \ {0} /\ Len(stream) = pre + 2 /\ idx = Mode
      /\ stream[pre + 1] = \hCB
  BY <1>1 DEF FrameInv, XCBOpening
<1>3. /\ idx' = idx /\ pre' = pre /\ ins' \in DOMAIN XCBBody
      /\ todo' = XCBBody[ins'] \o Tail(todo)
  BY DEF Selector, Then, index
<1>4. op \in Nat
  BY <1>3, PagedBytes
<1>5. stream' \in Seq(Nat) /\ Len(stream') = pre + 3 /\ stream'[pre + 1] = \hCB
  BY <1>2, <1>4, Consumed
<1>6. Prefixed' /\ Mode' = Mode
  BY <1>1, <1>3, <1>4, PrefixesStay
<1>7. Dry(todo')
  <2>1. Tail(todo) = <<"end">>
    BY <1>1
  <2>2. todo' = XCBBody[ins'] \o <<"end">>
    BY <1>3, <2>1
  <2>. QED
    BY <1>3, <2>2, PagesDry, DryEnd
<1>8. XCBRuns'
  BY <1>2, <1>3, <1>5, <1>6, <1>7 DEF XCBRuns, Dry
<1>. QED
  BY <1>2, <1>3, <1>5, <1>6, <1>8 DEF FrameInv, Framed

LEMMA EDPageStep ==
  ASSUME FrameInv, FetchPaged("opcodeED", EDBody), NEW op \in EDOpcodes[ins'], Consumes(op)
  PROVE  FrameInv'
<1>1. todo # <<>> /\ EDOpening
  BY PhaseOf DEF FetchPaged, At
<1>2. /\ pre \in Nat /\ Len(stream) = pre + 1 /\ todo = <<"opcodeED", "end">> /\ idx = "HL"
      /\ stream[pre + 1] = \hED
  BY <1>1 DEF FrameInv, EDOpening
<1>3. /\ idx' = idx /\ dispValid' = dispValid /\ pre' = pre /\ ins' \in DOMAIN EDBody
      /\ todo' = EDBody[ins'] \o Tail(todo)
  BY DEF FetchPaged, Then, index
<1>4. ASSUME NEW c \in DOMAIN EDBody, ins' = c
      PROVE  /\ op \in Nat
             /\ \E n \in 0 .. 2 : n = EDOperands(op) /\ Wants(EDBody[c], n)
  <2>1. ASSUME Dry(EDBody[c]) PROVE Wants(EDBody[c], 0)
    BY <2>1, DryMicroOps DEF Wants
  <2>2. CASE c \in {"ld_nn_dd", "ld_dd_ind"}
    <3>1. Wants(EDBody[c], 2)
      BY <2>2, EDTwo, BodyTypes DEF Wants
    <3>2. EDForm(op, 2, 0)
      BY <1>4, <2>2, EDWordOperand
    <3>. QED
      BY <3>1, <3>2 DEF EDForm
  <2>3. CASE c \notin {"ld_nn_dd", "ld_dd_ind"}
    <3>1. c \in {"ed_nop", "in_r_c", "out_c_r", "sbc_hl", "neg", "retn", "im_0", "im_1", "im_2",
                 "ld_i_a", "ld_r_a", "ld_a_i", "rrd", "ldi", "ldir", "cpi", "cpir", "ini", "inir",
                 "outi", "otir"}
      BY <2>3 DEF EDBody
    <3>2. Wants(EDBody[c], 0)
      BY <2>1, <3>1, EDDry
    <3>3. EDForm(op, 0, 0) \/ EDForm(op, 0, 1)
      <4>1. CASE c = "ed_nop"
        BY <1>4, <4>1, EDNothing
      <4>2. CASE c # "ed_nop"
        BY <1>4, <2>3, <4>2, EDNoOperand
      <4>. QED
        BY <4>1, <4>2
    <3>. QED
      BY <3>2, <3>3 DEF EDForm
  <2>. QED
    BY <2>2, <2>3
<1>. DEFINE c == ins'
<1>5. op \in Nat /\ \E n \in 0 .. 2 : n = EDOperands(op) /\ Wants(EDBody[c], n)
  BY <1>3, <1>4
<1>6. PICK n \in 0 .. 2 : n = EDOperands(op) /\ Wants(EDBody[c], n)
  BY <1>5
<1>7. /\ stream' \in Seq(Nat) /\ Len(stream') = pre + 2 /\ stream'[pre + 1] = \hED
      /\ stream'[pre + 2] = op
  <2>1. Len(stream) + 1 = pre + 2 /\ pre + 1 \in 1 .. Len(stream)
    BY <1>2
  <2>2. /\ stream' \in Seq(Nat) /\ Len(stream') = Len(stream) + 1
        /\ stream'[Len(stream) + 1] = op
        /\ \A i \in 1 .. Len(stream) : stream'[i] = stream[i]
    BY <1>5, Consumed
  <2>. QED
    BY <1>2, <2>1, <2>2
<1>8. Prefixed'
  BY <1>1, <1>3, <1>5, PrefixesStay
<1>9. todo' = EDBody[c] \o <<"end">>
  <2>1. Tail(todo) = <<"end">>
    BY <1>2
  <2>. QED
    BY <1>3, <2>1
<1>10. Wants(todo', n) /\ todo' # <<>>
  BY <1>3, <1>6, <1>9, WantsEnd, BodyTypes
<1>. HIDE DEF c
<1>11. Wants(todo, n)'
  BY <1>3, <1>10 DEF Wants, Disp, Dry, One, Two, Late, Addresses
<1>12. ins' \in DOMAIN EDBody /\ op \in EDOpcodes[ins'] /\ n = EDOperands(op)
  BY <1>3, <1>6
<1>13. EDRuns'
  <2>1. \E w \in 0 .. 2 : /\ Wants(todo, w)'
                          /\ Len(stream') + w = pre' + 2 + EDOperands(stream'[pre' + 2])
    BY <1>2, <1>3, <1>7, <1>11, <1>12
  <2>2. /\ Len(stream') >= pre' + 2 /\ stream'[pre' + 1] = \hED
        /\ stream'[pre' + 2] \in EDOpcodes[ins']
    BY <1>2, <1>3, <1>7, <1>12
  <2>. QED
    BY <1>2, <1>3, <1>12, <2>1, <2>2 DEF EDRuns
<1>. QED
  BY <1>2, <1>3, <1>7, <1>8, <1>13 DEF FrameInv, Framed

(* An operand byte. *)
LEMMA OperandStep ==
  ASSUME FrameInv, DecodeOperand
  PROVE  FrameInv'
<1>1. /\ todo # <<>> /\ Head(todo) = "fetch8" /\ todo' = Tail(todo) /\ Consumes(Data)
      /\ idx' = idx /\ pre' = pre /\ ins' = ins
  BY DEF DecodeOperand, Fetch8, At, Done, index, observe
<1>2. Data \in Nat /\ pre \in Nat
  BY DEF Data, FrameInv
<1>3. /\ stream' \in Seq(Nat) /\ Len(stream) \in Nat /\ Len(stream') = Len(stream) + 1
      /\ \A i \in 1 .. Len(stream) : stream'[i] = stream[i]
  BY <1>1, <1>2, Consumed
<1>4. Prefixed' /\ Mode' = Mode
  BY <1>1, <1>2, PrefixesStay
<1>5. CASE XCBOpening /\ todo = <<"fetch8", "selector", "end">>
  <2>1. pre # 0 /\ idx = Mode /\ stream[pre + 1] = \hCB /\ Len(stream) = pre + 1
    BY <1>5 DEF XCBOpening
  <2>2. todo' = <<"selector", "end">>
    <3>1. Tail(<<"fetch8", "selector", "end">>) = <<"selector", "end">>
      OBVIOUS
    <3>. QED
      BY <1>1, <1>5, <3>1, Zenon
  <2>3. stream'[pre + 1] = \hCB
    BY <1>2, <1>3, <2>1
  <2>4. Len(stream') = pre + 2 /\ idx' = Mode'
    BY <1>1, <1>2, <1>3, <1>4, <2>1
  <2>5. XCBOpening'
    BY <1>1, <2>1, <2>2, <2>3, <2>4 DEF XCBOpening
  <2>. QED
    BY <1>1, <1>2, <1>3, <1>4, <2>5 DEF FrameInv, Framed
<1>6. \A n : Wants(todo, n) => (n = 1 /\ Wants(todo, 0)') \/ (n = 2 /\ Wants(todo, 1)')
  BY <1>1, WantsFetch
<1>7. CASE BaseRuns
  <2>1. /\ ins \in DOMAIN BaseBody /\ idx = Mode
        /\ Len(stream) >= pre + 1 /\ stream[pre + 1] \in BaseOpcodes[ins]
    BY <1>7 DEF BaseRuns
  <2>2. PICK n \in 0 .. 2 : Wants(todo, n) /\ Len(stream) + n = pre + 1 + Operands(stream[pre + 1])
    BY <1>7 DEF BaseRuns
  <2>3. stream'[pre + 1] = stream[pre + 1]
    BY <1>2, <1>3, <2>1
  <2>4. n - 1 \in 0 .. 2 /\ Wants(todo, n - 1)'
    BY <1>6, <2>2
  <2>6. Len(stream') + (n - 1) = pre + 1 + Operands(stream[pre + 1])
    BY <1>2, <1>3, <2>2
  <2>7. \E w \in 0 .. 2 : /\ Wants(todo, w)'
                          /\ Len(stream') + w = pre' + 1 + Operands(stream[pre + 1])'
    <3>1. Operands(stream[pre + 1])' = Operands(stream[pre + 1])
      BY <1>1, <2>3 DEF Operands
    <3>. QED
      BY <1>1, <2>4, <2>6, <3>1
  <2>8. Len(stream') >= pre' + 1 /\ stream'[pre' + 1] \in BaseOpcodes[ins']
    BY <1>1, <1>2, <1>3, <2>1, <2>3
  <2>9. BaseRuns'
    BY <1>1, <1>4, <2>1, <2>7, <2>8 DEF BaseRuns
  <2>. QED
    BY <1>1, <1>2, <1>3, <1>4, <2>9 DEF FrameInv, Framed
<1>8. CASE EDRuns
  <2>1. /\ ins \in DOMAIN EDBody /\ idx = "HL"
        /\ Len(stream) >= pre + 2 /\ stream[pre + 1] = \hED /\ stream[pre + 2] \in EDOpcodes[ins]
    BY <1>8 DEF EDRuns
  <2>2. PICK n \in 0 .. 2 : /\ Wants(todo, n)
                            /\ Len(stream) + n = pre + 2 + EDOperands(stream[pre + 2])
    BY <1>8 DEF EDRuns
  <2>3. stream'[pre + 1] = stream[pre + 1] /\ stream'[pre + 2] = stream[pre + 2]
    BY <1>2, <1>3, <2>1
  <2>4. n - 1 \in 0 .. 2 /\ Wants(todo, n - 1)'
    BY <1>6, <2>2
  <2>5. Len(stream') + (n - 1) = pre + 2 + EDOperands(stream'[pre + 2])
    BY <1>2, <1>3, <2>2, <2>3
  <2>6. \E w \in 0 .. 2 : /\ Wants(todo, w)'
                          /\ Len(stream') + w = pre' + 2 + EDOperands(stream'[pre' + 2])
    BY <1>1, <2>4, <2>5
  <2>7. /\ Len(stream') >= pre' + 2 /\ stream'[pre' + 1] = \hED
        /\ stream'[pre' + 2] \in EDOpcodes[ins']
    BY <1>1, <1>2, <1>3, <2>1, <2>3
  <2>8. EDRuns'
    BY <1>1, <2>1, <2>6, <2>7 DEF EDRuns
  <2>. QED
    BY <1>1, <1>2, <1>3, <1>4, <2>8 DEF FrameInv, Framed
<1>. QED
  BY <1>1, <1>5, <1>7, <1>8, PhaseOf

(* Every step of the harness. *)
LEMMA DecodeStep ==
  ASSUME FrameInv, IInv, [DecodeNext]_<<vars, stream>>
  PROVE  FrameInv'
<1>1. CASE NextPattern
  BY <1>1, IdleStep DEF NextPattern
<1>2. CASE ExecutePattern
  <2>1. todo = <<>>
    BY <1>2 DEF ExecutePattern, Execute, Begin
  <2>2. pre = 0
    BY <2>1 DEF IInv, Shape, QLatch, Executing
  <2>. QED
    BY <1>2, <2>2, ExecuteStep
<1>3. CASE DecodePrefix
  BY <1>3, PrefixStep
<1>4. CASE DecodeBase
  BY <1>4, BaseStep DEF DecodeBase
<1>5. CASE DecodeCB \/ DecodeED
  BY <1>5, CBStep, EDStep
<1>6. CASE DecodePaged
  BY <1>6, CBPageStep, EDPageStep, SelectorStep DEF DecodePaged
<1>7. CASE DecodeOperand
  BY <1>7, OperandStep
<1>8. CASE DecodeInternal
  <2>1. CASE EndStep /\ Internal
    <3>1. todo' = <<>> /\ pre' = 0 /\ stream' = stream
      BY <2>1 DEF EndStep, Internal
    <3>. QED
      BY <3>1, IdleStep
  <2>. QED
    BY <1>8, <2>1, InternalStep DEF DecodeInternal, Internal
<1>9. CASE UNCHANGED <<vars, stream>>
  <2>1. UNCHANGED <<idx, dispValid, todo, ins, pre, stream>>
    BY <1>9 DEF vars, index, observe
  <2>2. Prefixed' = Prefixed /\ Mode' = Mode
    BY <2>1 DEF Prefixed, Mode
  <2>3. \A n : Wants(todo, n)' = Wants(todo, n)
    BY <2>1 DEF Wants, Disp
  <2>4. Operands(stream[pre + 1])' = Operands(stream[pre + 1])
    BY <2>1 DEF Operands
  <2>5. BaseRuns' = BaseRuns /\ EDRuns' = EDRuns
    BY <2>1, <2>2, <2>3, <2>4 DEF BaseRuns, EDRuns
  <2>6. CBRuns' = CBRuns /\ XCBRuns' = XCBRuns
    BY <2>1, <2>2 DEF CBRuns, XCBRuns
  <2>7. /\ Opening' = Opening /\ CBOpening' = CBOpening
        /\ EDOpening' = EDOpening /\ XCBOpening' = XCBOpening
    BY <2>1, <2>2 DEF Opening, CBOpening, EDOpening, XCBOpening
  <2>. QED
    BY <2>1, <2>2, <2>5, <2>6, <2>7 DEF FrameInv, Framed
<1>. QED
  BY <1>1, <1>2, <1>3, <1>4, <1>5, <1>6, <1>7, <1>8, <1>9 DEF DecodeNext

(* The harness makes the CPU do nothing that Z80Cpu does not.               *)
LEMMA DecodeStepIsCoreStep ==
  ASSUME [DecodeNext]_<<vars, stream>>
  PROVE  [Next]_vars
<1>1. CASE NextPattern
  BY <1>1 DEF NextPattern, Next, Machine, Reset
<1>2. CASE ExecutePattern
  BY <1>2 DEF ExecutePattern, Next, Step, BeginStep
<1>3. CASE DecodePrefix \/ DecodeBase \/ DecodeCB \/ DecodeED \/ DecodePaged
  <2>1. Exec
    BY <1>3 DEF DecodePrefix, DecodeBase, DecodeCB, DecodeED, DecodePaged, Exec, Prefixes
  <2>. QED
    BY <2>1 DEF Next, Step
<1>4. CASE DecodeOperand \/ DecodeInternal
  BY <1>4 DEF DecodeOperand, DecodeInternal, Next, Step
<1>. QED
  BY <1>1, <1>2, <1>3, <1>4 DEF DecodeNext

(* And of the CPU under the harness.                                        *)
LEMMA HarnessRunsTheCore == DecodeSpec => Spec
<1>1. DecodeInit => Init
  BY DEF DecodeInit
<1>. QED
  BY <1>1, DecodeStepIsCoreStep, PTL DEF DecodeSpec, Spec

LEMMA DecodeInvariance == DecodeSpec => [](IInv /\ FrameInv)
<1>1. DecodeInit => FrameInv
  BY DEF DecodeInit, Init, FrameInv
<1>2. IInv /\ FrameInv /\ [DecodeNext]_<<vars, stream>> => FrameInv'
  BY DecodeStep
<1>. QED
  BY <1>1, <1>2, HarnessRunsTheCore, Invariance, PTL DEF DecodeSpec

(* The disassembler frames every instruction as the CPU ran it: behind its  *)
(* redundant prefixes it takes the bytes that the Step took, whatever the   *)
(* length of the prefix run.                                                *)
THEOREM FramesStepHolds == DecodeSpec => []FramesStep
BY DecodeInvariance, FrameInvIsEnough, PTL

(* And its text names the index register and the roles of HL that the       *)
(* handlers of the CPU used.                                                *)
THEOREM ShowsWhatRanHolds == DecodeSpec => []ShowsWhatRan
BY DecodeInvariance, FrameInvIsEnough, PTL

=============================================================================
