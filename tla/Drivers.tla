------------------------------ MODULE Drivers ------------------------------
(***************************************************************************)
(* The loops around Step: CPU.Run, which counts T-states; run of zrun,     *)
(* which gives up after a number of T-states without HALT; and the loops   *)
(* that count Steps and stop at HALT (run of the npm binding and of the    *)
(* demo, the keys r and H of zstep).                                       *)
(***************************************************************************)
EXTENDS Z80Cpu

CONSTANTS
  Kinds,         \* the loops considered
  Budgets,       \* what a loop may be called with: T-states or Steps
  ClockMod       \* Run converts its budget to a uint64: 2^64

ASSUME KindsAssumption == Kinds \subseteq {"Run", "zrun", "steps"}

(* Run takes an int; below zero, AsUint is nearly the whole of a uint64.    *)
ASSUME BudgetsAssumption == ClockMod \in Nat /\ Budgets \subseteq 0 .. ClockMod - 1

VARIABLES
  driver,        \* which of the loops this program runs
  calling,       \* is a call in progress
  budget,        \* its argument
  used, latest,  \* what the loop counts, T-states or Steps, since the call
                 \* began; what the latest Step added
  outcome        \* how the latest call ended

loop    == <<driver, calling, budget, used, latest, outcome>>
allVars == <<vars, loop>>

DriverInit ==
  /\ Init
  /\ driver \in Kinds /\ calling = FALSE /\ budget = 0
  /\ used = 0 /\ latest = 0 /\ outcome = "none"

----------------------------------------------------------------------------
AsUint(n) == n % ClockMod

LimitPassed_Late == used > budget + 9   \* mutant: a wrong limit
LimitPassed == used > budget

(* The condition under which the loop calls Step once more.                 *)
MoreSteps ==
  \/ driver = "Run"   /\ used < AsUint(budget)
  \/ driver = "zrun"  /\ ~halted /\ ~LimitPassed
  \/ driver = "steps" /\ used < budget /\ ~halted

(* zrun makes one call, for the CPU it has just made.                       *)
Call(n) ==
  /\ ~calling /\ (driver = "zrun" => outcome = "none")
  /\ calling' = TRUE /\ budget' = n
  /\ used' = 0 /\ latest' = 0 /\ outcome' = "none"
  /\ UNCHANGED <<vars, driver>>

StepBegins == calling /\ MoreSteps /\ BeginStep /\ UNCHANGED loop

StepRuns == todo \notin {<<>>, <<"end">>} /\ Step /\ UNCHANGED loop

StepEnds_HaltFree ==                    \* mutant: halt cycles not counted
  /\ EndStep
  /\ latest' = IF doing = "halt" THEN 0 ELSE IF driver = "steps" THEN 1 ELSE t
  /\ used' = used + latest'
  /\ UNCHANGED <<driver, calling, budget, outcome>>

StepEnds ==
  /\ EndStep
  /\ latest' = IF driver = "steps" THEN 1 ELSE t
  /\ used' = used + latest'
  /\ UNCHANGED <<driver, calling, budget, outcome>>

Return ==
  /\ calling /\ todo = <<>> /\ ~MoreSteps
  /\ calling' = FALSE
  /\ outcome' = IF driver = "zrun" /\ ~halted THEN "error" ELSE "done"
  /\ UNCHANGED <<vars, driver, budget, used, latest>>

DriverStep == StepBegins \/ StepRuns \/ StepEnds \/ Return

(* The machine of zrun never interrupts; other machines do so from a Tick   *)
(* or between two calls, and reset the CPU between two calls.               *)
Disturb ==
  /\ driver # "zrun"
  /\ \/ \E level \in BOOLEAN : SetINT(level)
     \/ NMI
     \/ ~calling /\ (Reset \/ SpecialReset)
  /\ UNCHANGED loop

DriverNext == DriverStep \/ (\E n \in Budgets : Call(n)) \/ Disturb

DriverSpec == DriverInit /\ [][DriverNext]_allVars

(* A call that was made runs on, and the code is not prefixes for ever.     *)
Running == DriverSpec /\ WF_allVars(DriverStep)
FairDriver == Running /\ SF_allVars(FetchPlain /\ UNCHANGED loop)

----------------------------------------------------------------------------
(* Properties. *)

(* When a call returns, its last Step was still needed and no other is: the *)
(* budget is exceeded by up to one instruction (CPU.Run), the limit of zrun *)
(* by the instruction that passed it and only on a CPU that did not halt.   *)
StopsInTime ==
  [][Return =>
       /\ driver = "Run"   => /\ used >= budget
                              /\ used > 0 => used - latest < budget
       /\ driver = "zrun"  => /\ outcome' = "error" <=> ~halted
                              /\ outcome' = "error" => used > budget
                              /\ used - latest <= budget
       /\ driver = "steps" => used = budget \/ (halted /\ used < budget)]_allVars

(* Every call returns, also when the CPU halts with interrupts disabled.    *)
CallReturns == calling ~> ~calling
=============================================================================
