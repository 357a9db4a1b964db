---------------------------- MODULE Z80Interrupts ----------------------------
(***************************************************************************)
(* What a machine that embeds the CPU may rely on about interrupts: the    *)
(* promises of the comments on SetINT, NMI, Step, acceptNMI and acceptINT  *)
(* (z80/cpu.go).  The request lines are sampled once, when a Step begins;  *)
(* whatever the machine does to them later in the Step waits for the next  *)
(* one.  How a Step fetches, reads and writes is left to module Z80Cpu,    *)
(* which implements this one.                                              *)
(***************************************************************************)

VARIABLES
  intLine,      \* level of /INT
  nmiPending,   \* an NMI edge has been latched and not yet accepted
  iff1, iff2,   \* interrupt enable flip-flop and its backup
  eiPending,    \* the last Step executed EI
  halted,       \* the CPU has executed HALT
  doing         \* what the Step in progress serves, "idle" between Steps

vars == <<intLine, nmiPending, iff1, iff2, eiPending, halted, doing>>

Doing == {"idle", "nmi", "int", "inject", "halt", "instr"}

Init ==
  /\ intLine = FALSE /\ nmiPending = FALSE
  /\ iff1 = FALSE /\ iff2 = FALSE /\ eiPending = FALSE
  /\ halted = FALSE
  /\ doing = "idle"

----------------------------------------------------------------------------
(* The machine: between two Steps, or from a Tick in the middle of one.     *)

SetINT(level) ==
  /\ intLine' = level
  /\ UNCHANGED <<nmiPending, iff1, iff2, eiPending, halted, doing>>

NMI ==
  /\ nmiPending' = TRUE
  /\ UNCHANGED <<intLine, iff1, iff2, eiPending, halted, doing>>

(* Between two Steps only. *)

Reset ==
  /\ doing = "idle"
  /\ iff1' = FALSE /\ iff2' = FALSE /\ eiPending' = FALSE /\ halted' = FALSE
  /\ UNCHANGED <<intLine, nmiPending, doing>>

SpecialReset ==
  /\ doing = "idle"
  /\ halted' = FALSE
  /\ UNCHANGED <<intLine, nmiPending, iff1, iff2, eiPending, doing>>

----------------------------------------------------------------------------
(* The sample at the start of a Step.                                       *)

IntAcceptable == intLine /\ iff1 /\ ~eiPending

AcceptNMI ==
  /\ doing = "idle" /\ nmiPending
  /\ doing' = "nmi"
  /\ nmiPending' = FALSE /\ eiPending' = FALSE
  /\ halted' = FALSE /\ iff1' = FALSE
  /\ UNCHANGED <<intLine, iff2>>

AcceptINT ==
  /\ doing = "idle" /\ ~nmiPending /\ IntAcceptable
  /\ doing' \in {"int", "inject"}
  /\ eiPending' = FALSE /\ halted' = FALSE
  /\ iff1' = FALSE /\ iff2' = FALSE
  /\ UNCHANGED <<intLine, nmiPending>>

Proceed ==
  /\ doing = "idle" /\ ~nmiPending /\ ~IntAcceptable
  /\ doing' = IF halted THEN "halt" ELSE "instr"
  /\ eiPending' = FALSE
  /\ UNCHANGED <<intLine, nmiPending, iff1, iff2, halted>>

----------------------------------------------------------------------------
(* What the instruction executed by a Step may do to the interrupt state.   *)

Executing == doing \in {"instr", "inject"}

EI   == Executing /\ iff1' = TRUE /\ iff2' = TRUE /\ eiPending' = TRUE
                  /\ UNCHANGED <<intLine, nmiPending, halted, doing>>

DI   == Executing /\ iff1' = FALSE /\ iff2' = FALSE
                  /\ UNCHANGED <<intLine, nmiPending, eiPending, halted, doing>>

RETN == Executing /\ iff1' = iff2
                  /\ UNCHANGED <<intLine, nmiPending, iff2, eiPending, halted, doing>>

HALT == Executing /\ halted' = TRUE
                  /\ UNCHANGED <<intLine, nmiPending, iff1, iff2, eiPending, doing>>

Return ==
  /\ doing # "idle"
  /\ doing' = "idle"
  /\ UNCHANGED <<intLine, nmiPending, iff1, iff2, eiPending, halted>>

----------------------------------------------------------------------------
Next ==
  \/ \E level \in BOOLEAN : SetINT(level)
  \/ NMI \/ Reset \/ SpecialReset
  \/ AcceptNMI \/ AcceptINT \/ Proceed
  \/ EI \/ DI \/ RETN \/ HALT
  \/ Return

Spec == Init /\ [][Next]_vars
=============================================================================
