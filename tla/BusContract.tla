---------------------------- MODULE BusContract ----------------------------
(***************************************************************************)
(* What bus.go promises a machine, one M-cycle at a time: which transfers  *)
(* a Step makes, in which order, the refresh addresses it shows, and its   *)
(* T-states, "plus any waits".  How the T-states of an M-cycle follow each *)
(* other, and where in it the machine is called, is left to Z80BusCycle.   *)
(***************************************************************************)
EXTENDS Integers, Sequences

CONSTANTS
  AddrMod, RMod,        \* sizes of the address space and of the R counter
  WaitBound             \* bound: wait states asked for in one Step

VARIABLES
  intLine, nmiPending,  \* as set by SetINT and NMI
  enabled,              \* would an INT be accepted (IFF1, and not after EI)
  serving,              \* what the Step in progress serves
  todo,                 \* its M-cycles still to come, <<kind, address>>
  pc, r,
  done,                 \* the machine's record of the Step: transfers, refreshes
  t, waits              \* its T-states, and those the machine asked for

vars == <<intLine, nmiPending, enabled, serving, todo, pc, r, done, t, waits>>

(* T-states of the M-cycles.                                                *)
Nominal == [M1 |-> 4, M1halt |-> 4, M1nmi |-> 4, ack |-> 6,
            fetch8 |-> 3, ack8 |-> 3, read |-> 3, write |-> 3,
            ioRead |-> 4, ioWrite |-> 4, internal |-> 1]

(* The one call a cycle makes to transfer a byte.                           *)
Call == [M1 |-> "MemRead", M1halt |-> "MemRead", M1nmi |-> "MemRead", ack |-> "IntAck",
         fetch8 |-> "MemRead", ack8 |-> "IntAck", read |-> "MemRead", write |-> "MemWrite",
         ioRead |-> "IORead", ioWrite |-> "IOWrite"]

(* Where they are: PC, the refresh address, and what the instruction says.   *)
Addresses == {"pc", "ir", "hl", "nn", "port", "sp-1", "sp-2", "vec", "vec+1"}

(* The cycle a Step begins with.                                            *)
First == [nmi |-> {"M1nmi"}, int |-> {"ack"}, instr |-> {"M1", "M1halt"}]

Refreshing == {"M1", "M1halt", "M1nmi", "ack"}
Advancing  == {"M1", "fetch8"}

----------------------------------------------------------------------------
Init ==
  /\ intLine = FALSE /\ nmiPending = FALSE /\ enabled = FALSE
  /\ serving = "idle" /\ todo = <<>> /\ pc = 0 /\ r = 0
  /\ done = <<>> /\ t = 0 /\ waits = 0

SetINT(level) ==
  /\ intLine' = level
  /\ UNCHANGED <<nmiPending, enabled, serving, todo, pc, r, done, t, waits>>

NMI ==
  /\ nmiPending' = TRUE
  /\ UNCHANGED <<intLine, enabled, serving, todo, pc, r, done, t, waits>>

(* The sample: what a Step serves depends on the lines at its start only.   *)
Begin ==
  /\ serving = "idle"
  /\ serving' = IF nmiPending THEN "nmi" ELSE IF intLine /\ enabled THEN "int" ELSE "instr"
  /\ nmiPending' = FALSE
  /\ todo' \in Seq((DOMAIN Nominal) \X Addresses) /\ todo' # <<>>
  /\ todo'[1][1] \in First[serving']
  /\ UNCHANGED <<intLine, enabled, pc, r, done, t, waits>>

(* One M-cycle, with the waits asked for in any of its T-states.            *)
MCycle(more) ==
  /\ todo # <<>> /\ todo' = Tail(todo)
  /\ LET kind  == Head(todo)[1]
         where == IF kind \in Advancing \cup {"M1halt", "M1nmi", "ack", "ack8"}
                  THEN <<"pc", pc>> ELSE <<"at", Head(todo)[2]>>
         moved == IF kind \in DOMAIN Call THEN Append(done, <<Call[kind], where>>) ELSE done
     IN  /\ t' = t + Nominal[kind] + more /\ waits' = waits + more
         /\ pc' = IF kind \in Advancing THEN (pc + 1) % AddrMod ELSE pc
         /\ r'  = IF kind \in Refreshing THEN (r + 1) % RMod ELSE r
         /\ done' = IF kind \in Refreshing THEN Append(moved, <<"refresh", r>>) ELSE moved
  /\ UNCHANGED <<intLine, nmiPending, enabled, serving>>

Return ==
  /\ serving # "idle" /\ todo = <<>>
  /\ serving' = "idle"
  /\ enabled' \in IF serving = "instr" THEN BOOLEAN ELSE {FALSE}
  /\ done' = <<>> /\ t' = 0 /\ waits' = 0
  /\ UNCHANGED <<intLine, nmiPending, todo, pc, r>>

Next ==
  \/ (\E level \in BOOLEAN : SetINT(level)) \/ NMI
  \/ Begin \/ Return
  \/ \E more \in 0 .. WaitBound : MCycle(more)

Spec == Init /\ [][Next]_vars
=============================================================================
