------------------------------- MODULE Zstep -------------------------------
(***************************************************************************)
(* The key handler and the memory view of zstep.  The CPU is what the keys *)
(* that run it leave behind: register values, and whether it halted.       *)
(***************************************************************************)
EXTENDS Integers

CONSTANTS
  AddrMod,       \* 2^16
  Row,           \* 16 addresses in a row of the view
  MemRows,       \* 16 rows
  RowsAbove,     \* 3 rows above that of the anchor
  PageRows,      \* pgup and pgdown scroll by 8 rows
  Places         \* the addresses that the registers may hold

ASSUME ViewAssumption ==
  /\ {AddrMod, Row, MemRows, PageRows} \subseteq Nat \ {0} /\ RowsAbove \in 0 .. MemRows - 1
  /\ {0, AddrMod - 1} \subseteq Places /\ Places \subseteq 0 .. AddrMod - 1
  /\ AddrMod % Row = 0 /\ MemRows * Row <= AddrMod

VARIABLES
  reg,           \* the registers that can anchor the view
  halted,
  follow, anchor, memTop, status

cpu  == <<reg, halted>>
view == <<follow, anchor, memTop>>
vars == <<cpu, view, status>>

Anchors == {"PC", "HL", "SP"}
NextAnchor == [PC |-> "HL", HL |-> "SP", SP |-> "PC"]

Aligned(a) == a - (a % Row)

ViewTop_Below ==                        \* mutant: the anchor's row below the view
  IF ~follow THEN Aligned(memTop)
             ELSE (Aligned(reg[anchor]) - MemRows * Row) % AddrMod
ViewTop == IF ~follow THEN Aligned(memTop)
                      ELSE (Aligned(reg[anchor]) - RowsAbove * Row) % AddrMod

(* memoryView shows MemRows rows from ViewTop, past the last address too.   *)
Shown == { (ViewTop + i) % AddrMod : i \in 0 .. MemRows * Row - 1 }

----------------------------------------------------------------------------
Init ==                                 \* at -entry, SP at the last address
  /\ reg \in [PC : Places, HL : {0}, SP : {AddrMod - 1}] /\ halted = FALSE
  /\ follow = TRUE /\ anchor = "PC" /\ memTop = 0
  /\ status = ""

(* Any number of Steps, of which the last may have executed HALT.           *)
Execute == reg' \in [Anchors -> Places] /\ halted' \in BOOLEAN

(* Space and s: one Step, none on a halted CPU.                             *)
StepKey ==
  /\ IF halted THEN status' = "CPU halted" /\ UNCHANGED cpu
               ELSE status' = "" /\ Execute
  /\ UNCHANGED view

RunKey_KeepsStatus ==                   \* mutant: m.status = "" forgotten
  /\ IF halted THEN status' = "CPU halted" /\ UNCHANGED cpu
               ELSE Execute /\ status' = status
  /\ UNCHANGED view

(* r: a hundred Steps; the loop meets a HALT before its end unless it was   *)
(* the hundredth Step that executed it.                                     *)
RunKey ==
  /\ IF halted THEN status' = "CPU halted" /\ UNCHANGED cpu
               ELSE Execute /\ status' \in IF halted' THEN {"CPU halted", ""} ELSE {""}
  /\ UNCHANGED view

(* H: Steps until HALT, a million at most.                                  *)
HaltKey ==
  /\ IF halted THEN UNCHANGED cpu ELSE Execute
  /\ status' = IF halted' THEN "" ELSE "no HALT within 1M steps"
  /\ UNCHANGED view

(* f and the page keys change follow first, so that the viewTop they call   *)
(* is that of a view that does not follow.                                  *)
FollowKey ==
  /\ follow' = ~follow
  /\ memTop' = IF follow THEN Aligned(memTop) ELSE memTop
  /\ status' = "" /\ UNCHANGED <<cpu, anchor>>

PageKey(rows) ==
  /\ follow' = FALSE
  /\ memTop' = (Aligned(memTop) + rows * Row) % AddrMod
  /\ status' = "" /\ UNCHANGED <<cpu, anchor>>

AnchorKey ==
  /\ anchor' = NextAnchor[anchor] /\ follow' = TRUE
  /\ status' = "" /\ UNCHANGED <<cpu, memTop>>

Next == \/ StepKey \/ RunKey \/ HaltKey
        \/ FollowKey \/ PageKey(PageRows) \/ PageKey(-PageRows) \/ AnchorKey

Spec == Init /\ [][Next]_vars

----------------------------------------------------------------------------
(* Properties. *)

(* While the view follows, the anchor's address is in it, also within three *)
(* rows of address 0, where viewTop wraps to the end of memory.             *)
AnchorShown == follow => reg[anchor] \in Shown

(* The status line speaks of the CPU as the latest key left it.             *)
StatusTruthful == /\ status = "CPU halted" => halted
                  /\ status = "no HALT within 1M steps" => ~halted

(* "f follow PC on/off, pgup/pgdn scroll memory": leaving the following     *)
(* view freezes it where it is, or scrolls it by a page from there.         *)
LeavesFromHere ==
  [][follow /\ ~follow' => ViewTop' \in { (ViewTop + d * PageRows * Row) % AddrMod : d \in -1 .. 1 }]_vars
=============================================================================
