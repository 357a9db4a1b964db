---------------------------- MODULE ZstepProofs ----------------------------
(***************************************************************************)
(* The memory view of zstep shows what it follows, for every size of the   *)
(* memory, of a row and of the view.                                       *)
(***************************************************************************)
EXTENDS Zstep, TLAPS

ViewType == /\ reg \in [Anchors -> Places] /\ anchor \in Anchors
            /\ follow \in BOOLEAN /\ halted \in BOOLEAN

(* One turn around memory is all that an address is ever off by.            *)
LEMMA OneTurn ==
  ASSUME NEW m \in Nat \ {0}, NEW x \in 0 .. m - 1
  PROVE  x % m = x /\ (x - m) % m = x /\ (x + m) % m = x
OBVIOUS

LEMMA Offsets ==
  ASSUME NEW row \in Nat \ {0}, NEW x \in Nat
  PROVE  x % row \in 0 .. row - 1 /\ x % row <= x
OBVIOUS

(* The rows above the anchor's and the anchor's place in its row are in the *)
(* view.                                                                    *)
LEMMA AnchorInView ==
  ASSUME NEW v \in Places
  PROVE  /\ RowsAbove * Row + (v % Row) \in 0 .. MemRows * Row - 1
         /\ RowsAbove * Row \in 0 .. AddrMod - 1
<1>. DEFINE k == RowsAbove * Row
<1>1. RowsAbove \in Nat /\ MemRows \in Nat /\ Row \in Nat \ {0} /\ RowsAbove + 1 <= MemRows
  BY ViewAssumption
<1>2. k \in Nat /\ k + Row <= MemRows * Row
  BY <1>1
<1>3. v % Row \in 0 .. Row - 1
  BY <1>1, ViewAssumption, Offsets
<1>4. MemRows * Row <= AddrMod /\ AddrMod \in Nat
  BY ViewAssumption
<1>. HIDE DEF k
<1>5. k + (v % Row) \in 0 .. MemRows * Row - 1 /\ k \in 0 .. AddrMod - 1
  BY <1>1, <1>2, <1>3, <1>4
<1>. QED
  BY <1>5 DEF k

LEMMA ViewShowsAnchor == ViewType => AnchorShown
<1>. SUFFICES ASSUME ViewType, follow PROVE reg[anchor] \in Shown
  BY DEF AnchorShown
<1>. DEFINE v == reg[anchor]
            k == RowsAbove * Row
            o == v % Row
<1>1. v \in Places /\ v \in 0 .. AddrMod - 1 /\ AddrMod \in Nat \ {0}
  BY ViewAssumption DEF ViewType
<1>2. k + o \in 0 .. MemRows * Row - 1 /\ k \in 0 .. AddrMod - 1
  BY <1>1, AnchorInView
<1>3. o \in 0 .. v
  <2>1. v \in Nat /\ Row \in Nat \ {0}
    BY <1>1, ViewAssumption
  <2>2. v % Row \in 0 .. Row - 1 /\ v % Row <= v
    BY <2>1, Offsets
  <2>. HIDE DEF v
  <2>. QED
    BY <2>1, <2>2
<1>4. ViewTop = ((v - o) - k) % AddrMod
  BY DEF ViewTop, Aligned
<1>. HIDE DEF v, k, o
<1>5. (ViewTop + (k + o)) % AddrMod = v
  <2>1. CASE v - o >= k
    <3>0. (v - o) - k \in 0 .. AddrMod - 1
      BY <1>1, <1>2, <1>3, <2>1
    <3>1. ViewTop = (v - o) - k
      BY <1>1, <1>4, <3>0, OneTurn
    <3>2. ViewTop + (k + o) = v
      BY <1>1, <1>2, <1>3, <3>1
    <3>. QED
      BY <1>1, <3>2, OneTurn
  <2>2. CASE v - o < k
    <3>1. (v - o) - k + AddrMod \in 0 .. AddrMod - 1
      BY <1>1, <1>2, <1>3, <2>2
    <3>2. (v - o) - k = ((v - o) - k + AddrMod) - AddrMod
      BY <1>1, <1>2, <1>3
    <3>3. ViewTop = (v - o) - k + AddrMod
      BY <1>1, <1>4, <3>1, <3>2, OneTurn
    <3>4. ViewTop + (k + o) = v + AddrMod
      BY <1>1, <1>2, <1>3, <3>3
    <3>. QED
      BY <1>1, <3>4, OneTurn
  <2>. QED
    BY <1>1, <1>2, <1>3, <2>1, <2>2
<1>. QED
  BY <1>2, <1>5 DEF Shown, v

LEMMA StepViewType == ViewType /\ [Next]_vars => ViewType'
<1>. SUFFICES ASSUME ViewType, [Next]_vars PROVE ViewType'
  OBVIOUS
<1>. USE DEF ViewType, cpu, view
<1>1. CASE StepKey \/ RunKey \/ HaltKey
  BY <1>1 DEF StepKey, RunKey, HaltKey, Execute
<1>2. CASE FollowKey
  BY <1>2 DEF FollowKey
<1>3. ASSUME NEW rows, PageKey(rows) PROVE ViewType'
  BY <1>3 DEF PageKey
<1>4. CASE AnchorKey
  <2>1. NextAnchor[anchor] \in Anchors
    BY DEF NextAnchor, Anchors
  <2>. QED
    BY <1>4, <2>1 DEF AnchorKey
<1>5. CASE UNCHANGED vars
  BY <1>5 DEF vars
<1>. QED
  BY <1>1, <1>2, <1>3, <1>4, <1>5 DEF Next

(* Wherever PC, HL or SP point, and however the view got there, a view that *)
(* follows one of them shows it, across both ends of memory.                *)
THEOREM AnchorShownHolds == Spec => []AnchorShown
<1>1. Init => ViewType
  BY ViewAssumption DEF Init, ViewType, Anchors
<1>. QED
  BY <1>1, StepViewType, ViewShowsAnchor, PTL DEF Spec

(* The status line never tells of a CPU that it is halted when it runs, nor *)
(* that it met no HALT when it stands in one.                               *)
THEOREM StatusTruthfulHolds == Spec => []StatusTruthful
<1>1. Init => StatusTruthful
  BY DEF Init, StatusTruthful
<1>2. ASSUME StatusTruthful, [Next]_vars PROVE StatusTruthful'
  <2>1. CASE StepKey
    BY <1>2, <2>1 DEF StepKey, StatusTruthful, cpu
  <2>2. CASE RunKey
    BY <1>2, <2>2 DEF RunKey, StatusTruthful, cpu
  <2>3. CASE HaltKey
    BY <1>2, <2>3 DEF HaltKey, StatusTruthful, cpu
  <2>4. ASSUME status' = "" PROVE StatusTruthful'
    BY <2>4 DEF StatusTruthful
  <2>5. CASE FollowKey \/ AnchorKey
    BY <2>4, <2>5 DEF FollowKey, AnchorKey
  <2>6. ASSUME NEW rows, PageKey(rows) PROVE StatusTruthful'
    BY <2>4, <2>6 DEF PageKey
  <2>7. CASE UNCHANGED vars
    BY <1>2, <2>7 DEF vars, cpu, StatusTruthful
  <2>. QED
    BY <1>2, <2>1, <2>2, <2>3, <2>5, <2>6, <2>7 DEF Next
<1>. QED
  BY <1>1, <1>2, PTL DEF Spec
=============================================================================
