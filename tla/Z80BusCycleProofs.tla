-------------------------- MODULE Z80BusCycleProofs --------------------------
(***************************************************************************)
(* The T-states of the core keep the contract of bus.go, for every address *)
(* space, R counter and bound on the waits.                                *)
(***************************************************************************)
EXTENDS Z80BusCycle, SequenceTheorems, TLAPS

(* Where in the helper of each kind of cycle its effects stand, 99 where it *)
(* has no such effect; everything else is a tick.                           *)
Never == 99

Length    == [M1 |-> 8, M1halt |-> 9, M1nmi |-> 9, ack |-> 9, fetch8 |-> 5, ack8 |-> 4,
              read |-> 4, write |-> 4, ioRead |-> 5, ioWrite |-> 5, internal |-> 1]
CallAt    == [M1 |-> 3, M1halt |-> 3, M1nmi |-> 3, ack |-> 4, fetch8 |-> 3, ack8 |-> 3,
              read |-> 3, write |-> 3, ioRead |-> 4, ioWrite |-> 4, internal |-> Never]
AdvanceAt == [M1 |-> 4, M1halt |-> 4, M1nmi |-> 4, ack |-> Never, fetch8 |-> 5, ack8 |-> Never,
              read |-> Never, write |-> Never, ioRead |-> Never, ioWrite |-> Never,
              internal |-> Never]
BackAt    == [M1 |-> Never, M1halt |-> 9, M1nmi |-> 9, ack |-> Never, fetch8 |-> Never,
              ack8 |-> Never, read |-> Never, write |-> Never, ioRead |-> Never,
              ioWrite |-> Never, internal |-> Never]
(* The latch of lastIR; R moves next, and the refresh follows.              *)
LatchAt   == [M1 |-> 5, M1halt |-> 5, M1nmi |-> 5, ack |-> 6, fetch8 |-> Never, ack8 |-> Never,
              read |-> Never, write |-> Never, ioRead |-> Never, ioWrite |-> Never,
              internal |-> Never]

OpAt(k, i) ==
  IF i = CallAt[k] THEN Contract!Call[k]
  ELSE IF i = AdvanceAt[k] THEN "pc++"
  ELSE IF i = BackAt[k] THEN "restorePC"
  ELSE IF i = LatchAt[k] THEN "lastIR"
  ELSE IF i = LatchAt[k] + 1 THEN "r++"
  ELSE "tick"

(* What stands at place i of the helper of kind k, for the address `at`.    *)
Fits(e, k, at, i) ==
  /\ e.op = OpAt(k, i)
  /\ e.op = "tick" =>
       /\ e.pins \subseteq Control \cup {"M1", "RFSH", "HALTP"}
       /\ "RFSH" \in e.pins <=> i > LatchAt[k]
       /\ i = LatchAt[k] + 2 => e.on = "ir"
       /\ i = CallAt[k] - 1 => /\ e.on = (IF at = "pc" THEN "pc" ELSE "at")
                               /\ e.pins \cap Control \in Strobes[Contract!Call[k]]
                               /\ "WR" \in e.pins => e.data = "byte"

Runs(h, k, at) == Len(h) = Length[k] /\ \A i \in 1 .. Length[k] : Fits(h[i], k, at, i)

----------------------------------------------------------------------------
(* The lists of the code, element by element.                               *)

LEMMA ReadRuns ==
  ASSUME NEW at, at # "pc"
  PROVE  Runs(Helper("read", at), "read", at)
<1>. DEFINE h == Read8("at")
<1>1. /\ Len(h) = 4
      /\ h[1] = Tick("at", {})
      /\ h[2] = Tick("at", {"MREQ", "RD"})
      /\ h[3] = Do("MemRead")
      /\ h[4] = TickData("at", {})
  BY DEF Read8
<1>2. Helper("read", at) = h
  BY DEF Helper
<1>. HIDE DEF h
<1>3. \A i \in 1 .. 4 : Fits(h[i], "read", at, i)
  BY <1>1 DEF Fits, Tick, TickData, Do, OpAt, CallAt, AdvanceAt, BackAt, LatchAt, Never,
         Contract!Call, Control, Strobes
<1>. QED
  BY <1>1, <1>2, <1>3 DEF Runs, Length

LEMMA WriteRuns ==
  ASSUME NEW at, at # "pc"
  PROVE  Runs(Helper("write", at), "write", at)
<1>. DEFINE h == Write8
<1>1. /\ Len(h) = 4
      /\ h[1] = Tick("at", {})
      /\ h[2] = TickData("at", {"MREQ", "WR"})
      /\ h[3] = Do("MemWrite")
      /\ h[4] = Tick("at", {})
  BY DEF Write8
<1>2. Helper("write", at) = h
  BY DEF Helper
<1>. HIDE DEF h
<1>3. \A i \in 1 .. 4 : Fits(h[i], "write", at, i)
  BY <1>1 DEF Fits, Tick, TickData, Do, OpAt, CallAt, AdvanceAt, BackAt, LatchAt, Never,
         Contract!Call, Control, Strobes
<1>. QED
  BY <1>1, <1>2, <1>3 DEF Runs, Length

LEMMA IoReadRuns ==
  ASSUME NEW at, at # "pc"
  PROVE  Runs(Helper("ioRead", at), "ioRead", at)
<1>. DEFINE h == IoRead
<1>1. /\ Len(h) = 5
      /\ h[1] = Tick("at", {})
      /\ h[2] = Tick("at", {})
      /\ h[3] = Tick("at", {"IORQ", "RD"})
      /\ h[4] = Do("IORead")
      /\ h[5] = TickData("at", {})
  BY DEF IoRead
<1>2. Helper("ioRead", at) = h
  BY DEF Helper
<1>. HIDE DEF h
<1>3. \A i \in 1 .. 5 : Fits(h[i], "ioRead", at, i)
  BY <1>1 DEF Fits, Tick, TickData, Do, OpAt, CallAt, AdvanceAt, BackAt, LatchAt, Never,
         Contract!Call, Control, Strobes
<1>. QED
  BY <1>1, <1>2, <1>3 DEF Runs, Length

LEMMA IoWriteRuns ==
  ASSUME NEW at, at # "pc"
  PROVE  Runs(Helper("ioWrite", at), "ioWrite", at)
<1>. DEFINE h == IoWrite
<1>1. /\ Len(h) = 5
      /\ h[1] = Tick("at", {})
      /\ h[2] = Tick("at", {})
      /\ h[3] = TickData("at", {"IORQ", "WR"})
      /\ h[4] = Do("IOWrite")
      /\ h[5] = Tick("at", {})
  BY DEF IoWrite
<1>2. Helper("ioWrite", at) = h
  BY DEF Helper
<1>. HIDE DEF h
<1>3. \A i \in 1 .. 5 : Fits(h[i], "ioWrite", at, i)
  BY <1>1 DEF Fits, Tick, TickData, Do, OpAt, CallAt, AdvanceAt, BackAt, LatchAt, Never,
         Contract!Call, Control, Strobes
<1>. QED
  BY <1>1, <1>2, <1>3 DEF Runs, Length

LEMMA Ack8Runs ==
  ASSUME NEW at, at = "pc"
  PROVE  Runs(Helper("ack8", at), "ack8", at)
<1>. DEFINE h == FetchAck8
<1>1. /\ Len(h) = 4
      /\ h[1] = Tick("pc", {})
      /\ h[2] = Tick("pc", {"IORQ", "RD"})
      /\ h[3] = Do("IntAck")
      /\ h[4] = TickData("pc", {})
  BY DEF FetchAck8
<1>2. Helper("ack8", at) = h
  BY DEF Helper
<1>. HIDE DEF h
<1>3. \A i \in 1 .. 4 : Fits(h[i], "ack8", at, i)
  BY <1>1 DEF Fits, Tick, TickData, Do, OpAt, CallAt, AdvanceAt, BackAt, LatchAt, Never,
         Contract!Call, Control, Strobes
<1>. QED
  BY <1>1, <1>2, <1>3 DEF Runs, Length

LEMMA AckRuns ==
  ASSUME NEW at, at = "pc"
  PROVE  Runs(Helper("ack", at), "ack", at)
<1>. DEFINE h == IntAckM1
<1>1. /\ Len(h) = 9
      /\ h[1] = Tick("pc", {"M1"})
      /\ h[2] = Tick("pc", {"M1"})
      /\ h[3] = Tick("pc", {"M1", "IORQ"})
      /\ h[4] = Do("IntAck")
      /\ h[5] = TickData("pc", {"M1"})
      /\ h[6] = Do("lastIR")
      /\ h[7] = Do("r++")
      /\ h[8] = Tick("ir", {"RFSH"})
      /\ h[9] = Tick("ir", {"RFSH"})
  BY DEF IntAckM1
<1>2. Helper("ack", at) = h
  BY DEF Helper
<1>. HIDE DEF h
<1>3. \A i \in 1 .. 9 : Fits(h[i], "ack", at, i)
  <2>. USE DEF Fits, Tick, TickData, Do, OpAt, CallAt, AdvanceAt, BackAt, LatchAt, Never,
                Contract!Call, Control, Strobes
  <2>1. Fits(h[1], "ack", at, 1)
    BY <1>1
  <2>2. Fits(h[2], "ack", at, 2)
    BY <1>1
  <2>3. Fits(h[3], "ack", at, 3)
    BY <1>1
  <2>4. Fits(h[4], "ack", at, 4)
    BY <1>1
  <2>5. Fits(h[5], "ack", at, 5)
    BY <1>1
  <2>6. Fits(h[6], "ack", at, 6)
    BY <1>1
  <2>7. Fits(h[7], "ack", at, 7)
    BY <1>1
  <2>8. Fits(h[8], "ack", at, 8)
    BY <1>1
  <2>9. Fits(h[9], "ack", at, 9)
    BY <1>1
  <2>. QED
    BY <2>1, <2>2, <2>3, <2>4, <2>5, <2>6, <2>7, <2>8, <2>9
<1>. QED
  BY <1>1, <1>2, <1>3 DEF Runs, Length

(* fetchM1, running or halted.                                              *)
LEMMA FetchM1Runs ==
  ASSUME NEW pins, pins = {"M1"} \/ pins = {"M1", "HALTP"},
         NEW k \in {"M1", "M1halt", "M1nmi"}
  PROVE  Len(FetchM1(pins)) = 8 /\ \A i \in 1 .. 8 : Fits(FetchM1(pins)[i], k, "pc", i)
<1>. DEFINE h == FetchM1(pins)
<1>1. /\ Len(h) = 8
      /\ h[1] = Tick("pc", pins)
      /\ h[2] = Tick("pc", pins \cup {"MREQ", "RD"})
      /\ h[3] = Do("MemRead")
      /\ h[4] = Do("pc++")
      /\ h[5] = Do("lastIR")
      /\ h[6] = Do("r++")
      /\ h[7] = TickData("ir", (pins \cap {"HALTP"}) \cup {"RFSH"})
      /\ h[8] = Tick("ir", (pins \cap {"HALTP"}) \cup {"RFSH"})
  BY DEF FetchM1
<1>2. "RFSH" \notin pins /\ pins \cap Control = {}
  BY DEF Control
<1>. HIDE DEF h
<1>3. (pins \cup {"MREQ", "RD"}) \cap Control = {"MREQ", "RD"} /\ "WR" \notin pins
  BY <1>2 DEF Control
<1>4. \A i \in 1 .. 8 : Fits(h[i], k, "pc", i)
  <2>. USE DEF Fits, Tick, TickData, Do, OpAt, CallAt, AdvanceAt, BackAt, LatchAt, Never,
                Contract!Call, Control, Strobes
  <2>1. Fits(h[1], k, "pc", 1)
    BY <1>1, <1>2, <1>3
  <2>2. Fits(h[2], k, "pc", 2)
    BY <1>1, <1>2, <1>3
  <2>3. Fits(h[3], k, "pc", 3)
    BY <1>1, <1>2, <1>3
  <2>4. Fits(h[4], k, "pc", 4)
    BY <1>1, <1>2, <1>3
  <2>5. Fits(h[5], k, "pc", 5)
    BY <1>1, <1>2, <1>3
  <2>6. Fits(h[6], k, "pc", 6)
    BY <1>1, <1>2, <1>3
  <2>7. Fits(h[7], k, "pc", 7)
    BY <1>1, <1>2, <1>3
  <2>8. Fits(h[8], k, "pc", 8)
    BY <1>1, <1>2, <1>3
  <2>. QED
    BY <2>1, <2>2, <2>3, <2>4, <2>5, <2>6, <2>7, <2>8
<1>. QED
  BY <1>1, <1>4 DEF h

(* An effect behind all others.                                             *)
LEMMA OneMore ==
  ASSUME NEW S, NEW s \in Seq(S), NEW e \in S
  PROVE  /\ Len(Append(s, e)) = Len(s) + 1
         /\ \A i \in 1 .. Len(s) : Append(s, e)[i] = s[i]
         /\ Append(s, e)[Len(s) + 1] = e
BY AppendProperties

LEMMA M1haltRuns ==
  ASSUME NEW at, at = "pc"
  PROVE  Runs(Helper("M1halt", at), "M1halt", at)
<1>. DEFINE s == FetchM1({"M1", "HALTP"})
            e == Do("restorePC")
            S == { Tick("pc", {"M1", "HALTP"}),
                   Tick("pc", {"M1", "HALTP"} \cup {"MREQ", "RD"}),
                   Do("MemRead"),
                   Do("pc++"),
                   Do("lastIR"),
                   Do("r++"),
                   TickData("ir", ({"M1", "HALTP"} \cap {"HALTP"}) \cup {"RFSH"}),
                   Tick("ir", ({"M1", "HALTP"} \cap {"HALTP"}) \cup {"RFSH"}),
                   Do("restorePC") }
<1>1. s \in Seq(S) /\ e \in S
  BY DEF FetchM1
<1>2. Helper("M1halt", at) = Append(s, e)
  BY DEF Helper
<1>3. Len(s) = 8 /\ \A i \in 1 .. 8 : Fits(s[i], "M1halt", at, i)
  BY FetchM1Runs
<1>. HIDE DEF s, S
<1>4. /\ Len(Append(s, e)) = 9 /\ Append(s, e)[9] = e
      /\ \A i \in 1 .. 8 : Append(s, e)[i] = s[i]
  <2>1. /\ Len(Append(s, e)) = Len(s) + 1
        /\ \A i \in 1 .. Len(s) : Append(s, e)[i] = s[i]
        /\ Append(s, e)[Len(s) + 1] = e
    BY <1>1, OneMore
  <2>. QED
    BY <1>3, <2>1
<1>5. Fits(e, "M1halt", at, 9)
  BY DEF Fits, Tick, TickData, Do, OpAt, CallAt, AdvanceAt, BackAt, LatchAt, Never,
         Contract!Call, Control, Strobes
<1>6. \A i \in 1 .. 9 : i \in 1 .. 8 \/ i = 9
  OBVIOUS
<1>. HIDE DEF e
<1>. QED
  BY <1>2, <1>3, <1>4, <1>5, <1>6 DEF Runs, Length

LEMMA M1nmiRuns ==
  ASSUME NEW at, at = "pc"
  PROVE  Runs(Helper("M1nmi", at), "M1nmi", at)
<1>. DEFINE s == FetchM1({"M1"})
            e == Do("restorePC")
            S == { Tick("pc", {"M1"}),
                   Tick("pc", {"M1"} \cup {"MREQ", "RD"}),
                   Do("MemRead"),
                   Do("pc++"),
                   Do("lastIR"),
                   Do("r++"),
                   TickData("ir", ({"M1"} \cap {"HALTP"}) \cup {"RFSH"}),
                   Tick("ir", ({"M1"} \cap {"HALTP"}) \cup {"RFSH"}),
                   Do("restorePC") }
<1>1. s \in Seq(S) /\ e \in S
  BY DEF FetchM1
<1>2. Helper("M1nmi", at) = Append(s, e)
  BY DEF Helper
<1>3. Len(s) = 8 /\ \A i \in 1 .. 8 : Fits(s[i], "M1nmi", at, i)
  BY FetchM1Runs
<1>. HIDE DEF s, S
<1>4. /\ Len(Append(s, e)) = 9 /\ Append(s, e)[9] = e
      /\ \A i \in 1 .. 8 : Append(s, e)[i] = s[i]
  <2>1. /\ Len(Append(s, e)) = Len(s) + 1
        /\ \A i \in 1 .. Len(s) : Append(s, e)[i] = s[i]
        /\ Append(s, e)[Len(s) + 1] = e
    BY <1>1, OneMore
  <2>. QED
    BY <1>3, <2>1
<1>5. Fits(e, "M1nmi", at, 9)
  BY DEF Fits, Tick, TickData, Do, OpAt, CallAt, AdvanceAt, BackAt, LatchAt, Never,
         Contract!Call, Control, Strobes
<1>6. \A i \in 1 .. 9 : i \in 1 .. 8 \/ i = 9
  OBVIOUS
<1>. HIDE DEF e
<1>. QED
  BY <1>2, <1>3, <1>4, <1>5, <1>6 DEF Runs, Length

LEMMA Fetch8Runs ==
  ASSUME NEW at, at = "pc"
  PROVE  Runs(Helper("fetch8", at), "fetch8", at)
<1>. DEFINE s == Read8("pc")
            e == Do("pc++")
            S == { Tick("pc", {}), Tick("pc", {"MREQ", "RD"}), Do("MemRead"),
                   TickData("pc", {}), Do("pc++") }
<1>1. s \in Seq(S) /\ e \in S
  BY DEF Read8
<1>2. Helper("fetch8", at) = Append(s, e)
  BY DEF Helper, Fetch8
<1>3. Len(s) = 4 /\ \A i \in 1 .. 4 : Fits(s[i], "fetch8", at, i)
  <2>1. /\ Len(s) = 4
        /\ s[1] = Tick("pc", {})
        /\ s[2] = Tick("pc", {"MREQ", "RD"})
        /\ s[3] = Do("MemRead")
        /\ s[4] = TickData("pc", {})
    BY DEF Read8
  <2>. HIDE DEF s
  <2>. QED
    BY <2>1 DEF Fits, Tick, TickData, Do, OpAt, CallAt, AdvanceAt, BackAt, LatchAt, Never,
            Contract!Call, Control, Strobes
<1>. HIDE DEF s, S
<1>4. /\ Len(Append(s, e)) = 5 /\ Append(s, e)[5] = e
      /\ \A i \in 1 .. 4 : Append(s, e)[i] = s[i]
  <2>1. /\ Len(Append(s, e)) = Len(s) + 1
        /\ \A i \in 1 .. Len(s) : Append(s, e)[i] = s[i]
        /\ Append(s, e)[Len(s) + 1] = e
    BY <1>1, OneMore
  <2>. QED
    BY <1>3, <2>1
<1>5. Fits(e, "fetch8", at, 5)
  BY DEF Fits, Tick, TickData, Do, OpAt, CallAt, AdvanceAt, BackAt, LatchAt, Never,
         Contract!Call, Control, Strobes
<1>6. \A i \in 1 .. 5 : i \in 1 .. 4 \/ i = 5
  OBVIOUS
<1>. HIDE DEF e
<1>. QED
  BY <1>2, <1>3, <1>4, <1>5, <1>6 DEF Runs, Length

LEMMA M1Runs ==
  ASSUME NEW at, at = "pc"
  PROVE  Runs(Helper("M1", at), "M1", at)
<1>1. Helper("M1", at) = FetchM1({"M1"})
  BY DEF Helper
<1>. QED
  BY <1>1, FetchM1Runs DEF Runs, Length

LEMMA InternalRuns ==
  ASSUME NEW at
  PROVE  Runs(Helper("internal", at), "internal", at)
<1>. DEFINE h == Helper("internal", at)
<1>1. Len(h) = 1 /\ h[1] = Tick(IF at \in {"pc", "ir"} THEN at ELSE "at", {})
  BY DEF Helper
<1>. HIDE DEF h
<1>2. Fits(h[1], "internal", at, 1)
  BY <1>1 DEF Fits, Tick, TickData, Do, OpAt, CallAt, AdvanceAt, BackAt, LatchAt, Never,
         Contract!Call, Control, Strobes
<1>3. Runs(h, "internal", at)
  BY <1>1, <1>2 DEF Runs, Length
<1>. QED
  BY <1>3 DEF h

----------------------------------------------------------------------------
(* M-cycles as Steps have them: a fetch is at PC, a transfer is not.        *)
Fetching == {"M1", "M1halt", "M1nmi", "ack", "fetch8", "ack8"}

Cycles == { c \in Kinds \X Addresses :
              c[1] # "internal" => (c[2] = "pc" <=> c[1] \in Fetching) }

LEMMA HelperRuns ==
  ASSUME NEW c \in Cycles
  PROVE  c[1] \in Kinds /\ Runs(Helper(c[1], c[2]), c[1], c[2])
<1>1. c[1] \in Kinds /\ c[2] \in Addresses
  BY DEF Cycles
<1>2. c[1] # "internal" => (c[2] = "pc" <=> c[1] \in Fetching)
  BY DEF Cycles
<1>. QED
  BY <1>1, <1>2, ReadRuns, WriteRuns, IoReadRuns, IoWriteRuns, Ack8Runs, AckRuns, M1haltRuns,
     M1nmiRuns, Fetch8Runs, M1Runs, InternalRuns DEF Kinds, Fetching

(* How the tables lie to each other, which is all that the proofs need.     *)
Placed(k) ==
  /\ Length[k] \in 1 .. 9
  /\ CallAt[k] \in {3, 4, Never} /\ AdvanceAt[k] \in {4, 5, Never}
  /\ BackAt[k] \in {9, Never} /\ LatchAt[k] \in {5, 6, Never}
  /\ CallAt[k] <= 9 => CallAt[k] < AdvanceAt[k] /\ CallAt[k] < BackAt[k] /\ CallAt[k] < LatchAt[k]
  /\ AdvanceAt[k] <= 9 => AdvanceAt[k] < BackAt[k] /\ AdvanceAt[k] < LatchAt[k]
  /\ BackAt[k] <= 9 => LatchAt[k] + 2 < BackAt[k]
  /\ CallAt[k] <= 9 => k # "internal" /\ Contract!Call[k] \in Calls

LEMMA TablesPlaced == \A k \in Kinds : Placed(k)
BY DEF Kinds, Placed, Length, CallAt, AdvanceAt, BackAt, LatchAt, Never, Contract!Call, Calls

LEMMA OpFacts ==
  ASSUME NEW k \in Kinds, NEW i \in 1 .. Length[k]
  PROVE  /\ i \in 1 .. 9
         /\ OpAt(k, i) = "tick" =>
              i \notin {CallAt[k], AdvanceAt[k], BackAt[k], LatchAt[k], LatchAt[k] + 1}
         /\ OpAt(k, i) \in Calls => i = CallAt[k] /\ OpAt(k, i) = Contract!Call[k]
         /\ OpAt(k, i) = "pc++" => i = AdvanceAt[k]
         /\ OpAt(k, i) = "restorePC" => i = BackAt[k]
         /\ OpAt(k, i) = "lastIR" => i = LatchAt[k]
         /\ OpAt(k, i) = "r++" => i = LatchAt[k] + 1
BY TablesPlaced DEF Placed, OpAt, Calls, Never

----------------------------------------------------------------------------
(* The invariant.  In an M-cycle everything is what it was at its start,    *)
(* moved on by the effects in front of pos and the T-states owed.           *)

BusType ==
  /\ serving \in Serving /\ inTick \in BOOLEAN
  /\ intLine \in BOOLEAN /\ nmiPending \in BOOLEAN /\ enabled \in BOOLEAN
  /\ pc \in 0 .. AddrMod - 1 /\ r \in 0 .. RMod - 1 /\ lastIR \in 0 .. RMod - 1
  /\ waiting \in 0 .. MaxWait /\ waits \in 0 .. WaitBound /\ clock \in Nat
  /\ bus.pins \subseteq Control \cup {"M1", "RFSH", "HALTP"}
  /\ todo \in Seq(Cycles) /\ pos \in Nat

(* No M-cycle is in progress: between two Steps, and before the first of one.*)
AtRest ==
  /\ cycle = <<>> => micro = <<>> /\ pos = 1 /\ ~inTick /\ waiting = 0
  /\ serving = "idle" => cycle = <<>> /\ todo = <<>>

Kind  == cycle[1]
Where == IF cycle[2] = "pc" THEN <<"pc", before.pc>> ELSE <<"at", cycle[2]>>

Moved(i) == AdvanceAt[Kind] < i /\ ~(BackAt[Kind] < i)

CountersNow ==
  /\ pc = IF Moved(pos) THEN (before.pc + 1) % AddrMod ELSE before.pc
  /\ r = IF LatchAt[Kind] + 1 < pos THEN (before.r + 1) % RMod ELSE before.r
  /\ LatchAt[Kind] < pos => lastIR = before.r

Transferred(i) == IF CallAt[Kind] < i
                  THEN Append(before.done, <<Contract!Call[Kind], Where>>) ELSE before.done
Recorded(i)    == IF LatchAt[Kind] + 2 < i
                  THEN Append(Transferred(i), <<"refresh", before.r>>) ELSE Transferred(i)

RecordNow == done = Recorded(pos)

(* The ticks in front of place i of a helper.                               *)
Ticks(k, i) == i - 1 - (IF CallAt[k] < i THEN 1 ELSE 0) - (IF AdvanceAt[k] < i THEN 1 ELSE 0)
                     - (IF BackAt[k] < i THEN 1 ELSE 0) - (IF LatchAt[k] < i THEN 1 ELSE 0)
                     - (IF LatchAt[k] + 1 < i THEN 1 ELSE 0)

(* Waits whose Tick has not been called.                                    *)
Owed == IF inTick /\ waiting > 0 THEN waiting - 1 ELSE waiting

ClockNow ==
  /\ before.waits \in 0 .. waits /\ before.clock \in Nat
  /\ clock = before.clock + Ticks(Kind, pos) + (waits - before.waits) - Owed

(* What the latest Tick has put on the bus.                                 *)
BusNow ==
  /\ pos > 1 => ("RFSH" \in bus.pins <=> LatchAt[Kind] + 2 < pos)
  /\ pos = CallAt[Kind] =>
       /\ bus.addr = Where
       /\ bus.pins \cap Control \in Strobes[Contract!Call[Kind]]
       /\ "WR" \in bus.pins => bus.data = "byte"

InHelper ==
  /\ cycle \in Cycles /\ micro = Helper(cycle[1], cycle[2])
  /\ pos \in 1 .. Length[Kind] + 1
  /\ inTick \/ waiting > 0 => pos > 1
  /\ before.pc \in 0 .. AddrMod - 1 /\ before.r \in 0 .. RMod - 1

CycleInv == cycle # <<>> => InHelper /\ CountersNow /\ RecordNow /\ ClockNow /\ BusNow

BusInv == BusType /\ AtRest /\ CycleInv

LEMMA InitBusInv == Init => BusInv
<1>. SUFFICES ASSUME Init PROVE BusInv
  OBVIOUS
<1>1. todo \in Seq(Cycles)
  BY DEF Init
<1>2. 0 \in 0 .. AddrMod - 1 /\ 0 \in 0 .. RMod - 1 /\ 0 \in 0 .. MaxWait /\ 0 \in 0 .. WaitBound
  BY BusAssumption
<1>3. BusType
  BY <1>1, <1>2 DEF Init, BusType, NoBus, Serving
<1>4. AtRest
  BY DEF Init, AtRest
<1>5. CycleInv
  BY DEF Init, CycleInv
<1>. QED
  BY <1>3, <1>4, <1>5 DEF BusInv

(* The next op of the helper.                                               *)
LEMMA AtPlace ==
  ASSUME BusInv, NEW op, At(op)
  PROVE  /\ cycle # <<>> /\ cycle \in Cycles /\ Kind \in Kinds
         /\ pos \in 1 .. Length[Kind] /\ pos' = pos + 1
         /\ OpAt(Kind, pos) = op /\ Fits(micro[pos], Kind, cycle[2], pos)
         /\ serving # "idle" /\ ~inTick /\ waiting = 0
<1>1. /\ Running /\ ~HelperDone /\ micro[pos].op = op /\ pos' = pos + 1
  BY DEF At
<1>2. cycle # <<>>
  BY <1>1 DEF BusInv, AtRest, HelperDone
<1>3. cycle \in Cycles /\ micro = Helper(cycle[1], cycle[2]) /\ pos \in 1 .. Length[Kind] + 1
  BY <1>2 DEF BusInv, CycleInv, InHelper
<1>4. Kind \in Kinds /\ Runs(micro, Kind, cycle[2])
  BY <1>3, HelperRuns DEF Kind
<1>5. Length[Kind] \in 1 .. 9
  BY <1>4, TablesPlaced DEF Placed
<1>6. pos \in 1 .. Length[Kind]
  BY <1>1, <1>3, <1>4, <1>5 DEF HelperDone, Runs
<1>. QED
  BY <1>1, <1>2, <1>3, <1>4, <1>6 DEF Runs, Fits, Running

----------------------------------------------------------------------------
(* The Steps of the model.                                                  *)

LEMMA Cycle ==
  \A k \in Kinds, a \in Addresses :
     (k # "internal" => (a = "pc" <=> k \in Fetching)) => <<k, a>> \in Cycles
BY DEF Cycles

LEMMA JoinedCycles ==
  ASSUME NEW a \in Seq(Cycles), NEW b \in Seq(Cycles), a # <<>>
  PROVE  a \o b \in Seq(Cycles) /\ a \o b # <<>> /\ (a \o b)[1] = a[1]
BY ConcatProperties, EmptySeq, LenProperties

LEMMA FirstCycles ==
  ASSUME NEW kind \in {"M1", "M1halt", "M1nmi", "ack"}
  PROVE  M1(kind) \in Seq(Cycles) /\ M1(kind) # <<>> /\ M1(kind)[1] = <<kind, "pc">>
<1>1. <<kind, "pc">> \in Cycles
  BY Cycle DEF Kinds, Fetching, Addresses
<1>. QED
  BY <1>1 DEF M1

LEMMA PushCycles == Push \in Seq(Cycles)
BY Cycle DEF Push, Kinds, Fetching, Addresses

LEMMA StepsAreCycles ==
  /\ NmiStep \in Seq(Cycles) /\ NmiStep # <<>> /\ NmiStep[1] = <<"M1nmi", "pc">>
  /\ \A s \in IntSteps : s \in Seq(Cycles) /\ s # <<>> /\ s[1] = <<"ack", "pc">>
  /\ \A s \in InstrSteps : s \in Seq(Cycles) /\ s # <<>>
                            /\ (s[1] = <<"M1", "pc">> \/ s[1] = <<"M1halt", "pc">>)
<1>1. << <<"internal", "pc">> >> \in Seq(Cycles) /\ << <<"internal", "ir">> >> \in Seq(Cycles)
  BY Cycle DEF Kinds, Fetching, Addresses
<1>2. << <<"fetch8", "pc">>, <<"fetch8", "pc">>, <<"read", "nn">> >> \in Seq(Cycles)
  BY Cycle DEF Kinds, Fetching, Addresses
<1>3. << <<"read", "hl">>, <<"internal", "hl">>, <<"write", "hl">> >> \in Seq(Cycles)
  BY Cycle DEF Kinds, Fetching, Addresses
<1>4. /\ << <<"fetch8", "pc">>, <<"ioRead", "port">> >> \in Seq(Cycles)
      /\ << <<"fetch8", "pc">>, <<"ioWrite", "port">> >> \in Seq(Cycles)
      /\ << <<"read", "vec">>, <<"read", "vec+1">> >> \in Seq(Cycles)
  BY Cycle DEF Kinds, Fetching, Addresses
<1>5. << <<"ack8", "pc">>, <<"ack8", "pc">>, <<"internal", "pc">> >> \in Seq(Cycles)
  BY Cycle DEF Kinds, Fetching, Addresses
<1>6. NmiStep \in Seq(Cycles) /\ NmiStep # <<>> /\ NmiStep[1] = <<"M1nmi", "pc">>
  BY <1>1, FirstCycles, PushCycles, JoinedCycles DEF NmiStep
<1>7. ASSUME NEW s \in IntSteps
      PROVE  s \in Seq(Cycles) /\ s # <<>> /\ s[1] = <<"ack", "pc">>
  <2>. DEFINE ack == M1("ack")
              mode1 == << <<"internal", "pc">> >>
              mode2 == << <<"internal", "ir">> >>
              vector == << <<"read", "vec">>, <<"read", "vec+1">> >>
              call == << <<"ack8", "pc">>, <<"ack8", "pc">>, <<"internal", "pc">> >>
  <2>1. s = ack \o mode1 \o Push \/ s = ack \o mode2 \o Push \o vector \/ s = ack \o call \o Push
    BY DEF IntSteps
  <2>2. ack \in Seq(Cycles) /\ ack # <<>> /\ ack[1] = <<"ack", "pc">>
    BY FirstCycles
  <2>3. \A t \in {mode1, mode2, vector, call} : t \in Seq(Cycles)
    BY <1>1, <1>4, <1>5
  <2>. HIDE DEF ack, mode1, mode2, vector, call
  <2>4. CASE s = ack \o mode1 \o Push
    BY <2>2, <2>3, <2>4, PushCycles, JoinedCycles
  <2>5. CASE s = ack \o mode2 \o Push \o vector
    BY <2>2, <2>3, <2>5, PushCycles, JoinedCycles
  <2>6. CASE s = ack \o call \o Push
    BY <2>2, <2>3, <2>6, PushCycles, JoinedCycles
  <2>. QED
    BY <2>1, <2>4, <2>5, <2>6
<1>8. ASSUME NEW s \in InstrSteps
      PROVE  s \in Seq(Cycles) /\ s # <<>> /\ (s[1] = <<"M1", "pc">> \/ s[1] = <<"M1halt", "pc">>)
  <2>. DEFINE fetch == M1("M1")
              load == << <<"fetch8", "pc">>, <<"fetch8", "pc">>, <<"read", "nn">> >>
              modify == << <<"read", "hl">>, <<"internal", "hl">>, <<"write", "hl">> >>
              input == << <<"fetch8", "pc">>, <<"ioRead", "port">> >>
              output == << <<"fetch8", "pc">>, <<"ioWrite", "port">> >>
  <2>1. \/ s = fetch \/ s = M1("M1halt")
        \/ \E t \in {load, modify, input, output} : s = fetch \o t
    BY DEF InstrSteps
  <2>2. fetch \in Seq(Cycles) /\ fetch # <<>> /\ fetch[1] = <<"M1", "pc">>
    BY FirstCycles
  <2>3. \A t \in {load, modify, input, output} : t \in Seq(Cycles)
    BY <1>2, <1>3, <1>4
  <2>4. CASE s = M1("M1halt")
    BY <2>4, FirstCycles
  <2>. HIDE DEF fetch, load, modify, input, output
  <2>. QED
    BY <2>1, <2>2, <2>3, <2>4, JoinedCycles
<1>. QED
  BY <1>6, <1>7, <1>8

----------------------------------------------------------------------------
(* The invariant is kept. *)

(* Between M-cycles.                                                        *)
LEMMA BeginInv ==
  ASSUME BusInv, Begin
  PROVE  BusInv'
<1>1. /\ todo' \in Seq(Cycles) /\ serving' \in Serving /\ serving' # "idle" /\ nmiPending' = FALSE
  BY StepsAreCycles DEF Begin, Serving
<1>2. BusType'
  BY <1>1 DEF Begin, BusInv, BusType, counters
<1>3. AtRest'
  BY <1>1 DEF Begin, BusInv, AtRest
<1>4. cycle' = <<>>
  BY DEF Begin, BusInv, AtRest
<1>. QED
  BY <1>2, <1>3, <1>4 DEF BusInv, CycleInv

LEMMA ReturnInv ==
  ASSUME BusInv, Return
  PROVE  BusInv'
<1>1. BusType'
  <2>1. 0 \in 0 .. WaitBound
    BY BusAssumption
  <2>2. serving' \in Serving /\ enabled' \in BOOLEAN
    BY DEF Return, Serving
  <2>. QED
    BY <2>1, <2>2 DEF Return, BusInv, BusType, counters, NoBus
<1>2. AtRest'
  BY DEF Return, BusInv, AtRest, Running
<1>. QED
  BY <1>1, <1>2 DEF BusInv, CycleInv, Return

LEMMA TicksInt == \A k, i : i \in Nat => Ticks(k, i) \in Int
BY DEF Ticks

LEMMA NoTicks == \A k \in Kinds : Ticks(k, 1) = 0
BY TablesPlaced DEF Ticks, Placed, Never

LEMMA EnterCycleInv ==
  ASSUME BusInv, EnterCycle
  PROVE  BusInv'
<1>1. /\ todo \in Seq(Cycles) /\ todo # <<>>
      /\ cycle' = Head(todo) /\ todo' = Tail(todo) /\ pos' = 1
      /\ micro' = Helper(cycle'[1], cycle'[2]) /\ before' = Now
      /\ serving # "idle" /\ ~inTick /\ waiting = 0
      /\ UNCHANGED <<lines, counters, inTick, waiting, bus, clock, done, waits>>
  BY DEF EnterCycle, Running, BusInv, BusType
<1>2. cycle' \in Cycles /\ todo' \in Seq(Cycles)
  BY <1>1, HeadTailProperties
<1>3. cycle' # <<>> /\ Kind' \in Kinds
  <2>1. cycle' \in Kinds \X Addresses
    BY <1>2 DEF Cycles
  <2>2. Kind' = cycle'[1]
    BY DEF Kind
  <2>. QED
    BY <2>1, <2>2
<1>4. Placed(Kind')
  BY <1>3, TablesPlaced
<1>5. BusType'
  BY <1>1, <1>2 DEF BusInv, BusType, lines, counters
<1>6. AtRest'
  BY <1>1, <1>3 DEF BusInv, AtRest, lines
<1>7. /\ before'.pc = pc /\ before'.r = r /\ before'.done = done
      /\ before'.clock = clock /\ before'.waits = waits
  BY <1>1 DEF Now
<1>8. /\ ~(AdvanceAt[Kind'] < 1) /\ ~(BackAt[Kind'] < 1) /\ ~(LatchAt[Kind'] < 1)
      /\ ~(LatchAt[Kind'] + 1 < 1) /\ ~(LatchAt[Kind'] + 2 < 1) /\ ~(CallAt[Kind'] < 1)
      /\ CallAt[Kind'] # 1 /\ 1 \in 1 .. Length[Kind'] + 1
  BY <1>4 DEF Placed, Never
<1>9. InHelper'
  BY <1>1, <1>2, <1>7, <1>8 DEF BusInv, BusType, InHelper
<1>10. CountersNow'
  BY <1>1, <1>7, <1>8 DEF CountersNow, Moved, counters
<1>11. RecordNow'
  BY <1>1, <1>7, <1>8 DEF RecordNow, Recorded, Transferred
<1>12. BusNow'
  BY <1>1, <1>8 DEF BusNow
<1>13. ClockNow'
  <2>1. Ticks(Kind', 1) = 0
    BY <1>3, NoTicks
  <2>2. Owed' = 0
    BY <1>1 DEF Owed
  <2>. QED
    BY <1>1, <1>7, <2>1, <2>2 DEF BusInv, BusType, ClockNow
<1>. QED
  BY <1>5, <1>6, <1>9, <1>10, <1>11, <1>12, <1>13 DEF BusInv, CycleInv

(* The machine: it changes the lines, or lets a Tick return.                *)
LEMMA LinesInv ==
  ASSUME BusInv, NMI \/ (\E level \in BOOLEAN : SetINT(level)) \/ UNCHANGED vars
  PROVE  BusInv'
<1>1. /\ UNCHANGED <<enabled, serving, counters, schedule, pos, inTick, waiting,
                     bus, clock, done, waits>>
      /\ intLine' \in BOOLEAN /\ nmiPending' \in BOOLEAN
  BY DEF NMI, SetINT, vars, lines, BusInv, BusType
<1>2. BusType'
  BY <1>1 DEF BusInv, BusType, counters, schedule
<1>3. AtRest'
  BY <1>1 DEF BusInv, AtRest, schedule
<1>4. CycleInv'
  BY <1>1 DEF BusInv, CycleInv, InHelper, CountersNow, RecordNow, ClockNow, BusNow, Recorded,
     Transferred, Moved, Owed, Where, Kind, counters, schedule
<1>. QED
  BY <1>2, <1>3, <1>4 DEF BusInv

LEMMA WaitInv ==
  ASSUME BusInv,
         WaitCall \/ \E asked \in 0 .. MaxWait : TickReturn(asked) \/ WaitReturn(asked)
  PROVE  BusInv'
<1>1. /\ UNCHANGED <<lines, counters, schedule, pos, bus, done>>
      /\ inTick \/ waiting > 0
  BY DEF WaitCall, TickReturn, WaitReturn
<1>2. cycle # <<>> /\ serving # "idle"
  BY <1>1 DEF BusInv, AtRest
<1>. DEFINE Passes ==
       /\ waiting' \in 0 .. MaxWait /\ waits' \in 0 .. WaitBound
       /\ clock' \in Nat /\ waits <= waits'
       /\ clock' - clock = (waits' - waits) - (Owed' - Owed)
<1>3. inTick' \in BOOLEAN
  BY DEF WaitCall, TickReturn, WaitReturn
<1>4. Passes
  <2>1. /\ waiting \in 0 .. MaxWait /\ waits \in 0 .. WaitBound
        /\ clock \in Nat /\ inTick \in BOOLEAN
        /\ MaxWait \in Nat /\ WaitBound \in Nat
    BY BusAssumption DEF BusInv, BusType
  <2>2. CASE WaitCall
    BY <2>1, <2>2 DEF WaitCall, Owed
  <2>3. ASSUME NEW asked \in 0 .. MaxWait, TickReturn(asked)
        PROVE  Passes
    <3>1. /\ ~inTick' /\ waiting = 0 /\ waits + asked <= WaitBound
          /\ waiting' = asked /\ waits' = waits + asked /\ clock' = clock
      BY <2>3 DEF TickReturn
    <3>2. Owed = 0 /\ Owed' = asked
      BY <3>1 DEF Owed
    <3>. QED
      BY <2>1, <3>1, <3>2
  <2>4. ASSUME NEW asked \in 0 .. MaxWait, WaitReturn(asked)
        PROVE  Passes
    <3>1. /\ inTick /\ ~inTick' /\ waiting > 0
          /\ waiting' = waiting - 1 /\ waits' = waits /\ clock' = clock
      BY <2>4 DEF WaitReturn
    <3>2. Owed = waiting - 1 /\ Owed' = waiting - 1
      BY <3>1 DEF Owed
    <3>. QED
      BY <2>1, <3>1, <3>2
  <2>. QED
    BY <2>2, <2>3, <2>4
<1>5. BusType'
  BY <1>1, <1>3, <1>4 DEF BusInv, BusType, counters, schedule, lines
<1>6. AtRest'
  BY <1>1, <1>2 DEF AtRest, schedule, lines
<1>7. InHelper' /\ CountersNow' /\ RecordNow' /\ BusNow'
  BY <1>1, <1>2 DEF BusInv, CycleInv, InHelper, CountersNow, RecordNow, BusNow, Recorded,
     Transferred, Moved, Where, Kind, counters, schedule
<1>8. ClockNow'
  <2>1. Ticks(Kind, pos) \in Int
    BY DEF BusInv, BusType, Ticks
  <2>2. Owed \in Int /\ Owed' \in Int
    BY <1>3, <1>4 DEF Owed, BusInv, BusType
  <2>3. ClockNow /\ before' = before /\ Kind' = Kind /\ pos' = pos
    BY <1>1, <1>2 DEF BusInv, CycleInv, Kind, schedule
  <2>4. Ticks(Kind, pos)' = Ticks(Kind, pos)
    BY <2>3 DEF Ticks
  <2>5. /\ waits \in Nat /\ clock \in Nat /\ before.waits \in 0 .. waits /\ before.clock \in Nat
        /\ clock = before.clock + Ticks(Kind, pos) + (waits - before.waits) - Owed
    BY <2>3 DEF ClockNow, BusInv, BusType
  <2>6. waits' \in Nat /\ before.waits \in 0 .. waits'
    BY <1>4, <2>5
  <2>7. clock' = before.clock + Ticks(Kind, pos) + (waits' - before.waits) - Owed'
    <3>1. \A a, b, c, d, e, f, g, h, i \in Int :
             c = a + b + (d - e) - f /\ g - c = (h - d) - (i - f) => g = a + b + (h - e) - i
      OBVIOUS
    <3>. QED
      BY <1>4, <2>1, <2>2, <2>5, <2>6, <3>1
  <2>. QED
    BY <2>3, <2>4, <2>5, <2>6, <2>7 DEF ClockNow
<1>. QED
  BY <1>5, <1>6, <1>7, <1>8 DEF BusInv, CycleInv

(* What changes when pos moves over an op.                                  *)
Passed(x, i) == x < i + 1 <=> x < i

LEMMA PassTick ==
  ASSUME NEW k \in Kinds, NEW i \in 1 .. Length[k], OpAt(k, i) = "tick"
  PROVE  /\ Passed(CallAt[k], i) /\ Passed(AdvanceAt[k], i) /\ Passed(BackAt[k], i)
         /\ Passed(LatchAt[k], i) /\ Passed(LatchAt[k] + 1, i)
         /\ LatchAt[k] + 2 < i + 1 <=> i > LatchAt[k]
         /\ i > LatchAt[k] => i = LatchAt[k] + 2 \/ LatchAt[k] + 2 < i
         /\ i + 1 = CallAt[k] => ~(AdvanceAt[k] < i)
         /\ Ticks(k, i + 1) = Ticks(k, i) + 1
<1>1. Placed(k) /\ i \in 1 .. 9
      /\ i # CallAt[k] /\ i # AdvanceAt[k] /\ i # BackAt[k] /\ i # LatchAt[k] /\ i # LatchAt[k] + 1
  BY TablesPlaced, OpFacts
<1>. QED
  BY <1>1 DEF Placed, Passed, Ticks, Never

LEMMA PassCall ==
  ASSUME NEW k \in Kinds, NEW i \in 1 .. Length[k], OpAt(k, i) \in Calls
  PROVE  /\ i = CallAt[k] /\ Passed(AdvanceAt[k], i) /\ Passed(BackAt[k], i)
         /\ Passed(LatchAt[k], i) /\ Passed(LatchAt[k] + 1, i) /\ Passed(LatchAt[k] + 2, i)
         /\ ~(AdvanceAt[k] < i) /\ ~(LatchAt[k] + 2 < i) /\ Ticks(k, i + 1) = Ticks(k, i)
         /\ i > 1 /\ i + 1 # CallAt[k]
<1>1. Placed(k) /\ i \in 1 .. 9 /\ i = CallAt[k]
  BY TablesPlaced, OpFacts
<1>. QED
  BY <1>1 DEF Placed, Passed, Ticks, Never

LEMMA PassAdvance ==
  ASSUME NEW k \in Kinds, NEW i \in 1 .. Length[k], OpAt(k, i) = "pc++"
  PROVE  /\ i = AdvanceAt[k] /\ Passed(CallAt[k], i) /\ Passed(BackAt[k], i)
         /\ Passed(LatchAt[k], i) /\ Passed(LatchAt[k] + 1, i) /\ Passed(LatchAt[k] + 2, i)
         /\ ~(BackAt[k] < i + 1) /\ Ticks(k, i + 1) = Ticks(k, i)
         /\ i > 1 /\ i + 1 # CallAt[k]
<1>1. Placed(k) /\ i \in 1 .. 9 /\ i = AdvanceAt[k] /\ i # CallAt[k]
  BY TablesPlaced, OpFacts DEF Placed
<1>. QED
  BY <1>1 DEF Placed, Passed, Ticks, Never

LEMMA PassBack ==
  ASSUME NEW k \in Kinds, NEW i \in 1 .. Length[k], OpAt(k, i) = "restorePC"
  PROVE  /\ i = BackAt[k] /\ Passed(CallAt[k], i) /\ Passed(AdvanceAt[k], i)
         /\ Passed(LatchAt[k], i) /\ Passed(LatchAt[k] + 1, i) /\ Passed(LatchAt[k] + 2, i)
         /\ Ticks(k, i + 1) = Ticks(k, i)
         /\ i > 1 /\ i + 1 # CallAt[k]
<1>1. Placed(k) /\ i \in 1 .. 9 /\ i = BackAt[k]
  BY TablesPlaced, OpFacts DEF Placed
<1>. QED
  BY <1>1 DEF Placed, Passed, Ticks, Never

LEMMA PassLatch ==
  ASSUME NEW k \in Kinds, NEW i \in 1 .. Length[k], OpAt(k, i) = "lastIR"
  PROVE  /\ i = LatchAt[k] /\ Passed(CallAt[k], i) /\ Passed(AdvanceAt[k], i)
         /\ Passed(BackAt[k], i) /\ Passed(LatchAt[k] + 1, i) /\ Passed(LatchAt[k] + 2, i)
         /\ ~(LatchAt[k] + 1 < i) /\ Ticks(k, i + 1) = Ticks(k, i)
         /\ i > 1 /\ i + 1 # CallAt[k]
<1>1. Placed(k) /\ i \in 1 .. 9 /\ i = LatchAt[k]
  BY TablesPlaced, OpFacts DEF Placed
<1>. QED
  BY <1>1 DEF Placed, Passed, Ticks, Never

LEMMA PassRefresh ==
  ASSUME NEW k \in Kinds, NEW i \in 1 .. Length[k], OpAt(k, i) = "r++"
  PROVE  /\ i = LatchAt[k] + 1 /\ Passed(CallAt[k], i) /\ Passed(AdvanceAt[k], i)
         /\ Passed(BackAt[k], i) /\ Passed(LatchAt[k], i) /\ Passed(LatchAt[k] + 2, i)
         /\ Ticks(k, i + 1) = Ticks(k, i)
         /\ i > 1 /\ i + 1 # CallAt[k]
<1>1. Placed(k) /\ i \in 1 .. 9 /\ i = LatchAt[k] + 1
  BY TablesPlaced, OpFacts DEF Placed
<1>. QED
  BY <1>1 DEF Placed, Passed, Ticks, Never

(* The effects.                                                             *)
LEMMA TransferInv ==
  ASSUME BusInv, NEW call \in Calls, Transfer(call)
  PROVE  /\ BusInv'
         /\ bus.addr = Where /\ bus.pins \cap Control \in Strobes[call]
         /\ "WR" \in bus.pins => bus.data = "byte"
         /\ done' = Append(done, <<call, bus.addr>>)
<1>1. /\ At(call) /\ done' = Append(done, <<call, Address(IF cycle[2] = "pc" THEN "pc" ELSE "at")>>)
      /\ UNCHANGED <<lines, counters, schedule, inTick, waiting, bus, clock, waits>>
  BY DEF Transfer
<1>2. /\ cycle # <<>> /\ cycle \in Cycles /\ Kind \in Kinds
      /\ pos \in 1 .. Length[Kind] /\ pos' = pos + 1 /\ OpAt(Kind, pos) = call
      /\ serving # "idle" /\ ~inTick /\ waiting = 0
  BY <1>1, AtPlace
<1>3. /\ pos = CallAt[Kind] /\ call = Contract!Call[Kind]
      /\ Passed(AdvanceAt[Kind], pos) /\ Passed(BackAt[Kind], pos) /\ Passed(LatchAt[Kind], pos)
      /\ Passed(LatchAt[Kind] + 1, pos) /\ Passed(LatchAt[Kind] + 2, pos)
      /\ ~(AdvanceAt[Kind] < pos) /\ ~(LatchAt[Kind] + 2 < pos)
      /\ Ticks(Kind, pos + 1) = Ticks(Kind, pos) /\ pos > 1 /\ pos + 1 # CallAt[Kind]
  BY <1>2, PassCall, OpFacts
<1>4. InHelper /\ CountersNow /\ RecordNow /\ ClockNow /\ BusNow
  BY <1>2 DEF BusInv, CycleInv
<1>5. /\ bus.addr = Where /\ bus.pins \cap Control \in Strobes[call]
      /\ "WR" \in bus.pins => bus.data = "byte"
  BY <1>3, <1>4 DEF BusNow
<1>6. Address(IF cycle[2] = "pc" THEN "pc" ELSE "at") = Where
  BY <1>3, <1>4 DEF CountersNow, Moved, Address, Where
<1>7. /\ Kind' = Kind /\ Where' = Where /\ before' = before /\ cycle' = cycle /\ micro' = micro
      /\ pc' = pc /\ r' = r /\ lastIR' = lastIR /\ bus' = bus /\ Owed' = Owed
  BY <1>1 DEF Kind, Where, schedule, counters, Owed
<1>8. BusType' /\ AtRest'
  BY <1>1, <1>2 DEF BusInv, BusType, AtRest, lines, counters, schedule
<1>. DEFINE k == Kind
<1>9. pos \in Nat /\ Length[k] \in 1 .. 9 /\ LatchAt[k] \in Nat /\ AdvanceAt[k] \in Nat
      /\ BackAt[k] \in Nat
  BY <1>2, TablesPlaced DEF Placed, Never
<1>10. /\ CallAt[k] < pos' /\ ~(LatchAt[k] + 2 < pos') /\ ~(LatchAt[k] + 2 < pos)
       /\ ~(CallAt[k] < pos) /\ pos' # CallAt[k] /\ pos' > 1 /\ pos' \in 1 .. Length[k] + 1
       /\ AdvanceAt[k] < pos' <=> AdvanceAt[k] < pos
       /\ BackAt[k] < pos' <=> BackAt[k] < pos
       /\ LatchAt[k] < pos' <=> LatchAt[k] < pos
       /\ LatchAt[k] + 1 < pos' <=> LatchAt[k] + 1 < pos
  <2>1. pos' = pos + 1 /\ pos = CallAt[k] /\ pos > 1 /\ pos \in 1 .. Length[k]
    BY <1>2, <1>3
  <2>2. /\ Passed(AdvanceAt[k], pos) /\ Passed(BackAt[k], pos) /\ Passed(LatchAt[k], pos)
        /\ Passed(LatchAt[k] + 1, pos) /\ Passed(LatchAt[k] + 2, pos) /\ ~(LatchAt[k] + 2 < pos)
    BY <1>3
  <2>. HIDE DEF k
  <2>3. /\ CallAt[k] < pos' /\ ~(CallAt[k] < pos) /\ pos' # CallAt[k] /\ pos' > 1
        /\ pos' \in 1 .. Length[k] + 1
    BY <1>9, <2>1
  <2>4. /\ AdvanceAt[k] < pos' <=> AdvanceAt[k] < pos
        /\ BackAt[k] < pos' <=> BackAt[k] < pos
        /\ LatchAt[k] < pos' <=> LatchAt[k] < pos
        /\ LatchAt[k] + 1 < pos' <=> LatchAt[k] + 1 < pos
        /\ LatchAt[k] + 2 < pos' <=> LatchAt[k] + 2 < pos
    BY <2>1, <2>2 DEF Passed
  <2>. QED
    BY <2>2, <2>3, <2>4
<1>. HIDE DEF k
<1>11. InHelper'
  BY <1>1, <1>4, <1>7, <1>10 DEF InHelper, k
<1>12. CountersNow'
  <2>1. Moved(pos)' <=> Moved(pos)
    BY <1>7, <1>10 DEF Moved, k
  <2>2. pc' = IF Moved(pos)' THEN (before'.pc + 1) % AddrMod ELSE before'.pc
    BY <1>4, <1>7, <2>1 DEF CountersNow
  <2>. QED
    BY <1>4, <1>7, <1>10, <2>2 DEF CountersNow, k
<1>13. RecordNow'
  <2>1. done = before.done
    BY <1>4, <1>10 DEF RecordNow, Recorded, Transferred, k
  <2>2. done' = Append(before.done, <<Contract!Call[k], Where>>)
    BY <1>1, <1>3, <1>6, <2>1 DEF k
  <2>. QED
    BY <1>7, <1>10, <2>2 DEF RecordNow, Recorded, Transferred, k
<1>14. ClockNow'
  <2>1. Ticks(Kind, pos)' = Ticks(Kind, pos)
    BY <1>2, <1>3, <1>7 DEF Ticks
  <2>. QED
    BY <1>1, <1>4, <1>7, <2>1 DEF ClockNow
<1>15. BusNow'
  BY <1>3, <1>4, <1>7, <1>10 DEF BusNow, k
<1>. QED
  BY <1>1, <1>3, <1>5, <1>6, <1>8, <1>11, <1>12, <1>13, <1>14, <1>15 DEF BusInv, CycleInv

(* An effect on the counters leaves the rest of the invariant alone.        *)
LEMMA EffectInv ==
  ASSUME BusInv, NEW op, At(op),
         UNCHANGED <<lines, schedule, inTick, waiting, bus, clock, done, waits>>,
         Passed(CallAt[Kind], pos), Passed(LatchAt[Kind] + 2, pos),
         Ticks(Kind, pos + 1) = Ticks(Kind, pos), pos > 1, pos + 1 # CallAt[Kind],
         pc' \in 0 .. AddrMod - 1, r' \in 0 .. RMod - 1, lastIR' \in 0 .. RMod - 1,
         CountersNow'
  PROVE  BusInv'
<1>1. /\ cycle # <<>> /\ Kind \in Kinds /\ pos \in 1 .. Length[Kind] /\ pos' = pos + 1
      /\ serving # "idle"
  BY AtPlace
<1>2. InHelper /\ RecordNow /\ ClockNow /\ BusNow
  BY <1>1 DEF BusInv, CycleInv
<1>3. /\ Kind' = Kind /\ Where' = Where /\ before' = before /\ cycle' = cycle /\ micro' = micro
      /\ bus' = bus /\ Owed' = Owed
  BY DEF Kind, Where, schedule, Owed
<1>4. BusType' /\ AtRest'
  BY <1>1 DEF BusInv, BusType, AtRest, lines, schedule
<1>. DEFINE k == Kind
<1>5. Length[k] \in 1 .. 9
  BY <1>1, TablesPlaced DEF Placed
<1>6. /\ pos' \in 1 .. Length[k] + 1 /\ pos' > 1 /\ pos' # CallAt[k]
      /\ CallAt[k] < pos' <=> CallAt[k] < pos
      /\ LatchAt[k] + 2 < pos' <=> LatchAt[k] + 2 < pos
  <2>1. Passed(CallAt[k], pos) /\ Passed(LatchAt[k] + 2, pos)
    OBVIOUS
  <2>2. pos \in 1 .. Length[k] /\ pos > 1 /\ pos' = pos + 1 /\ pos + 1 # CallAt[k]
    BY <1>1
  <2>. HIDE DEF k
  <2>. QED
    BY <1>5, <2>1, <2>2 DEF Passed
<1>. HIDE DEF k
<1>7. InHelper'
  BY <1>2, <1>3, <1>6 DEF InHelper, k
<1>8. RecordNow'
  BY <1>2, <1>3, <1>6 DEF RecordNow, Recorded, Transferred, k
<1>9. ClockNow'
  <2>1. Ticks(Kind, pos)' = Ticks(Kind, pos)
    BY <1>1, <1>3 DEF Ticks
  <2>. QED
    BY <1>2, <1>3, <2>1 DEF ClockNow
<1>10. BusNow'
  BY <1>2, <1>3, <1>6 DEF BusNow, k
<1>. QED
  BY <1>4, <1>7, <1>8, <1>9, <1>10 DEF BusInv, CycleInv

LEMMA CountInv ==
  ASSUME BusInv, Count
  PROVE  BusInv'
<1>. DEFINE k == Kind
<1>1. UNCHANGED <<lines, schedule, inTick, waiting, bus, clock, done, waits>>
  BY DEF Count
<1>2. Kind' = Kind /\ before' = before
  BY <1>1 DEF Kind, schedule
<1>3. /\ pc \in 0 .. AddrMod - 1 /\ r \in 0 .. RMod - 1 /\ lastIR \in 0 .. RMod - 1
      /\ \A v \in Int : (v + 1) % AddrMod \in 0 .. AddrMod - 1 /\ IncR(v) \in 0 .. RMod - 1
  BY BusAssumption DEF BusInv, BusType, IncR
<1>4. ASSUME NEW op, At(op)
      PROVE  /\ k \in Kinds /\ pos \in 1 .. Length[k] /\ pos' = pos + 1 /\ OpAt(k, pos) = op
             /\ CountersNow /\ Kind' = k /\ pos \in Nat
             /\ before.pc \in 0 .. AddrMod - 1 /\ before.r \in 0 .. RMod - 1
  BY <1>2, <1>4, AtPlace DEF BusInv, BusType, CycleInv, InHelper
<1>5. CASE At("pc++") /\ pc' = (pc + 1) % AddrMod /\ UNCHANGED <<r, lastIR>>
  <2>1. /\ pos = AdvanceAt[k] /\ Passed(CallAt[k], pos)
        /\ Passed(LatchAt[k], pos) /\ Passed(LatchAt[k] + 1, pos) /\ Passed(LatchAt[k] + 2, pos)
        /\ ~(BackAt[k] < pos + 1) /\ Ticks(k, pos + 1) = Ticks(k, pos)
        /\ pos > 1 /\ pos + 1 # CallAt[k]
    BY <1>4, <1>5, PassAdvance
  <2>2. ~Moved(pos) /\ Moved(pos)'
    BY <1>2, <1>4, <1>5, <2>1 DEF Moved
  <2>3. CountersNow'
    BY <1>2, <1>4, <1>5, <2>1, <2>2 DEF CountersNow, Passed
  <2>. QED
    BY <1>1, <1>3, <1>5, <2>1, <2>3, EffectInv
<1>6. CASE At("restorePC") /\ pc' = before.pc /\ UNCHANGED <<r, lastIR>>
  <2>1. /\ pos = BackAt[k] /\ Passed(CallAt[k], pos)
        /\ Passed(LatchAt[k], pos) /\ Passed(LatchAt[k] + 1, pos) /\ Passed(LatchAt[k] + 2, pos)
        /\ Ticks(k, pos + 1) = Ticks(k, pos) /\ pos > 1 /\ pos + 1 # CallAt[k]
    BY <1>4, <1>6, PassBack
  <2>2. ~(Moved(pos)')
    BY <1>2, <1>4, <1>6, <2>1 DEF Moved
  <2>3. CountersNow'
    BY <1>2, <1>4, <1>6, <2>1, <2>2 DEF CountersNow, Passed
  <2>. QED
    BY <1>1, <1>3, <1>4, <1>6, <2>1, <2>3, EffectInv
<1>7. CASE At("lastIR") /\ lastIR' = r /\ UNCHANGED <<pc, r>>
  <2>1. /\ pos = LatchAt[k] /\ Passed(CallAt[k], pos) /\ Passed(AdvanceAt[k], pos)
        /\ Passed(BackAt[k], pos) /\ Passed(LatchAt[k] + 1, pos) /\ Passed(LatchAt[k] + 2, pos)
        /\ ~(LatchAt[k] + 1 < pos) /\ Ticks(k, pos + 1) = Ticks(k, pos)
        /\ pos > 1 /\ pos + 1 # CallAt[k]
    BY <1>4, <1>7, PassLatch
  <2>2. Moved(pos)' <=> Moved(pos)
    BY <1>2, <1>4, <1>7, <2>1 DEF Moved, Passed
  <2>3. CountersNow'
    BY <1>2, <1>4, <1>7, <2>1, <2>2 DEF CountersNow, Passed
  <2>. QED
    BY <1>1, <1>3, <1>7, <2>1, <2>3, EffectInv
<1>8. CASE At("r++") /\ r' = IncR(r) /\ UNCHANGED <<pc, lastIR>>
  <2>1. /\ pos = LatchAt[k] + 1 /\ Passed(CallAt[k], pos) /\ Passed(AdvanceAt[k], pos)
        /\ Passed(BackAt[k], pos) /\ Passed(LatchAt[k], pos) /\ Passed(LatchAt[k] + 2, pos)
        /\ Ticks(k, pos + 1) = Ticks(k, pos) /\ pos > 1 /\ pos + 1 # CallAt[k]
    BY <1>4, <1>8, PassRefresh
  <2>2. Moved(pos)' <=> Moved(pos)
    BY <1>2, <1>4, <1>8, <2>1 DEF Moved, Passed
  <2>3. r = before.r /\ r' = (before.r + 1) % RMod
    BY <1>4, <1>8, <2>1 DEF CountersNow, IncR
  <2>4. CountersNow'
    BY <1>2, <1>4, <1>8, <2>1, <2>2, <2>3 DEF CountersNow, Passed
  <2>. QED
    BY <1>1, <1>3, <1>8, <2>1, <2>4, EffectInv
<1>. QED
  BY <1>5, <1>6, <1>7, <1>8 DEF Count

(* A T-state of the schedule.                                               *)
LEMMA TickCallInv ==
  ASSUME BusInv, TickCall
  PROVE  BusInv'
<1>. DEFINE k == Kind
            e == micro[pos]
<1>1. /\ cycle # <<>> /\ cycle \in Cycles /\ k \in Kinds /\ pos \in 1 .. Length[k]
      /\ pos' = pos + 1 /\ OpAt(k, pos) = "tick" /\ Fits(e, k, cycle[2], pos)
      /\ e.op = "tick" /\ serving # "idle" /\ ~inTick /\ waiting = 0
  BY AtPlace DEF TickCall, At
<1>2. /\ bus' = [addr |-> Address(e.on), pins |-> e.pins, data |-> e.data]
      /\ clock' = clock + 1 /\ inTick' = TRUE
      /\ done' = IF "RFSH" \in bus'.pins \ bus.pins
                 THEN Append(done, <<"refresh", bus'.addr[2]>>) ELSE done
      /\ UNCHANGED <<lines, counters, schedule, waiting, waits>>
  BY DEF TickCall
<1>3. /\ e.pins \subseteq Control \cup {"M1", "RFSH", "HALTP"}
      /\ "RFSH" \in e.pins <=> pos > LatchAt[k]
      /\ pos = LatchAt[k] + 2 => e.on = "ir"
      /\ pos = CallAt[k] - 1 => /\ e.on = (IF cycle[2] = "pc" THEN "pc" ELSE "at")
                                /\ e.pins \cap Control \in Strobes[Contract!Call[k]]
                                /\ "WR" \in e.pins => e.data = "byte"
  BY <1>1 DEF Fits
<1>4. InHelper /\ CountersNow /\ RecordNow /\ ClockNow /\ BusNow
  BY <1>1 DEF BusInv, CycleInv
<1>5. /\ Kind' = k /\ Where' = Where /\ before' = before /\ cycle' = cycle /\ micro' = micro
      /\ pc' = pc /\ r' = r /\ lastIR' = lastIR /\ waits' = waits /\ waiting' = waiting
      /\ todo' = todo /\ serving' = serving
  BY <1>2 DEF Kind, Where, schedule, counters, lines
<1>6. /\ bus'.addr = Address(e.on) /\ bus'.pins = e.pins /\ bus'.data = e.data
      /\ bus'.addr[2] = IF e.on = "pc" THEN pc ELSE IF e.on = "ir" THEN lastIR ELSE cycle[2]
  BY <1>2 DEF Address
<1>7. /\ Passed(CallAt[k], pos) /\ Passed(AdvanceAt[k], pos) /\ Passed(BackAt[k], pos)
      /\ Passed(LatchAt[k], pos) /\ Passed(LatchAt[k] + 1, pos)
      /\ LatchAt[k] + 2 < pos + 1 <=> pos > LatchAt[k]
      /\ pos > LatchAt[k] => pos = LatchAt[k] + 2 \/ LatchAt[k] + 2 < pos
      /\ pos + 1 = CallAt[k] => ~(AdvanceAt[k] < pos)
      /\ Ticks(k, pos + 1) = Ticks(k, pos) + 1
  BY <1>1, PassTick
<1>8. /\ Length[k] \in 1 .. 9 /\ LatchAt[k] \in Nat /\ CallAt[k] \in Nat /\ LatchAt[k] > 1
      /\ pos \in 1 .. Length[k] /\ pos' = pos + 1
  BY <1>1, TablesPlaced DEF Placed, Never
<1>. HIDE DEF k, e
<1>9. BusType' /\ AtRest'
  <2>1. BusType
    BY DEF BusInv
  <2>2. clock' \in Nat /\ pos' \in Nat /\ inTick' \in BOOLEAN
    BY <1>2, <1>8, <2>1 DEF BusType
  <2>. QED
    BY <1>1, <1>2, <1>3, <1>6, <2>1, <2>2 DEF BusType, AtRest, lines, counters, schedule
<1>10. pos' \in 1 .. Length[k] + 1 /\ pos' > 1
  BY <1>8
<1>11. InHelper'
  BY <1>4, <1>5, <1>10 DEF InHelper, k
<1>12. CountersNow'
  <2>1. Moved(pos)' <=> Moved(pos)
    BY <1>5, <1>7, <1>8 DEF Moved, Passed, k
  <2>2. pc' = IF Moved(pos)' THEN (before'.pc + 1) % AddrMod ELSE before'.pc
    BY <1>4, <1>5, <2>1 DEF CountersNow
  <2>3. (LatchAt[k] + 1 < pos' <=> LatchAt[k] + 1 < pos) /\ (LatchAt[k] < pos' <=> LatchAt[k] < pos)
    BY <1>7, <1>8 DEF Passed
  <2>. QED
    BY <1>4, <1>5, <2>2, <2>3 DEF CountersNow, k
<1>13. RecordNow'
  <2>1. CallAt[k] < pos' <=> CallAt[k] < pos
    BY <1>7, <1>8 DEF Passed
  <2>2. Transferred(pos)' = Transferred(pos)
    BY <1>5, <2>1 DEF Transferred, k
  <2>3. CASE LatchAt[k] + 2 < pos \/ ~(pos > LatchAt[k])
    <3>1. LatchAt[k] + 2 < pos' <=> LatchAt[k] + 2 < pos
      BY <1>7, <1>8, <2>3
    <3>2. done' = done
      BY <1>2, <1>3, <1>4, <1>6, <1>8, <2>3 DEF BusNow, k
    <3>. QED
      BY <1>4, <1>5, <2>2, <3>1, <3>2 DEF RecordNow, Recorded, k
  <2>4. CASE pos = LatchAt[k] + 2
    <3>1. ~(LatchAt[k] + 2 < pos) /\ LatchAt[k] + 2 < pos' /\ LatchAt[k] < pos /\ pos > 1
      BY <1>8, <2>4
    <3>2. bus'.addr[2] = before.r
      BY <1>3, <1>4, <1>6, <2>4, <3>1 DEF CountersNow, k
    <3>3. "RFSH" \in bus'.pins \ bus.pins
      BY <1>3, <1>4, <1>6, <3>1 DEF BusNow, k
    <3>4. done' = Append(done, <<"refresh", before.r>>)
      BY <1>2, <3>2, <3>3
    <3>. QED
      BY <1>4, <1>5, <2>2, <3>1, <3>4 DEF RecordNow, Recorded, k
  <2>. QED
    BY <1>7, <2>3, <2>4
<1>14. ClockNow'
  <2>1. Ticks(Kind, pos)' = Ticks(k, pos) + 1
    BY <1>5, <1>7, <1>8 DEF Ticks
  <2>2. Owed = 0 /\ Owed' = 0
    BY <1>1, <1>5 DEF Owed
  <2>3. /\ before.waits \in 0 .. waits /\ before.clock \in Nat /\ waits \in Int
        /\ clock = before.clock + Ticks(k, pos) + (waits - before.waits) - 0
    BY <1>4, <2>2 DEF ClockNow, BusInv, BusType, k
  <2>4. Ticks(k, pos) \in Int
    BY <1>8, TicksInt
  <2>5. clock' = before.clock + (Ticks(k, pos) + 1) + (waits - before.waits) - 0
    <3>. DEFINE start == before.clock
                ticks == Ticks(k, pos)
                owing == before.waits
    <3>1. /\ start \in Int /\ ticks \in Int /\ owing \in Int /\ waits \in Int
          /\ clock = start + ticks + (waits - owing) - 0 /\ clock' = clock + 1
      BY <1>2, <2>3, <2>4
    <3>. HIDE DEF start, ticks, owing
    <3>2. clock' = start + (ticks + 1) + (waits - owing) - 0
      BY <3>1
    <3>. QED
      BY <3>2 DEF start, ticks, owing
  <2>. QED
    BY <1>5, <2>1, <2>2, <2>3, <2>5 DEF ClockNow
<1>15. BusNow'
  <2>1. "RFSH" \in bus'.pins <=> LatchAt[k] + 2 < pos'
    BY <1>3, <1>6, <1>7, <1>8
  <2>2. ASSUME pos' = CallAt[k]
        PROVE  /\ bus'.addr = Where
               /\ bus'.pins \cap Control \in Strobes[Contract!Call[k]]
               /\ "WR" \in bus'.pins => bus'.data = "byte"
    <3>1. pos = CallAt[k] - 1 /\ ~(AdvanceAt[k] < pos)
      BY <1>7, <1>8, <2>2
    <3>2. pc = before.pc
      BY <1>4, <3>1 DEF CountersNow, Moved, k
    <3>. QED
      BY <1>3, <1>6, <3>1, <3>2 DEF Address, Where
  <2>. QED
    BY <1>5, <2>1, <2>2 DEF BusNow, k
<1>. QED
  BY <1>9, <1>11, <1>12, <1>13, <1>14, <1>15 DEF BusInv, CycleInv

LEMMA BusInvStep ==
  ASSUME BusInv, [Next]_vars
  PROVE  BusInv'
BY BeginInv, ReturnInv, EnterCycleInv, LinesInv, WaitInv, TransferInv, CountInv, TickCallInv
   DEF Next, Cpu, Machine

LEMMA BusInvHolds == Spec => []BusInv
<1>1. BusInv /\ [Next]_vars => BusInv'
  BY BusInvStep
<1>. QED
  BY <1>1, InitBusInv, PTL DEF Spec

(* The domains of the state of cpu.go, and of the machine's record of it.   *)
THEOREM TypesHold == Spec => []TypeOK
<1>1. BusInv => TypeOK
  <2>. SUFFICES ASSUME BusInv PROVE TypeOK
    OBVIOUS
  <2>1. cycle # <<>> => cycle \in Kinds \X Addresses
    BY DEF BusInv, CycleInv, InHelper, Cycles
  <2>2. todo \in Seq(Kinds \X Addresses)
    BY DEF BusInv, BusType, Cycles
  <2>. QED
    BY <2>1, <2>2 DEF BusInv, BusType, TypeOK
<1>. QED
  BY <1>1, BusInvHolds, PTL

(* Every call that moves a byte comes right after a Tick with its strobe    *)
(* and its address, and the byte if it is a write: bus.go's "exact T-state".*)
THEOREM TransferStrobedHolds == Spec => TransferStrobed
<1>. DEFINE Strobed ==
       \A call \in Calls : Transfer(call) =>
         /\ bus.pins \cap Control \in Strobes[call]
         /\ done' = Append(done, <<call, bus.addr>>)
         /\ "WR" \in bus.pins => bus.data = "byte"
<1>1. BusInv /\ [Next]_vars => [Strobed]_vars
  BY TransferInv
<1>. QED
  BY <1>1, BusInvHolds, PTL DEF Spec, TransferStrobed

----------------------------------------------------------------------------
(* The contract: the T-states of an M-cycle are its one step.               *)

LEMMA Joined ==
  ASSUME NEW S, NEW c \in S, NEW s \in Seq(S)
  PROVE  <<c>> \o s # <<>> /\ Head(<<c>> \o s) = c /\ Tail(<<c>> \o s) = s
<1>. DEFINE j == <<c>> \o s
<1>1. <<c>> \in Seq(S) /\ Len(<<c>>) = 1 /\ <<c>>[1] = c
  OBVIOUS
<1>2. Len(s) \in Nat
  BY LenProperties
<1>3. /\ j \in Seq(S) /\ Len(j) = 1 + Len(s)
      /\ \A i \in 1 .. 1 + Len(s) : j[i] = IF i <= 1 THEN <<c>>[i] ELSE s[i - 1]
  BY <1>1, ConcatProperties
<1>. HIDE DEF j
<1>4. j # <<>> /\ Head(j) = c
  BY <1>1, <1>2, <1>3, EmptySeq
<1>5. /\ Tail(j) \in Seq(S) /\ Len(Tail(j)) = Len(s)
      /\ \A i \in 1 .. Len(s) : Tail(j)[i] = j[i + 1]
  <2>1. Tail(j) \in Seq(S) /\ Len(Tail(j)) = Len(j) - 1
        /\ \A i \in 1 .. Len(Tail(j)) : Tail(j)[i] = j[i + 1]
    BY <1>3, <1>4, HeadTailProperties
  <2>. QED
    BY <1>2, <1>3, <2>1
<1>6. \A i \in 1 .. Len(s) : Tail(j)[i] = s[i]
  BY <1>2, <1>3, <1>5
<1>7. Tail(j) = s
  BY <1>5, <1>6, SeqEqual
<1>. QED
  BY <1>4, <1>7 DEF j

LEMMA Parted ==
  ASSUME NEW S, NEW s \in Seq(S), s # <<>>
  PROVE  <<Head(s)>> \o Tail(s) = s
<1>. DEFINE c == Head(s)
            t == Tail(s)
<1>1. /\ c \in S /\ t \in Seq(S) /\ Len(t) = Len(s) - 1
      /\ \A i \in 1 .. Len(t) : t[i] = s[i + 1]
  BY HeadTailProperties
<1>2. c = s[1] /\ Len(s) \in Nat \ {0}
  BY EmptySeq, LenProperties
<1>3. <<c>> \in Seq(S) /\ Len(<<c>>) = 1 /\ <<c>>[1] = c
  BY <1>1
<1>. HIDE DEF c, t
<1>. DEFINE j == <<c>> \o t
<1>4. /\ j \in Seq(S) /\ Len(j) = 1 + Len(t)
      /\ \A i \in 1 .. 1 + Len(t) : j[i] = IF i <= 1 THEN <<c>>[i] ELSE t[i - 1]
  BY <1>1, <1>3, ConcatProperties
<1>. HIDE DEF j
<1>5. Len(j) = Len(s) /\ \A i \in 1 .. Len(j) : j[i] = s[i]
  BY <1>1, <1>2, <1>3, <1>4
<1>6. j = s
  BY <1>4, <1>5, SeqEqual
<1>. QED
  BY <1>6 DEF j, c, t

LEMMA TablesEnd ==
  \A k \in Kinds :
    /\ Ticks(k, Length[k] + 1) = Contract!Nominal[k]
    /\ (AdvanceAt[k] < Length[k] + 1 /\ ~(BackAt[k] < Length[k] + 1)) <=> k \in Contract!Advancing
    /\ LatchAt[k] + 1 < Length[k] + 1 <=> k \in Contract!Refreshing
    /\ LatchAt[k] + 2 < Length[k] + 1 <=> k \in Contract!Refreshing
    /\ CallAt[k] < Length[k] + 1 <=> k \in DOMAIN Contract!Call
    /\ k \in DOMAIN Contract!Call => k # "internal"
    /\ k \in Contract!Advancing \cup {"M1halt", "M1nmi", "ack", "ack8"} <=> k \in Fetching
    /\ k \in DOMAIN Contract!Nominal
BY DEF Kinds, Fetching, Ticks, Length, CallAt, AdvanceAt, BackAt, LatchAt, Never,
       Contract!Nominal, Contract!Advancing, Contract!Refreshing, Contract!Call

(* An M-cycle that is over has done what MCycle says.                       *)
CycleDone ==
  cycle # <<>> /\ ~InCycle =>
    /\ cycle \in Cycles
    /\ clock = before.clock + Contract!Nominal[Kind] + (waits - before.waits)
    /\ waits - before.waits \in 0 .. WaitBound
    /\ waits = before.waits + (waits - before.waits)
    /\ pc = IF Kind \in Contract!Advancing THEN (before.pc + 1) % AddrMod ELSE before.pc
    /\ r = IF Kind \in Contract!Refreshing THEN (before.r + 1) % RMod ELSE before.r
    /\ done = LET moved == IF Kind \in DOMAIN Contract!Call
                           THEN Append(before.done, <<Contract!Call[Kind], Where>>)
                           ELSE before.done
              IN  IF Kind \in Contract!Refreshing
                  THEN Append(moved, <<"refresh", before.r>>) ELSE moved

LEMMA CycleEnds == BusInv => CycleDone
<1>. SUFFICES ASSUME BusInv, cycle # <<>>, ~InCycle PROVE CycleDone
  BY DEF CycleDone
<1>. DEFINE k == Kind
<1>1. InHelper /\ CountersNow /\ RecordNow /\ ClockNow
  BY DEF BusInv, CycleInv
<1>2. cycle \in Cycles /\ k \in Kinds /\ Len(micro) = Length[k]
  BY <1>1, HelperRuns DEF InHelper, Runs, Kind
<1>3. Length[k] \in 1 .. 9
  BY <1>2, TablesPlaced DEF Placed
<1>4. pos = Length[k] + 1
  BY <1>1, <1>2, <1>3 DEF InHelper, InCycle, HelperDone
<1>5. Owed = 0 /\ waits \in 0 .. WaitBound /\ WaitBound \in Nat
  BY BusAssumption DEF BusInv, BusType, Owed, InCycle
<1>6. /\ Ticks(k, pos) = Contract!Nominal[k]
      /\ Moved(pos) <=> k \in Contract!Advancing
      /\ LatchAt[k] + 1 < pos <=> k \in Contract!Refreshing
      /\ LatchAt[k] + 2 < pos <=> k \in Contract!Refreshing
      /\ CallAt[k] < pos <=> k \in DOMAIN Contract!Call
  BY <1>2, <1>4, TablesEnd DEF Moved
<1>7. /\ before.waits \in 0 .. waits /\ before.clock \in Nat
      /\ clock = before.clock + Contract!Nominal[k] + (waits - before.waits) - 0
  BY <1>1, <1>5, <1>6 DEF ClockNow
<1>8. Contract!Nominal[k] \in Int
  BY <1>2 DEF Contract!Nominal, Kinds
<1>. HIDE DEF k
<1>9. /\ clock = before.clock + Contract!Nominal[k] + (waits - before.waits)
      /\ waits - before.waits \in 0 .. WaitBound
      /\ waits = before.waits + (waits - before.waits)
  BY <1>5, <1>7, <1>8
<1>10. /\ pc = IF k \in Contract!Advancing THEN (before.pc + 1) % AddrMod ELSE before.pc
       /\ r = IF k \in Contract!Refreshing THEN (before.r + 1) % RMod ELSE before.r
  BY <1>1, <1>6 DEF CountersNow, k
<1>. DEFINE moved == IF k \in DOMAIN Contract!Call
                     THEN Append(before.done, <<Contract!Call[k], Where>>) ELSE before.done
<1>11. Transferred(pos) = moved
  BY <1>6 DEF Transferred, k
<1>. HIDE DEF moved
<1>12. done = IF k \in Contract!Refreshing
              THEN Append(moved, <<"refresh", before.r>>) ELSE moved
  BY <1>1, <1>6, <1>11 DEF RecordNow, Recorded, k
<1>. QED
  BY <1>2, <1>9, <1>10, <1>12 DEF CycleDone, k, moved

LEMMA InitContract == Init => Contract!Init
<1>. SUFFICES ASSUME Init PROVE Contract!Init
  OBVIOUS
<1>1. ~InCycle
  BY EmptySeq DEF Init, InCycle, HelperDone
<1>. QED
  BY <1>1 DEF Init, Contract!Init, Shown

(* Outside of an M-cycle the contract sees the state itself.                *)
LEMMA Idle ==
  ASSUME BusInv, serving = "idle"
  PROVE  ~InCycle
BY EmptySeq DEF BusInv, AtRest, InCycle, HelperDone

LEMMA LinesContract ==
  ASSUME BusInv, NMI \/ \E level \in BOOLEAN : SetINT(level)
  PROVE  Contract!Next
<1>1. UNCHANGED <<enabled, serving, counters, schedule, pos, inTick, waiting, bus, clock,
                  done, waits>>
  BY DEF NMI, SetINT
<1>2. InCycle' <=> InCycle
  BY <1>1 DEF InCycle, HelperDone, schedule
<1>3. CASE NMI
  <2>1. Contract!NMI
    BY <1>1, <1>2, <1>3 DEF NMI, Contract!NMI, Shown, schedule, counters
  <2>. QED
    BY <2>1 DEF Contract!Next
<1>4. ASSUME NEW level \in BOOLEAN, SetINT(level)
      PROVE  Contract!Next
  <2>1. Contract!SetINT(level)
    BY <1>1, <1>2, <1>4 DEF SetINT, Contract!SetINT, Shown, schedule, counters
  <2>. QED
    BY <2>1 DEF Contract!Next
<1>. QED
  BY <1>3, <1>4

LEMMA BeginContract ==
  ASSUME BusInv, Begin
  PROVE  Contract!Next
<1>1. ~InCycle /\ ~InCycle'
  <2>1. ~InCycle
    BY Idle DEF Begin
  <2>. QED
    BY <2>1 DEF Begin, InCycle, HelperDone
<1>2. /\ todo' \in Seq(Cycles) /\ todo' # <<>>
      /\ todo'[1][1] \in Contract!First[serving']
      /\ serving' = IF nmiPending THEN "nmi" ELSE IF intLine /\ enabled THEN "int" ELSE "instr"
  BY StepsAreCycles DEF Begin, Contract!First
<1>3. todo' \in Seq((DOMAIN Contract!Nominal) \X Contract!Addresses)
  <2>1. Kinds \subseteq DOMAIN Contract!Nominal /\ Addresses = Contract!Addresses
    BY TablesEnd DEF Addresses, Contract!Addresses
  <2>. QED
    BY <1>2, <2>1 DEF Cycles
<1>4. Contract!Begin
  BY <1>1, <1>2, <1>3 DEF Begin, Contract!Begin, Shown, counters
<1>. QED
  BY <1>4 DEF Contract!Next

LEMMA ReturnContract ==
  ASSUME BusInv, Return
  PROVE  Contract!Next
<1>1. ~InCycle /\ ~InCycle'
  BY EmptySeq DEF Return, Running, InCycle, HelperDone
<1>2. Contract!Return
  BY <1>1 DEF Return, Running, Contract!Return, Shown, counters
<1>. QED
  BY <1>2 DEF Contract!Next

(* The start of an M-cycle is not seen.                                     *)
LEMMA EnterCycleContract ==
  ASSUME BusInv, EnterCycle
  PROVE  UNCHANGED Contract!vars
<1>1. /\ ~InCycle /\ todo \in Seq(Cycles) /\ todo # <<>>
      /\ cycle' = Head(todo) /\ todo' = Tail(todo) /\ pos' = 1
      /\ micro' = Helper(cycle'[1], cycle'[2]) /\ before' = Now
      /\ UNCHANGED <<lines, counters, clock, done, waits>>
  BY DEF EnterCycle, Running, InCycle, BusInv, BusType
<1>2. cycle' \in Cycles
  BY <1>1, HeadTailProperties
<1>3. InCycle'
  <2>1. cycle'[1] \in Kinds /\ Len(micro') = Length[cycle'[1]]
    BY <1>1, <1>2, HelperRuns DEF Runs
  <2>2. Length[cycle'[1]] \in 1 .. 9
    BY <2>1, TablesPlaced DEF Placed
  <2>3. pos' = 1 /\ ~(1 > Length[cycle'[1]])
    BY <1>1, <2>2
  <2>4. ~(pos' > Len(micro'))
    BY <2>1, <2>3
  <2>. QED
    BY <2>4 DEF InCycle, HelperDone
<1>4. <<cycle'>> \o todo' = todo
  BY <1>1, Parted
<1>5. /\ before'.pc = pc /\ before'.r = r /\ before'.done = done
      /\ before'.clock = clock /\ before'.waits = waits
  BY <1>1 DEF Now
<1>. QED
  BY <1>1, <1>3, <1>4, <1>5 DEF Contract!vars, Shown, lines, counters

(* A step within an M-cycle is not seen either, but for its last one.       *)
LEMMA CycleContract ==
  ASSUME BusInv, cycle # <<>>, InCycle, CycleDone', UNCHANGED <<lines, schedule>>
  PROVE  [Contract!Next]_(Contract!vars)
<1>1. CASE InCycle'
  BY <1>1 DEF Contract!vars, Shown, lines, schedule
<1>2. CASE ~InCycle'
  <2>. DEFINE more == waits' - before.waits
              c == <<cycle>> \o todo
  <2>1. Kind' = Kind /\ Where' = Where /\ cycle' = cycle /\ before' = before /\ todo' = todo
        /\ UNCHANGED <<intLine, nmiPending, enabled, serving>>
    BY DEF Kind, Where, lines, schedule
  <2>2. /\ cycle \in Cycles
        /\ clock' = before.clock + Contract!Nominal[Kind] + more
        /\ more \in 0 .. WaitBound /\ waits' = before.waits + more
        /\ pc' = IF Kind \in Contract!Advancing THEN (before.pc + 1) % AddrMod ELSE before.pc
        /\ r' = IF Kind \in Contract!Refreshing THEN (before.r + 1) % RMod ELSE before.r
        /\ done' = LET moved == IF Kind \in DOMAIN Contract!Call
                                THEN Append(before.done, <<Contract!Call[Kind], Where>>)
                                ELSE before.done
                   IN  IF Kind \in Contract!Refreshing
                       THEN Append(moved, <<"refresh", before.r>>) ELSE moved
    BY <1>2, <2>1 DEF CycleDone
  <2>3. c # <<>> /\ Head(c) = cycle /\ Tail(c) = todo
    BY <2>2, Joined DEF BusInv, BusType
  <2>4. /\ Kind = cycle[1]
        /\ Kind \in DOMAIN Contract!Call =>
             Where = IF Kind \in Contract!Advancing \cup {"M1halt", "M1nmi", "ack", "ack8"}
                     THEN <<"pc", before.pc>> ELSE <<"at", cycle[2]>>
    BY <2>2, TablesEnd DEF Kind, Where, Cycles
  <2>. HIDE DEF more
  <2>5. Contract!MCycle(more)
    <3>1. /\ Shown(todo, c) = c /\ Shown(todo, c)' = todo
          /\ Shown(pc, before.pc) = before.pc /\ Shown(pc, before.pc)' = pc'
          /\ Shown(r, before.r) = before.r /\ Shown(r, before.r)' = r'
          /\ Shown(done, before.done) = before.done /\ Shown(done, before.done)' = done'
          /\ Shown(clock, before.clock) = before.clock /\ Shown(clock, before.clock)' = clock'
          /\ Shown(waits, before.waits) = before.waits /\ Shown(waits, before.waits)' = waits'
      BY <1>2, <2>1 DEF Shown
    <3>. HIDE DEF c
    <3>2. /\ Head(c)[1] = Kind /\ Head(c)[2] = cycle[2]
      BY <2>3, <2>4
    <3>3. done' = LET where == IF Kind \in Contract!Advancing
                                            \cup {"M1halt", "M1nmi", "ack", "ack8"}
                               THEN <<"pc", before.pc>> ELSE <<"at", cycle[2]>>
                      moved == IF Kind \in DOMAIN Contract!Call
                               THEN Append(before.done, <<Contract!Call[Kind], where>>)
                               ELSE before.done
                  IN  IF Kind \in Contract!Refreshing
                      THEN Append(moved, <<"refresh", before.r>>) ELSE moved
      BY <2>2, <2>4
    <3>. QED
      BY <2>1, <2>2, <2>3, <3>1, <3>2, <3>3 DEF Contract!MCycle, c
  <2>. QED
    BY <2>2, <2>5 DEF Contract!Next
<1>. QED
  BY <1>1, <1>2

LEMMA StepContract ==
  ASSUME BusInv, CycleDone', [Next]_vars
  PROVE  [Contract!Next]_(Contract!vars)
<1>1. CASE Begin
  BY <1>1, BeginContract
<1>2. CASE Return
  BY <1>2, ReturnContract
<1>3. CASE NMI \/ \E level \in BOOLEAN : SetINT(level)
  BY <1>3, LinesContract
<1>4. CASE EnterCycle
  BY <1>4, EnterCycleContract
<1>5. CASE TickCall \/ Count \/ \E call \in Calls : Transfer(call)
  <2>1. \E op : At(op)
    BY <1>5 DEF TickCall, Count, Transfer
  <2>2. cycle # <<>> /\ InCycle
    BY <2>1, AtPlace DEF At, InCycle
  <2>3. UNCHANGED <<lines, schedule>>
    BY <1>5 DEF TickCall, Count, Transfer
  <2>. QED
    BY <2>2, <2>3, CycleContract
<1>6. CASE WaitCall \/ \E asked \in 0 .. MaxWait : TickReturn(asked) \/ WaitReturn(asked)
  <2>1. UNCHANGED <<lines, schedule>> /\ (inTick \/ waiting > 0)
    BY <1>6 DEF WaitCall, TickReturn, WaitReturn
  <2>2. cycle # <<>> /\ InCycle
    BY <2>1 DEF BusInv, AtRest, InCycle
  <2>. QED
    BY <2>1, <2>2, CycleContract
<1>7. CASE UNCHANGED vars
  BY <1>7 DEF vars, Contract!vars, Shown, InCycle, HelperDone, lines, counters, schedule
<1>. QED
  BY <1>1, <1>2, <1>3, <1>4, <1>5, <1>6, <1>7 DEF Next, Cpu, Machine

(* The T-states keep the contract of bus.go: one M-cycle is one step of     *)
(* BusContract, whatever the machine does to the lines in between and       *)
(* however many wait states it asks for.                                    *)
THEOREM ImplementsBus == Spec => KeepsBusContract
<1>1. BusInv => CycleDone
  BY CycleEnds
<1>2. BusInv /\ CycleDone' /\ [Next]_vars => [Contract!Next]_(Contract!vars)
  BY StepContract
<1>. QED
  BY <1>1, <1>2, InitContract, BusInvHolds, PTL DEF Spec, KeepsBusContract, Contract!Spec
=============================================================================
