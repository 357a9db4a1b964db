---------------------------- MODULE Z80BusCycle ----------------------------
(***************************************************************************)
(* The T-states of the M-cycles: tick, the helpers of cpu.go that emit     *)
(* them, and a machine that answers with wait states and calls SetINT and  *)
(* NMI back from within a Tick, be it of a wait state.                     *)
(*                                                                         *)
(* An M-cycle is the sequence `micro` of the ticks and effects of its      *)
(* helper, in the order of the code, and `pos` the next one.  A Step is    *)
(* the M-cycles of one of the Steps below.  What decides which instruction *)
(* runs, and when interrupts are enabled, is in Z80Cpu; here it is open.   *)
(***************************************************************************)
EXTENDS Integers, Sequences

CONSTANTS
  AddrMod, RMod,        \* sizes of the address space and of the R counter
  MaxWait,              \* bound: waits that one Tick asks for
  WaitBound             \* bound: waits that the machine asks for in one Step

ASSUME BusAssumption == /\ AddrMod \in Nat \ {0} /\ RMod \in Nat \ {0}
                        /\ MaxWait \in Nat /\ WaitBound \in Nat

VARIABLES
  intLine, nmiPending,  \* as set by SetINT and NMI
  enabled,              \* would an INT be accepted (IFF1, and not after EI)
  serving,              \* what the Step in progress serves
  pc, r, lastIR,
  cycle, micro, todo,   \* the M-cycle in progress, its helper, those to come
  pos,                  \* the place in the helper
  inTick,               \* is the machine in control, called by Tick
  waiting,              \* tick's variable waits: Ticks still owed
  bus,                  \* the arguments of the latest Tick
  clock,                \* T-states of the Step (c.tstates - start)
  done, waits,          \* the machine's record: transfers and refreshes, and
                        \* the wait states it asked for
  before                \* history: pc, r, done, clock, waits at the start of `cycle`

lines    == <<intLine, nmiPending, enabled, serving>>
counters == <<pc, r, lastIR>>
schedule == <<cycle, micro, todo, before>>
vars == <<lines, counters, schedule, pos, inTick, waiting, bus, clock, done, waits>>

----------------------------------------------------------------------------
(* The helpers.  A tick drives an address, pins and perhaps the byte; the   *)
(* address is PC, the latched refresh address or that of the cycle.         *)

Tick(on, pins)     == [op |-> "tick", on |-> on, pins |-> pins, data |-> "none"]
TickData(on, pins) == [op |-> "tick", on |-> on, pins |-> pins, data |-> "byte"]
Do(what)           == [op |-> what]

FetchM1(pins) ==
  LET halt == pins \cap {"HALTP"}
  IN  <<Tick("pc", pins), Tick("pc", pins \cup {"MREQ", "RD"}), Do("MemRead"),
        Do("pc++"), Do("lastIR"), Do("r++"),
        TickData("ir", halt \cup {"RFSH"}), Tick("ir", halt \cup {"RFSH"})>>

IntAckM1 ==
  <<Tick("pc", {"M1"}), Tick("pc", {"M1"}), Tick("pc", {"M1", "IORQ"}), Do("IntAck"),
    TickData("pc", {"M1"}), Do("lastIR"), Do("r++"),
    Tick("ir", {"RFSH"}), Tick("ir", {"RFSH"})>>

Read8(on) == <<Tick(on, {}), Tick(on, {"MREQ", "RD"}), Do("MemRead"), TickData(on, {})>>

Write8_Late ==                          \* mutant: MemWrite after the last T-state
  <<Tick("at", {}), TickData("at", {"MREQ", "WR"}), Tick("at", {}), Do("MemWrite")>>

Write8 == <<Tick("at", {}), TickData("at", {"MREQ", "WR"}), Do("MemWrite"), Tick("at", {})>>

IoRead ==
  <<Tick("at", {}), Tick("at", {}), Tick("at", {"IORQ", "RD"}), Do("IORead"),
    TickData("at", {})>>

IoWrite ==
  <<Tick("at", {}), Tick("at", {}), TickData("at", {"IORQ", "WR"}), Do("IOWrite"),
    Tick("at", {})>>

(* fetch8, from memory and under im0 from the device.                       *)
Fetch8    == Append(Read8("pc"), Do("pc++"))
FetchAck8 == <<Tick("pc", {}), Tick("pc", {"IORQ", "RD"}), Do("IntAck"), TickData("pc", {})>>

Helper(kind, at) ==
  [M1       |-> FetchM1({"M1"}),
   M1halt   |-> Append(FetchM1({"M1", "HALTP"}), Do("restorePC")),
   M1nmi    |-> Append(FetchM1({"M1"}), Do("restorePC")),
   ack      |-> IntAckM1,
   fetch8   |-> Fetch8,
   ack8     |-> FetchAck8,
   read     |-> Read8("at"),
   write    |-> Write8,
   ioRead   |-> IoRead,
   ioWrite  |-> IoWrite,
   internal |-> <<Tick(IF at \in {"pc", "ir"} THEN at ELSE "at", {})>>][kind]

(* Steps that between them run every helper: NOP, LD A,(nn), INC (HL),      *)
(* IN A,(n), OUT (n),A and the halt cycle; NMI; INT in modes 1, 2 and 0,    *)
(* there with a device that injects CALL nn.                                *)
Push == << <<"write", "sp-1">>, <<"write", "sp-2">> >>
M1(kind) == << <<kind, "pc">> >>

InstrSteps ==
  { M1("M1"), M1("M1halt"),
    M1("M1") \o << <<"fetch8", "pc">>, <<"fetch8", "pc">>, <<"read", "nn">> >>,
    M1("M1") \o << <<"read", "hl">>, <<"internal", "hl">>, <<"write", "hl">> >>,
    M1("M1") \o << <<"fetch8", "pc">>, <<"ioRead", "port">> >>,
    M1("M1") \o << <<"fetch8", "pc">>, <<"ioWrite", "port">> >> }

NmiStep  == M1("M1nmi") \o << <<"internal", "ir">> >> \o Push
IntSteps ==
  { M1("ack") \o << <<"internal", "pc">> >> \o Push,
    M1("ack") \o << <<"internal", "ir">> >> \o Push \o << <<"read", "vec">>, <<"read", "vec+1">> >>,
    M1("ack") \o << <<"ack8", "pc">>, <<"ack8", "pc">>, <<"internal", "pc">> >> \o Push }

----------------------------------------------------------------------------
NoBus == [addr |-> <<"at", "none">>, pins |-> {}, data |-> "none"]

Now == [pc |-> pc, r |-> r, done |-> done, clock |-> clock, waits |-> waits]

Init ==
  /\ intLine = FALSE /\ nmiPending = FALSE /\ enabled = FALSE /\ serving = "idle"
  /\ pc = 0 /\ r = 0 /\ lastIR = 0
  /\ cycle = <<>> /\ micro = <<>> /\ pos = 1 /\ todo = <<>>
  /\ inTick = FALSE /\ waiting = 0 /\ bus = NoBus
  /\ clock = 0 /\ done = <<>> /\ waits = 0
  /\ before = Now

(* Step samples the lines, and starts.                                      *)
Begin ==
  /\ serving = "idle"
  /\ IF nmiPending           THEN serving' = "nmi"   /\ todo' = NmiStep
     ELSE IF intLine /\ enabled THEN serving' = "int"   /\ todo' \in IntSteps
     ELSE                         serving' = "instr" /\ todo' \in InstrSteps
  /\ nmiPending' = FALSE
  /\ UNCHANGED <<intLine, enabled, counters, cycle, before, micro, pos, inTick, waiting,
                 bus, clock, done, waits>>

HelperDone == pos > Len(micro)
InCycle == ~HelperDone \/ inTick \/ waiting > 0
Running == serving # "idle" /\ ~inTick /\ waiting = 0

EnterCycle ==
  /\ Running /\ HelperDone /\ todo # <<>>
  /\ cycle' = Head(todo) /\ todo' = Tail(todo)
  /\ micro' = Helper(cycle'[1], cycle'[2]) /\ pos' = 1 /\ before' = Now
  /\ UNCHANGED <<lines, counters, inTick, waiting, bus, clock, done, waits>>

At(op) == Running /\ ~HelperDone /\ micro[pos].op = op /\ pos' = pos + 1

Address(on) ==
  <<on, IF on = "pc" THEN pc ELSE IF on = "ir" THEN lastIR ELSE cycle[2]>>

(* A T-state: the counter, and the call of Tick.                            *)
TickCall ==
  /\ At("tick")
  /\ bus' = [addr |-> Address(micro[pos].on), pins |-> micro[pos].pins,
             data |-> micro[pos].data]
  /\ clock' = clock + 1 /\ inTick' = TRUE
  /\ done' = IF "RFSH" \in bus'.pins \ bus.pins
             THEN Append(done, <<"refresh", bus'.addr[2]>>) ELSE done
  /\ UNCHANGED <<lines, counters, schedule, waiting, waits>>

(* The machine, in a Tick or between two Steps.                             *)
MayCall == inTick \/ serving = "idle"

SetINT(level) ==
  /\ MayCall /\ intLine' = level
  /\ UNCHANGED <<nmiPending, enabled, serving, counters, schedule, pos, inTick, waiting,
                 bus, clock, done, waits>>

NMI ==
  /\ MayCall /\ nmiPending' = TRUE
  /\ UNCHANGED <<intLine, enabled, serving, counters, schedule, pos, inTick, waiting,
                 bus, clock, done, waits>>

(* Tick returns.  The waits it asks for are heeded in a T-state of the      *)
(* schedule and ignored in a wait state.                                    *)
TickReturn(asked) ==
  /\ inTick /\ inTick' = FALSE
  /\ waiting = 0 /\ waits + asked <= WaitBound
  /\ waiting' = asked /\ waits' = waits + asked
  /\ UNCHANGED <<lines, counters, schedule, pos, bus, clock, done>>

WaitReturn_Heeded(asked) ==             \* mutant: waits += the return value
  /\ inTick /\ inTick' = FALSE
  /\ waiting > 0 /\ waiting' = (waiting - 1) + asked
  /\ clock < 40
  /\ UNCHANGED <<lines, counters, schedule, pos, bus, clock, done, waits>>

WaitReturn(asked) ==
  /\ inTick /\ inTick' = FALSE
  /\ waiting > 0 /\ waiting' = waiting - 1
  /\ UNCHANGED <<lines, counters, schedule, pos, bus, clock, done, waits>>

WaitCall ==
  /\ waiting > 0 /\ ~inTick
  /\ clock' = clock + 1 /\ inTick' = TRUE
  /\ UNCHANGED <<lines, counters, schedule, pos, waiting, bus, done, waits>>

IncR_Unmasked(v) == v + 1               \* mutant: the & 0x7F forgotten
IncR(v) == (v + 1) % RMod

(* A call that moves a byte.  Its address is the cycle's own.               *)
Transfer(call) ==
  /\ At(call)
  /\ done' = Append(done, <<call, Address(IF cycle[2] = "pc" THEN "pc" ELSE "at")>>)
  /\ UNCHANGED <<lines, counters, schedule, inTick, waiting, bus, clock, waits>>

Count ==
  /\ \/ At("pc++")      /\ pc' = (pc + 1) % AddrMod /\ UNCHANGED <<r, lastIR>>
     \/ At("restorePC") /\ pc' = before.pc          /\ UNCHANGED <<r, lastIR>>
     \/ At("lastIR")    /\ lastIR' = r              /\ UNCHANGED <<pc, r>>
     \/ At("r++")       /\ r' = IncR(r)             /\ UNCHANGED <<pc, lastIR>>
  /\ UNCHANGED <<lines, schedule, inTick, waiting, bus, clock, done, waits>>

(* Step returns its T-states.  An instruction may have enabled interrupts.  *)
Return ==
  /\ Running /\ HelperDone /\ todo = <<>>
  /\ serving' = "idle" /\ cycle' = <<>> /\ micro' = <<>> /\ pos' = 1
  /\ enabled' \in IF serving = "instr" THEN BOOLEAN ELSE {FALSE}
  /\ clock' = 0 /\ done' = <<>> /\ waits' = 0 /\ bus' = NoBus
  /\ before' = [Now EXCEPT !.done = <<>>, !.clock = 0, !.waits = 0]
  /\ UNCHANGED <<intLine, nmiPending, counters, todo, inTick, waiting>>

Calls == {"MemRead", "MemWrite", "IORead", "IOWrite", "IntAck"}

Cpu == Begin \/ EnterCycle \/ TickCall \/ WaitCall \/ Count \/ Return
         \/ \E call \in Calls : Transfer(call)

Machine == (\E level \in BOOLEAN : SetINT(level)) \/ NMI
             \/ \E asked \in 0 .. MaxWait : TickReturn(asked) \/ WaitReturn(asked)

Next == Cpu \/ Machine

Spec == Init /\ [][Next]_vars

----------------------------------------------------------------------------
(* Properties. *)

Kinds   == {"M1", "M1halt", "M1nmi", "ack", "fetch8", "ack8", "read", "write",
            "ioRead", "ioWrite", "internal"}
Addresses == {"pc", "ir", "hl", "nn", "port", "sp-1", "sp-2", "vec", "vec+1"}
Serving == {"idle", "nmi", "int", "instr"}
Control == {"MREQ", "IORQ", "RD", "WR"}

TypeOK ==
  /\ intLine \in BOOLEAN /\ nmiPending \in BOOLEAN /\ enabled \in BOOLEAN
  /\ serving \in Serving /\ inTick \in BOOLEAN
  /\ pc \in 0 .. AddrMod - 1 /\ r \in 0 .. RMod - 1 /\ lastIR \in 0 .. RMod - 1
  /\ cycle = <<>> \/ cycle \in Kinds \X Addresses
  /\ todo \in Seq(Kinds \X Addresses)
  /\ bus.pins \subseteq Control \cup {"M1", "RFSH", "HALTP"}
  /\ waiting \in 0 .. MaxWait /\ waits \in 0 .. WaitBound /\ clock \in Nat

Strobes == [MemRead  |-> {{"MREQ", "RD"}},
            MemWrite |-> {{"MREQ", "WR"}},
            IORead   |-> {{"IORQ", "RD"}},
            IOWrite  |-> {{"IORQ", "WR"}},
            IntAck   |-> {{"IORQ"}, {"IORQ", "RD"}}]

(* The machine is called "at the exact T-state the real Z80 samples or      *)
(* drives the data bus" (bus.go): right after a Tick with the strobe and    *)
(* the address of the transfer, and the byte on the bus if it is a write,   *)
(* once every wait state that it asked for in that Tick is over.            *)
TransferStrobed ==
  [][\A call \in Calls : Transfer(call) =>
       /\ bus.pins \cap Control \in Strobes[call]
       /\ done' = Append(done, <<call, bus.addr>>)
       /\ "WR" \in bus.pins => bus.data = "byte"]_vars

(* Seen one M-cycle at a time, the T-states keep the contract: the          *)
(* transfers and refreshes of a Step, each once and in order, its nominal   *)
(* T-states plus exactly the waits asked for, and a Step that is left alone *)
(* by what the machine did to the lines in the middle of any M-cycle.       *)
Shown(now, then) == IF InCycle THEN then ELSE now

Contract == INSTANCE BusContract WITH
              todo <- Shown(todo, <<cycle>> \o todo),
              pc <- Shown(pc, before.pc), r <- Shown(r, before.r),
              done <- Shown(done, before.done), t <- Shown(clock, before.clock),
              waits <- Shown(waits, before.waits)

KeepsBusContract == Contract!Spec
=============================================================================
