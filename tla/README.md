# gozilog: specification, model checking and proofs

This directory holds TLA+ specifications of gozilog, a Zilog Z80 CPU core in Go
with two command line tools and an npm binding around it. Paths and line numbers
refer to the repository (`src/` here stands for its root).

## 1. The system

| component | state it keeps | operations | interacts with |
|---|---|---|---|
| CPU core `z80/cpu.go` | registers, IFF1/IFF2, IM, HALT, EI deferral, Q and P latches, index mode and cached displacement, `lastIR`, `im0`, the INT level, the latched NMI, the T-state counter | `Step`, `Run`, `Reset`, `SpecialReset`, `SetINT`, `NMI`, `State`/`SetState` | calls the machine for every memory or I/O transfer, every acknowledge and every T-state; the machine may call `SetINT`/`NMI` back from inside a `Tick` |
| opcode pages `z80/opcodes*.go` | none of their own | one handler per opcode, `exec`'s prefix loop, `execCB`, `execED`, `execIdxCB` | the M-cycle helpers of the core, the flag helpers |
| flags and ALU `z80/flags.go` | F and the `flagsSet` mark | `add8`, `sub8`, `daa`, `add16`, ... | called by the opcode handlers |
| snapshots `z80/state.go` | `State` values | `State`, `SetState` | embedders save and restore a CPU with them |
| bus contract `z80/bus.go` | none | the interfaces `Bus`, `Ticker`, `IntAcker` | implemented by the machine |
| disassembler `z80/disasm` | tables of its own | `Decode` | reads memory, never the CPU; must frame bytes as the CPU does |
| `cmd/zrun` | 64K of RAM and a CPU | `run`, `dump` | drives `Step` until HALT or a T-state limit |
| `cmd/zstep` | RAM, CPU, memory view (`follow`, `anchor`, `memTop`) | the key handler `Update`, `viewTop`, the renderers | drives `Step` from key presses |
| npm binding `bindings/npm` | the shared bootstrap promise; per CPU a RAM and a core | `createZ80`, `load`, `step`, `run`, ... | Go in WebAssembly, called from JavaScript |
| browser demo | one CPU | the same calls from a page | its run loop is in `Drivers`; tests and tools are not modelled, see section 8 |

What is hard here. There is one goroutine and no I/O in the core, so the
difficulty is *reentrancy and sequence*: `SetINT` and `NMI` arrive in the middle
of an instruction, from the clock callback; `Step` keeps latches (`eiPending`,
`q`, `flagsSet`, `idx`, `dispValid`, `lastIR`, `im0`) that one instruction sets
and another must find in a known state, whatever interrupt, prefix run, HALT or
reset came in between; an injected IM 0 instruction executes from another byte
source and must leave no trace; PC is moved by discarded fetches and put back.
Each unit test sets up one instruction from a clean state; the hazards listed in
`PROJECT.json` need several steps of the CPU and the machine.

What makes each component correct:

* core: the sampling contract of `SetINT`/`NMI` (a change made in the middle of a
  Step does not affect it and is seen at the next sample; an edge is accepted exactly
  once; NMI before INT), the EI shadow, IFF1/IFF2 over nested interrupts, PC pushed by an
  acceptance, HALT, Q, the refresh address, the documented length of every Step,
  Step returning, and interrupts being served;
* ALU: each flag formula against arithmetic over the integers, DAA against decimal
  arithmetic;
* block instructions: interrupted between any two units, one does what its atomic form does, its
  flags say at each interruption how far it is, and it comes to its end;
* bus contract: every byte moves at its T-state, behind the strobe and all waits, once; the waits are
  counted; calls from within a Tick disturb nothing;
* snapshots: a restored CPU behaves like the saved one;
* disassembler: it takes the bytes that the CPU takes, and names the register that the handler used;
* zrun and zstep: the limits and views do what their documentation says;
* npm binding: one shared instance, every `createZ80` answered, a loaded program starts, an NMI wakes.

## 2. The modules

| module | what it is |
|---|---|
| `Z80Interrupts` | the abstract contract of the comments of `SetINT`, `NMI`, `Step`, EI, HALT and RETN |
| `Z80Cpu` | the core at M-cycle granularity, with the M-cycle schedule of every opcode class of every page |
| `MCZ80Cpu` | its instance for TLC |
| `Z80CpuProofs` | the inductive invariant and the theorems about `Z80Cpu` |
| `Z80History` | `Z80Cpu` with two history variables: IFF1 before the NMI being handled, R at the start of the Step |
| `MCZ80History` | its instance for TLC |
| `Z80Flags` | bytes, flags, and the tables `szxy` and `parity`, for the two modules that compute them |
| `Z80Alu` | flags.go and the instructions of the opcode pages that compute a result and flags, on 8 and 16-bit words |
| `MCZ80Alu` | the programs and operands it is checked for |
| `Z80AluProofs` | that the results and flags are those of arithmetic, for every operand |
| `BlockOp` | the abstract block instruction: all its transfers in one step |
| `Z80Block` | the sixteen block instructions, a unit at a time, interrupted |
| `MCZ80Block` | the instructions, operands and memory it is checked for |
| `Z80BlockProofs` | that they implement `BlockOp`, for every memory, count and interrupt |
| `BusContract` | the abstract contract of bus.go, one M-cycle at a time |
| `Z80BusCycle` | the T-states of every M-cycle helper, with waits and reentrant calls |
| `Z80BusCycleProofs` | that they keep the contract, for any waits |
| `Z80Snapshot` | a CPU, and a second one restored from it, side by side: two instances of `Z80Cpu` |
| `MCZ80Snapshot` | its instance for TLC |
| `Z80SnapshotProofs` | that the second reproduces the first |
| `Z80Decode` | the disassembler's framing and texts against `Z80Cpu` |
| `MCZ80Decode` | its instance for TLC |
| `Drivers` | the loops around `Step`, composed with `Z80Cpu` |
| `MCDrivers` | its instance for TLC |
| `HarnessProofs` | the theorems about `Z80History`, and about `Drivers` and `Z80Decode`, the programs that run the core |
| `Zstep` | the key handler and the memory view of zstep |
| `MCZstep` | its instance for TLC |
| `ZstepProofs` | the theorems about `Zstep` |
| `NpmBinding` | the shared runtime, its callers, and the methods of their CPUs |
| `NpmBindingProofs` | the theorems about the shared runtime and about `load` |

`Z80Cpu` is the centre: `Drivers`, `Z80Snapshot` and `Z80Decode` extend it, each with what surrounds a
Step in its part of the code, and `Z80History` with what only shows over a whole Step or several. Three detailed specifications implement an abstract one: `Z80Cpu` implements
`Z80Interrupts`, `Z80Block` implements `BlockOp`, `Z80BusCycle` implements `BusContract`.

### `Z80Cpu` and the code

One action is one M-cycle: all its T-states and the Go code up to the next `Tick`
that the machine can see. The machine's `SetINT` and `NMI` are actions that are
always enabled, so they fall between any two M-cycles of a Step. `todo` is the
rest of the Step in progress: the Go call stack of `Step`, as a sequence of
M-cycles and effects. It is empty between two Steps, when the embedder may also
call `Reset` and `SpecialReset`. The T-states of one M-cycle are not told apart:
no field that these properties speak of is read between two Ticks of one M-cycle,
except `intLine` and `nmiPending`, which are read at the sample only.

| code | actions |
|---|---|
| `Step`, its switch and epilogue | `AcceptNMI`, `AcceptINT`, `InjectINT`, `HaltCycle`, `Execute` (one per case; each clears `eiPending` after sampling it), `EndStep` |
| `exec`, `execCB`, `execED`, `execIdxCB` | `FetchPrefix`, `FetchBase`, `FetchCB`, `FetchED`, `FetchPaged`, `Selector` |
| `fetchM1` in `acceptNMI` and `haltCycle`, `intAckM1` | `NmiM1`, `HaltM1`, `IntAckM1` |
| `fetch8` | `Fetch8` |
| `read8`, `write8`, `ioRead`, `ioWrite`, `internal` | `RunCycle` |
| `eaHL` and LD (HL),n, which depend on the index mode | `Resolve`, `CacheDisp` |
| the assignments of the handlers | `SetF`, `LdR`, `SetIM`, `Jump`, `EI`, `DI`, `RETN`, `HALT` |
| `SetINT`, `NMI`, `Reset`, `SpecialReset` | the actions of these names |

An opcode is the class of all opcodes that run through the same M-cycles and
effects (`BaseBody`, `CBBody`, `XCBBody`, `EDBody`); an instruction whose length
depends on a condition or on a counter is two classes. Memory and the
interrupting device are open: a fetch may bring any byte, so self-modifying code,
ROM paging and every program are included. Operand values, the register file, SP, WZ, I and
the bits of F are abstracted: a jump goes anywhere, `LD R,A` stores anything.
The latch P is read by no code of the CPU and left out. The variables `doing`, `ins`,
`pre`, `t`, `pc0` and `last` observe; no CPU action's guard but the counting bound
depends on them, except `doing`, which is the place in `Step`'s switch.

### `Z80History` and the code

The history variables watch and guard nothing: `HistoryNext` is `Next` and `Watch`. `before` takes IFF1 when an NMI is
accepted, unless the handler of another is still under way, whose acceptance has cleared IFF1 already; EI, DI, an
INT and `Reset`, which give IFF1 and IFF2 one new value, end it. `SpecialReset` touches neither flip-flop and
leaves it. `r0` is R when the Step in progress began.

### `Z80Alu` and the code

The functions of `flags.go` are operators that return a result and a set of flags: `Add8`, `Sub8`,
`Add16`, `Daa`, `IncFlags`, `DecFlags`, `Logic`, `ScfCcfXY`, and with them `Rot` and `BitFlags` of the CB page,
`Adc16` and `Sbc16` of the ED page. An action is one instruction, named by its mnemonic; an operand
that is a register, (HL) or a byte of the program is the one variable `m`, since
the handlers compute the same from each (IN and LD A,I too, from the port and from I). `wz` is set by every
instruction here that sets WZ in the code. A behaviour is one short straight-line program
from one initial state: the interesting facts relate an instruction to the ones before it
(DAA after SBC, SCF after POP AF). `setF` and the epilogue of `Step` give Q. The wide Go
integers need no modulus: a sum of a `uint16` of two bytes never wraps, and a difference is
above 0xFF there exactly when it is negative here.

### `Drivers` and the code

`driver` is which loop the program runs: `CPU.Run` counts T-states against a budget that it converts to
`uint64` (`AsUint`); `run` of zrun counts T-states since `New`, stops at HALT and gives up
past `-max`; the loops of the npm binding, of the browser demo and of the keys r and H of zstep count Steps and stop at HALT.
`StepBegins`, `StepRuns` and `StepEnds` are the steps of `Z80Cpu` under the condition of the loop,
`Call` and `Return` its ends, `Disturb` the calls a machine or a user makes meanwhile: `SetINT` and
`NMI` at any point (not in zrun, whose machine has neither), the resets between two calls. The entry
point that zrun sets is left out: memory is open, and no address is special.

### `Zstep` and the code

One action per key of `Update`. `viewTop` is the operator `ViewTop`, and the handlers that change
`follow` first call it with the new value, as the code does. The CPU is an environment here: a key
that runs it leaves any register values and, if it was not halted, maybe HALT.

### `Z80Block` and the code

One action is one Step at the instruction: `execEDBlock` from the fetch of the two bytes to the PC it
leaves, for LDI, CPI, INI, OUTI and their backward and repeating forms, which are bits of the opcode.
`Again` is `c.pc -= 2` with `repeatXY`, `AgainIO` adds `repeatIOFlags`. `Interrupt` stands for any acceptance
between two Steps, and `Return` for the end of its handler, which keeps registers and memory. T-states and WZ
are left out. A job is one instruction with the state it starts from, and the behaviour lasts as
long as its bytes are in memory: a copy may overwrite the instruction that makes it, and the model
follows it to that unit. `BlockAssumption` says what a job is: its PC stands at the two bytes of the
instruction. `Executes` asks for both bytes, as the fetches of `exec` do: a copy that overwrites one of them
ends the job there.

`BlockOp` does the whole job in one step, from closed formulas: which unit stores at an address first, which
byte the source then holds where source and destination overlap, where a search stops. The refinement
mapping shows the registers of the job until its last unit is done and the current ones from then on.

### `Z80BusCycle` and the code

`Helper` gives the ticks and effects of each M-cycle helper in the order of the code; `micro` is the one
that runs and `pos` the place in it. `TickCall` is `tick` up to the call of `Tick`, `TickReturn` its return with the waits asked
for, `WaitCall` and `WaitReturn` the loop over the waits, whose results are ignored. The machine acts while it
has control: inside a Tick, be it of a wait, or between two Steps. What decides which instruction
runs is left open here: a Step is one of nine sequences of M-cycles, which between them run
every helper, with the sample of `Step` in front (`Begin`).

`BusContract` knows M-cycles only: each makes its one transfer, shows its refresh address, moves PC and R,
and adds its T-states and whatever waits were asked for. The mapping shows an M-cycle in progress as not
begun, so that it ends in one abstract step; calls of `SetINT` and `NMI` from the middle of it appear
before that step, and the abstract machine does not look at them until the next sample.

### `Z80Snapshot` and the code

The specification runs `Z80Cpu` until `SaveAndRestore`, which may happen between any two Steps: the
fields of a `State` go to a second CPU, whose other fields hold anything a CPU may have there. From then on
both take the same kind of step with the same byte from the bus and the same calls of the machine.
Each takes the step that its own latches lead to: one that they leave behind wrongly shows in the M-cycles of the two.

The comment of `State` (`z80/state.go:3`) speaks of "every piece of hidden state, sufficient for save
states". The request lines are not among them: `intLine` and `nmiPending` (`z80/cpu.go:47`) are the machine's
to bring along, which is how the model has it (`BringLines`). An embedder that does not call `NMI` again
for an edge that was latched at the save loses it, and `SetState` into a CPU that holds one keeps it.

### `Z80Decode` and the code

The CPU's side is `Z80Cpu`, whose classes are given their opcode bytes (`BaseOpcodes`, `CBOpcodes`, ...; an
assumption that TLC evaluates says that every byte of every page has a class). `stream` collects the bytes
that a Step fetches. The disassembler's side is `Length` and `Text`, from `Decode` and the templates of `tables.go`:
how many operand bytes a template asks for, when a prefix is redundant, and whether a text
names HL, IX, IY, their halves or (IX+d). The rest of the wording is formatting.

### `NpmBinding` and the code

JavaScript runs one thing at a time, so the code between two awaits is one action: `Create` up to the
await of the cached promise, `Load` and `Instantiate` the two that may fail, `Resume` the one of `createZ80`. Each
method of the object that `newCPU` returns is an action. A Step is reduced to what decides whether a CPU
goes on: HALT, the lines, IFF1 and the deferral of EI, as `Z80Interrupts` has them. One call of `run` is a
sequence of such Steps of at most `MaxRun` turns (`Turn`), of which `Runs` keeps the first and the last state.

## 3. The runs

| run | specification | instance | properties |
|---|---|---|---|
| `core` | `Spec` | AddrMod 4, RMod 3, up to 2 counted prefixes, every byte in memory, 18 from the device | type, `IffOrder`, `StepTime`, `AcceptanceKeepsPC`, `RefreshAddress`, `QIsOfPrevious`, `HaltedExecutesNothing`, `InjectionKeepsPC`, `EiShadow`, `KeepsInterruptContract` |
| `history` | `FairHistory` | AddrMod 1, RMod 4, up to 3 counted prefixes, 14 bytes in memory, 8 from the device | `RefreshCounted`, `RetnRestores`, `StepReturns`, `NmiServed`, `IntServed` |
| `injected_ddcb` | `Spec` | AddrMod 3, RMod 2, a device that injects the CB page behind an index prefix | `InjectionKeepsPC`, violated |
| `alu` | `Spec` | see below | `ArithmeticExact`, `CompareOrders`, `DecimalExact`, `WordsChain`, `BitsInPlace`, `IncDecStep`, `LatchesShow` |
| `block` | `FairSpec` | see below | type, `Resumes`, `ImplementsBlockOp`, `Completes` |
| `bus_cycle` | `Spec` | AddrMod 3, RMod 2, up to 2 waits a Tick and 5 a Step | type, `TransferStrobed`, `KeepsBusContract` |
| `decode` | `DecodeSpec` | AddrMod 1, RMod 1, up to 3 counted prefixes, every opcode byte of every page | `FramesStep`, `ShowsWhatRan` |
| `snapshot` | `SnapshotSpec` | AddrMod 2, RMod 2, 15 bytes in memory, 3 from the device | `Reproduces` |
| `drivers` | `FairDriver` | the three kinds of loop, budgets 0, 2 and 9, ten bytes in memory | `StopsInTime`, `CallReturns` |
| `zstep` | `Spec` | 16 addresses in rows of 2, 4 rows shown | `AnchorShown`, `StatusTruthful` |
| `zstep_freeze` | `Spec` | the same | `LeavesFromHere`, violated |
| `npm` | `FairSpec` | two callers, `run` of up to 2 Steps | `SharedRuntime`, `LoadStartsProgram`, `Settles`, `Wakes` |

The bounds and why they are enough. No guard reads PC or R, they are only moved, so four
addresses and three values of R suffice to tell a value moved once or twice too often, or taken back, from one left
alone, and both counters wrap after as many fetches. `MaxPre` bounds the
count of prefixes in an observer and not the prefixes: longer runs of DD and FD are still executed,
their T-states are no longer counted. The core's memory returns every opcode class of every page at every
fetch, so each instruction follows each other one, each interrupt and each reset. Its
device injects the unprefixed and the ED page behind any run of prefixes, and leaves the CB page to `history`
and `injected_ddcb`, since with it `InjectionKeepsPC` does not hold.

`history` keeps the bytes that prolong a Step, move the interrupt enables, halt or set R, and an
opcode of each page with and without an index prefix, from the device too: liveness, RETN and R depend on nothing
else, and on no address. Four values of R are more
than the M1 cycles that any slip adds or loses; a Step makes up to four of them that are counted (two
prefixes and two opcode bytes), so that R wraps within one.

`alu` runs ADC, SBC and CP, and their likes, over every pair of bytes, the former with C clear
and set; DAA after every sum and difference of two packed decimal bytes; INC, DEC and the rotations
over every byte; the nibble rotations, the 16-bit instructions, SCF and CCF over the edges of their nibbles
and bytes, where a carry or a bit can be lost. The flags that an instruction does not read start as one of two
sets. The properties state what the results mean: `ArithmeticExact` integer arithmetic
on unsigned, signed and nibble operands, `DecimalExact` decimal arithmetic, `WordsChain` that a 16-bit instruction is the 8-bit one on the
low and then on the high byte, `BitsInPlace` that RL and RR rotate nine bits and that BIT finds what SET and RES
did. `LatchesShow` is about the two latches that no instruction names: Q, which SCF and CCF show, and WZ, which
BIT n,(HL) shows; the addresses for it end a page or differ from the next page in bits 3 and 5.

`block` has a memory of eight bytes in pages of two, whose numbers differ in the bits 3 and 5 that
`repeatXY` takes. The instruction stands in the middle or across the end of memory; the copies and searches start from
every HL and every BC, zero among them, the copies from every DE too, so that source and destination
overlap in every way, wrap, and run over the instruction; the inputs and outputs from B 0, 1, 3, 17 and 130, with
every parity and half carry on the way. Interrupts come at any number of places of one job. What the
operands of one job hold beyond that does not decide where it goes next.

`bus_cycle`: five waits in a Step let two T-states of one M-cycle ask, and another of the
next; two from one Tick tell a wait ticked again from one counted twice. Addresses other than PC are names,
so that no two of a Step coincide.

`decode` needs no addresses, since the bytes are open. Three prefixes are one that is overridden, one
that is not and one in front of both. Unlike `TestLengthAgainstCPU`, which leaves out the control-flow opcodes because it
measures PC, the run compares the bytes fetched and covers them.

`snapshot` keeps every class that changes the interrupt state, F, R or the index mode, and one of each kind
of internal cycle: what a restored CPU could have wrong is in these.

`npm`: two callers are the first and one that joins it; a third could only do what the second does. Two
Steps of `run` are one that halts and one that must not follow.

`drivers` has the classes of instructions that take short and long, prefixes, EI and HALT; budgets of
0, less than the shortest instruction, and between a first and a second one put
the limit before, inside and after a Step. `used` and `budget` need no bound, since a loop
stops counting once it is past its budget. `zstep` shrinks rows and memory in
proportion; the registers hold both ends of memory and the middle of a row.

`zstep_freeze`: f, pgup and pgdn clear `follow` before they ask `viewTop`
where the view is (`cmd/zstep/main.go:91`, 99, 102), so that the view jumps to where it
was last left, address 0 at first.

Three more places where code and documentation differ, which no run is needed to show. The comment of `acceptINT` (`z80/cpu.go:389-391`)
promises that an instruction injected in IM 0 leaves PC untouched, but an LDIR, CPIR, INIR or OTIR that has to be repeated
runs `c.pc -= 2` (`z80/opcodes_ed.go:240`, 269, 284, 299), also when it is injected: the interrupted
program is then resumed two bytes before the instruction at which it was interrupted, bytes which are not the
block instruction's. A Z80 does the same, so it is the comment that promises too much. A jump
moves PC too, but that is what it is injected for, and `Jumping` exempts the jumps only.
`InjectionKeepsPC` does not exempt the repeat but says what it does to PC, and `core` and the theorem check that. `-max` of zrun says "abort if no HALT after
this many T-states" (`cmd/zrun/main.go:90`), but the limit is looked at between two Steps, and a Step in a memory of DD and FD
bytes does not end. `Run` promises "at least tstates T-states", and with a negative number, already reached,
converts it to a `uint64` and goes on for nearly 2^64 of them (`z80/cpu.go:172`). `BudgetsAssumption` says that
callers pass no negative budget.

`injected_ddcb` shows a defect. The last byte of a DD CB d op instruction is read with
`read8(c.pc)` followed by `c.pc++` (`z80/opcodes_index.go:114`), also when the
instruction is injected: three bytes come from the device and the last one
from the interrupted program, which then resumes one byte too far. The comment of `acceptINT`
promises "all its bytes (prefixes and operands included) supplied by
[IntAcker.IntAck] and PC left untouched".

## 4. Fairness

`Fairness` of `Z80Cpu`, which `FairHistory` adds to the core with its history, is `WF_vars(Step)` and
`SF_vars(FetchPlain)`. The first
says that the embedder keeps calling `Step` and that `Step` is Go code that runs on: all
the drivers of the repository are loops around `Step`. Nothing is assumed of the machine. The second says
that the program executed is not DD/FD bytes for ever: `exec` consumes
them in a loop inside one Step (`z80/opcodes.go:26`), so a memory full of 0xDD really
never returns from `Step`, and without that assumption `StepReturns` is false, in the
model and in the code. Strong fairness is needed because a prefix and a
plain byte are alternatives of every fetch, and the choice is the memory's.
`FairDriver` is the same for a loop that is running: `WF(DriverStep)`, and strong fairness of a fetch that is not a
prefix. `Call` is not fair, so that a loop need not be called.

`Z80Block` has `SF_vars(Step)` and `WF_vars(Return)`: the embedder goes on calling `Step` and handlers return, and
interrupts are not so dense that one is accepted at every return of the one before: the chip, and
the code, always sample after a unit, so that such a machine could keep the instruction from making
progress for ever. `NpmBinding` has weak fairness of each caller's `Load`, `Instantiate` and `Resume`, which the event loop gives
(a download settles, an await of a settled promise resumes), and of its calls of `step`, since without a page that
steps nothing runs. Nothing is assumed of which way a download settles. `alu`, `bus_cycle`, `decode`,
`snapshot` and `zstep` check no liveness.

`IntServed` has its own premise, that again and again a Step ends which was not an EI: an endless run of EI instructions
defers INT for ever, in the code as on the chip. The property is that nothing else does, and in
particular no deferral that outlives the Step it is meant for.

## 5. Theorems

`Z80CpuProofs` proves, for every `AddrMod`, `RMod`, `MaxPre`, vector and choice of
bytes, from the assumptions `ModAssumption`, `VecAssumption` and `BytesAssumption` only:

| theorem | statement |
|---|---|
| `TypeCorrect` | `Spec => []TypeOK` |
| `IffOrderHolds`, `AcceptanceKeepsPCHolds`, `RefreshAddressHolds`, `QIsOfPreviousHolds`, `HaltedExecutesNothingHolds` | `Spec => []P` for the invariants of these names |
| `EiShadowHolds` | `Spec => EiShadow` |
| `ImplementsInterrupts` | `Spec => KeepsInterruptContract`: every step of the core is a step of `Z80Interrupts` or a stutter |
| `StepTimeHolds` | `Spec => []StepTime`: every Step takes the documented T-states |
| `InjectionKeepsPCHolds` | `Spec => []InjectionKeepsPC`, for a device that does not inject the DDCB and FDCB pages |

None of the invariants is inductive alone, because what an action may do depends on where in
a Step it is. `IInv` adds to them:

* `Shape`: which sequences `todo` can be, for each case of `Step`: an opcode fetch and "end"; the
  tail of an instruction body and "end"; one of the acceptance tails. It is what makes the NMI
  tail disjoint from the instruction effects, so that `EI` cannot run in an
  acceptance, and a discarded M1 is followed by nothing that moves PC before the push;
* `EiDeferral`: between two Steps `eiPending` holds exactly when the last Step ended with EI
  (but for a Reset), and never in the middle of a Step before EI's own effect;
* `RefreshFresh`: whenever the first of the rest is an "ir" cycle, R is the successor of `lastIR`,
  stated over all the positions such a cycle can have;
* `InjectionEnds`: `im0` is set exactly while an injected instruction executes;
* `QLatch`: what `flagsSet` means in the middle of a Step.

The file proves `Init => IInv`, `IInv /\ [Next]_vars => IInv'` with one lemma per
part and one step per action, and then each theorem. Lemmas of the form "only these
actions change these variables" (`EnablesSteps`, `PcSteps`, `RefreshSteps`, ...) are
stated once and used by every part.

`StepTimeHolds` rests on `TimeInv`: from the moment the length of a Step is decided, the T-states taken and
those of the operations left (`Left`) make up the documented ones. That moment is the first M1 of a service,
the last opcode fetch of an instruction, or, for those that address (HL), the choice between HL and IX+d
(`Unresolved`); before it only fetches have taken time (`FetchTimes`). The tables are read once: the lemmas
`BaseBodyTakes`, `CBBodyTakes`, `XCBBodyTakes` and `EDBodyTakes` sum every body and compare it with `DocT`.
What the induction adds is that no other path leads to an end of a Step: that a displacement is read exactly
once, that an index mode in force comes from a prefix that was counted, and that `im0` and the mode of
acceptance do not change on the way.

`InjectionKeepsPCHolds` has one hypothesis, `InjectsNoIndexedCB`: that the device does not hold both an index
prefix and CB. The run `injected_ddcb` shows that it is needed, and the theorem that nothing else is. Its
invariant `InjectInv` says that an injected instruction which does not jump has nothing ahead that moves PC, unless it is to
repeat: then PC goes back once (`AheadOfBack`), and nothing after that moves it.

The other proof modules build on it or stand alone:

| module | theorems | assumptions |
|---|---|---|
| `HarnessProofs` | `RetnRestoresHolds`, `RefreshCountedHolds` | those of `Z80Cpu` |
| `HarnessProofs` | `StopsInTimeHolds` | those of `Z80Cpu`, `BudgetsAssumption` |
| `HarnessProofs` | `FramesStepHolds`, `ShowsWhatRanHolds` | those of `Z80Cpu` |
| `Z80SnapshotProofs` | `ReproducesHolds` | those of `Z80Cpu` |
| `Z80BusCycleProofs` | `TransferStrobedHolds`, `ImplementsBus`, `TypesHold` | `BusAssumption` |
| `ZstepProofs` | `AnchorShownHolds`, `StatusTruthfulHolds` | `ViewAssumption` |
| `NpmBindingProofs` | `SharedRuntimeHolds`, `LoadStarts` | `CallersAssumption`, `RunAssumption` |
| `Z80BlockProofs` | `BlockTypes`, `StagesReached`, `InterruptsResume`, `BlockRefines` | `BlockAssumption` |
| `Z80AluProofs` | `AluTypes`, `StagesHold`, `ArithmeticIsExact`, `ComparisonOrders`, `IncDecAreSteps`, `WordsAreTwoBytes`, `DecimalsAreExact`, `BitsStayInPlace`, `LatchesAreShown` | `InputsAssumption` |

`RetnRestoresHolds` rests on `HandlerInv`: while no NMI is being handled IFF1 and IFF2 are equal, and while one is, IFF2
is what `before` says. `RefreshCountedHolds` rests on `CountInv`, that within a Step R is `r0` moved on by
the M1 cycles made so far (`M1sDone`): for an instruction that is not dispatched yet these follow from the prefixes
counted and the page being fetched, which is where `Shape` and `TimeInv` are needed, and behind the dispatch they are those
of its class. `NextMod`, that adding one modulo `RMod` a step at a time adds up, holds for every modulus.

`StopsInTimeHolds` uses the types of the core, which hold under the loops too (`LoopsRunTheCore`), for the
type of the T-states counted. Its invariant `LoopInv` says that a Step in progress was still needed when it
began (`Needed`), and hence that the count was within the budget before the latest Step (`Counted`).

`ReproducesHolds` is a simulation between the two CPUs, `SimInv`: the same place in the same Step, the same lines, the
same fields of a `State`; the latches that `SetState` leaves alone agree while an instruction
executes, because `Execute` and the injection set them first, and `lastIR` agrees behind the M1 of a Step. The
shapes of `todo` that `Z80CpuProofs` proves are what tells that every read of such a latch comes
after it was set. The proof also rests on no T-states being counted between two Steps.

`ImplementsBus` is `Spec => KeepsBusContract`. Tables give the places of the effects in each helper (`CallAt`,
`AdvanceAt`, `BackAt`, `LatchAt`), and `HelperRuns` proves them of the lists that stand for the code. The
invariant `BusInv` says that within an M-cycle every variable is what it was at its start, moved on by the
effects in front of `pos`: the counters, the record of transfers and refreshes, and the clock, which is behind by the
waits whose Tick has not been called (`Owed`). `CycleEnds` reads it at the end of a helper, where it is the
abstract step; every other step within an M-cycle is a stutter. `BusNow` says what the latest Tick has
put on the bus, which gives `TransferStrobedHolds`: a wait changes neither.

`AnchorShownHolds` is arithmetic modulo the size of memory: the row of the anchor is `RowsAbove` rows below the top,
wherever the top wraps. `SharedRuntimeHolds` rests on `BootInv`: only the caller whose promise is cached bootstraps, all who
called await that one promise, and a settled promise stays as it is.

`LoadStarts` rests on the invariant `CpuInv` that a CPU which `load` has just filled is running with its
interrupts off until it takes a Step, whatever is called in between.

`BlockRefines` is `Spec => ImplementsBlockOp`. The inductive invariant (`StagesReached`) is that the state is
`Stage(k)` for some number k of units done: the registers are those of the job moved on by k, the memory or
the port holds the first k transfers, and PC, together with the flags, tells whether another unit follows;
in a handler the address pushed tells it. The memory after k units is defined by `BlockOp`'s closed formula,
so that the induction step compares the formula for k and for k + 1: the cell that the next unit reads may
be one that an earlier unit wrote, and the unit may be the one that writes over the instruction. The last
unit is the abstract step, every other step a stutter. `InterruptsResume` reads `Resumes` off the same
invariant. The run `block` has a memory of eight bytes; the theorems are for every size above two, since in
a memory of two the address behind the instruction is its own.

The theorems of `Z80AluProofs` are for every operand, where the run takes chosen ones for the longer
programs. `Control` says how far a program has come and keeps the operands it started from; `IInv` says
after each instruction of each program what the registers, F, Q and WZ are as functions of those operands
(`Stages`, `Results`). The facts about one operation are lemmas over bytes and words: carries, half carries
and overflows against integer sums, split at the nibbles; parity and the rotations bit by bit, a byte being
the sum of the weights of its bits (`ByteOf`); DAA by its digits, each of which is below ten, so that the
correction of each is decided by its carry. `InputsAssumption` says only that an input is a program and
operands of their widths.

`FramesStepHolds` and `ShowsWhatRanHolds` compare two sets of tables, and hold for prefix runs of any length:
`MaxPre` is any number, and every fetch of a prefix counts. Both follow from one inductive invariant, `FrameInv`
(`FrameInvIsEnough`). It says of a Step in progress that

* the bytes in front of the opcode are prefixes, and the index mode is that of the last one (`Prefixed`, `Mode`); the
  disassembler takes each but that one for redundant, and that one too if the opcode shows nothing in the place of HL;
* before the class of the instruction is known, `todo` is one of a few sequences (`Opening`, `CBOpening`,
  `EDOpening`, `XCBOpening`), and the last bytes taken are those that select the page;
* behind that, the bytes taken and those that the rest of `todo` still takes (`Wants`) are as many as the text of the opcode asks for
  (`BaseRuns`, `CBRuns`, `XCBRuns`, `EDRuns`). Whether (HL) costs a displacement is decided when `eaHL` runs, so
  `Wants` depends on the index mode, and on no displacement having been read yet.

The two sides meet in table lemmas, one per kind of operand: `BaseDry`, `BaseOne`, `BaseTwo`, `BaseAddresses`,
`EDDry`, `EDTwo` and `PagesDry` say what the schedules of the CPU take; `NoOperand`, `ByteOperand`,
`WordOperand`, `MemoryOperand`, `MemoryAndByte`, `EDNothing`, `EDNoOperand` and `EDWordOperand` what the texts
ask for, by the three octal digits of an opcode; `TextShowsRemapped` that the texts name a role of HL
exactly where the handler remaps one. The bound of four bytes in `FramesStep` comes out of the same lemmas. `IInv` of
the core is needed in one place: no prefix counts when a Step begins.

Every safety property that a run checks is proved, `InjectionKeepsPC` under the hypothesis above, but for
`LeavesFromHere`, which the code violates. Model-checked only is liveness
(`StepReturns`, `NmiServed`, `IntServed`, `Completes`, `CallReturns`, `Settles`, `Wakes`), which needs fairness and `ENABLED`, and which the
prover does not handle. What a definition by induction over data computes is not stated: the loops of the code are
actions, and the closed forms of `BlockOp` and `ByteOf` stand in for recursion.

## 6. State of the work

In place: the core and its contract, the ALU, the block instructions, the T-states of the bus, snapshots, the
disassembler's framing, the loops, zstep and the npm binding, with the proofs of section 5. What section 8 lists is
left out on purpose.

## 7. Hazards

`PROJECT.json` lists 39, each at its line, with the properties that would catch it. Two have none: `Run` with a
negative budget, where the code does not do what its comment says (section 3), and the failed download that the
npm binding remembers, so that every later `createZ80` is refused. The model has that refusal, and
`SharedRuntime` and `Settles` hold with it; no documentation promises another attempt.

Two are covered in part. `IntServed` leaves out the endless run of EI (section 4). `Wakes` shows that any call of `step`
serves a latched NMI; a page that only calls `run`, which makes no Step on a halted CPU, never gets so far.

## 8. Not modelled

* The values of loads and exchanges, the register file and SP, and WZ but for what `Z80Alu` checks of it: moves of
  bytes that no control depends on. `Z80Cpu` leaves every value open; `Z80Alu` and `Z80Block` compute those that are hard to get right.
* States that only `SetState` can make (an IM above 2, IFF1 without IFF2, HALT together with the EI deferral):
  `Z80Cpu` starts from `New`, and `Z80Snapshot` restores states that a CPU was in.
* The wording of the disassembler but for the register roles, dumps, terminal rendering and flag parsing are formatting;
  reading files and flags is I/O.
* `write` of the npm binding changes RAM, which the models leave open; `state`, `halted` and `mem` change nothing.
* The browser demo repeats the calls of the npm binding around one CPU; its run loop is in `Drivers`.
* The tests and `tools/check-wasm.sh` were read as documentation.
