----------------------------- MODULE NpmBinding -----------------------------
(***************************************************************************)
(* The npm package: index.js, which downloads and starts one WebAssembly   *)
(* runtime for all callers of createZ80, and the methods of the CPU that   *)
(* each caller gets (bindings/npm/wasm/main.go).                           *)
(*                                                                         *)
(* JavaScript runs one thing at a time, so a method call is one action and *)
(* so is the code between two awaits.  A download may fail, the module may *)
(* be refused, and it may start without registering its constructor.       *)
(*                                                                         *)
(* A CPU is what decides whether it goes on: HALT, the lines, IFF1, the    *)
(* deferral of EI.  One Step is Z80Interrupts taken in one go.  `fresh`    *)
(* observes that load was called and no Step since.  The methods that      *)
(* change none of this (state, halted, mem, write) are left out.           *)
(***************************************************************************)
EXTENDS FiniteSets, Naturals, Sequences

CONSTANTS
  Callers,       \* pieces of a page that call createZ80, each for its own CPU
  None,
  MaxRun         \* bound on the Steps that one call of run asks for

ASSUME CallersAssumption == None \notin Callers
ASSUME RunAssumption == MaxRun \in Nat

VARIABLES
  apiPromise,    \* the cached promise, named after the caller that made it
  boot,          \* how far that caller's bootstrap has come
  caller,        \* where each caller is
  awaits,        \* the promise it waits for
  cpu            \* the CPU it got

vars == <<apiPromise, boot, caller, awaits, cpu>>

Stages == {"none", "loading", "instantiating", "rejected", "broken", "fulfilled"}

(* go.run has been called; "broken": __gozilog_new is missing after it.     *)
Started == {"broken", "fulfilled"}

CPU == [halted : BOOLEAN, nmi : BOOLEAN, int : BOOLEAN, iff : BOOLEAN, ei : BOOLEAN,
        fresh : BOOLEAN]

NewCPU == [halted |-> FALSE, nmi |-> FALSE, int |-> FALSE, iff |-> FALSE, ei |-> FALSE,
           fresh |-> FALSE]

Init ==
  /\ apiPromise = None
  /\ boot = [c \in Callers |-> "none"]
  /\ caller = [c \in Callers |-> "idle"]
  /\ awaits = [c \in Callers |-> None]
  /\ cpu = [c \in Callers |-> NewCPU]

----------------------------------------------------------------------------
(* createZ80 and bootstrap.                                                 *)

Create_Unshared(c) ==                   \* mutant: apiPromise never assigned
  /\ caller[c] \in {"idle", "failed"}
  /\ boot' = [boot EXCEPT ![c] = "loading"]
  /\ awaits' = [awaits EXCEPT ![c] = c]
  /\ caller' = [caller EXCEPT ![c] = "waiting"]
  /\ UNCHANGED <<apiPromise, cpu>>

(* A caller that was refused may call again.                                *)
Create(c) ==
  /\ caller[c] \in {"idle", "failed"}
  /\ IF apiPromise = None
       THEN apiPromise' = c /\ boot' = [boot EXCEPT ![c] = "loading"]
       ELSE UNCHANGED <<apiPromise, boot>>
  /\ awaits' = [awaits EXCEPT ![c] = apiPromise']
  /\ caller' = [caller EXCEPT ![c] = "waiting"]
  /\ UNCHANGED cpu

Load(c) ==                              \* loadWasmBytes
  /\ boot[c] = "loading"
  /\ \E stage \in {"instantiating", "rejected"} : boot' = [boot EXCEPT ![c] = stage]
  /\ UNCHANGED <<apiPromise, caller, awaits, cpu>>

Instantiate(c) ==
  /\ boot[c] = "instantiating"
  /\ \E stage \in {"fulfilled", "broken", "rejected"} : boot' = [boot EXCEPT ![c] = stage]
  /\ UNCHANGED <<apiPromise, caller, awaits, cpu>>

Resume_MakerOnly(c) ==                  \* mutant: a caller that joins is never answered
  /\ caller[c] = "waiting" /\ awaits[c] = c
  /\ \/ boot[c] = "fulfilled" /\ caller' = [caller EXCEPT ![c] = "got"]
     \/ boot[c] \in {"rejected", "broken"} /\ caller' = [caller EXCEPT ![c] = "failed"]
  /\ UNCHANGED <<apiPromise, boot, awaits, cpu>>

(* The await in createZ80 ends; newCPU makes a machine and a CPU.           *)
Resume(c) ==
  /\ caller[c] = "waiting"
  /\ \/ boot[awaits[c]] = "fulfilled" /\ caller' = [caller EXCEPT ![c] = "got"]
     \/ boot[awaits[c]] \in {"rejected", "broken"}
          /\ caller' = [caller EXCEPT ![c] = "failed"]
  /\ UNCHANGED <<apiPromise, boot, awaits, cpu>>

----------------------------------------------------------------------------
(* CPU.Step on one of these CPUs: the states it may leave.                  *)

Cleared(s) == [s EXCEPT !.halted = FALSE, !.iff = FALSE, !.ei = FALSE, !.fresh = FALSE]

IntAcceptable(s) == s.int /\ s.iff /\ ~s.ei

Interrupted(s) == s.nmi \/ IntAcceptable(s)

Stepped(s) ==
  IF s.nmi THEN { [Cleared(s) EXCEPT !.nmi = FALSE] }
  ELSE IF IntAcceptable(s) THEN { Cleared(s) }
  ELSE IF s.halted THEN { [s EXCEPT !.ei = FALSE, !.fresh = FALSE] }
  ELSE { n \in CPU : /\ n.nmi = s.nmi /\ n.int = s.int /\ ~n.fresh
                     /\ n.halted => n.iff = s.iff /\ ~n.ei
                     /\ n.ei => n.iff }

(* A turn of run's loop: it steps a CPU that is not halted.                 *)
Turn(s, t) == ~s.halted /\ t \in Stepped(s)

(* Where a run of at most MaxRun turns starts and where it ends.            *)
Runs == { <<r[1], r[Len(r)]>> :
            r \in { r \in UNION { [1 .. n -> CPU] : n \in 1 .. MaxRun + 1 } :
                     \A i \in 2 .. Len(r) : Turn(r[i - 1], r[i]) } }

SetStateTo(s, halted, iff, ei) ==
  [s EXCEPT !.halted = halted, !.iff = iff, !.ei = ei, !.fresh = FALSE]

----------------------------------------------------------------------------
(* The methods of the object that newCPU returns.                           *)

Becomes(c, s) == /\ cpu' = [cpu EXCEPT ![c] = s]
                 /\ UNCHANGED <<apiPromise, boot, caller, awaits>>

LoadProgram_PCOnly(c) ==                \* mutant: PC and SP set, the rest kept
  Becomes(c, [cpu[c] EXCEPT !.fresh = TRUE])

(* load: SetState of a State that is zero but for PC and SP.                *)
LoadProgram(c) == Becomes(c, [SetStateTo(cpu[c], FALSE, FALSE, FALSE) EXCEPT !.fresh = TRUE])

StepCall_NotHalted(c) ==                \* mutant: guarded as the demo's step is
  ~cpu[c].halted /\ \E s \in Stepped(cpu[c]) : Becomes(c, s)

StepCall(c) == \E s \in Stepped(cpu[c]) : Becomes(c, s)

RunCall(c) == \E s \in CPU : <<cpu[c], s>> \in Runs /\ Becomes(c, s)

SetState(c) == \E halted, iff, ei \in BOOLEAN : Becomes(c, SetStateTo(cpu[c], halted, iff, ei))

SetINT(c) == \E level \in BOOLEAN : Becomes(c, [cpu[c] EXCEPT !.int = level])

NMI(c) == Becomes(c, [cpu[c] EXCEPT !.nmi = TRUE])

Reset(c) == Becomes(c, SetStateTo(cpu[c], FALSE, FALSE, FALSE))

Method(c) ==
  /\ caller[c] = "got"
  /\ LoadProgram(c) \/ StepCall(c) \/ RunCall(c) \/ SetState(c) \/ SetINT(c) \/ NMI(c) \/ Reset(c)

Next == \E c \in Callers : Create(c) \/ Load(c) \/ Instantiate(c) \/ Resume(c) \/ Method(c)

Spec == Init /\ [][Next]_vars

(* The event loop settles every download and resumes every await; the page  *)
(* keeps calling step on each CPU it got.                                   *)
FairSpec ==
  /\ Spec
  /\ \A c \in Callers :
       /\ WF_vars(Load(c)) /\ WF_vars(Instantiate(c)) /\ WF_vars(Resume(c))
       /\ WF_vars(caller[c] = "got" /\ StepCall(c))

----------------------------------------------------------------------------
(* Properties. *)

(* "The WASM module is shared": however many callers ask before the first   *)
(* download ends, one runtime is started; a second one would replace the    *)
(* constructor under the first.  All of them learn how that one came out.   *)
SharedRuntime ==
  /\ Cardinality({ c \in Callers : boot[c] \in Started }) <= 1
  /\ \A c, d \in Callers : ~(caller[c] = "got" /\ caller[d] = "failed")

(* Every createZ80 ends, with a CPU or with an error, also one that joins a *)
(* bootstrap that has failed long ago.                                      *)
Settles == \A c \in Callers : caller[c] = "waiting" ~> caller[c] # "waiting"

(* An NMI is served, also by a CPU that waits in HALT: step must not stop   *)
(* there as run does, which alone never gets such a CPU going.              *)
Wakes == \A c \in Callers : cpu[c].nmi ~> ~cpu[c].nmi

(* After load the first Step executes the program's first instruction,      *)
(* whatever ran on this CPU before: it was halted, had interrupts on, or    *)
(* the INT line is held.  Only an NMI latched before load comes first.      *)
LoadStartsProgram ==
  \A c \in Callers : cpu[c].fresh => /\ ~cpu[c].halted
                                     /\ Interrupted(cpu[c]) => cpu[c].nmi
=============================================================================
