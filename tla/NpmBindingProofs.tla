-------------------------- MODULE NpmBindingProofs --------------------------
(***************************************************************************)
(* The shared runtime of the npm package and the CPUs of its callers, for  *)
(* any number of callers and runs of any length.                           *)
(***************************************************************************)
EXTENDS NpmBinding, FiniteSetTheorems, TLAPS

Places == {"idle", "waiting", "got", "failed"}

BootType ==
  /\ apiPromise \in Callers \cup {None}
  /\ boot \in [Callers -> Stages] /\ caller \in [Callers -> Places]
  /\ awaits \in [Callers -> Callers \cup {None}]

(* Only the caller whose promise is cached ever bootstraps.                 *)
OneBootstrap == \A c \in Callers : boot[c] # "none" => apiPromise = c

(* Whoever called createZ80 awaits the cached promise, from the first call  *)
(* on the same one.                                                         *)
OnePromise == \A c \in Callers : caller[c] # "idle" => apiPromise \in Callers /\ awaits[c] = apiPromise

(* A settled promise stays as it is, and so does the answer.                *)
Answers ==
  \A c \in Callers : /\ caller[c] = "got" => boot[apiPromise] = "fulfilled"
                     /\ caller[c] = "failed" => boot[apiPromise] \in {"rejected", "broken"}

BootInv == BootType /\ OneBootstrap /\ OnePromise /\ Answers

----------------------------------------------------------------------------
LEMMA InitBootInv == Init => BootInv
BY DEF Init, BootInv, BootType, OneBootstrap, OnePromise, Answers, Stages, Places

(* The methods of a CPU leave the bootstrap alone.                          *)
LEMMA MethodsKeepBoot ==
  ASSUME NEW c \in Callers, Method(c)
  PROVE  UNCHANGED <<apiPromise, boot, caller, awaits>>
BY DEF Method, LoadProgram, StepCall, RunCall, SetState, SetINT, NMI, Reset, Becomes

(* The first caller makes the promise, when no other has called yet.        *)
LEMMA CreateStep ==
  ASSUME BootInv, NEW c \in Callers, Create(c)
  PROVE  BootInv'
<1>1. /\ caller[c] \in {"idle", "failed"}
      /\ caller' = [caller EXCEPT ![c] = "waiting"] /\ awaits' = [awaits EXCEPT ![c] = apiPromise']
  BY DEF Create
<1>2. CASE apiPromise = None
  <2>1. apiPromise' = c /\ boot' = [boot EXCEPT ![c] = "loading"]
    BY <1>2 DEF Create
  <2>2. \A d \in Callers : boot[d] = "none" /\ caller[d] = "idle"
    BY <1>2, CallersAssumption DEF BootInv, OneBootstrap, OnePromise
  <2>3. BootType'
    BY <1>1, <2>1 DEF BootInv, BootType, Stages, Places
  <2>4. OneBootstrap' /\ OnePromise' /\ Answers'
    BY <1>1, <2>1, <2>2 DEF BootInv, BootType, OneBootstrap, OnePromise, Answers
  <2>. QED
    BY <2>3, <2>4 DEF BootInv
<1>3. CASE apiPromise # None
  <2>1. UNCHANGED <<apiPromise, boot>>
    BY <1>3 DEF Create
  <2>2. apiPromise \in Callers
    BY <1>1, <1>3 DEF BootInv, BootType, OneBootstrap, OnePromise
  <2>3. BootType'
    BY <1>1, <2>1, <2>2 DEF BootInv, BootType, Stages, Places
  <2>. QED
    BY <1>1, <2>1, <2>2, <2>3 DEF BootInv, BootType, OneBootstrap, OnePromise, Answers
<1>. QED
  BY <1>2, <1>3

LEMMA SettleStep ==
  ASSUME BootInv, NEW c \in Callers, Load(c) \/ Instantiate(c)
  PROVE  BootInv'
<1>1. /\ boot[c] \in {"loading", "instantiating"}
      /\ \E stage \in Stages \ {"none"} : boot' = [boot EXCEPT ![c] = stage]
      /\ UNCHANGED <<apiPromise, caller, awaits>>
  BY DEF Load, Instantiate, Stages
<1>2. apiPromise = c
  BY <1>1 DEF BootInv, OneBootstrap
<1>. QED
  BY <1>1, <1>2 DEF BootInv, BootType, OneBootstrap, OnePromise, Answers

LEMMA ResumeStep ==
  ASSUME BootInv, NEW c \in Callers, Resume(c)
  PROVE  BootInv'
<1>1. /\ caller[c] = "waiting" /\ UNCHANGED <<apiPromise, boot, awaits>>
      /\ \/ boot[awaits[c]] = "fulfilled" /\ caller' = [caller EXCEPT ![c] = "got"]
         \/ boot[awaits[c]] \in {"rejected", "broken"} /\ caller' = [caller EXCEPT ![c] = "failed"]
  BY DEF Resume
<1>2. awaits[c] = apiPromise
  BY <1>1 DEF BootInv, OnePromise
<1>. QED
  BY <1>1, <1>2 DEF BootInv, BootType, OneBootstrap, OnePromise, Answers, Places

LEMMA BootInvStep == BootInv /\ [Next]_vars => BootInv'
<1>. SUFFICES ASSUME BootInv, [Next]_vars PROVE BootInv'
  OBVIOUS
<1>1. ASSUME NEW c \in Callers, Method(c) PROVE BootInv'
  BY <1>1, MethodsKeepBoot DEF BootInv, BootType, OneBootstrap, OnePromise, Answers
<1>2. CASE UNCHANGED vars
  BY <1>2 DEF vars, BootInv, BootType, OneBootstrap, OnePromise, Answers
<1>. QED
  BY <1>1, <1>2, CreateStep, SettleStep, ResumeStep DEF Next

(* However many callers ask, and whenever, at most one runtime is started,  *)
(* and no two of them get a different answer.                               *)
THEOREM SharedRuntimeHolds == Spec => []SharedRuntime
<1>1. BootInv => SharedRuntime
  <2>. SUFFICES ASSUME BootInv PROVE SharedRuntime
    OBVIOUS
  <2>. DEFINE S == { c \in Callers : boot[c] \in Started }
  <2>1. S = {} \/ S = {apiPromise}
    BY DEF BootInv, OneBootstrap, Started
  <2>2. Cardinality(S) <= 1
    BY <2>1, FS_EmptySet, FS_Singleton
  <2>3. \A c, d \in Callers : ~(caller[c] = "got" /\ caller[d] = "failed")
    BY DEF BootInv, Answers
  <2>. QED
    BY <2>2, <2>3 DEF SharedRuntime
<1>. QED
  BY <1>1, InitBootInv, BootInvStep, PTL DEF Spec

----------------------------------------------------------------------------
(* What a caller does with its CPU.                                         *)

(* The CPU of a fresh load runs, with interrupts off; the lines may be      *)
(* raised after it, the flip-flop only by a Step, which ends the freshness. *)
CpuInv ==
  /\ cpu \in [Callers -> CPU]
  /\ \A c \in Callers : cpu[c].fresh => ~cpu[c].halted /\ ~cpu[c].iff

LEMMA InitCpuInv == Init => CpuInv
BY DEF Init, CpuInv, CPU, NewCPU

LEMMA SetStateToCPU ==
  ASSUME NEW s \in CPU, NEW halted \in BOOLEAN, NEW iff \in BOOLEAN, NEW ei \in BOOLEAN
  PROVE  /\ SetStateTo(s, halted, iff, ei) \in CPU
         /\ SetStateTo(s, halted, iff, ei).halted = halted
         /\ SetStateTo(s, halted, iff, ei).iff = iff
         /\ ~SetStateTo(s, halted, iff, ei).fresh
BY DEF SetStateTo, CPU

(* No Step leaves a CPU fresh.                                              *)
LEMMA SteppedCPU ==
  ASSUME NEW s \in CPU, NEW t \in Stepped(s)
  PROVE  t \in CPU /\ ~t.fresh
<1>1. CASE s.nmi
  BY <1>1 DEF Stepped, Cleared, CPU
<1>2. CASE ~s.nmi /\ IntAcceptable(s)
  BY <1>2 DEF Stepped, Cleared, CPU
<1>3. CASE ~s.nmi /\ ~IntAcceptable(s) /\ s.halted
  BY <1>3 DEF Stepped, CPU
<1>4. CASE ~s.nmi /\ ~IntAcceptable(s) /\ ~s.halted
  BY <1>4 DEF Stepped
<1>. QED
  BY <1>1, <1>2, <1>3, <1>4

(* Nor does a run that makes a turn.                                        *)
LEMMA RunCPU ==
  ASSUME NEW s \in CPU, NEW t \in CPU, <<s, t>> \in Runs
  PROVE  t = s \/ ~t.fresh
<1>1. PICK n \in 1 .. MaxRun + 1 : \E r \in [1 .. n -> CPU] :
        /\ <<s, t>> = <<r[1], r[Len(r)]>>
        /\ \A i \in 2 .. Len(r) : Turn(r[i - 1], r[i])
  BY DEF Runs
<1>. PICK r \in [1 .. n -> CPU] :
        /\ <<s, t>> = <<r[1], r[Len(r)]>>
        /\ \A i \in 2 .. Len(r) : Turn(r[i - 1], r[i])
  BY <1>1
<1>2. Len(r) = n /\ n \in Nat /\ n >= 1
  BY <1>1, RunAssumption
<1>3. CASE n = 1
  BY <1>1, <1>2, <1>3
<1>4. CASE n > 1
  <2>1. r[n - 1] \in CPU /\ r[n] \in Stepped(r[n - 1])
    BY <1>1, <1>2, <1>4 DEF Turn
  <2>. QED
    BY <1>1, <1>2, <2>1, SteppedCPU
<1>. QED
  BY <1>2, <1>3, <1>4

LEMMA MethodKeepsCpuInv ==
  ASSUME CpuInv, NEW c \in Callers, Method(c)
  PROVE  CpuInv'
<1>1. cpu[c] \in CPU /\ (cpu[c].fresh => ~cpu[c].halted /\ ~cpu[c].iff)
  BY DEF CpuInv
<1>2. SUFFICES \E s \in CPU : Becomes(c, s) /\ (s.fresh => ~s.halted /\ ~s.iff)
  BY DEF CpuInv, Becomes
<1>3. CASE LoadProgram(c)
  <2>. DEFINE loaded == SetStateTo(cpu[c], FALSE, FALSE, FALSE)
  <2>1. /\ [loaded EXCEPT !.fresh = TRUE] \in CPU
        /\ ~[loaded EXCEPT !.fresh = TRUE].halted /\ ~[loaded EXCEPT !.fresh = TRUE].iff
    BY <1>1 DEF SetStateTo, CPU
  <2>. QED
    BY <1>3, <2>1 DEF LoadProgram
<1>4. CASE StepCall(c)
  BY <1>1, <1>4, SteppedCPU DEF StepCall
<1>5. CASE RunCall(c)
  BY <1>1, <1>5, RunCPU DEF RunCall
<1>6. CASE SetState(c) \/ Reset(c)
  BY <1>1, <1>6, SetStateToCPU DEF SetState, Reset
<1>7. CASE SetINT(c) \/ NMI(c)
  <2>1. \A level \in BOOLEAN : /\ [cpu[c] EXCEPT !.int = level] \in CPU
                                /\ [cpu[c] EXCEPT !.nmi = TRUE] \in CPU
    BY <1>1 DEF CPU
  <2>2. \A level : /\ [cpu[c] EXCEPT !.int = level].fresh = cpu[c].fresh
                   /\ [cpu[c] EXCEPT !.int = level].halted = cpu[c].halted
                   /\ [cpu[c] EXCEPT !.int = level].iff = cpu[c].iff
    BY <1>1 DEF CPU
  <2>3. /\ [cpu[c] EXCEPT !.nmi = TRUE].fresh = cpu[c].fresh
        /\ [cpu[c] EXCEPT !.nmi = TRUE].halted = cpu[c].halted
        /\ [cpu[c] EXCEPT !.nmi = TRUE].iff = cpu[c].iff
    BY <1>1 DEF CPU
  <2>4. CASE SetINT(c)
    <3>1. PICK level \in BOOLEAN : Becomes(c, [cpu[c] EXCEPT !.int = level])
      BY <2>4 DEF SetINT
    <3>. QED
      BY <1>1, <2>1, <2>2, <3>1
  <2>5. CASE NMI(c)
    BY <1>1, <2>1, <2>3, <2>5 DEF NMI
  <2>. QED
    BY <1>7, <2>4, <2>5
<1>. QED
  BY <1>3, <1>4, <1>5, <1>6, <1>7 DEF Method

LEMMA CpuInvStep == CpuInv /\ [Next]_vars => CpuInv'
<1>1. ASSUME NEW c \in Callers, Create(c) \/ Load(c) \/ Instantiate(c) \/ Resume(c)
      PROVE  UNCHANGED cpu
  BY <1>1 DEF Create, Load, Instantiate, Resume
<1>2. CpuInv /\ UNCHANGED cpu => CpuInv'
  BY DEF CpuInv
<1>. QED
  BY <1>1, <1>2, MethodKeepsCpuInv DEF Next, vars

(* The first Step after load executes the loaded program, whatever the CPU  *)
(* ran before and whichever line is raised since, but for a latched NMI.    *)
THEOREM LoadStarts == Spec => []LoadStartsProgram
<1>1. CpuInv => LoadStartsProgram
  BY DEF CpuInv, LoadStartsProgram, Interrupted, IntAcceptable
<1>. QED
  BY <1>1, InitCpuInv, CpuInvStep, PTL DEF Spec
=============================================================================
