------------------------------- MODULE Z80Alu -------------------------------
(***************************************************************************)
(* The arithmetic of the core: flags.go and the handlers of the opcode     *)
(* pages that compute a result and its flags, on real 8 and 16-bit words.  *)
(*                                                                         *)
(* A behaviour runs one of the short straight-line programs of Inputs.     *)
(* What an instruction is worth shows in combination with others: DAA      *)
(* after an addition, a rotation and its inverse, SCF after what sets Q.   *)
(*                                                                         *)
(* `m` is the operand of 8-bit instructions: register, memory cell or port.*)
(***************************************************************************)
EXTENDS Z80Flags, Sequences

CONSTANT Inputs       \* programs, initial values, and the bit and the displacement
                      \* that their instructions name

VARIABLES
  a, f, m, hl, de,    \* registers
  q,                  \* the Q latch: F if the latest instruction set flags
  wz,                 \* WZ: an address an earlier instruction worked with
  todo,               \* the rest of the program
  in                  \* the member of Inputs that this behaviour started from

vars == <<a, f, m, hl, de, q, wz, todo, in>>

Word == 0 .. 2^16 - 1

Input == [prog : Seq(STRING), a : Byte, m : Byte, hl : Word, de : Word, bc : Word,
          f : SUBSET Flags, iff2 : BOOLEAN, bit : 0 .. 7, d : Byte]

ASSUME InputsAssumption == Inputs \subseteq Input

After(addr) == (addr + 1) % 65536
Signed(v) == IF v > 127 THEN v - 256 ELSE v
Carry == IF "C" \in f THEN 1 ELSE 0

SZPV == {"S", "Z", "PV"}

----------------------------------------------------------------------------
(* What the helpers return: a result and the flags they pass to setF.       *)

Res(r, flags) == [r |-> r, f |-> flags]

(* PV when both operands have the sign that the result does not have.       *)
OverflowAdd(x, v, r, sign) == Bit(x, sign) # Bit(r, sign) /\ Bit(v, sign) # Bit(r, sign)
OverflowSub(x, v, r, sign) == Bit(x, sign) # Bit(v, sign) /\ Bit(x, sign) # Bit(r, sign)

Add8_NoCarryIn(x, v, cin) ==            \* mutant: cin left out of the sum
  LET r == (x + v) % 256
  IN  Res(r, szxy[r] \cup If(x + v > 255, {"C"}) \cup If(Xor3(x, v, r, 4), {"H"})
             \cup If(OverflowAdd(x, v, r, 7), {"PV"}))

Add8(x, v, cin) ==
  LET r == (x + v + cin) % 256
  IN  Res(r, szxy[r] \cup If(x + v + cin > 255, {"C"}) \cup If(Xor3(x, v, r, 4), {"H"})
             \cup If(OverflowAdd(x, v, r, 7), {"PV"}))

Sub8_OverflowOfAdd(x, v, cin) ==        \* mutant: PV with the rule of add8
  LET r == (x - v - cin) % 256
  IN  Res(r, szxy[r] \cup {"N"} \cup If(x - v - cin < 0, {"C"}) \cup If(Xor3(x, v, r, 4), {"H"})
             \cup If(OverflowAdd(x, v, r, 7), {"PV"}))

(* A borrow is a negative difference: as a uint16 it exceeds 0xFF.          *)
Sub8(x, v, cin) ==
  LET r == (x - v - cin) % 256
  IN  Res(r, szxy[r] \cup {"N"} \cup If(x - v - cin < 0, {"C"}) \cup If(Xor3(x, v, r, 4), {"H"})
             \cup If(OverflowSub(x, v, r, 7), {"PV"}))

Add16(x, v) ==
  LET r == (x + v) % 65536
  IN  Res(r, (f \cap SZPV) \cup XYOf(Hi(r)) \cup If(x + v > 65535, {"C"})
             \cup If(Xor3(x, v, r, 12), {"H"}))

Adc16(x, v, cin) ==
  LET r == (x + v + cin) % 65536
  IN  Res(r, (szxy[Hi(r)] \ {"Z"}) \cup If(r = 0, {"Z"}) \cup If(x + v + cin > 65535, {"C"})
             \cup If(Xor3(x, v, r, 12), {"H"}) \cup If(OverflowAdd(x, v, r, 15), {"PV"}))

Sbc16_ZOfHigh(x, v, cin) ==             \* mutant: szxy of the high byte, Z too
  LET r == (x - v - cin) % 65536
  IN  Res(r, szxy[Hi(r)] \cup {"N"} \cup If(x - v - cin < 0, {"C"})
             \cup If(Xor3(x, v, r, 12), {"H"}) \cup If(OverflowSub(x, v, r, 15), {"PV"}))

Sbc16(x, v, cin) ==
  LET r == (x - v - cin) % 65536
  IN  Res(r, (szxy[Hi(r)] \ {"Z"}) \cup If(r = 0, {"Z"}) \cup {"N"}
             \cup If(x - v - cin < 0, {"C"})
             \cup If(Xor3(x, v, r, 12), {"H"}) \cup If(OverflowSub(x, v, r, 15), {"PV"}))

(* daa: the adjustment comes from A, C and H before, N says how to apply it. *)
Daa_IgnoresC ==                         \* mutant: the incoming C not looked at
  LET high   == a > 153
      low    == "H" \in f \/ a % 16 > 9
      adjust == (IF high THEN 96 ELSE 0) + (IF low THEN 6 ELSE 0)
      r      == (IF "N" \in f THEN a - adjust ELSE a + adjust) % 256
      half   == IF "N" \in f THEN "H" \in f /\ a % 16 < 6 ELSE a % 16 > 9
  IN  Res(r, (f \cap {"N"}) \cup If(high, {"C"}) \cup If(half, {"H"})
             \cup szxy[r] \cup parity[r])

Daa ==
  LET high   == "C" \in f \/ a > 153
      low    == "H" \in f \/ a % 16 > 9
      adjust == (IF high THEN 96 ELSE 0) + (IF low THEN 6 ELSE 0)
      r      == (IF "N" \in f THEN a - adjust ELSE a + adjust) % 256
      half   == IF "N" \in f THEN "H" \in f /\ a % 16 < 6 ELSE a % 16 > 9
  IN  Res(r, (f \cap {"N"}) \cup If(high, {"C"}) \cup If(half, {"H"})
             \cup szxy[r] \cup parity[r])

IncFlags(v) == szxy[v] \cup (f \cap {"C"}) \cup If(v % 16 = 0, {"H"}) \cup If(v = 128, {"PV"})

DecFlags_HalfOfInc(v) ==                \* mutant: H with the rule of incFlags
  szxy[v] \cup (f \cap {"C"}) \cup {"N"} \cup If(v % 16 = 0, {"H"}) \cup If(v = 127, {"PV"})

DecFlags(v) == szxy[v] \cup (f \cap {"C"}) \cup {"N"}
                 \cup If(v % 16 = 15, {"H"}) \cup If(v = 127, {"PV"})

Logic(r) == Res(r, szxy[r] \cup parity[r])

(* The rotations and shifts: the byte shifted, and the bit that goes in.    *)
Left(v, low)   == ((v * 2) % 256) + (IF low THEN 1 ELSE 0)
Right(v, high) == v \div 2 + (IF high THEN 128 ELSE 0)

ToLeft == {"RLC", "RL", "SLA", "SLL"}

Fill(kind, v) ==
  \/ kind \in {"RLC", "SRA"} /\ Bit(v, 7)
  \/ kind = "RRC" /\ Bit(v, 0)
  \/ kind \in {"RL", "RR"} /\ "C" \in f
  \/ kind = "SLL"

ShiftIn(kind, v) == IF kind \in ToLeft THEN Left(v, Fill(kind, v)) ELSE Right(v, Fill(kind, v))

ShiftOut_AlwaysLow(kind, v) == Bit(v, 0)  \* mutant: C from bit 0 for both directions
ShiftOut(kind, v) == IF kind \in ToLeft THEN Bit(v, 7) ELSE Bit(v, 0)

Rot(kind, v) ==
  LET r == ShiftIn(kind, v)
  IN  Res(r, szxy[r] \cup parity[r] \cup If(ShiftOut(kind, v), {"C"}))

(* scfCcfXY: ((Q ^ F) | A) & (X | Y).                                       *)
ScfCcfXY_NoQ == (f \cup XYOf(a)) \cap {"X", "Y"}   \* mutant: Q not looked at
ScfCcfXY ==
  LET differ == (q \ f) \cup (f \ q)
  IN  (differ \cup XYOf(a)) \cap {"X", "Y"}

(* bitFlags: X and Y are of another byte than the one tested.               *)
BitFlags(bit, v, xySrc) ==
  (f \cap {"C"}) \cup {"H"} \cup XYOf(xySrc)
    \cup If(~Bit(v, bit), {"Z", "PV"}) \cup If(bit = 7 /\ Bit(v, 7), {"S"})

----------------------------------------------------------------------------
(* Instructions.  The Step epilogue makes Q the new F when setF ran, and    *)
(* empty when it did not.                                                   *)

Addressing(op, addr) == /\ todo # <<>> /\ Head(todo) = op /\ todo' = Tail(todo)
                        /\ wz' = addr /\ UNCHANGED in
Is(op) == Addressing(op, wz)

SetF(flags)  == f' = flags /\ q' = flags
KeepF == UNCHANGED f /\ q' = {}

Accumulate(res)  == a' = res.r /\ SetF(res.f) /\ UNCHANGED <<m, hl, de>>
JustFlags(flags) == SetF(flags) /\ UNCHANGED <<a, m, hl, de>>
ToOperand(res)   == m' = res.r /\ SetF(res.f) /\ UNCHANGED <<a, hl, de>>
ToHL(res)        == hl' = res.r /\ SetF(res.f) /\ UNCHANGED <<a, m, de>>

ADD == Is("ADD") /\ Accumulate(Add8(a, m, 0))
ADC == Is("ADC") /\ Accumulate(Add8(a, m, Carry))
SUB == Is("SUB") /\ Accumulate(Sub8(a, m, 0))
SBC == Is("SBC") /\ Accumulate(Sub8(a, m, Carry))
NEG == Is("NEG") /\ Accumulate(Sub8(0, a, 0))

(* cp8: X and Y are the operand's, not the result's.                        *)
CP  == Is("CP") /\ JustFlags((Sub8(a, m, 0).f \ {"X", "Y"}) \cup XYOf(m))

AND == /\ Is("AND")
       /\ LET res == Logic(ByteOf(Bits(a) \cap Bits(m)))
          IN  Accumulate(Res(res.r, res.f \cup {"H"}))
OR  == Is("OR") /\ Accumulate(Logic(ByteOf(Bits(a) \cup Bits(m))))
XOR == Is("XOR") /\ Accumulate(Logic(ByteOf((Bits(a) \ Bits(m)) \cup (Bits(m) \ Bits(a)))))

INC == Is("INC") /\ LET v == (m + 1) % 256 IN ToOperand(Res(v, IncFlags(v)))
DEC == Is("DEC") /\ LET v == (m - 1) % 256 IN ToOperand(Res(v, DecFlags(v)))

DAA == Is("DAA") /\ Accumulate(Daa)
CPL == Is("CPL") /\ Accumulate(Res(255 - a, (f \cap (SZPV \cup {"C"})) \cup XYOf(255 - a)
                                              \cup {"H", "N"}))
SCF == Is("SCF") /\ JustFlags((f \cap SZPV) \cup ScfCcfXY \cup {"C"})
CCF == Is("CCF") /\ JustFlags((f \cap SZPV) \cup ScfCcfXY
                                \cup (IF "C" \in f THEN {"H"} ELSE {"C"}))

(* RLCA, RRCA, RLA, RRA: S, Z and PV preserved.                             *)
OnA == [RLC |-> "RLCA", RRC |-> "RRCA", RL |-> "RLA", RR |-> "RRA"]

RotA(kind) ==
  /\ Is(OnA[kind])
  /\ LET r == ShiftIn(kind, a)
     IN  Accumulate(Res(r, (f \cap SZPV) \cup XYOf(r) \cup If(ShiftOut(kind, a), {"C"})))

(* The CB page on a register or on (HL).                                    *)
ROT(kind) == Is(kind) /\ ToOperand(Rot(kind, m))

(* RRD and RLD rotate the nibbles of A's low half and (HL).                 *)
RLD == /\ Addressing("RLD", After(hl))
       /\ LET newA == (a - (a % 16)) + (m \div 16)
          IN  /\ a' = newA /\ m' = ((m * 16) % 256) + (a % 16)
              /\ SetF((f \cap {"C"}) \cup szxy[newA] \cup parity[newA])
       /\ UNCHANGED <<hl, de>>
RRD == /\ Addressing("RRD", After(hl))
       /\ LET newA == (a - (a % 16)) + (m % 16)
          IN  /\ a' = newA /\ m' = ((a * 16) % 256) + (m \div 16)
              /\ SetF((f \cap {"C"}) \cup szxy[newA] \cup parity[newA])
       /\ UNCHANGED <<hl, de>>

ADDHL == Addressing("ADDHL", After(hl)) /\ ToHL(Add16(hl, de))
ADCHL == Addressing("ADCHL", After(hl)) /\ ToHL(Adc16(hl, de, Carry))
SBCHL == Addressing("SBCHL", After(hl)) /\ ToHL(Sbc16(hl, de, Carry))

(* Instructions that leave F alone, or load it without setF (POP AF, with   *)
(* DE on the stack).                                                        *)
NOP == Is("NOP") /\ KeepF /\ UNCHANGED <<a, m, hl, de>>

FlagAt == [i \in 0 .. 7 |-> <<"C", "N", "PV", "X", "H", "Y", "Z", "S">>[i + 1]]
POPAF == /\ Is("POPAF")
         /\ a' = Hi(de) /\ f' = { FlagAt[i] : i \in Bits(Lo(de)) } /\ q' = {}
         /\ UNCHANGED <<m, hl, de>>

(* BIT of a register, of (HL), where X and Y are WZ's, and of (IX+d), which *)
(* sets WZ; IX is in HL's place.                                            *)
BIT   == Is("BIT") /\ JustFlags(BitFlags(in.bit, m, m))
BITHL == Is("BITHL") /\ JustFlags(BitFlags(in.bit, m, Hi(wz)))

Indexed == (hl + Signed(in.d)) % 65536
BITIX == Addressing("BITIX", Indexed) /\ JustFlags(BitFlags(in.bit, m, Hi(Indexed)))

ToOperandOnly(v) == m' = v /\ KeepF /\ UNCHANGED <<a, hl, de>>

SET == Is("SET") /\ ToOperandOnly(ByteOf(Bits(m) \cup {in.bit}))
RES == Is("RES") /\ ToOperandOnly(ByteOf(Bits(m) \ {in.bit}))

(* IN A,(C), LD A,I, and the loads of A by way of DE.                       *)
IN_   == /\ Addressing("IN", After(in.bc))
         /\ Accumulate(Res(m, (f \cap {"C"}) \cup szxy[m] \cup parity[m]))
LDAI  == /\ Is("LDAI")
         /\ Accumulate(Res(m, (f \cap {"C"}) \cup szxy[m] \cup If(in.iff2, {"PV"})))
LDADE == Addressing("LDADE", After(de)) /\ a' = m /\ KeepF /\ UNCHANGED <<m, hl, de>>
LDDEA == Addressing("LDDEA", a * 256 + Lo(After(de))) /\ ToOperandOnly(a)

----------------------------------------------------------------------------
Init ==
  /\ in \in Inputs
  /\ a = in.a /\ m = in.m /\ hl = in.hl /\ de = in.de /\ f = in.f
  /\ q = {} /\ wz = 0 /\ todo = in.prog

Kinds == ToLeft \cup {"RRC", "RR", "SRA", "SRL"}

Next ==
  \/ ADD \/ ADC \/ SUB \/ SBC \/ NEG \/ CP \/ AND \/ OR \/ XOR \/ INC \/ DEC
  \/ DAA \/ CPL \/ SCF \/ CCF
  \/ (\E kind \in DOMAIN OnA : RotA(kind))
  \/ (\E kind \in Kinds : ROT(kind))
  \/ RLD \/ RRD \/ ADDHL \/ ADCHL \/ SBCHL \/ NOP \/ POPAF
  \/ BIT \/ BITHL \/ BITIX \/ SET \/ RES \/ IN_ \/ LDAI \/ LDADE \/ LDDEA

Spec == Init /\ [][Next]_vars

----------------------------------------------------------------------------
(* Properties. *)

(* No operation leaves its width: every result is a byte or a word again,   *)
(* and F a set of flags.                                                    *)
TypeOK ==
  /\ a \in Byte /\ m \in Byte /\ hl \in Word /\ de \in Word /\ wz \in Word
  /\ f \in SUBSET Flags /\ q \in SUBSET Flags
  /\ todo \in Seq(STRING) /\ in \in Inputs

Ended(prog) == todo = <<>> /\ in.prog = prog
Cin    == IF "C" \in in.f THEN 1 ELSE 0
Fits(n)   == n \in -128 .. 127

(* The exact integer that an instruction computes, and its two halves.      *)
Exact(sign, x, y, cin) ==
  /\ a = (x + sign * (y + cin)) % 256
  /\ "C"  \in f <=> x + sign * (y + cin) \notin Byte
  /\ "H"  \in f <=> (x % 16) + sign * ((y % 16) + cin) \notin 0 .. 15
  /\ "PV" \in f <=> ~Fits(Signed(x) + sign * (Signed(y) + cin))
  /\ "S"  \in f <=> a > 127
  /\ "Z"  \in f <=> a = 0
  /\ "N"  \in f <=> sign = -1

(* ADD, ADC, SUB, SBC and NEG (add8 and sub8 work on XORs of their operands *)
(* and result): C is the carry of the unsigned sum, H that of its low       *)
(* nibble and PV the overflow of the signed one, carry in included.         *)
ArithmeticExact ==
  /\ Ended(<<"ADD">>) => Exact(1, in.a, in.m, 0)
  /\ Ended(<<"ADC">>) => Exact(1, in.a, in.m, Cin)
  /\ Ended(<<"SUB">>) => Exact(-1, in.a, in.m, 0)
  /\ Ended(<<"SBC">>) => Exact(-1, in.a, in.m, Cin)
  /\ Ended(<<"NEG">>) => Exact(-1, 0, in.a, 0)

(* After CP the conditions of the jumps order A and the operand, unsigned   *)
(* by C and signed by S and PV.                                             *)
CompareOrders ==
  Ended(<<"CP">>) => /\ "C" \in f <=> in.a < in.m
                     /\ "Z" \in f <=> in.a = in.m
                     /\ ("S" \in f) # ("PV" \in f) <=> Signed(in.a) < Signed(in.m)
                     /\ a = in.a

Decimal(v)  == v \div 16 < 10 /\ v % 16 < 10
ToDecimal(n) == (n \div 10) * 16 + (n % 10)
Value(v)    == (v \div 16) * 10 + (v % 16)

DecimalSum(n) == a = ToDecimal(n % 100) /\ ("C" \in f <=> n \notin 0 .. 99)

(* DAA turns the binary result of an addition or a subtraction of two       *)
(* packed decimal numbers into the decimal one, with its carry.             *)
DecimalExact ==
  Decimal(in.a) /\ Decimal(in.m) =>
    /\ Ended(<<"ADD", "DAA">>) => DecimalSum(Value(in.a) + Value(in.m))
    /\ Ended(<<"ADC", "DAA">>) => DecimalSum(Value(in.a) + Value(in.m) + Cin)
    /\ Ended(<<"SUB", "DAA">>) => DecimalSum(Value(in.a) - Value(in.m))
    /\ Ended(<<"SBC", "DAA">>) => DecimalSum(Value(in.a) - Value(in.m) - Cin)

(* A 16-bit result and its flags are those of an 8-bit operation on the low *)
(* bytes followed by one on the high bytes, except that Z is of the word.   *)
Chained(op(_, _, _), cin) ==
  LET low  == op(Lo(in.hl), Lo(in.de), cin)
      high == op(Hi(in.hl), Hi(in.de), IF "C" \in low.f THEN 1 ELSE 0)
  IN  /\ hl = high.r * 256 + low.r
      /\ f \ {"Z"} = high.f \ {"Z"}
      /\ "Z" \in f <=> hl = 0

(* ADC HL,ss and SBC HL,ss agree with the 8-bit instructions; ADD HL,ss     *)
(* has the carries of ADC HL,ss without carry in, and S, Z and PV of before.*)
WordsChain ==
  /\ Ended(<<"ADCHL">>) => Chained(Add8, Cin)
  /\ Ended(<<"SBCHL">>) => Chained(Sub8, Cin)
  /\ Ended(<<"ADDHL">>) => LET wide == Adc16(in.hl, in.de, 0)
                           IN  /\ hl = wide.r
                               /\ f \ SZPV = wide.f \ SZPV
                               /\ f \cap SZPV = in.f \cap SZPV

Same == a = in.a /\ m = in.m
SameC == "C" \in f <=> "C" \in in.f

(* RL and RR rotate nine bits, C among them: RR takes RL back and nine RL   *)
(* are none.  RLC and RRC rotate eight, and RLD and RRD three nibbles.  SET   *)
(* and RES change the bit that BIT finds changed, and no other.             *)
BitsInPlace ==
  /\ Ended(<<"RL", "RR">>) \/ Ended(<<"RLA", "RRA">>) => Same /\ SameC
  /\ Ended(<<"RLC", "RRC">>) \/ Ended(<<"RLCA", "RRCA">>) => Same
  /\ Ended(<<"RL", "RL", "RL", "RL", "RL", "RL", "RL", "RL", "RL">>) => Same /\ SameC
  /\ Ended(<<"RLD", "RRD">>) \/ Ended(<<"RLD", "RLD", "RLD">>) => Same /\ SameC
  /\ Ended(<<"SLL", "SRL">>) \/ Ended(<<"SLA", "SRA">>) => m % 128 = in.m % 128
  /\ Ended(<<"SET", "BIT">>) => f \ {"X", "Y"} = {"H"} \cup (in.f \cap {"C"})
                                                  \cup If(in.bit = 7, {"S"})
  /\ Ended(<<"RES", "BIT">>) => f \ {"X", "Y"} = {"H", "Z", "PV"} \cup (in.f \cap {"C"})
  /\ Ended(<<"SET", "RES">>) \/ Ended(<<"RES", "SET">>) =>
       Bits(m) \ {in.bit} = Bits(in.m) \ {in.bit} /\ f = in.f

(* INC and DEC are ADD 1 and SUB 1 with C left alone, and each takes the    *)
(* other back.                                                              *)
IncDecStep ==
  /\ Ended(<<"INC">>) => LET one == Add8(in.m, 1, 0)
                         IN  m = one.r /\ f \ {"C"} = one.f \ {"C"} /\ SameC
  /\ Ended(<<"DEC">>) => LET one == Sub8(in.m, 1, 0)
                         IN  m = one.r /\ f \ {"C"} = one.f \ {"C"} /\ SameC
  /\ Ended(<<"INC", "DEC">>) => Same /\ SameC

(* X and Y come from latches that no instruction names.  SCF and CCF take   *)
(* them from A alone after any instruction that sets flags, and from A or F *)
(* after one that leaves F alone or loads it without setting it (POP AF).   *)
(* BIT n,(HL) takes them from the address that an earlier instruction       *)
(* worked with, whatever register has changed since.                        *)
FlagSetters == {"ADD", "SBC", "CP", "AND", "OR", "XOR", "INC", "DAA", "CPL", "CCF", "RLA",
                "RRC", "ADDHL", "BIT", "BITHL", "IN", "LDAI", "RLD"}

ShowsLater(op, addr) ==
  \A between \in {<<>>, <<"SET">>, <<"ADD">>} :
    Ended(<<op>> \o between \o <<"BITHL">>) => f \cap {"X", "Y"} = XYOf(Hi(addr))

LatchesShow ==
  /\ \A op \in FlagSetters : Ended(<<op, "SCF">>) => f \cap {"X", "Y"} = XYOf(a)
  /\ \A op \in {"NOP", "SET", "RES"} :
       Ended(<<"CP", op, "SCF">>) => f \cap {"X", "Y"} = XYOf(a) \cup XYOf(in.m)
  /\ Ended(<<"CP", "POPAF", "CCF">>) => f \cap {"X", "Y"} = XYOf(a) \cup XYOf(Lo(in.de))
  /\ ShowsLater("RLD", After(in.hl)) /\ ShowsLater("ADDHL", After(in.hl))
  /\ ShowsLater("LDADE", After(in.de)) /\ ShowsLater("IN", After(in.bc))
  /\ ShowsLater("LDDEA", in.a * 256)
  /\ ShowsLater("BITIX", (in.hl + Signed(in.d)) % 65536)
=============================================================================
