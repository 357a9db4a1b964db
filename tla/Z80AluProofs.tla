---------------------------- MODULE Z80AluProofs ----------------------------
(***************************************************************************)
(* What the instructions of Z80Alu compute, proved for every operand, flag *)
(* and latch: TLC runs the programs on chosen operands, here the operands  *)
(* are any bytes and words.                                                *)
(***************************************************************************)
EXTENDS Z80Alu, SequenceTheorems, TLAPS

----------------------------------------------------------------------------
(* Bits of bytes and words.                                                 *)

LEMMA Powers == /\ 2 ^ 0 = 1 /\ 2 ^ 1 = 2 /\ 2 ^ 2 = 4 /\ 2 ^ 3 = 8 /\ 2 ^ 4 = 16 /\ 2 ^ 5 = 32
                /\ 2 ^ 6 = 64 /\ 2 ^ 7 = 128 /\ 2 ^ 12 = 4096 /\ 2 ^ 15 = 32768
  OBVIOUS

LEMMA ByteBits ==
  ASSUME NEW v \in Byte
  PROVE  /\ Bit(v, 7) <=> v > 127
         /\ Bit(v, 0) <=> v % 2 = 1
         /\ Bit(v, 4) <=> (v \div 16) % 2 = 1
  BY Powers DEF Bit, Byte

LEMMA XYFlags == ASSUME NEW v PROVE XYOf(v) \subseteq {"X", "Y"}
  BY DEF XYOf, If

LEMMA SZXY ==
  ASSUME NEW v \in Byte
  PROVE  /\ szxy[v] \in SUBSET Flags
         /\ "S" \in szxy[v] <=> v > 127
         /\ "Z" \in szxy[v] <=> v = 0
         /\ szxy[v] \cap {"X", "Y"} = XYOf(v)
         /\ szxy[v] \cap {"H", "PV", "N", "C"} = {}
<1>1. szxy[v] = If(Bit(v, 7), {"S"}) \cup If(v = 0, {"Z"}) \cup XYOf(v)
  BY DEF szxy
<1>2. Bit(v, 7) <=> v > 127
  BY ByteBits
<1>3. XYOf(v) \subseteq {"X", "Y"}
  BY XYFlags
<1> QED
  BY <1>1, <1>2, <1>3 DEF If, Flags

LEMMA ParityFlag == ASSUME NEW v \in Byte PROVE parity[v] \subseteq {"PV"}
  BY DEF parity, If

LEMMA WordHalves ==
  ASSUME NEW w \in Word
  PROVE  /\ Hi(w) \in Byte /\ Lo(w) \in Byte /\ w = Hi(w) * 256 + Lo(w)
         /\ Bit(w, 12) <=> Bit(Hi(w), 4)
         /\ Bit(w, 15) <=> Bit(Hi(w), 7)
<1>1. /\ Hi(w) \in Byte /\ Lo(w) \in Byte /\ w = Hi(w) * 256 + Lo(w)
  BY DEF Hi, Lo, Word, Byte
<1>2. w \div 4096 = Hi(w) \div 16 /\ w \div 32768 = Hi(w) \div 128
  BY DEF Hi, Word
<1> QED
  BY <1>1, <1>2, Powers DEF Bit

LEMMA HighPart ==
  ASSUME NEW x \in Byte, NEW y \in Byte
  PROVE  Hi(x * 256 + y) = x /\ Hi(x * 256) = x
  BY DEF Hi, Byte

----------------------------------------------------------------------------
(* Sums and differences of bytes.  H is bit 4 of an XOR and PV a comparison *)
(* of signs: what they say of the exact integers.                           *)

LEMMA Wrap8 ==
  ASSUME NEW z \in -256 .. 511
  PROVE  /\ z % 256 \in Byte
         /\ z % 256 = IF z < 0 THEN z + 256 ELSE IF z > 255 THEN z - 256 ELSE z
  BY DEF Byte

(* What is to be known of the byte r when it is the sum of x, v and a carry, *)
(* or their difference: its value, the half carry and the overflow.          *)
IsSum8(x, v, cin, r) ==
  /\ r \in Byte
  /\ r = IF x + v + cin > 255 THEN x + v + cin - 256 ELSE x + v + cin
  /\ Xor3(x, v, r, 4) <=> (x % 16) + (v % 16) + cin > 15
  /\ OverflowAdd(x, v, r, 7) <=> ~Fits(Signed(x) + Signed(v) + cin)

LEMMA Sum8 ==
  ASSUME NEW x \in Byte, NEW v \in Byte, NEW cin \in 0 .. 1,
         NEW r, r = (x + v + cin) % 256
  PROVE  IsSum8(x, v, cin, r)
<1> DEFINE xh == x \div 16    xl == x % 16
           vh == v \div 16    vl == v % 16
           carry == IF xl + vl + cin > 15 THEN 1 ELSE 0
<1>1. /\ xh \in 0 .. 15 /\ xl \in 0 .. 15 /\ x = 16 * xh + xl
      /\ vh \in 0 .. 15 /\ vl \in 0 .. 15 /\ v = 16 * vh + vl
  BY DEF Byte
<1>2. r = (IF x + v + cin > 255 THEN x + v + cin - 256 ELSE x + v + cin) /\ r \in Byte
  <2> DEFINE z == x + v + cin
  <2>1. z \in -256 .. 511
    BY DEF Byte
  <2> HIDE DEF z
  <2>2. z % 256 = (IF z < 0 THEN z + 256 ELSE IF z > 255 THEN z - 256 ELSE z) /\ z % 256 \in Byte
    BY <2>1, Wrap8
  <2> QED
    BY <2>2 DEF z, Byte
<1>3. Xor3(x, v, r, 4) <=> ((xh % 2 = 1) # (vh % 2 = 1)) # ((r \div 16) % 2 = 1)
  BY Powers DEF Xor3, Bit
<1> HIDE DEF xh, xl, vh, vl
<1>4. OverflowAdd(x, v, r, 7) <=> (x > 127) # (r > 127) /\ (v > 127) # (r > 127)
  <2>1. /\ (x \div 128) % 2 = 1 <=> x > 127
        /\ (v \div 128) % 2 = 1 <=> v > 127
        /\ (r \div 128) % 2 = 1 <=> r > 127
    BY <1>2 DEF Byte
  <2> QED
    BY <2>1, Powers DEF OverflowAdd, Bit
<1>5. r \div 16 = IF xh + vh + carry > 15 THEN xh + vh + carry - 16 ELSE xh + vh + carry
  BY <1>1, <1>2
<1>6. Xor3(x, v, r, 4) <=> xl + vl + cin > 15
  BY <1>1, <1>3, <1>5
<1>7. OverflowAdd(x, v, r, 7) <=> ~Fits(Signed(x) + Signed(v) + cin)
  BY <1>2, <1>4 DEF Fits, Signed, Byte
<1> QED
  BY <1>2, <1>6, <1>7 DEF IsSum8, xl, vl

IsDifference8(x, v, cin, r) ==
  /\ r \in Byte
  /\ r = IF x - v - cin < 0 THEN x - v - cin + 256 ELSE x - v - cin
  /\ Xor3(x, v, r, 4) <=> (x % 16) - (v % 16) - cin < 0
  /\ OverflowSub(x, v, r, 7) <=> ~Fits(Signed(x) - Signed(v) - cin)

LEMMA Difference8 ==
  ASSUME NEW x \in Byte, NEW v \in Byte, NEW cin \in 0 .. 1,
         NEW r, r = (x - v - cin) % 256
  PROVE  IsDifference8(x, v, cin, r)
<1> DEFINE xh == x \div 16    xl == x % 16
           vh == v \div 16    vl == v % 16
           borrow == IF xl - vl - cin < 0 THEN 1 ELSE 0
<1>1. /\ xh \in 0 .. 15 /\ xl \in 0 .. 15 /\ x = 16 * xh + xl
      /\ vh \in 0 .. 15 /\ vl \in 0 .. 15 /\ v = 16 * vh + vl
  BY DEF Byte
<1>2. r = (IF x - v - cin < 0 THEN x - v - cin + 256 ELSE x - v - cin) /\ r \in Byte
  <2> DEFINE z == x - v - cin
  <2>1. z \in -256 .. 511
    BY DEF Byte
  <2> HIDE DEF z
  <2>2. z % 256 = (IF z < 0 THEN z + 256 ELSE IF z > 255 THEN z - 256 ELSE z) /\ z % 256 \in Byte
    BY <2>1, Wrap8
  <2> QED
    BY <2>2 DEF z, Byte
<1>3. Xor3(x, v, r, 4) <=> ((xh % 2 = 1) # (vh % 2 = 1)) # ((r \div 16) % 2 = 1)
  BY Powers DEF Xor3, Bit
<1> HIDE DEF xh, xl, vh, vl
<1>4. OverflowSub(x, v, r, 7) <=> (x > 127) # (v > 127) /\ (x > 127) # (r > 127)
  <2>1. /\ (x \div 128) % 2 = 1 <=> x > 127
        /\ (v \div 128) % 2 = 1 <=> v > 127
        /\ (r \div 128) % 2 = 1 <=> r > 127
    BY <1>2 DEF Byte
  <2> QED
    BY <2>1, Powers DEF OverflowSub, Bit
<1>5. r \div 16 = IF xh - vh - borrow < 0 THEN xh - vh - borrow + 16 ELSE xh - vh - borrow
  BY <1>1, <1>2
<1>6. Xor3(x, v, r, 4) <=> xl - vl - cin < 0
  BY <1>1, <1>3, <1>5
<1>7. OverflowSub(x, v, r, 7) <=> ~Fits(Signed(x) - Signed(v) - cin)
  BY <1>2, <1>4 DEF Fits, Signed, Byte
<1> QED
  BY <1>2, <1>6, <1>7 DEF IsDifference8, xl, vl

(* add8 and sub8: the result, and each flag as a fact about integers.       *)
LEMMA Add8Flags ==
  ASSUME NEW x \in Byte, NEW v \in Byte, NEW cin \in 0 .. 1
  PROVE  LET sum == Add8(x, v, cin)
         IN  /\ sum.r = (x + v + cin) % 256 /\ sum.r \in Byte /\ sum.f \in SUBSET Flags
             /\ "C" \in sum.f <=> x + v + cin > 255
             /\ "H" \in sum.f <=> (x % 16) + (v % 16) + cin > 15
             /\ "PV" \in sum.f <=> ~Fits(Signed(x) + Signed(v) + cin)
             /\ "S" \in sum.f <=> sum.r > 127
             /\ "Z" \in sum.f <=> sum.r = 0
             /\ "N" \notin sum.f
             /\ sum.f \cap {"X", "Y"} = XYOf(sum.r)
<1> DEFINE r == (x + v + cin) % 256
           carry == x + v + cin > 255
           half == Xor3(x, v, r, 4)
           over == OverflowAdd(x, v, r, 7)
<1>1. /\ Add8(x, v, cin).r = r
      /\ Add8(x, v, cin).f = szxy[r] \cup If(carry, {"C"}) \cup If(half, {"H"})
                               \cup If(over, {"PV"})
  BY DEF Add8, Res
<1>2. r = (x + v + cin) % 256 /\ r \in Byte
  BY DEF Byte
<1> HIDE DEF r
<1>3. IsSum8(x, v, cin, r)
  BY <1>2, Sum8
<1>4. half <=> (x % 16) + (v % 16) + cin > 15
  BY <1>3 DEF IsSum8
<1>5. over <=> ~Fits(Signed(x) + Signed(v) + cin)
  BY <1>3 DEF IsSum8
<1> HIDE DEF carry, half, over
<1>6. Add8(x, v, cin).f \in SUBSET Flags
  BY <1>1, <1>2, SZXY DEF If, Flags
<1>7. /\ "C" \in Add8(x, v, cin).f <=> carry
      /\ "H" \in Add8(x, v, cin).f <=> half
      /\ "PV" \in Add8(x, v, cin).f <=> over
      /\ "S" \in Add8(x, v, cin).f <=> "S" \in szxy[r]
      /\ "Z" \in Add8(x, v, cin).f <=> "Z" \in szxy[r]
      /\ "N" \notin Add8(x, v, cin).f
      /\ Add8(x, v, cin).f \cap {"X", "Y"} = szxy[r] \cap {"X", "Y"}
  BY <1>1, <1>2, SZXY DEF If
<1>8. carry <=> x + v + cin > 255
  BY DEF carry
<1>9. /\ "S" \in szxy[r] <=> r > 127
      /\ "Z" \in szxy[r] <=> r = 0
      /\ szxy[r] \cap {"X", "Y"} = XYOf(r)
  BY <1>2, SZXY
<1> QED
  BY <1>1, <1>2, <1>4, <1>5, <1>6, <1>7, <1>8, <1>9

LEMMA Sub8Flags ==
  ASSUME NEW x \in Byte, NEW v \in Byte, NEW cin \in 0 .. 1
  PROVE  LET diff == Sub8(x, v, cin)
         IN  /\ diff.r = (x - v - cin) % 256 /\ diff.r \in Byte /\ diff.f \in SUBSET Flags
             /\ "C" \in diff.f <=> x - v - cin < 0
             /\ "H" \in diff.f <=> (x % 16) - (v % 16) - cin < 0
             /\ "PV" \in diff.f <=> ~Fits(Signed(x) - Signed(v) - cin)
             /\ "S" \in diff.f <=> diff.r > 127
             /\ "Z" \in diff.f <=> diff.r = 0
             /\ "N" \in diff.f
             /\ diff.f \cap {"X", "Y"} = XYOf(diff.r)
<1> DEFINE r == (x - v - cin) % 256
           carry == x - v - cin < 0
           half == Xor3(x, v, r, 4)
           over == OverflowSub(x, v, r, 7)
<1>1. /\ Sub8(x, v, cin).r = r
      /\ Sub8(x, v, cin).f = szxy[r] \cup {"N"} \cup If(carry, {"C"}) \cup If(half, {"H"})
                               \cup If(over, {"PV"})
  BY DEF Sub8, Res
<1>2. r = (x - v - cin) % 256 /\ r \in Byte
  BY DEF Byte
<1> HIDE DEF r
<1>3. IsDifference8(x, v, cin, r)
  BY <1>2, Difference8
<1>4. half <=> (x % 16) - (v % 16) - cin < 0
  BY <1>3 DEF IsDifference8
<1>5. over <=> ~Fits(Signed(x) - Signed(v) - cin)
  BY <1>3 DEF IsDifference8
<1> HIDE DEF carry, half, over
<1>6. Sub8(x, v, cin).f \in SUBSET Flags
  BY <1>1, <1>2, SZXY DEF If, Flags
<1>7. /\ "C" \in Sub8(x, v, cin).f <=> carry
      /\ "H" \in Sub8(x, v, cin).f <=> half
      /\ "PV" \in Sub8(x, v, cin).f <=> over
      /\ "S" \in Sub8(x, v, cin).f <=> "S" \in szxy[r]
      /\ "Z" \in Sub8(x, v, cin).f <=> "Z" \in szxy[r]
      /\ "N" \in Sub8(x, v, cin).f
      /\ Sub8(x, v, cin).f \cap {"X", "Y"} = szxy[r] \cap {"X", "Y"}
  BY <1>1, <1>2, SZXY DEF If
<1>8. carry <=> x - v - cin < 0
  BY DEF carry
<1>9. /\ "S" \in szxy[r] <=> r > 127
      /\ "Z" \in szxy[r] <=> r = 0
      /\ szxy[r] \cap {"X", "Y"} = XYOf(r)
  BY <1>2, SZXY
<1> QED
  BY <1>1, <1>2, <1>4, <1>5, <1>6, <1>7, <1>8, <1>9

----------------------------------------------------------------------------
(* Bytes as sets of bits.                                                   *)

LEMMA Weights ==
  ASSUME NEW set
  PROVE  /\ ByteOf(set) \in Byte
         /\ \A i \in 0 .. 7 : Bit(ByteOf(set), i) <=> i \in set
<1> DEFINE w(b, n) == IF b \in set THEN n ELSE 0
           b0 == w(0, 1)   b1 == w(1, 2)   b2 == w(2, 4)   b3 == w(3, 8)
           b4 == w(4, 16)  b5 == w(5, 32)  b6 == w(6, 64)  b7 == w(7, 128)
<1>1. ByteOf(set) = b0 + b1 + b2 + b3 + b4 + b5 + b6 + b7
  BY Powers DEF ByteOf
<1>2. /\ b0 \in {0, 1} /\ b1 \in {0, 2} /\ b2 \in {0, 4} /\ b3 \in {0, 8}
      /\ b4 \in {0, 16} /\ b5 \in {0, 32} /\ b6 \in {0, 64} /\ b7 \in {0, 128}
  OBVIOUS
<1>3. /\ (0 \in set <=> b0 = 1) /\ (1 \in set <=> b1 = 2)
      /\ (2 \in set <=> b2 = 4) /\ (3 \in set <=> b3 = 8)
      /\ (4 \in set <=> b4 = 16) /\ (5 \in set <=> b5 = 32)
      /\ (6 \in set <=> b6 = 64) /\ (7 \in set <=> b7 = 128)
  OBVIOUS
<1> DEFINE v == b0 + b1 + b2 + b3 + b4 + b5 + b6 + b7
<1> HIDE DEF b0, b1, b2, b3, b4, b5, b6, b7
<1>4. v \in Byte
  BY <1>2 DEF Byte
<1>5. /\ v % 2 = 1 <=> b0 = 1
      /\ (v \div 2) % 2 = 1 <=> b1 = 2
      /\ (v \div 4) % 2 = 1 <=> b2 = 4
      /\ (v \div 8) % 2 = 1 <=> b3 = 8
  BY <1>2
<1>6. /\ (v \div 16) % 2 = 1 <=> b4 = 16
      /\ (v \div 32) % 2 = 1 <=> b5 = 32
      /\ (v \div 64) % 2 = 1 <=> b6 = 64
      /\ (v \div 128) % 2 = 1 <=> b7 = 128
  BY <1>2
<1> HIDE DEF v
<1>7. v \div 1 = v
  BY <1>4 DEF Byte
<1>8. /\ Bit(v, 0) <=> 0 \in set
      /\ Bit(v, 1) <=> 1 \in set
      /\ Bit(v, 2) <=> 2 \in set
      /\ Bit(v, 3) <=> 3 \in set
  BY <1>3, <1>5, <1>7, Powers DEF Bit
<1>9. /\ Bit(v, 4) <=> 4 \in set
      /\ Bit(v, 5) <=> 5 \in set
      /\ Bit(v, 6) <=> 6 \in set
      /\ Bit(v, 7) <=> 7 \in set
  BY <1>3, <1>6, Powers DEF Bit
<1>10. ASSUME NEW i \in 0 .. 7
       PROVE  Bit(v, i) <=> i \in set
  <2>1. i \in {0, 1, 2, 3, 4, 5, 6, 7}
    OBVIOUS
  <2> QED
    BY <1>8, <1>9, <2>1
<1> QED
  BY <1>1, <1>4, <1>10 DEF v

LEMMA BitsOf == ASSUME NEW set \in SUBSET (0 .. 7) PROVE Bits(ByteOf(set)) = set
  BY Weights DEF Bits

LEMMA Shifts ==
  ASSUME NEW v \in Byte, NEW bit
  PROVE  Left(v, bit) \in Byte /\ Right(v, bit) \in Byte
  BY DEF Left, Right, Byte

----------------------------------------------------------------------------
(* Every result is in its width.                                            *)

Regs == /\ a \in Byte /\ m \in Byte /\ hl \in Word /\ de \in Word
        /\ f \in SUBSET Flags /\ q \in SUBSET Flags

LEMMA LogicFits ==
  ASSUME NEW r \in Byte PROVE Logic(r).r = r /\ Logic(r).f \in SUBSET Flags
  BY SZXY, ParityFlag DEF Logic, Res, Flags

LEMMA WordInt == ASSUME NEW x \in Word PROVE x \in Int
  BY DEF Word

LEMMA Wrap16 == ASSUME NEW z \in Int PROVE z % 65536 \in Word
  BY DEF Word

LEMMA WordSums ==
  ASSUME Regs, NEW x \in Word, NEW v \in Word, NEW cin \in 0 .. 1
  PROVE  /\ Add16(x, v).r \in Word /\ Add16(x, v).f \in SUBSET Flags
         /\ Adc16(x, v, cin).r \in Word /\ Adc16(x, v, cin).f \in SUBSET Flags
         /\ Sbc16(x, v, cin).r \in Word /\ Sbc16(x, v, cin).f \in SUBSET Flags
<1>1. /\ Add16(x, v).r = (x + v) % 65536
      /\ Adc16(x, v, cin).r = (x + v + cin) % 65536
      /\ Sbc16(x, v, cin).r = (x - v - cin) % 65536
  BY DEF Add16, Adc16, Sbc16, Res
<1>2. /\ (x + v) % 65536 \in Word
      /\ (x + v + cin) % 65536 \in Word
      /\ (x - v - cin) % 65536 \in Word
  <2>1. x \in Int /\ v \in Int /\ cin \in Int
    BY WordInt
  <2>2. x + v \in Int
    BY <2>1
  <2>3. x + v + cin \in Int
    BY <2>1
  <2>4. x - v - cin \in Int
    BY <2>1
  <2> QED
    BY <2>2, <2>3, <2>4, Wrap16
<1>3. Add16(x, v).f \in SUBSET Flags
  BY XYFlags DEF Add16, Res, Regs, Flags, SZPV, If
<1>4. ASSUME NEW r \in Word PROVE szxy[Hi(r)] \in SUBSET Flags
  BY WordHalves, SZXY
<1>5. Adc16(x, v, cin).f \in SUBSET Flags
  <2> DEFINE high == szxy[Hi((x + v + cin) % 65536)]
  <2>1. high \in SUBSET Flags
    BY <1>2, <1>4
  <2>2. Adc16(x, v, cin).f \subseteq high \cup Flags
    BY DEF Adc16, Res, If, Flags
  <2> QED BY <2>1, <2>2
<1>6. Sbc16(x, v, cin).f \in SUBSET Flags
  <2> DEFINE high == szxy[Hi((x - v - cin) % 65536)]
  <2>1. high \in SUBSET Flags
    BY <1>2, <1>4
  <2>2. Sbc16(x, v, cin).f \subseteq high \cup Flags
    BY DEF Sbc16, Res, If, Flags
  <2> QED BY <2>1, <2>2
<1> QED
  BY <1>1, <1>2, <1>3, <1>5, <1>6

LEMMA RotFits ==
  ASSUME NEW kind, NEW v \in Byte
  PROVE  /\ ShiftIn(kind, v) \in Byte
         /\ Rot(kind, v).r \in Byte /\ Rot(kind, v).f \in SUBSET Flags
<1>1. ShiftIn(kind, v) \in Byte
  BY Shifts DEF ShiftIn
<1>2. /\ Rot(kind, v).r = ShiftIn(kind, v)
      /\ Rot(kind, v).f = szxy[ShiftIn(kind, v)] \cup parity[ShiftIn(kind, v)]
                            \cup If(ShiftOut(kind, v), {"C"})
  BY DEF Rot, Res
<1> QED
  BY <1>1, <1>2, SZXY, ParityFlag DEF If, Flags

LEMMA DaaFits ==
  ASSUME Regs PROVE Daa.r \in Byte /\ Daa.f \in SUBSET Flags
<1> DEFINE high   == "C" \in f \/ a > 153
           low    == "H" \in f \/ a % 16 > 9
           adjust == (IF high THEN 96 ELSE 0) + (IF low THEN 6 ELSE 0)
           r      == (IF "N" \in f THEN a - adjust ELSE a + adjust) % 256
           half   == IF "N" \in f THEN "H" \in f /\ a % 16 < 6 ELSE a % 16 > 9
<1>1. adjust \in 0 .. 102
  OBVIOUS
<1> HIDE DEF adjust
<1>2. r \in Byte
  BY <1>1 DEF Byte, Regs
<1>3. /\ Daa.r = r
      /\ Daa.f = (f \cap {"N"}) \cup If(high, {"C"}) \cup If(half, {"H"})
                   \cup szxy[r] \cup parity[r]
  BY DEF Daa, Res, adjust
<1> HIDE DEF r, high, half
<1> QED
  BY <1>2, <1>3, SZXY, ParityFlag DEF If, Flags, Regs

LEMMA StepFlags ==
  ASSUME Regs, NEW v \in Byte
  PROVE  IncFlags(v) \in SUBSET Flags /\ DecFlags(v) \in SUBSET Flags
  BY SZXY DEF IncFlags, DecFlags, If, Flags, Regs

----------------------------------------------------------------------------
(* The program: what has run of it, and which instruction comes next.       *)

LEMMA InputTypes ==
  ASSUME NEW i \in Inputs
  PROVE  /\ i.prog \in Seq(STRING) /\ i.a \in Byte /\ i.m \in Byte /\ i.hl \in Word
         /\ i.de \in Word /\ i.bc \in Word /\ i.f \in SUBSET Flags /\ i.bit \in 0 .. 7
         /\ i.d \in Byte
  BY InputsAssumption DEF Input

LEMMA WordOf == ASSUME NEW x \in Byte, NEW y \in Byte PROVE x * 256 + y \in Word
  BY DEF Byte, Word

LEMMA AddressTypes ==
  ASSUME Regs, in \in Inputs
  PROVE  /\ After(hl) \in Word /\ After(de) \in Word /\ After(in.bc) \in Word
         /\ Indexed \in Word /\ a * 256 + Lo(After(de)) \in Word
<1>1. \A x \in Word : After(x) \in Word
  BY WordInt, Wrap16 DEF After
<1>2. Signed(in.d) \in Int
  <2>1. in.d \in 0 .. 255
    BY InputTypes DEF Byte
  <2> QED
    BY <2>1 DEF Signed
<1>3. hl \in Int /\ hl + Signed(in.d) \in Int
  BY <1>2, WordInt DEF Regs
<1>4. Indexed \in Word
  BY <1>3, Wrap16 DEF Indexed
<1>5. Lo(After(de)) \in Byte
  BY <1>1, WordHalves DEF Regs
<1>6. a * 256 + Lo(After(de)) \in Word
  BY <1>5, WordOf DEF Regs
<1> QED
  BY <1>1, <1>4, <1>6, InputTypes DEF Regs

LEMMA CarryTypes == /\ Carry \in 0 .. 1 /\ Cin \in 0 .. 1
  BY DEF Carry, Cin

(* Every instruction takes the head off the program.                        *)
LEMMA Takes ==
  ASSUME Next
  PROVE  todo # <<>> /\ todo' = Tail(todo) /\ in' = in
<1> USE DEF Is, Addressing
<1>1. ASSUME ADD \/ ADC \/ SUB \/ SBC \/ NEG \/ CP \/ AND \/ OR \/ XOR \/ INC \/ DEC
      PROVE  todo # <<>> /\ todo' = Tail(todo) /\ in' = in
  BY <1>1 DEF ADD, ADC, SUB, SBC, NEG, CP, AND, OR, XOR, INC, DEC
<1>2. ASSUME \/ DAA \/ CPL \/ SCF \/ CCF
             \/ (\E kind \in DOMAIN OnA : RotA(kind))
             \/ (\E kind \in Kinds : ROT(kind))
      PROVE  todo # <<>> /\ todo' = Tail(todo) /\ in' = in
  BY <1>2 DEF DAA, CPL, SCF, CCF, RotA, ROT
<1>3. ASSUME RLD \/ RRD \/ ADDHL \/ ADCHL \/ SBCHL \/ NOP \/ POPAF
      PROVE  todo # <<>> /\ todo' = Tail(todo) /\ in' = in
  BY <1>3 DEF RLD, RRD, ADDHL, ADCHL, SBCHL, NOP, POPAF
<1>4. ASSUME BIT \/ BITHL \/ BITIX \/ SET \/ RES \/ IN_ \/ LDAI \/ LDADE \/ LDDEA
      PROVE  todo # <<>> /\ todo' = Tail(todo) /\ in' = in
  BY <1>4 DEF BIT, BITHL, BITIX, SET, RES, IN_, LDAI, LDADE, LDDEA
<1> QED
  BY <1>1, <1>2, <1>3, <1>4 DEF Next

(* The instruction that runs is the one that the program names.             *)
Named ==
  \/ (ADD /\ Head(todo) = "ADD")           \/ (ADC /\ Head(todo) = "ADC")
  \/ (SUB /\ Head(todo) = "SUB")           \/ (SBC /\ Head(todo) = "SBC")
  \/ (NEG /\ Head(todo) = "NEG")           \/ (CP /\ Head(todo) = "CP")
  \/ (AND /\ Head(todo) = "AND")           \/ (OR /\ Head(todo) = "OR")
  \/ (XOR /\ Head(todo) = "XOR")           \/ (INC /\ Head(todo) = "INC")
  \/ (DEC /\ Head(todo) = "DEC")           \/ (DAA /\ Head(todo) = "DAA")
  \/ (CPL /\ Head(todo) = "CPL")           \/ (SCF /\ Head(todo) = "SCF")
  \/ (CCF /\ Head(todo) = "CCF")           \/ (NOP /\ Head(todo) = "NOP")
  \/ (RotA("RLC") /\ Head(todo) = "RLCA")  \/ (RotA("RRC") /\ Head(todo) = "RRCA")
  \/ (RotA("RL") /\ Head(todo) = "RLA")    \/ (RotA("RR") /\ Head(todo) = "RRA")
  \/ (ROT("RLC") /\ Head(todo) = "RLC")    \/ (ROT("RRC") /\ Head(todo) = "RRC")
  \/ (ROT("RL") /\ Head(todo) = "RL")      \/ (ROT("RR") /\ Head(todo) = "RR")
  \/ (ROT("SLA") /\ Head(todo) = "SLA")    \/ (ROT("SRA") /\ Head(todo) = "SRA")
  \/ (ROT("SLL") /\ Head(todo) = "SLL")    \/ (ROT("SRL") /\ Head(todo) = "SRL")
  \/ (RLD /\ Head(todo) = "RLD")           \/ (RRD /\ Head(todo) = "RRD")
  \/ (ADDHL /\ Head(todo) = "ADDHL")       \/ (ADCHL /\ Head(todo) = "ADCHL")
  \/ (SBCHL /\ Head(todo) = "SBCHL")       \/ (POPAF /\ Head(todo) = "POPAF")
  \/ (BIT /\ Head(todo) = "BIT")           \/ (BITHL /\ Head(todo) = "BITHL")
  \/ (BITIX /\ Head(todo) = "BITIX")       \/ (SET /\ Head(todo) = "SET")
  \/ (RES /\ Head(todo) = "RES")           \/ (IN_ /\ Head(todo) = "IN")
  \/ (LDAI /\ Head(todo) = "LDAI")         \/ (LDADE /\ Head(todo) = "LDADE")
  \/ (LDDEA /\ Head(todo) = "LDDEA")

LEMMA RunsNamed == ASSUME Next PROVE Named
<1> USE DEF Is, Addressing
<1>1. ASSUME ADD \/ ADC \/ SUB \/ SBC \/ NEG \/ CP \/ AND \/ OR \/ XOR \/ INC \/ DEC
      PROVE  Named
  <2>1. /\ (ADD => Head(todo) = "ADD") /\ (ADC => Head(todo) = "ADC")
        /\ (SUB => Head(todo) = "SUB") /\ (SBC => Head(todo) = "SBC")
        /\ (NEG => Head(todo) = "NEG") /\ (CP => Head(todo) = "CP")
        /\ (AND => Head(todo) = "AND") /\ (OR => Head(todo) = "OR")
        /\ (XOR => Head(todo) = "XOR") /\ (INC => Head(todo) = "INC")
        /\ (DEC => Head(todo) = "DEC")
    BY DEF ADD, ADC, SUB, SBC, NEG, CP, AND, OR, XOR, INC, DEC
  <2> QED
    BY <1>1, <2>1, Zenon DEF Named
<1>2. ASSUME DAA \/ CPL \/ SCF \/ CCF \/ NOP \/ POPAF \/ RLD \/ RRD \/ ADDHL \/ ADCHL \/ SBCHL
      PROVE  Named
  <2>1. /\ (DAA => Head(todo) = "DAA") /\ (CPL => Head(todo) = "CPL")
        /\ (SCF => Head(todo) = "SCF") /\ (CCF => Head(todo) = "CCF")
        /\ (NOP => Head(todo) = "NOP") /\ (POPAF => Head(todo) = "POPAF")
        /\ (RLD => Head(todo) = "RLD") /\ (RRD => Head(todo) = "RRD")
        /\ (ADDHL => Head(todo) = "ADDHL") /\ (ADCHL => Head(todo) = "ADCHL")
        /\ (SBCHL => Head(todo) = "SBCHL")
    BY DEF DAA, CPL, SCF, CCF, NOP, POPAF, RLD, RRD, ADDHL, ADCHL, SBCHL
  <2> QED
    BY <1>2, <2>1, Zenon DEF Named
<1>3. ASSUME BIT \/ BITHL \/ BITIX \/ SET \/ RES \/ IN_ \/ LDAI \/ LDADE \/ LDDEA
      PROVE  Named
  <2>1. /\ (BIT => Head(todo) = "BIT") /\ (BITHL => Head(todo) = "BITHL")
        /\ (BITIX => Head(todo) = "BITIX") /\ (SET => Head(todo) = "SET")
        /\ (RES => Head(todo) = "RES") /\ (IN_ => Head(todo) = "IN")
        /\ (LDAI => Head(todo) = "LDAI") /\ (LDADE => Head(todo) = "LDADE")
        /\ (LDDEA => Head(todo) = "LDDEA")
    BY DEF BIT, BITHL, BITIX, SET, RES, IN_, LDAI, LDADE, LDDEA
  <2> QED
    BY <1>3, <2>1, Zenon DEF Named
<1>4. ASSUME NEW kind \in DOMAIN OnA, RotA(kind)
      PROVE  Named
  <2>1. kind \in {"RLC", "RRC", "RL", "RR"} /\ Head(todo) = OnA[kind]
    BY <1>4 DEF OnA, RotA
  <2>2. /\ kind = "RLC" => Head(todo) = "RLCA"
        /\ kind = "RRC" => Head(todo) = "RRCA"
        /\ kind = "RL" => Head(todo) = "RLA"
        /\ kind = "RR" => Head(todo) = "RRA"
    BY <2>1 DEF OnA
  <2> QED
    BY <1>4, <2>1, <2>2, Zenon DEF Named
<1>5. ASSUME NEW kind \in Kinds, ROT(kind)
      PROVE  Named
  <2>1. kind \in {"RLC", "RL", "SLA", "SLL", "RRC", "RR", "SRA", "SRL"}
    BY DEF Kinds, ToLeft
  <2>2. Head(todo) = kind
    BY <1>5 DEF ROT
  <2> QED
    BY <1>5, <2>1, <2>2, Zenon DEF Named
<1> QED
  BY <1>1, <1>2, <1>3, <1>4, <1>5, Zenon DEF Next

----------------------------------------------------------------------------
(* Types.                                                                   *)

LEMMA InitTypes == Init => TypeOK
<1> SUFFICES ASSUME Init PROVE TypeOK
  OBVIOUS
<1>1. in \in Inputs
  BY DEF Init
<1>2. 0 \in Word /\ {} \in SUBSET Flags
  BY DEF Word
<1> QED
  BY <1>1, <1>2, InputTypes DEF Init, TypeOK

(* The registers after an instruction of each shape.                        *)
LEMMA AccumulateFits ==
  ASSUME Regs, NEW STATE res, res.r \in Byte, res.f \in SUBSET Flags, Accumulate(res)
  PROVE  Regs'
  BY DEF Regs, Accumulate, SetF

LEMMA ToOperandFits ==
  ASSUME Regs, NEW STATE res, res.r \in Byte, res.f \in SUBSET Flags, ToOperand(res)
  PROVE  Regs'
  BY DEF Regs, ToOperand, SetF

LEMMA ToHLFits ==
  ASSUME Regs, NEW STATE res, res.r \in Word, res.f \in SUBSET Flags, ToHL(res)
  PROVE  Regs'
  BY DEF Regs, ToHL, SetF

LEMMA JustFlagsFits ==
  ASSUME Regs, NEW STATE flags, flags \in SUBSET Flags, JustFlags(flags)
  PROVE  Regs'
  BY DEF Regs, JustFlags, SetF

LEMMA SumsFit ==
  ASSUME Regs, ADD \/ ADC \/ SUB \/ SBC \/ NEG \/ CP
  PROVE  Regs'
<1>1. /\ a \in Byte /\ m \in Byte /\ 0 \in Byte
      /\ 0 \in 0 .. 1 /\ Carry \in 0 .. 1
  BY CarryTypes DEF Regs, Byte
<1>2. /\ Add8(a, m, 0).r \in Byte /\ Add8(a, m, 0).f \in SUBSET Flags
      /\ Add8(a, m, Carry).r \in Byte /\ Add8(a, m, Carry).f \in SUBSET Flags
  BY <1>1, Add8Flags
<1>3. /\ Sub8(a, m, 0).r \in Byte /\ Sub8(a, m, 0).f \in SUBSET Flags
      /\ Sub8(a, m, Carry).r \in Byte /\ Sub8(a, m, Carry).f \in SUBSET Flags
      /\ Sub8(0, a, 0).r \in Byte /\ Sub8(0, a, 0).f \in SUBSET Flags
  BY <1>1, Sub8Flags
<1>4. (Sub8(a, m, 0).f \ {"X", "Y"}) \cup XYOf(m) \in SUBSET Flags
  BY <1>3, XYFlags DEF Flags
<1>5. CASE ADD \/ ADC
  BY <1>2, <1>5, AccumulateFits DEF ADD, ADC
<1>6. CASE SUB \/ SBC \/ NEG
  BY <1>3, <1>6, AccumulateFits DEF SUB, SBC, NEG
<1>7. CASE CP
  BY <1>4, <1>7, JustFlagsFits DEF CP
<1> QED
  BY <1>5, <1>6, <1>7

LEMMA LogicOpsFit ==
  ASSUME Regs, AND \/ OR \/ XOR
  PROVE  Regs'
<1>1. ASSUME NEW r \in Byte
      PROVE  /\ Logic(r).r \in Byte /\ Logic(r).f \in SUBSET Flags
             /\ Res(Logic(r).r, Logic(r).f \cup {"H"}).r \in Byte
             /\ Res(Logic(r).r, Logic(r).f \cup {"H"}).f \in SUBSET Flags
  BY LogicFits DEF Res, Flags
<1>2. \A set : ByteOf(set) \in Byte
  BY Weights
<1>3. CASE AND
  BY <1>1, <1>2, <1>3 DEF AND, Accumulate, SetF, Regs
<1>4. CASE OR
  BY <1>1, <1>2, <1>4, AccumulateFits DEF OR
<1>5. CASE XOR
  BY <1>1, <1>2, <1>5, AccumulateFits DEF XOR
<1> QED
  BY <1>3, <1>4, <1>5

LEMMA IncDecFit ==
  ASSUME Regs, INC \/ DEC
  PROVE  Regs'
<1>1. (m + 1) % 256 \in Byte /\ (m - 1) % 256 \in Byte
  BY DEF Regs, Byte
<1>2. IncFlags((m + 1) % 256) \in SUBSET Flags /\ DecFlags((m - 1) % 256) \in SUBSET Flags
  BY <1>1, StepFlags
<1>3. CASE INC
  BY <1>1, <1>2, <1>3 DEF INC, ToOperand, SetF, Res, Regs
<1>4. CASE DEC
  BY <1>1, <1>2, <1>4 DEF DEC, ToOperand, SetF, Res, Regs
<1> QED
  BY <1>3, <1>4

LEMMA OnAccumulatorFit ==
  ASSUME Regs, DAA \/ CPL \/ SCF \/ CCF \/ (\E kind \in DOMAIN OnA : RotA(kind))
  PROVE  Regs'
<1>1. CASE DAA
  BY <1>1, DaaFits, AccumulateFits DEF DAA
<1>2. CASE CPL
  <2>1. 255 - a \in Byte
    BY DEF Regs, Byte
  <2>2. (f \cap (SZPV \cup {"C"})) \cup XYOf(255 - a) \cup {"H", "N"} \in SUBSET Flags
    <3>1. f \in SUBSET Flags /\ XYOf(255 - a) \in SUBSET Flags
      BY XYFlags DEF Regs, Flags
    <3>2. {"H", "N"} \subseteq Flags
      BY DEF Flags
    <3> QED
      BY <3>1, <3>2
  <2> DEFINE flags == (f \cap (SZPV \cup {"C"})) \cup XYOf(255 - a) \cup {"H", "N"}
  <2>3. a' = 255 - a /\ f' = flags /\ q' = flags /\ m' = m /\ hl' = hl /\ de' = de
    BY <1>2 DEF CPL, Accumulate, SetF, Res
  <2> HIDE DEF flags
  <2> QED
    BY <2>1, <2>2, <2>3 DEF Regs, flags
<1>3. CASE SCF \/ CCF
  <2>1. ScfCcfXY \subseteq {"X", "Y"}
    BY DEF ScfCcfXY
  <2>2. /\ (f \cap SZPV) \cup ScfCcfXY \cup {"C"} \in SUBSET Flags
        /\ (f \cap SZPV) \cup ScfCcfXY \cup (IF "C" \in f THEN {"H"} ELSE {"C"}) \in SUBSET Flags
    BY <2>1 DEF Regs, Flags
  <2> QED
    BY <1>3, <2>2, JustFlagsFits DEF SCF, CCF
<1>4. ASSUME NEW kind \in DOMAIN OnA, RotA(kind)
      PROVE  Regs'
  <2> DEFINE r == ShiftIn(kind, a)
  <2>1. r \in Byte
    BY RotFits DEF Regs
  <2>2. (f \cap SZPV) \cup XYOf(r) \cup If(ShiftOut(kind, a), {"C"}) \in SUBSET Flags
    BY XYFlags DEF Regs, Flags, If
  <2>3. Accumulate(Res(r, (f \cap SZPV) \cup XYOf(r) \cup If(ShiftOut(kind, a), {"C"})))
    BY <1>4 DEF RotA
  <2> HIDE DEF r
  <2> QED
    BY <2>1, <2>2, <2>3 DEF Accumulate, SetF, Res, Regs
<1> QED
  BY <1>1, <1>2, <1>3, <1>4

(* RLD and RRD: the three nibbles of A's low half and of the operand.       *)
LEMMA Nibbles ==
  ASSUME NEW x \in Byte, NEW v \in Byte
  PROVE  /\ (x - (x % 16)) + (v \div 16) \in Byte
         /\ (x - (x % 16)) + (v % 16) \in Byte
         /\ ((v * 16) % 256) + (x % 16) = 16 * (v % 16) + (x % 16)
         /\ 16 * (v % 16) + (x % 16) \in Byte
<1> DEFINE xh == x \div 16    xl == x % 16
           vh == v \div 16    vl == v % 16
<1>1. /\ xh \in 0 .. 15 /\ xl \in 0 .. 15 /\ x = 16 * xh + xl
      /\ vh \in 0 .. 15 /\ vl \in 0 .. 15 /\ v = 16 * vh + vl
  BY DEF Byte
<1>2. (v * 16) % 256 = 16 * (v % 16)
  BY DEF Byte
<1>3. ((v * 16) % 256) + (x % 16) = 16 * (v % 16) + (x % 16)
  BY <1>2
<1> HIDE DEF xh, xl, vh, vl
<1>4. (x - xl) + vh \in Byte /\ (x - xl) + vl \in Byte /\ 16 * vl + xl \in Byte
  BY <1>1 DEF Byte
<1> QED
  BY <1>3, <1>4 DEF xh, xl, vh, vl

LEMMA DigitsFit ==
  ASSUME Regs, RLD \/ RRD
  PROVE  Regs'
<1>1. a \in Byte /\ m \in Byte /\ f \in SUBSET Flags
  BY DEF Regs
<1>2. ASSUME NEW x \in Byte
      PROVE  (f \cap {"C"}) \cup szxy[x] \cup parity[x] \in SUBSET Flags
  BY <1>1, SZXY, ParityFlag DEF Flags
<1>3. CASE RLD
  <2> DEFINE newA == (a - (a % 16)) + (m \div 16)
  <2>1. /\ a' = newA /\ m' = ((m * 16) % 256) + (a % 16)
        /\ f' = (f \cap {"C"}) \cup szxy[newA] \cup parity[newA]
        /\ q' = f' /\ UNCHANGED <<hl, de>>
    BY <1>3 DEF RLD, SetF
  <2>2. newA \in Byte /\ ((m * 16) % 256) + (a % 16) \in Byte
    BY <1>1, Nibbles
  <2> HIDE DEF newA
  <2> QED
    BY <1>2, <2>1, <2>2 DEF Regs
<1>4. CASE RRD
  <2> DEFINE newA == (a - (a % 16)) + (m % 16)
  <2>1. /\ a' = newA /\ m' = ((a * 16) % 256) + (m \div 16)
        /\ f' = (f \cap {"C"}) \cup szxy[newA] \cup parity[newA]
        /\ q' = f' /\ UNCHANGED <<hl, de>>
    BY <1>4 DEF RRD, SetF
  <2>2. newA \in Byte
    BY <1>1, Nibbles
  <2>3. ((a * 16) % 256) + (m \div 16) \in Byte
    <3>1. (a * 16) % 256 = 16 * (a % 16)
      BY <1>1 DEF Byte
    <3>2. m \div 16 \in 0 .. 15 /\ a % 16 \in 0 .. 15
      BY <1>1 DEF Byte
    <3> QED
      BY <3>1, <3>2 DEF Byte
  <2> HIDE DEF newA
  <2> QED
    BY <1>2, <2>1, <2>2, <2>3 DEF Regs
<1> QED
  BY <1>3, <1>4

LEMMA WordsFit ==
  ASSUME Regs, ADDHL \/ ADCHL \/ SBCHL
  PROVE  Regs'
<1>1. hl \in Word /\ de \in Word /\ Carry \in 0 .. 1
  BY CarryTypes DEF Regs
<1>2. /\ Add16(hl, de).r \in Word /\ Add16(hl, de).f \in SUBSET Flags
      /\ Adc16(hl, de, Carry).r \in Word /\ Adc16(hl, de, Carry).f \in SUBSET Flags
      /\ Sbc16(hl, de, Carry).r \in Word /\ Sbc16(hl, de, Carry).f \in SUBSET Flags
  BY <1>1, WordSums
<1> QED
  BY <1>2, ToHLFits DEF ADDHL, ADCHL, SBCHL

LEMMA LoadsFit ==
  ASSUME Regs, in \in Inputs, NOP \/ POPAF \/ IN_ \/ LDAI \/ LDADE \/ LDDEA
  PROVE  Regs'
<1>1. CASE NOP
  BY <1>1 DEF NOP, KeepF, Regs
<1>2. CASE POPAF
  <2>1. Hi(de) \in Byte
    BY WordHalves DEF Regs
  <2>2. { FlagAt[i] : i \in Bits(Lo(de)) } \in SUBSET Flags
    <3>1. \A i \in 0 .. 7 : FlagAt[i] \in Flags
      BY DEF FlagAt, Flags
    <3>2. Bits(Lo(de)) \subseteq 0 .. 7
      BY DEF Bits
    <3> QED
      BY <3>1, <3>2
  <2> QED
    BY <1>2, <2>1, <2>2 DEF POPAF, Regs
<1>3. CASE IN_ \/ LDAI
  <2>1. /\ (f \cap {"C"}) \cup szxy[m] \cup parity[m] \in SUBSET Flags
        /\ (f \cap {"C"}) \cup szxy[m] \cup If(in.iff2, {"PV"}) \in SUBSET Flags
    BY SZXY, ParityFlag DEF If, Flags, Regs
  <2> QED
    BY <1>3, <2>1 DEF IN_, LDAI, Accumulate, SetF, Res, Regs
<1>4. CASE LDADE \/ LDDEA
  BY <1>4 DEF LDADE, LDDEA, ToOperandOnly, KeepF, Regs
<1> QED
  BY <1>1, <1>2, <1>3, <1>4

LEMMA BitOpsFit ==
  ASSUME Regs, BIT \/ BITHL \/ BITIX \/ SET \/ RES
  PROVE  Regs'
<1>1. \A bit, v, src : BitFlags(bit, v, src) \in SUBSET Flags
  BY XYFlags DEF BitFlags, If, Flags
<1>2. CASE BIT \/ BITHL \/ BITIX
  BY <1>1, <1>2, JustFlagsFits DEF BIT, BITHL, BITIX
<1>3. CASE SET \/ RES
  BY <1>3, Weights DEF SET, RES, ToOperandOnly, KeepF, Regs
<1> QED
  BY <1>2, <1>3

LEMMA RegsFit == ASSUME Regs, in \in Inputs, Next PROVE Regs'
<1>1. ASSUME NEW kind \in Kinds, ROT(kind) PROVE Regs'
  <2>1. Rot(kind, m).r \in Byte /\ Rot(kind, m).f \in SUBSET Flags
    BY RotFits DEF Regs
  <2> QED
    BY <1>1, <2>1, ToOperandFits DEF ROT
<1> QED
  BY <1>1, SumsFit, LogicOpsFit, IncDecFit, OnAccumulatorFit, DigitsFit, WordsFit, LoadsFit,
     BitOpsFit DEF Next

(* WZ, which most instructions leave alone.                                 *)
LEMMA WZFits == ASSUME Regs, wz \in Word, in \in Inputs, Next PROVE wz' \in Word
<1> USE AddressTypes DEF Is, Addressing
<1>1. CASE ADD \/ ADC \/ SUB \/ SBC \/ NEG \/ CP \/ AND \/ OR \/ XOR \/ INC \/ DEC
  BY <1>1 DEF ADD, ADC, SUB, SBC, NEG, CP, AND, OR, XOR, INC, DEC
<1>2. CASE \/ DAA \/ CPL \/ SCF \/ CCF
           \/ (\E kind \in DOMAIN OnA : RotA(kind))
           \/ (\E kind \in Kinds : ROT(kind))
  BY <1>2 DEF DAA, CPL, SCF, CCF, RotA, ROT
<1>3. CASE RLD \/ RRD \/ ADDHL \/ ADCHL \/ SBCHL \/ NOP \/ POPAF
  BY <1>3 DEF RLD, RRD, ADDHL, ADCHL, SBCHL, NOP, POPAF
<1>4. CASE BIT \/ BITHL \/ BITIX \/ SET \/ RES \/ IN_ \/ LDAI \/ LDADE \/ LDDEA
  BY <1>4 DEF BIT, BITHL, BITIX, SET, RES, IN_, LDAI, LDADE, LDDEA
<1> QED
  BY <1>1, <1>2, <1>3, <1>4 DEF Next

LEMMA NextTypes == ASSUME TypeOK, Next PROVE TypeOK'
<1>1. Regs /\ wz \in Word /\ todo \in Seq(STRING) /\ in \in Inputs
  BY DEF TypeOK, Regs
<1>2. todo # <<>> /\ todo' = Tail(todo) /\ in' = in
  BY Takes
<1>3. Regs' /\ wz' \in Word
  BY <1>1, RegsFit, WZFits
<1>4. todo' \in Seq(STRING)
  BY <1>1, <1>2
<1> QED
  BY <1>1, <1>2, <1>3, <1>4 DEF TypeOK, Regs

----------------------------------------------------------------------------
(* How far the program is.                                                  *)

Rest == /\ Len(todo) <= Len(in.prog)
        /\ \A i \in 1 .. Len(todo) : todo[i] = in.prog[Len(in.prog) - Len(todo) + i]

Ran(k) == Len(todo) + k = Len(in.prog)

(* No instruction has run.                                                  *)
Fresh == Ran(0) => /\ a = in.a /\ m = in.m /\ hl = in.hl /\ de = in.de
                   /\ f = in.f /\ q = {}

LEMMA InitRest == Init => Rest /\ Fresh
<1> SUFFICES ASSUME Init PROVE Rest /\ Fresh
  OBVIOUS
<1>1. in.prog \in Seq(STRING) /\ todo = in.prog
  BY InputTypes DEF Init
<1>2. Rest
  BY <1>1 DEF Rest
<1> QED
  BY <1>2 DEF Fresh, Init

LEMMA Advances ==
  ASSUME TypeOK, Rest, Next
  PROVE  /\ Rest' /\ in' = in /\ Len(todo) \in Nat \ {0} /\ Len(todo') = Len(todo) - 1
         /\ Head(todo) = in.prog[Len(in.prog) - Len(todo) + 1]
<1>1. todo # <<>> /\ todo' = Tail(todo) /\ in' = in
  BY Takes
<1>2. todo \in Seq(STRING) /\ in.prog \in Seq(STRING)
  BY InputTypes DEF TypeOK
<1>3. /\ Len(todo) \in Nat \ {0} /\ Len(Tail(todo)) = Len(todo) - 1
      /\ \A i \in 1 .. Len(todo) - 1 : Tail(todo)[i] = todo[i + 1]
      /\ Head(todo) = todo[1] /\ Len(in.prog) \in Nat
  BY <1>1, <1>2
<1>4. Head(todo) = in.prog[Len(in.prog) - Len(todo) + 1]
  BY <1>3 DEF Rest
<1>5. Len(todo') <= Len(in'.prog)
  BY <1>1, <1>3 DEF Rest
<1>6. ASSUME NEW i \in 1 .. Len(todo')
      PROVE  todo'[i] = in'.prog[Len(in'.prog) - Len(todo') + i]
  <2>1. i + 1 \in 1 .. Len(todo) /\ todo'[i] = todo[i + 1]
    BY <1>1, <1>3
  <2>2. todo[i + 1] = in.prog[Len(in.prog) - Len(todo) + (i + 1)]
    BY <2>1 DEF Rest
  <2>3. Len(in.prog) - Len(todo) + (i + 1) = Len(in.prog) - Len(todo') + i
    <3> DEFINE all == Len(in.prog)
               left == Len(todo)
               then == Len(todo')
    <3>1. all \in Int /\ left \in Int /\ then = left - 1 /\ i \in Int
      BY <1>1, <1>3
    <3> HIDE DEF all, left, then
    <3>2. all - left + (i + 1) = all - then + i
      BY <3>1
    <3> QED
      BY <3>2 DEF all, left, then
  <2> QED
    BY <1>1, <2>1, <2>2, <2>3
<1> QED
  BY <1>1, <1>3, <1>4, <1>5, <1>6 DEF Rest

(* The instruction behind the first k.                                      *)
LEMMA Follows ==
  ASSUME TypeOK, Rest, Next, NEW k \in Nat, Ran(k + 1)'
  PROVE  Ran(k) /\ Head(todo) = in.prog[k + 1]
<1>1. /\ in' = in /\ Len(todo) \in Nat \ {0} /\ Len(todo') = Len(todo) - 1
      /\ Head(todo) = in.prog[Len(in.prog) - Len(todo) + 1]
  BY Advances
<1>2. Len(todo') + (k + 1) = Len(in.prog)
  BY <1>1 DEF Ran
<1>3. Len(todo) + k = Len(in.prog)
  BY <1>1, <1>2
<1>4. Len(in.prog) - Len(todo) + 1 = k + 1
  BY <1>1, <1>3
<1> QED
  BY <1>1, <1>3, <1>4 DEF Ran

LEMMA NotFresh == ASSUME TypeOK, Rest, Next PROVE ~Ran(0)'
<1>1. in' = in /\ Len(todo) \in Nat \ {0} /\ Len(todo') = Len(todo) - 1
  BY Advances
<1>2. Len(todo) <= Len(in.prog) /\ Len(in.prog) \in Nat
  BY InputTypes DEF Rest, TypeOK
<1> QED
  BY <1>1, <1>2 DEF Ran

(* A program that has ended ran all its instructions.                       *)
LEMMA EndsAfter ==
  ASSUME NEW STATE prog, prog \in Seq(STRING), Ended(prog)
  PROVE  Ran(Len(prog)) /\ in.prog = prog
  BY DEF Ran, Ended

First(op) == Ran(1) /\ in.prog[1] = op

Second(one, two) == Ran(2) /\ in.prog[1] = one /\ in.prog[2] = two

LEMMA FirstRuns ==
  ASSUME TypeOK, Rest, Fresh, Next, NEW op, First(op)'
  PROVE  /\ Head(todo) = op /\ in' = in
         /\ a = in.a /\ m = in.m /\ hl = in.hl /\ de = in.de /\ f = in.f /\ q = {}
<1>1. in' = in
  BY Advances
<1>2. Ran(1)' /\ in.prog[1] = op
  BY <1>1 DEF First
<1>3. Ran(0 + 1)'
  BY <1>2
<1>4. Ran(0) /\ Head(todo) = in.prog[0 + 1]
  BY <1>3, Follows
<1> QED
  BY <1>1, <1>2, <1>4 DEF Fresh

LEMMA SecondRuns ==
  ASSUME TypeOK, Rest, Next, NEW one, NEW two, Second(one, two)'
  PROVE  First(one) /\ Head(todo) = two /\ in' = in
<1>1. in' = in
  BY Advances
<1>2. Ran(2)' /\ in.prog[1] = one /\ in.prog[2] = two
  BY <1>1 DEF Second
<1>3. Ran(1 + 1)'
  BY <1>2
<1>4. Ran(1) /\ Head(todo) = in.prog[1 + 1]
  BY <1>3, Follows
<1> QED
  BY <1>1, <1>2, <1>4 DEF First

LEMMA ThirdRuns ==
  ASSUME TypeOK, Rest, Next, NEW one, NEW two, NEW three,
         Ended(<<one, two, three>>)'
  PROVE  Second(one, two) /\ Head(todo) = three /\ in' = in
<1>1. in' = in
  BY Advances
<1>2. todo' = <<>> /\ in.prog = <<one, two, three>>
  BY <1>1 DEF Ended
<1>3. Ran(2 + 1)'
  BY <1>1, <1>2 DEF Ran
<1>4. Ran(2) /\ Head(todo) = in.prog[2 + 1]
  BY <1>3, Follows
<1> QED
  BY <1>1, <1>2, <1>4 DEF Second

(* The end of the short programs.                                           *)
LEMMA EndOne ==
  ASSUME NEW op, Ended(<<op>>)
  PROVE  First(op)
  BY DEF Ended, First, Ran

LEMMA EndTwo ==
  ASSUME NEW one, NEW two, Ended(<<one, two>>)
  PROVE  Second(one, two)
  BY DEF Ended, Second, Ran

LEMMA EndTwoNext ==
  ASSUME NEW one, NEW two, Ended(<<one, two>>)'
  PROVE  Second(one, two)'
  BY DEF Ended, Second, Ran

LEMMA EndOneNext ==
  ASSUME NEW op, Ended(<<op>>)'
  PROVE  First(op)'
  BY DEF Ended, First, Ran

(* No program has ended before its first instruction.                       *)
LEMMA NotEnded ==
  ASSUME Init, NEW prog, Ended(prog)
  PROVE  prog = <<>>
  BY DEF Init, Ended

----------------------------------------------------------------------------
Control == TypeOK /\ Rest /\ Fresh

LEMMA InitControl == Init => Control
  BY InitTypes, InitRest DEF Control

LEMMA NextControl == Control /\ [Next]_vars => Control'
<1> SUFFICES ASSUME Control, [Next]_vars PROVE Control'
  OBVIOUS
<1>1. CASE UNCHANGED vars
  BY <1>1 DEF Control, TypeOK, Rest, Fresh, Ran, vars
<1>2. CASE Next
  BY <1>2, NextTypes, Advances, NotFresh DEF Control, Fresh
<1> QED
  BY <1>1, <1>2

(* The invariant on which the others rest: the registers are what they were *)
(* loaded with until the first instruction runs, and what is left to run is *)
(* the end of the program.                                                  *)
LEMMA ControlKept == Spec => []Control
  BY InitControl, NextControl, PTL DEF Spec

(* Every register stays in its width, whatever the program.                 *)
THEOREM AluTypes == Spec => []TypeOK
  BY ControlKept, PTL DEF Control

----------------------------------------------------------------------------
(* Sums and differences.                                                    *)

Holds(res) == a = res.r /\ f = res.f

SumsRun ==
  /\ First("ADD") => Holds(Add8(in.a, in.m, 0))
  /\ First("ADC") => Holds(Add8(in.a, in.m, Cin))
  /\ First("SUB") => Holds(Sub8(in.a, in.m, 0))
  /\ First("SBC") => Holds(Sub8(in.a, in.m, Cin))
  /\ First("NEG") => Holds(Sub8(0, in.a, 0))

LEMMA NextSums == ASSUME Control, Next PROVE SumsRun'
<1>0. TypeOK /\ Rest /\ Fresh
  BY DEF Control
<1>1. ASSUME First("ADD")' PROVE Holds(Add8(in.a, in.m, 0))'
  <2>1. Head(todo) = "ADD" /\ in' = in /\ a = in.a /\ m = in.m
    BY <1>0, <1>1, FirstRuns
  <2>2. ADD
    BY <2>1, RunsNamed DEF Named
  <2> QED
    BY <2>1, <2>2 DEF ADD, Accumulate, SetF, Holds, Add8
<1>2. ASSUME First("ADC")' PROVE Holds(Add8(in.a, in.m, Cin))'
  <2>1. Head(todo) = "ADC" /\ in' = in /\ a = in.a /\ m = in.m /\ f = in.f
    BY <1>0, <1>2, FirstRuns
  <2>2. ADC
    BY <2>1, RunsNamed DEF Named
  <2>3. Carry = Cin
    BY <2>1 DEF Carry, Cin
  <2> QED
    BY <2>1, <2>2, <2>3 DEF ADC, Accumulate, SetF, Holds, Add8, Cin
<1>3. ASSUME First("SUB")' PROVE Holds(Sub8(in.a, in.m, 0))'
  <2>1. Head(todo) = "SUB" /\ in' = in /\ a = in.a /\ m = in.m
    BY <1>0, <1>3, FirstRuns
  <2>2. SUB
    BY <2>1, RunsNamed DEF Named
  <2> QED
    BY <2>1, <2>2 DEF SUB, Accumulate, SetF, Holds, Sub8
<1>4. ASSUME First("SBC")' PROVE Holds(Sub8(in.a, in.m, Cin))'
  <2>1. Head(todo) = "SBC" /\ in' = in /\ a = in.a /\ m = in.m /\ f = in.f
    BY <1>0, <1>4, FirstRuns
  <2>2. SBC
    BY <2>1, RunsNamed DEF Named
  <2>3. Carry = Cin
    BY <2>1 DEF Carry, Cin
  <2> QED
    BY <2>1, <2>2, <2>3 DEF SBC, Accumulate, SetF, Holds, Sub8, Cin
<1>5. ASSUME First("NEG")' PROVE Holds(Sub8(0, in.a, 0))'
  <2>1. Head(todo) = "NEG" /\ in' = in /\ a = in.a
    BY <1>0, <1>5, FirstRuns
  <2>2. NEG
    BY <2>1, RunsNamed DEF Named
  <2> QED
    BY <2>1, <2>2 DEF NEG, Accumulate, SetF, Holds, Sub8
<1> QED
  BY <1>1, <1>2, <1>3, <1>4, <1>5 DEF SumsRun

(* At the start no instruction has run.                                     *)
LEMMA NotFirstYet ==
  ASSUME Control, Init, NEW one, NEW two
  PROVE  ~First(one) /\ ~Second(one, two) /\ \A k \in 1 .. 9 : ~Ran(k)
<1>1. todo = in.prog /\ in.prog \in Seq(STRING)
  BY InputTypes DEF Init
<1>2. Len(in.prog) \in Nat
  BY <1>1
<1> QED
  BY <1>1, <1>2 DEF First, Second, Ran

(* A sum, with its flags, is exact.                                         *)
LEMMA SumExact ==
  ASSUME NEW x \in Byte, NEW y \in Byte, NEW cin \in 0 .. 1, Holds(Add8(x, y, cin))
  PROVE  Exact(1, x, y, cin)
<1> DEFINE sum == Add8(x, y, cin)
<1>1. /\ sum.r = (x + y + cin) % 256
      /\ "C" \in sum.f <=> x + y + cin > 255
      /\ "H" \in sum.f <=> (x % 16) + (y % 16) + cin > 15
      /\ "PV" \in sum.f <=> ~Fits(Signed(x) + Signed(y) + cin)
      /\ "S" \in sum.f <=> sum.r > 127
      /\ "Z" \in sum.f <=> sum.r = 0
      /\ "N" \notin sum.f
  BY Add8Flags
<1>2. a = sum.r /\ f = sum.f
  BY DEF Holds
<1>3. /\ x \in Int /\ y \in Int /\ x + y + cin >= 0
      /\ (x % 16) + (y % 16) + cin >= 0
      /\ Signed(x) \in Int /\ Signed(y) \in Int
  BY DEF Byte, Signed
<1> HIDE DEF sum
<1>4. 1 * (y + cin) = y + cin /\ x + (y + cin) = x + y + cin
  BY <1>3
<1>5. a = (x + 1 * (y + cin)) % 256
  BY <1>1, <1>2, <1>4
<1>6. "C" \in f <=> x + 1 * (y + cin) \notin Byte
  BY <1>1, <1>2, <1>3 DEF Byte
<1>7. "H" \in f <=> (x % 16) + 1 * ((y % 16) + cin) \notin 0 .. 15
  BY <1>1, <1>2, <1>3
<1>8. "PV" \in f <=> ~Fits(Signed(x) + 1 * (Signed(y) + cin))
  <2>1. Signed(x) + 1 * (Signed(y) + cin) = Signed(x) + Signed(y) + cin
    BY <1>3
  <2> QED BY <1>1, <1>2, <2>1
<1>9. ("S" \in f <=> a > 127) /\ ("Z" \in f <=> a = 0) /\ ("N" \in f <=> 1 = -1)
  BY <1>1, <1>2
<1> QED
  BY <1>5, <1>6, <1>7, <1>8, <1>9 DEF Exact

LEMMA DifferenceExact ==
  ASSUME NEW x \in Byte, NEW y \in Byte, NEW cin \in 0 .. 1, Holds(Sub8(x, y, cin))
  PROVE  Exact(-1, x, y, cin)
<1> DEFINE diff == Sub8(x, y, cin)
<1>1. /\ diff.r = (x - y - cin) % 256
      /\ "C" \in diff.f <=> x - y - cin < 0
      /\ "H" \in diff.f <=> (x % 16) - (y % 16) - cin < 0
      /\ "PV" \in diff.f <=> ~Fits(Signed(x) - Signed(y) - cin)
      /\ "S" \in diff.f <=> diff.r > 127
      /\ "Z" \in diff.f <=> diff.r = 0
      /\ "N" \in diff.f
  BY Sub8Flags
<1>2. a = diff.r /\ f = diff.f
  BY DEF Holds
<1>3. /\ x \in Int /\ y \in Int /\ x - y - cin <= 255
      /\ (x % 16) - (y % 16) - cin <= 15
      /\ Signed(x) \in Int /\ Signed(y) \in Int
  BY DEF Byte, Signed
<1> HIDE DEF diff
<1>4. x + (-1) * (y + cin) = x - y - cin
  BY <1>3
<1>5. a = (x + (-1) * (y + cin)) % 256
  BY <1>1, <1>2, <1>4
<1>6. "C" \in f <=> x + (-1) * (y + cin) \notin Byte
  BY <1>1, <1>2, <1>3 DEF Byte
<1>7. "H" \in f <=> (x % 16) + (-1) * ((y % 16) + cin) \notin 0 .. 15
  BY <1>1, <1>2, <1>3
<1>8. "PV" \in f <=> ~Fits(Signed(x) + (-1) * (Signed(y) + cin))
  <2>1. Signed(x) + (-1) * (Signed(y) + cin) = Signed(x) - Signed(y) - cin
    BY <1>3
  <2> QED BY <1>1, <1>2, <2>1
<1>9. ("S" \in f <=> a > 127) /\ ("Z" \in f <=> a = 0) /\ ("N" \in f <=> -1 = -1)
  BY <1>1, <1>2
<1> QED
  BY <1>5, <1>6, <1>7, <1>8, <1>9 DEF Exact

LEMMA SumsAreExact == Control /\ SumsRun => ArithmeticExact
<1> SUFFICES ASSUME Control, SumsRun PROVE ArithmeticExact
  OBVIOUS
<1>1. in.a \in Byte /\ in.m \in Byte /\ Cin \in 0 .. 1 /\ 0 \in 0 .. 1 /\ 0 \in Byte
  BY InputTypes, CarryTypes DEF Control, TypeOK, Byte
<1>2. /\ Ended(<<"ADD">>) => Exact(1, in.a, in.m, 0)
      /\ Ended(<<"ADC">>) => Exact(1, in.a, in.m, Cin)
  BY <1>1, SumExact, EndOne DEF SumsRun
<1>3. /\ Ended(<<"SUB">>) => Exact(-1, in.a, in.m, 0)
      /\ Ended(<<"SBC">>) => Exact(-1, in.a, in.m, Cin)
      /\ Ended(<<"NEG">>) => Exact(-1, 0, in.a, 0)
  BY <1>1, DifferenceExact, EndOne DEF SumsRun
<1> QED
  BY <1>2, <1>3 DEF ArithmeticExact

----------------------------------------------------------------------------
(* Comparison.                                                              *)

CompareRun == First("CP") => /\ a = in.a
                             /\ f = (Sub8(in.a, in.m, 0).f \ {"X", "Y"}) \cup XYOf(in.m)

LEMMA NextCompare == ASSUME Control, Next PROVE CompareRun'
<1> SUFFICES ASSUME First("CP")'
             PROVE  (/\ a = in.a
                     /\ f = (Sub8(in.a, in.m, 0).f \ {"X", "Y"}) \cup XYOf(in.m))'
  BY DEF CompareRun
<1>1. Head(todo) = "CP" /\ in' = in /\ a = in.a /\ m = in.m
  BY FirstRuns DEF Control
<1>2. CP
  BY <1>1, RunsNamed DEF Named
<1> QED
  BY <1>1, <1>2 DEF CP, JustFlags, SetF, Sub8, XYOf

LEMMA SignedOrder ==
  ASSUME NEW x \in Byte, NEW v \in Byte
  PROVE  LET r == (x - v - 0) % 256
         IN  /\ (r > 127) # ~Fits(Signed(x) - Signed(v) - 0) <=> Signed(x) < Signed(v)
             /\ r = 0 <=> x = v
             /\ x - v - 0 < 0 <=> x < v
<1> DEFINE r == (x - v - 0) % 256
<1>1. r = IF x < v THEN x - v + 256 ELSE x - v
  BY DEF Byte
<1> HIDE DEF r
<1>2. (r > 127) # ~Fits(Signed(x) - Signed(v) - 0) <=> Signed(x) < Signed(v)
  <2> DEFINE sx == Signed(x)
             sv == Signed(v)
  <2>1. /\ sx = (IF x > 127 THEN x - 256 ELSE x) /\ sx \in -128 .. 127
        /\ sv = (IF v > 127 THEN v - 256 ELSE v) /\ sv \in -128 .. 127
    BY DEF Signed, Byte
  <2>2. Fits(sx - sv - 0) <=> sx - sv \in -128 .. 127
    BY <2>1 DEF Fits
  <2> HIDE DEF sx, sv
  <2>3. r > 127 <=> IF x < v THEN x - v >= -128 ELSE x - v > 127
    BY <1>1 DEF Byte
  <2>4. (r > 127) # ~Fits(sx - sv - 0) <=> sx < sv
    <3>1. CASE x < v
      BY <2>1, <2>2, <2>3, <3>1 DEF Byte
    <3>2. CASE ~(x < v) /\ (x > 127 <=> v > 127)
      <4>1. sx - sv = x - v /\ x - v \in 0 .. 127
        BY <2>1, <3>2 DEF Byte
      <4> QED
        BY <2>1, <2>2, <2>3, <3>2, <4>1
    <3>3. CASE ~(x < v) /\ x > 127 /\ ~(v > 127)
      <4>1. sx - sv = x - v - 256 /\ x - v \in 1 .. 255
        BY <2>1, <3>3 DEF Byte
      <4> QED
        BY <2>1, <2>2, <2>3, <3>3, <4>1
    <3> QED
      BY <3>1, <3>2, <3>3 DEF Byte
  <2> QED
    BY <2>4 DEF sx, sv
<1>3. (r = 0 <=> x = v) /\ (x - v - 0 < 0 <=> x < v)
  BY <1>1 DEF Byte
<1> QED
  BY <1>2, <1>3 DEF r

LEMMA ComparesInOrder == Control /\ CompareRun => CompareOrders
<1> SUFFICES ASSUME Control, CompareRun, Ended(<<"CP">>)
             PROVE  /\ "C" \in f <=> in.a < in.m
                    /\ "Z" \in f <=> in.a = in.m
                    /\ ("S" \in f) # ("PV" \in f) <=> Signed(in.a) < Signed(in.m)
                    /\ a = in.a
  BY DEF CompareOrders
<1> DEFINE x == in.a
           v == in.m
           diff == Sub8(x, v, 0)
<1>1. x \in Byte /\ v \in Byte /\ 0 \in 0 .. 1
  BY InputTypes DEF Control, TypeOK
<1>2. a = x /\ f = (diff.f \ {"X", "Y"}) \cup XYOf(v)
  BY EndOne DEF CompareRun
<1> HIDE DEF x, v
<1>3. /\ diff.r = (x - v - 0) % 256
      /\ "C" \in diff.f <=> x - v - 0 < 0
      /\ "PV" \in diff.f <=> ~Fits(Signed(x) - Signed(v) - 0)
      /\ "S" \in diff.f <=> diff.r > 127
      /\ "Z" \in diff.f <=> diff.r = 0
  BY <1>1, Sub8Flags
<1>4. /\ ("C" \in f <=> "C" \in diff.f) /\ ("Z" \in f <=> "Z" \in diff.f)
      /\ ("S" \in f <=> "S" \in diff.f) /\ ("PV" \in f <=> "PV" \in diff.f)
  BY <1>2, XYFlags
<1> DEFINE r == (x - v - 0) % 256
<1>5. /\ (r > 127) # ~Fits(Signed(x) - Signed(v) - 0) <=> Signed(x) < Signed(v)
      /\ r = 0 <=> x = v
      /\ x - v - 0 < 0 <=> x < v
  BY <1>1, SignedOrder
<1>6. diff.r = r
  BY <1>3
<1> HIDE DEF diff, r
<1>7. ("C" \in f <=> x < v) /\ ("Z" \in f <=> x = v)
  BY <1>3, <1>4, <1>5, <1>6
<1>8. /\ "S" \in f <=> r > 127
      /\ "PV" \in f <=> ~Fits(Signed(x) - Signed(v) - 0)
  BY <1>3, <1>4, <1>6
<1>9. ("S" \in f) # ("PV" \in f) <=> Signed(x) < Signed(v)
  BY <1>5, <1>8
<1> QED
  BY <1>2, <1>7, <1>9 DEF x, v

----------------------------------------------------------------------------
(* INC and DEC.                                                             *)

StepsRun ==
  /\ First("INC") => /\ a = in.a /\ m = (in.m + 1) % 256
                     /\ f = szxy[m] \cup (in.f \cap {"C"}) \cup If(m % 16 = 0, {"H"})
                              \cup If(m = 128, {"PV"})
  /\ First("DEC") => /\ a = in.a /\ m = (in.m - 1) % 256
                     /\ f = szxy[m] \cup (in.f \cap {"C"}) \cup {"N"}
                              \cup If(m % 16 = 15, {"H"}) \cup If(m = 127, {"PV"})

LEMMA NextSteps == ASSUME Control, Next PROVE StepsRun'
<1>1. TypeOK /\ Rest /\ Fresh
  BY DEF Control
<1>2. ASSUME First("INC")'
      PROVE  /\ INC /\ in' = in /\ a = in.a /\ m = in.m /\ f = in.f
  <2>1. Head(todo) = "INC" /\ in' = in /\ a = in.a /\ m = in.m /\ f = in.f
    BY <1>1, <1>2, FirstRuns
  <2> QED
    BY <2>1, RunsNamed DEF Named
<1>3. ASSUME First("DEC")'
      PROVE  /\ DEC /\ in' = in /\ a = in.a /\ m = in.m /\ f = in.f
  <2>1. Head(todo) = "DEC" /\ in' = in /\ a = in.a /\ m = in.m /\ f = in.f
    BY <1>1, <1>3, FirstRuns
  <2> QED
    BY <2>1, RunsNamed DEF Named
<1> QED
  BY <1>2, <1>3 DEF StepsRun, INC, DEC, ToOperand, SetF, Res, IncFlags, DecFlags

(* INC and DEC take H and PV from the result alone.                         *)
LEMMA StepOfOne ==
  ASSUME NEW v \in Byte
  PROVE  /\ (v + 1 + 0) % 256 = (v + 1) % 256 /\ (v + 1) % 256 \in Byte
         /\ (v % 16) + (1 % 16) + 0 > 15 <=> ((v + 1) % 256) % 16 = 0
         /\ ~Fits(Signed(v) + Signed(1) + 0) <=> (v + 1) % 256 = 128
         /\ (v - 1 - 0) % 256 = (v - 1) % 256 /\ (v - 1) % 256 \in Byte
         /\ (v % 16) - (1 % 16) - 0 < 0 <=> ((v - 1) % 256) % 16 = 15
         /\ ~Fits(Signed(v) - Signed(1) - 0) <=> (v - 1) % 256 = 127
<1> DEFINE up == (v + 1) % 256
           down == (v - 1) % 256
<1>1. up = (IF v = 255 THEN 0 ELSE v + 1) /\ down = (IF v = 0 THEN 255 ELSE v - 1)
  BY DEF Byte
<1>2. v \in 0 .. 255 /\ v + 1 + 0 = v + 1 /\ v - 1 - 0 = v - 1 /\ 1 % 16 = 1 /\ Signed(1) = 1
  BY DEF Byte, Signed
<1> HIDE DEF up, down
<1>3. up \in Byte /\ down \in Byte
  BY <1>1, <1>2 DEF Byte
<1>4. (v % 16) + 1 + 0 > 15 <=> up % 16 = 0
  BY <1>1, <1>2
<1>5. (v % 16) - 1 - 0 < 0 <=> down % 16 = 15
  BY <1>1, <1>2
<1>6. ~Fits(Signed(v) + 1 + 0) <=> up = 128
  BY <1>1, <1>2 DEF Fits, Signed
<1>7. ~Fits(Signed(v) - 1 - 0) <=> down = 127
  BY <1>1, <1>2 DEF Fits, Signed
<1> QED
  BY <1>2, <1>3, <1>4, <1>5, <1>6, <1>7 DEF up, down

LEMMA IncIsAdd ==
  ASSUME Control, StepsRun, First("INC")
  PROVE  LET one == Add8(in.m, 1, 0) IN m = one.r /\ f \ {"C"} = one.f \ {"C"} /\ SameC
<1> DEFINE v == in.m
           one == Add8(v, 1, 0)
<1>1. v \in Byte /\ 1 \in Byte /\ 0 \in 0 .. 1
  BY InputTypes DEF Control, TypeOK, Byte
<1>2. /\ m = (v + 1) % 256
      /\ f = szxy[m] \cup (in.f \cap {"C"}) \cup If(m % 16 = 0, {"H"}) \cup If(m = 128, {"PV"})
  BY DEF StepsRun
<1> HIDE DEF v
<1>3. /\ one.r = (v + 1 + 0) % 256 /\ one.f \in SUBSET Flags
      /\ "H" \in one.f <=> (v % 16) + (1 % 16) + 0 > 15
      /\ "PV" \in one.f <=> ~Fits(Signed(v) + Signed(1) + 0)
      /\ "S" \in one.f <=> one.r > 127
      /\ "Z" \in one.f <=> one.r = 0
      /\ "N" \notin one.f
      /\ one.f \cap {"X", "Y"} = XYOf(one.r)
  BY <1>1, Add8Flags
<1> HIDE DEF one
<1>4. m = one.r /\ m \in Byte
  BY <1>1, <1>2, <1>3, StepOfOne
<1>5. /\ "H" \in one.f <=> m % 16 = 0
      /\ "PV" \in one.f <=> m = 128
  BY <1>1, <1>2, <1>3, StepOfOne
<1>6. /\ szxy[m] \in SUBSET Flags
      /\ "S" \in szxy[m] <=> m > 127
      /\ "Z" \in szxy[m] <=> m = 0
      /\ szxy[m] \cap {"X", "Y"} = XYOf(m)
      /\ szxy[m] \cap {"H", "PV", "N", "C"} = {}
  BY <1>4, SZXY
<1>7. f \ {"C"} = szxy[m] \cup If(m % 16 = 0, {"H"}) \cup If(m = 128, {"PV"})
  BY <1>2, <1>6 DEF If
<1>8. one.f \ {"C"} = szxy[m] \cup If(m % 16 = 0, {"H"}) \cup If(m = 128, {"PV"})
  BY <1>3, <1>4, <1>5, <1>6 DEF If, Flags
<1>9. SameC
  BY <1>2, <1>6 DEF SameC, If
<1> QED
  BY <1>4, <1>7, <1>8, <1>9 DEF one, v

LEMMA DecIsSub ==
  ASSUME Control, StepsRun, First("DEC")
  PROVE  LET one == Sub8(in.m, 1, 0) IN m = one.r /\ f \ {"C"} = one.f \ {"C"} /\ SameC
<1> DEFINE v == in.m
           one == Sub8(v, 1, 0)
<1>1. v \in Byte /\ 1 \in Byte /\ 0 \in 0 .. 1
  BY InputTypes DEF Control, TypeOK, Byte
<1>2. /\ m = (v - 1) % 256
      /\ f = szxy[m] \cup (in.f \cap {"C"}) \cup {"N"} \cup If(m % 16 = 15, {"H"})
               \cup If(m = 127, {"PV"})
  BY DEF StepsRun
<1> HIDE DEF v
<1>3. /\ one.r = (v - 1 - 0) % 256 /\ one.f \in SUBSET Flags
      /\ "H" \in one.f <=> (v % 16) - (1 % 16) - 0 < 0
      /\ "PV" \in one.f <=> ~Fits(Signed(v) - Signed(1) - 0)
      /\ "S" \in one.f <=> one.r > 127
      /\ "Z" \in one.f <=> one.r = 0
      /\ "N" \in one.f
      /\ one.f \cap {"X", "Y"} = XYOf(one.r)
  BY <1>1, Sub8Flags
<1> HIDE DEF one
<1>4. m = one.r /\ m \in Byte
  BY <1>1, <1>2, <1>3, StepOfOne
<1>5. /\ "H" \in one.f <=> m % 16 = 15
      /\ "PV" \in one.f <=> m = 127
  BY <1>1, <1>2, <1>3, StepOfOne
<1>6. /\ szxy[m] \in SUBSET Flags
      /\ "S" \in szxy[m] <=> m > 127
      /\ "Z" \in szxy[m] <=> m = 0
      /\ szxy[m] \cap {"X", "Y"} = XYOf(m)
      /\ szxy[m] \cap {"H", "PV", "N", "C"} = {}
  BY <1>4, SZXY
<1>7. f \ {"C"} = szxy[m] \cup {"N"} \cup If(m % 16 = 15, {"H"}) \cup If(m = 127, {"PV"})
  BY <1>2, <1>6 DEF If
<1>8. one.f \ {"C"} = szxy[m] \cup {"N"} \cup If(m % 16 = 15, {"H"}) \cup If(m = 127, {"PV"})
  BY <1>3, <1>4, <1>5, <1>6 DEF If, Flags
<1>9. SameC
  BY <1>2, <1>6 DEF SameC, If
<1> QED
  BY <1>4, <1>7, <1>8, <1>9 DEF one, v

TakenBack == Ended(<<"INC", "DEC">>) => Same /\ SameC

LEMMA NextTakenBack == ASSUME Control, StepsRun, Next PROVE TakenBack'
<1> SUFFICES ASSUME Ended(<<"INC", "DEC">>)'
             PROVE  (Same /\ SameC)'
  BY DEF TakenBack
<1>1. First("INC") /\ Head(todo) = "DEC" /\ in' = in
  BY EndTwoNext, SecondRuns DEF Control
<1>2. DEC
  BY <1>1, RunsNamed DEF Named
<1>3. /\ a' = a /\ m' = (m - 1) % 256
      /\ f' = szxy[m'] \cup (f \cap {"C"}) \cup {"N"} \cup If(m' % 16 = 15, {"H"})
                \cup If(m' = 127, {"PV"})
  BY <1>2 DEF DEC, ToOperand, SetF, Res, DecFlags
<1>4. /\ a = in.a /\ m = (in.m + 1) % 256
      /\ SameC
  BY <1>1, IncIsAdd DEF StepsRun
<1>5. in.m \in Byte
  BY InputTypes DEF Control, TypeOK
<1>6. m' = in.m
  <2> DEFINE v == in.m
  <2>1. m = IF v = 255 THEN 0 ELSE v + 1
    BY <1>4, <1>5 DEF Byte
  <2> HIDE DEF v
  <2>2. v \in 0 .. 255
    BY <1>5 DEF v, Byte
  <2>3. (m - 1) % 256 = v
    BY <2>1, <2>2
  <2> QED
    BY <1>3, <2>3 DEF v
<1>7. szxy[m'] \cap {"H", "PV", "N", "C"} = {}
  BY <1>5, <1>6, SZXY
<1>8. "C" \in f' <=> "C" \in f
  BY <1>3, <1>7 DEF If
<1> QED
  BY <1>1, <1>3, <1>4, <1>6, <1>8 DEF Same, SameC

LEMMA StepsAreSums == Control /\ StepsRun /\ TakenBack => IncDecStep
<1> SUFFICES ASSUME Control, StepsRun, TakenBack PROVE IncDecStep
  OBVIOUS
<1>1. Ended(<<"INC">>) => First("INC")
  BY EndOne
<1>2. Ended(<<"DEC">>) => First("DEC")
  BY EndOne
<1> QED
  BY <1>1, <1>2, IncIsAdd, DecIsSub DEF IncDecStep, TakenBack

----------------------------------------------------------------------------
(* 16-bit arithmetic.                                                       *)

WordsRun ==
  /\ First("ADDHL") => /\ hl = (in.hl + in.de) % 65536
                       /\ f = (in.f \cap SZPV) \cup XYOf(Hi(hl))
                                \cup If(in.hl + in.de > 65535, {"C"})
                                \cup If(Xor3(in.hl, in.de, hl, 12), {"H"})
  /\ First("ADCHL") => hl = Adc16(in.hl, in.de, Cin).r /\ f = Adc16(in.hl, in.de, Cin).f
  /\ First("SBCHL") => hl = Sbc16(in.hl, in.de, Cin).r /\ f = Sbc16(in.hl, in.de, Cin).f

LEMMA NextWords == ASSUME Control, Next PROVE WordsRun'
<1>1. TypeOK /\ Rest /\ Fresh
  BY DEF Control
<1>2. ASSUME NEW op, First(op)'
      PROVE  /\ Head(todo) = op /\ in' = in /\ hl = in.hl /\ de = in.de /\ f = in.f
             /\ Carry = Cin
  BY <1>1, <1>2, FirstRuns DEF Carry, Cin
<1>3. First("ADDHL")' => ADDHL
  BY <1>2, RunsNamed DEF Named
<1>4. First("ADCHL")' => ADCHL
  BY <1>2, RunsNamed DEF Named
<1>5. First("SBCHL")' => SBCHL
  BY <1>2, RunsNamed DEF Named
<1>6. ASSUME First("ADDHL")'
      PROVE  (/\ hl = (in.hl + in.de) % 65536
              /\ f = (in.f \cap SZPV) \cup XYOf(Hi(hl)) \cup If(in.hl + in.de > 65535, {"C"})
                       \cup If(Xor3(in.hl, in.de, hl, 12), {"H"}))'
  BY <1>2, <1>3, <1>6 DEF ADDHL, ToHL, SetF, Add16, Res
<1>7. ASSUME First("ADCHL")'
      PROVE  (hl = Adc16(in.hl, in.de, Cin).r /\ f = Adc16(in.hl, in.de, Cin).f)'
  <2>1. ADCHL /\ in' = in /\ hl = in.hl /\ de = in.de /\ Carry = Cin
    BY <1>2, <1>4, <1>7
  <2>2. hl' = Adc16(in.hl, in.de, Cin).r /\ f' = Adc16(in.hl, in.de, Cin).f
    BY <2>1 DEF ADCHL, ToHL, SetF
  <2> QED
    BY <2>1, <2>2 DEF Adc16, Cin
<1>8. ASSUME First("SBCHL")'
      PROVE  (hl = Sbc16(in.hl, in.de, Cin).r /\ f = Sbc16(in.hl, in.de, Cin).f)'
  <2>1. SBCHL /\ in' = in /\ hl = in.hl /\ de = in.de /\ Carry = Cin
    BY <1>2, <1>5, <1>8
  <2>2. hl' = Sbc16(in.hl, in.de, Cin).r /\ f' = Sbc16(in.hl, in.de, Cin).f
    BY <2>1 DEF SBCHL, ToHL, SetF
  <2> QED
    BY <2>1, <2>2 DEF Sbc16, Cin
<1> QED
  BY <1>6, <1>7, <1>8 DEF WordsRun

(* A word sum is a sum of the low bytes and one of the high bytes with its  *)
(* carry.                                                                   *)
LEMMA SumByBytes ==
  ASSUME NEW x \in Word, NEW v \in Word, NEW cin \in 0 .. 1
  PROVE  LET carry == IF Lo(x) + Lo(v) + cin > 255 THEN 1 ELSE 0
             r == (x + v + cin) % 65536
         IN  /\ Hi(r) = (Hi(x) + Hi(v) + carry) % 256
             /\ Lo(r) = (Lo(x) + Lo(v) + cin) % 256
             /\ x + v + cin > 65535 <=> Hi(x) + Hi(v) + carry > 255
<1> DEFINE xh == Hi(x)    xl == Lo(x)
           vh == Hi(v)    vl == Lo(v)
           carry == IF xl + vl + cin > 255 THEN 1 ELSE 0
           high == xh + vh + carry
           low == xl + vl + cin
           over == IF high > 255 THEN 1 ELSE 0
           r == (x + v + cin) % 65536
           h == high - 256 * over
           l == low - 256 * carry
<1>1. /\ xh \in 0 .. 255 /\ xl \in 0 .. 255 /\ x = 256 * xh + xl
      /\ vh \in 0 .. 255 /\ vl \in 0 .. 255 /\ v = 256 * vh + vl
  BY WordHalves DEF Byte
<1> HIDE DEF xh, xl, vh, vl
<1>2. h \in 0 .. 255 /\ l \in 0 .. 255
  BY <1>1
<1>3. x + v + cin = 65536 * over + (256 * h + l)
  BY <1>1
<1>4. high % 256 = h /\ low % 256 = l
  BY <1>1
<1>5. over \in 0 .. 1
  OBVIOUS
<1>6. x + v + cin > 65535 <=> high > 255
  BY <1>1
<1> HIDE DEF h, l, over
<1>7. r = 256 * h + l
  BY <1>2, <1>3, <1>5
<1> HIDE DEF r
<1>8. Hi(r) = h /\ Lo(r) = l
  BY <1>2, <1>7 DEF Hi, Lo
<1> QED
  BY <1>4, <1>6, <1>8 DEF r, xh, xl, vh, vl

LEMMA DifferenceByBytes ==
  ASSUME NEW x \in Word, NEW v \in Word, NEW cin \in 0 .. 1
  PROVE  LET carry == IF Lo(x) - Lo(v) - cin < 0 THEN 1 ELSE 0
             r == (x - v - cin) % 65536
         IN  /\ Hi(r) = (Hi(x) - Hi(v) - carry) % 256
             /\ Lo(r) = (Lo(x) - Lo(v) - cin) % 256
             /\ x - v - cin < 0 <=> Hi(x) - Hi(v) - carry < 0
<1> DEFINE xh == Hi(x)    xl == Lo(x)
           vh == Hi(v)    vl == Lo(v)
           carry == IF xl - vl - cin < 0 THEN 1 ELSE 0
           high == xh - vh - carry
           low == xl - vl - cin
           over == IF high < 0 THEN 1 ELSE 0
           r == (x - v - cin) % 65536
           h == high + 256 * over
           l == low + 256 * carry
<1>1. /\ xh \in 0 .. 255 /\ xl \in 0 .. 255 /\ x = 256 * xh + xl
      /\ vh \in 0 .. 255 /\ vl \in 0 .. 255 /\ v = 256 * vh + vl
  BY WordHalves DEF Byte
<1> HIDE DEF xh, xl, vh, vl
<1>2. h \in 0 .. 255 /\ l \in 0 .. 255
  BY <1>1
<1>3. x - v - cin = 65536 * (-over) + (256 * h + l)
  BY <1>1
<1>4. high % 256 = h /\ low % 256 = l
  BY <1>1
<1>5. over \in 0 .. 1
  OBVIOUS
<1>6. x - v - cin < 0 <=> high < 0
  BY <1>1
<1> HIDE DEF h, l, over
<1>7. r = 256 * h + l
  BY <1>2, <1>3, <1>5
<1> HIDE DEF r
<1>8. Hi(r) = h /\ Lo(r) = l
  BY <1>2, <1>7 DEF Hi, Lo
<1> QED
  BY <1>4, <1>6, <1>8 DEF r, xh, xl, vh, vl

(* The signs and the half carry of words are those of their high bytes.     *)
LEMMA BitsOfHigh ==
  ASSUME NEW x \in Word, NEW v \in Word, NEW r \in Word
  PROVE  /\ Xor3(x, v, r, 12) <=> Xor3(Hi(x), Hi(v), Hi(r), 4)
         /\ OverflowAdd(x, v, r, 15) <=> OverflowAdd(Hi(x), Hi(v), Hi(r), 7)
         /\ OverflowSub(x, v, r, 15) <=> OverflowSub(Hi(x), Hi(v), Hi(r), 7)
<1>1. ASSUME NEW w \in Word
      PROVE  /\ w \div 4096 = Hi(w) \div 16
             /\ w \div 32768 = Hi(w) \div 128
  BY DEF Hi, Word
<1> QED
  BY <1>1, Powers DEF Xor3, OverflowAdd, OverflowSub, Bit

LEMMA AdcChains ==
  ASSUME NEW x \in Word, NEW v \in Word, NEW cin \in 0 .. 1
  PROVE  LET low  == Add8(Lo(x), Lo(v), cin)
             high == Add8(Hi(x), Hi(v), IF "C" \in low.f THEN 1 ELSE 0)
             wide == Adc16(x, v, cin)
         IN  /\ wide.r = high.r * 256 + low.r
             /\ wide.f \ {"Z"} = high.f \ {"Z"}
             /\ "Z" \in wide.f <=> wide.r = 0
<1> DEFINE low  == Add8(Lo(x), Lo(v), cin)
           c    == IF "C" \in low.f THEN 1 ELSE 0
           high == Add8(Hi(x), Hi(v), c)
           wide == Adc16(x, v, cin)
           r    == (x + v + cin) % 65536
<1>1. /\ Lo(x) \in Byte /\ Lo(v) \in Byte /\ Hi(x) \in Byte /\ Hi(v) \in Byte
      /\ x \in Int /\ v \in Int
  BY WordHalves, WordInt
<1>2. low.r = (Lo(x) + Lo(v) + cin) % 256 /\ ("C" \in low.f <=> Lo(x) + Lo(v) + cin > 255)
  BY <1>1, Add8Flags
<1>3. c = IF Lo(x) + Lo(v) + cin > 255 THEN 1 ELSE 0
  BY <1>2
<1>4. r \in Word
  BY <1>1, Wrap16
<1> HIDE DEF low, c
<1>5. /\ high.r = (Hi(x) + Hi(v) + c) % 256
      /\ high.f = szxy[high.r] \cup If(Hi(x) + Hi(v) + c > 255, {"C"})
                    \cup If(Xor3(Hi(x), Hi(v), high.r, 4), {"H"})
                    \cup If(OverflowAdd(Hi(x), Hi(v), high.r, 7), {"PV"})
  BY DEF Add8, Res
<1>6. /\ wide.r = r
      /\ wide.f = (szxy[Hi(r)] \ {"Z"}) \cup If(r = 0, {"Z"}) \cup If(x + v + cin > 65535, {"C"})
                    \cup If(Xor3(x, v, r, 12), {"H"}) \cup If(OverflowAdd(x, v, r, 15), {"PV"})
  BY DEF Adc16, Res
<1>7. /\ Hi(r) = high.r /\ Lo(r) = low.r
      /\ x + v + cin > 65535 <=> Hi(x) + Hi(v) + c > 255
  BY <1>2, <1>3, <1>5, SumByBytes
<1> HIDE DEF high, wide, r
<1>8. /\ Xor3(x, v, r, 12) <=> Xor3(Hi(x), Hi(v), high.r, 4)
      /\ OverflowAdd(x, v, r, 15) <=> OverflowAdd(Hi(x), Hi(v), high.r, 7)
  BY <1>4, <1>7, BitsOfHigh
<1>9. wide.f \ {"Z"} = high.f \ {"Z"}
  BY <1>5, <1>6, <1>7, <1>8 DEF If
<1>10. "Z" \in wide.f <=> wide.r = 0
  BY <1>6 DEF If
<1>11. wide.r = high.r * 256 + low.r
  BY <1>4, <1>6, <1>7, WordHalves
<1> QED
  BY <1>9, <1>10, <1>11 DEF low, high, wide, c

LEMMA SbcChains ==
  ASSUME NEW x \in Word, NEW v \in Word, NEW cin \in 0 .. 1
  PROVE  LET low  == Sub8(Lo(x), Lo(v), cin)
             high == Sub8(Hi(x), Hi(v), IF "C" \in low.f THEN 1 ELSE 0)
             wide == Sbc16(x, v, cin)
         IN  /\ wide.r = high.r * 256 + low.r
             /\ wide.f \ {"Z"} = high.f \ {"Z"}
             /\ "Z" \in wide.f <=> wide.r = 0
<1> DEFINE low  == Sub8(Lo(x), Lo(v), cin)
           c    == IF "C" \in low.f THEN 1 ELSE 0
           high == Sub8(Hi(x), Hi(v), c)
           wide == Sbc16(x, v, cin)
           r    == (x - v - cin) % 65536
<1>1. /\ Lo(x) \in Byte /\ Lo(v) \in Byte /\ Hi(x) \in Byte /\ Hi(v) \in Byte
      /\ x \in Int /\ v \in Int
  BY WordHalves, WordInt
<1>2. low.r = (Lo(x) - Lo(v) - cin) % 256 /\ ("C" \in low.f <=> Lo(x) - Lo(v) - cin < 0)
  BY <1>1, Sub8Flags
<1>3. c = IF Lo(x) - Lo(v) - cin < 0 THEN 1 ELSE 0
  BY <1>2
<1>4. r \in Word
  BY <1>1, Wrap16
<1> HIDE DEF low, c
<1>5. /\ high.r = (Hi(x) - Hi(v) - c) % 256
      /\ high.f = szxy[high.r] \cup {"N"} \cup If(Hi(x) - Hi(v) - c < 0, {"C"})
                    \cup If(Xor3(Hi(x), Hi(v), high.r, 4), {"H"})
                    \cup If(OverflowSub(Hi(x), Hi(v), high.r, 7), {"PV"})
  BY DEF Sub8, Res
<1>6. /\ wide.r = r
      /\ wide.f = (szxy[Hi(r)] \ {"Z"}) \cup If(r = 0, {"Z"}) \cup {"N"}
                    \cup If(x - v - cin < 0, {"C"})
                    \cup If(Xor3(x, v, r, 12), {"H"}) \cup If(OverflowSub(x, v, r, 15), {"PV"})
  BY DEF Sbc16, Res
<1>7. /\ Hi(r) = high.r /\ Lo(r) = low.r
      /\ x - v - cin < 0 <=> Hi(x) - Hi(v) - c < 0
  BY <1>2, <1>3, <1>5, DifferenceByBytes
<1> HIDE DEF high, wide, r
<1>8. /\ Xor3(x, v, r, 12) <=> Xor3(Hi(x), Hi(v), high.r, 4)
      /\ OverflowSub(x, v, r, 15) <=> OverflowSub(Hi(x), Hi(v), high.r, 7)
  BY <1>4, <1>7, BitsOfHigh
<1>9. wide.f \ {"Z"} = high.f \ {"Z"}
  BY <1>5, <1>6, <1>7, <1>8 DEF If
<1>10. "Z" \in wide.f <=> wide.r = 0
  <2>1. "Z" \notin szxy[Hi(r)] \ {"Z"}
    OBVIOUS
  <2> QED
    BY <1>6, <2>1 DEF If
<1>11. wide.r = high.r * 256 + low.r
  BY <1>4, <1>6, <1>7, WordHalves
<1> QED
  BY <1>9, <1>10, <1>11 DEF low, high, wide, c

LEMMA WordsAreChained == Control /\ WordsRun => WordsChain
<1> SUFFICES ASSUME Control, WordsRun PROVE WordsChain
  OBVIOUS
<1>1. /\ in.hl \in Word /\ in.de \in Word /\ in.f \in SUBSET Flags
      /\ Cin \in 0 .. 1 /\ 0 \in 0 .. 1
  BY InputTypes, CarryTypes DEF Control, TypeOK
<1>2. ASSUME Ended(<<"ADCHL">>) PROVE Chained(Add8, Cin)
  <2>1. hl = Adc16(in.hl, in.de, Cin).r /\ f = Adc16(in.hl, in.de, Cin).f
    BY <1>2, EndOne DEF WordsRun
  <2> QED
    BY <1>1, <2>1, AdcChains DEF Chained
<1>3. ASSUME Ended(<<"SBCHL">>) PROVE Chained(Sub8, Cin)
  <2>1. hl = Sbc16(in.hl, in.de, Cin).r /\ f = Sbc16(in.hl, in.de, Cin).f
    BY <1>3, EndOne DEF WordsRun
  <2> QED
    BY <1>1, <2>1, SbcChains DEF Chained
<1>4. ASSUME Ended(<<"ADDHL">>)
      PROVE  LET wide == Adc16(in.hl, in.de, 0)
             IN  /\ hl = wide.r
                 /\ f \ SZPV = wide.f \ SZPV
                 /\ f \cap SZPV = in.f \cap SZPV
  <2> DEFINE x == in.hl
             v == in.de
             wide == Adc16(x, v, 0)
  <2>1. /\ hl = (x + v) % 65536
        /\ f = (in.f \cap SZPV) \cup XYOf(Hi(hl)) \cup If(x + v > 65535, {"C"})
                 \cup If(Xor3(x, v, hl, 12), {"H"})
    BY <1>4, EndOne DEF WordsRun
  <2>2. x \in Int /\ v \in Int /\ x + v \in Int
    BY <1>1, WordInt
  <2> HIDE DEF x, v
  <2>3. x + v + 0 = x + v
    BY <2>2
  <2>4. /\ wide.r = hl
        /\ wide.f = (szxy[Hi(hl)] \ {"Z"}) \cup If(hl = 0, {"Z"}) \cup If(x + v > 65535, {"C"})
                      \cup If(Xor3(x, v, hl, 12), {"H"})
                      \cup If(OverflowAdd(x, v, hl, 15), {"PV"})
    BY <2>1, <2>3 DEF Adc16, Res
  <2>5. hl \in Word
    BY <2>1, <2>2, Wrap16
  <2>6. Hi(hl) \in Byte
    BY <2>5, WordHalves
  <2> HIDE DEF wide
  <2>7. /\ szxy[Hi(hl)] \in SUBSET Flags
        /\ szxy[Hi(hl)] \cap {"X", "Y"} = XYOf(Hi(hl))
        /\ szxy[Hi(hl)] \cap {"H", "PV", "N", "C"} = {}
        /\ XYOf(Hi(hl)) \subseteq {"X", "Y"}
    BY <2>6, SZXY, XYFlags
  <2>8. f \cap SZPV = in.f \cap SZPV
    BY <2>1, <2>7 DEF SZPV, If
  <2>9. f \ SZPV = XYOf(Hi(hl)) \cup If(x + v > 65535, {"C"}) \cup If(Xor3(x, v, hl, 12), {"H"})
    BY <2>1, <2>7 DEF SZPV, If
  <2>10. wide.f \ SZPV = XYOf(Hi(hl)) \cup If(x + v > 65535, {"C"})
                           \cup If(Xor3(x, v, hl, 12), {"H"})
    BY <2>4, <2>7 DEF SZPV, If, Flags
  <2> QED
    BY <2>4, <2>8, <2>9, <2>10 DEF wide, x, v
<1> QED
  BY <1>2, <1>3, <1>4 DEF WordsChain

----------------------------------------------------------------------------
(* Q and WZ.                                                                *)

(* The address that an instruction leaves in WZ.                            *)
Workers == {"RLD", "ADDHL", "LDADE", "IN", "LDDEA", "BITIX"}

Worked == [op \in Workers |->
             IF op \in {"RLD", "ADDHL"} THEN After(in.hl)
             ELSE IF op = "LDADE" THEN After(in.de)
             ELSE IF op = "IN" THEN After(in.bc)
             ELSE IF op = "LDDEA" THEN in.a * 256 + Lo(After(in.de))
             ELSE (in.hl + Signed(in.d)) % 65536]

Latched ==
  /\ \A op \in FlagSetters : First(op) => q = f
  /\ \A op \in {"NOP", "SET", "RES"} :
       Second("CP", op) => q = {} /\ f \cap {"X", "Y"} = XYOf(in.m)
  /\ Second("CP", "POPAF") => q = {} /\ f \cap {"X", "Y"} = XYOf(Lo(in.de)) /\ de = in.de
  /\ First("CP") => de = in.de
  /\ \A op \in Workers : First(op) => wz = Worked[op]
  /\ \A op \in Workers : \A between \in {"SET", "ADD"} : Second(op, between) => wz = Worked[op]

LEMMA SettersSet == ASSUME Next, Head(todo) \in FlagSetters PROVE q' = f'
<1> USE DEF Accumulate, JustFlags, ToOperand, ToHL, SetF
<1>1. /\ ADD => q' = f'
      /\ SBC => q' = f'
      /\ CP => q' = f'
      /\ AND => q' = f'
      /\ OR => q' = f'
      /\ XOR => q' = f'
      /\ INC => q' = f'
  BY DEF ADD, SBC, CP, AND, OR, XOR, INC
<1>2. /\ DAA => q' = f'
      /\ CPL => q' = f'
      /\ CCF => q' = f'
      /\ RotA("RL") => q' = f'
      /\ ROT("RRC") => q' = f'
      /\ ADDHL => q' = f'
  BY DEF DAA, CPL, CCF, RotA, ROT, ADDHL
<1>3. /\ BIT => q' = f'
      /\ BITHL => q' = f'
      /\ IN_ => q' = f'
      /\ LDAI => q' = f'
      /\ RLD => q' = f'
  BY DEF BIT, BITHL, IN_, LDAI, RLD
<1> QED
  BY <1>1, <1>2, <1>3, RunsNamed DEF Named, FlagSetters

(* The instructions that follow CP, and the one that does not set WZ.       *)
LEMMA Betweens ==
  ASSUME Next
  PROVE  /\ Head(todo) \in {"NOP", "SET", "RES"} => q' = {} /\ f' = f
         /\ Head(todo) = "POPAF" => /\ q' = {} /\ de' = de
                                    /\ f' = { FlagAt[i] : i \in Bits(Lo(de)) }
         /\ Head(todo) \in {"SET", "ADD"} => wz' = wz
         /\ Head(todo) = "CP" => de' = de
<1> USE RunsNamed DEF Named
<1>1. /\ Head(todo) = "NOP" => NOP
      /\ Head(todo) = "SET" => SET
      /\ Head(todo) = "RES" => RES
      /\ Head(todo) = "POPAF" => POPAF
      /\ Head(todo) = "ADD" => ADD
      /\ Head(todo) = "CP" => CP
  OBVIOUS
<1> QED
  BY <1>1 DEF NOP, SET, RES, POPAF, ADD, CP, KeepF, ToOperandOnly, JustFlags, Is, Addressing

(* POP AF puts bit 5 of the low byte in Y and bit 3 in X.                   *)
LEMMA PopsXY ==
  ASSUME NEW v \in Byte
  PROVE  { FlagAt[i] : i \in Bits(v) } \cap {"X", "Y"} = XYOf(v)
<1>1. \A i \in 0 .. 7 : /\ FlagAt[i] = "X" <=> i = 3
                        /\ FlagAt[i] = "Y" <=> i = 5
  BY DEF FlagAt
<1>2. \A i \in Bits(v) : i \in 0 .. 7 /\ Bit(v, i)
  BY DEF Bits
<1>3. (3 \in Bits(v) <=> Bit(v, 3)) /\ (5 \in Bits(v) <=> Bit(v, 5))
  BY DEF Bits
<1> QED
  BY <1>1, <1>2, <1>3 DEF XYOf, If

LEMMA WorkersWork ==
  ASSUME Next, Head(todo) \in Workers
  PROVE  /\ Head(todo) \in {"RLD", "ADDHL"} => wz' = After(hl)
         /\ Head(todo) = "LDADE" => wz' = After(de)
         /\ Head(todo) = "IN" => wz' = After(in.bc)
         /\ Head(todo) = "LDDEA" => wz' = a * 256 + Lo(After(de))
         /\ Head(todo) = "BITIX" => wz' = (hl + Signed(in.d)) % 65536
<1> USE RunsNamed DEF Named
<1>1. /\ Head(todo) = "RLD" => RLD
      /\ Head(todo) = "ADDHL" => ADDHL
      /\ Head(todo) = "LDADE" => LDADE
      /\ Head(todo) = "IN" => IN_
      /\ Head(todo) = "LDDEA" => LDDEA
      /\ Head(todo) = "BITIX" => BITIX
  OBVIOUS
<1> QED
  BY <1>1 DEF RLD, ADDHL, LDADE, IN_, LDDEA, BITIX, Addressing, Indexed

LEMMA NextLatched == ASSUME Control, CompareRun, Latched, Next PROVE Latched'
<1>0. TypeOK /\ Rest /\ Fresh /\ in' = in
  BY Advances DEF Control
<1>1. ASSUME NEW op \in FlagSetters, First(op)' PROVE q' = f'
  BY <1>0, <1>1, FirstRuns, SettersSet
<1>2. ASSUME NEW op \in {"NOP", "SET", "RES"}, Second("CP", op)'
      PROVE  q' = {} /\ f' \cap {"X", "Y"} = XYOf(in'.m)
  <2>1. First("CP") /\ Head(todo) = op
    BY <1>0, <1>2, SecondRuns
  <2>2. f \cap {"X", "Y"} = XYOf(in.m)
    BY <2>1, XYFlags DEF CompareRun
  <2> QED
    BY <1>0, <2>1, <2>2, Betweens
<1>3. ASSUME Second("CP", "POPAF")'
      PROVE  q' = {} /\ f' \cap {"X", "Y"} = XYOf(Lo(in'.de)) /\ de' = in'.de
  <2>1. First("CP") /\ Head(todo) = "POPAF"
    BY <1>0, <1>3, SecondRuns
  <2>2. de = in.de
    BY <2>1 DEF Latched
  <2>3. q' = {} /\ de' = de /\ f' = { FlagAt[i] : i \in Bits(Lo(de)) }
    BY <2>1, Betweens
  <2>4. Lo(de) \in Byte
    BY <1>0, WordHalves DEF TypeOK
  <2> QED
    BY <1>0, <2>2, <2>3, <2>4, PopsXY
<1>4. ASSUME First("CP")' PROVE de' = in'.de
  BY <1>0, <1>4, FirstRuns, Betweens
<1>5. Worked' = Worked
  BY <1>0 DEF Worked
<1>6. ASSUME NEW op \in Workers, First(op)' PROVE wz' = Worked'[op]
  <2>1. Head(todo) = op /\ a = in.a /\ hl = in.hl /\ de = in.de
    BY <1>0, <1>6, FirstRuns
  <2>2. wz' = Worked[op]
    BY <2>1, WorkersWork DEF Worked, Workers
  <2> QED
    BY <1>5, <2>2
<1>7. ASSUME NEW op \in Workers, NEW between \in {"SET", "ADD"}, Second(op, between)'
      PROVE  wz' = Worked'[op]
  <2>1. First(op) /\ Head(todo) = between
    BY <1>0, <1>7, SecondRuns
  <2>2. wz = Worked[op]
    BY <2>1 DEF Latched
  <2>3. wz' = wz
    BY <2>1, Betweens
  <2> QED
    BY <1>5, <2>2, <2>3
<1> QED
  BY <1>1, <1>2, <1>3, <1>4, <1>6, <1>7 DEF Latched

(* X and Y after SCF and CCF.                                               *)
LEMMA FromAandQ ==
  ASSUME Next, Head(todo) \in {"SCF", "CCF"}
  PROVE  /\ a' = a
         /\ q = f => f' \cap {"X", "Y"} = XYOf(a')
         /\ q = {} => f' \cap {"X", "Y"} = XYOf(a') \cup (f \cap {"X", "Y"})
<1>1. SCF \/ CCF
  BY RunsNamed DEF Named
<1>2. /\ a' = a
      /\ \/ f' = (f \cap SZPV) \cup ScfCcfXY \cup {"C"}
         \/ f' = (f \cap SZPV) \cup ScfCcfXY \cup (IF "C" \in f THEN {"H"} ELSE {"C"})
  BY <1>1 DEF SCF, CCF, JustFlags, SetF
<1>3. ScfCcfXY \subseteq {"X", "Y"}
  BY DEF ScfCcfXY
<1>4. f' \cap {"X", "Y"} = ScfCcfXY
  BY <1>2, <1>3 DEF SZPV
<1>5. XYOf(a) \subseteq {"X", "Y"}
  BY XYFlags
<1>6. q = f => ScfCcfXY = XYOf(a)
  BY <1>5 DEF ScfCcfXY
<1>7. q = {} => ScfCcfXY = XYOf(a) \cup (f \cap {"X", "Y"})
  BY <1>5 DEF ScfCcfXY
<1> QED
  BY <1>2, <1>4, <1>6, <1>7

(* X and Y after BIT n,(HL).                                                *)
LEMMA FromWZ ==
  ASSUME Next, Head(todo) = "BITHL" PROVE f' \cap {"X", "Y"} = XYOf(Hi(wz))
<1>1. BITHL
  BY RunsNamed DEF Named
<1>2. f' = BitFlags(in.bit, m, Hi(wz))
  BY <1>1 DEF BITHL, JustFlags, SetF
<1> QED
  BY <1>2, XYFlags DEF BitFlags, If

(* Programs written with \o, as tuples.                                     *)
LEMMA Joined2 ==
  ASSUME NEW x, NEW y
  PROVE  <<x>> \o <<y>> = <<x, y>>
<1> DEFINE s == <<x>> \o <<y>>
<1>1. <<x>> \in Seq({x, y}) /\ <<y>> \in Seq({x, y}) /\ <<x, y>> \in Seq({x, y})
  OBVIOUS
<1>2. Len(<<x>>) = 1 /\ Len(<<y>>) = 1 /\ Len(<<x, y>>) = 2
  OBVIOUS
<1>3. /\ s \in Seq({x, y}) /\ Len(s) = 2
      /\ \A i \in 1 .. 2 : s[i] = IF i <= 1 THEN <<x>>[i] ELSE <<y>>[i - 1]
  BY <1>1, <1>2, ConcatProperties
<1> HIDE DEF s
<1>4. \A i \in 1 .. 2 : s[i] = <<x, y>>[i]
  BY <1>3
<1>5. s = <<x, y>>
  BY <1>1, <1>2, <1>3, <1>4, SeqEqual
<1> QED
  BY <1>5 DEF s

LEMMA Joined3 ==
  ASSUME NEW x, NEW y, NEW z
  PROVE  <<x>> \o <<y>> \o <<z>> = <<x, y, z>>
<1> DEFINE s == <<x, y>> \o <<z>>
<1>1. /\ <<x, y>> \in Seq({x, y, z}) /\ <<z>> \in Seq({x, y, z})
      /\ <<x, y, z>> \in Seq({x, y, z})
  OBVIOUS
<1>2. Len(<<x, y>>) = 2 /\ Len(<<z>>) = 1 /\ Len(<<x, y, z>>) = 3
  OBVIOUS
<1>3. /\ s \in Seq({x, y, z}) /\ Len(s) = 3
      /\ \A i \in 1 .. 3 : s[i] = IF i <= 2 THEN <<x, y>>[i] ELSE <<z>>[i - 2]
  BY <1>1, <1>2, ConcatProperties
<1> HIDE DEF s
<1>4. \A i \in 1 .. 3 : s[i] = <<x, y, z>>[i]
  BY <1>3
<1>5. s = <<x, y, z>>
  BY <1>1, <1>2, <1>3, <1>4, SeqEqual
<1> QED
  BY <1>5, Joined2 DEF s

LEMMA Joined ==
  ASSUME NEW op, NEW between \in {<<>>, <<"SET">>, <<"ADD">>}
  PROVE  \/ <<op>> \o between \o <<"BITHL">> = <<op, "BITHL">>
         \/ <<op>> \o between \o <<"BITHL">> = <<op, "SET", "BITHL">>
         \/ <<op>> \o between \o <<"BITHL">> = <<op, "ADD", "BITHL">>
<1>1. <<op>> \o <<>> \o <<"BITHL">> = <<op, "BITHL">>
  <2>1. <<op>> \in Seq({op})
    OBVIOUS
  <2> QED
    BY <2>1, ConcatEmptySeq, Joined2
<1>2. <<op>> \o <<"SET">> \o <<"BITHL">> = <<op, "SET", "BITHL">>
  BY Joined3
<1>3. <<op>> \o <<"ADD">> \o <<"BITHL">> = <<op, "ADD", "BITHL">>
  BY Joined3
<1> QED
  BY <1>1, <1>2, <1>3

LEMMA NextShowsLater ==
  ASSUME Control, Latched, Next, NEW op \in Workers,
         NEW between \in {<<>>, <<"SET">>, <<"ADD">>},
         Ended(<<op>> \o between \o <<"BITHL">>)'
  PROVE  f' \cap {"X", "Y"} = XYOf(Hi(Worked[op]))
<1>0. TypeOK /\ Rest
  BY DEF Control
<1>1. \/ <<op>> \o between \o <<"BITHL">> = <<op, "BITHL">>
      \/ <<op>> \o between \o <<"BITHL">> = <<op, "SET", "BITHL">>
      \/ <<op>> \o between \o <<"BITHL">> = <<op, "ADD", "BITHL">>
  BY Joined
<1>2. CASE Ended(<<op, "BITHL">>)'
  <2>1. First(op) /\ Head(todo) = "BITHL"
    BY <1>0, <1>2, EndTwoNext, SecondRuns
  <2> QED
    BY <2>1, FromWZ DEF Latched
<1>3. ASSUME NEW o \in {"SET", "ADD"}, Ended(<<op, o, "BITHL">>)'
      PROVE  f' \cap {"X", "Y"} = XYOf(Hi(Worked[op]))
  <2>1. Second(op, o) /\ Head(todo) = "BITHL"
    BY <1>0, <1>3, ThirdRuns
  <2> QED
    BY <2>1, FromWZ DEF Latched
<1> QED
  BY <1>1, <1>2, <1>3

LEMMA NextLatchesShow ==
  ASSUME Control, CompareRun, Latched, Next
  PROVE  LatchesShow'
<1>0. TypeOK /\ Rest /\ Fresh /\ in' = in
  BY Advances DEF Control
<1>1. ASSUME NEW op \in FlagSetters, Ended(<<op, "SCF">>)'
      PROVE  f' \cap {"X", "Y"} = XYOf(a')
  <2>1. First(op) /\ Head(todo) = "SCF"
    BY <1>0, <1>1, EndTwoNext, SecondRuns
  <2> QED
    BY <2>1, FromAandQ DEF Latched
<1>2. ASSUME NEW op \in {"NOP", "SET", "RES"}, Ended(<<"CP", op, "SCF">>)'
      PROVE  f' \cap {"X", "Y"} = XYOf(a') \cup XYOf(in'.m)
  <2>1. Second("CP", op) /\ Head(todo) = "SCF"
    BY <1>0, <1>2, ThirdRuns
  <2> QED
    BY <1>0, <2>1, FromAandQ DEF Latched
<1>3. ASSUME Ended(<<"CP", "POPAF", "CCF">>)'
      PROVE  f' \cap {"X", "Y"} = XYOf(a') \cup XYOf(Lo(in'.de))
  <2>1. Second("CP", "POPAF") /\ Head(todo) = "CCF"
    BY <1>0, <1>3, ThirdRuns
  <2> QED
    BY <1>0, <2>1, FromAandQ DEF Latched
<1>4. ASSUME NEW op \in Workers PROVE ShowsLater(op, Worked[op])'
  <2>1. Worked' = Worked
    BY <1>0 DEF Worked
  <2> QED
    BY <2>1, NextShowsLater DEF ShowsLater
<1>5. /\ Worked'["RLD"] = After(in'.hl) /\ Worked'["ADDHL"] = After(in'.hl)
      /\ Worked'["LDADE"] = After(in'.de) /\ Worked'["IN"] = After(in'.bc)
      /\ Worked'["LDDEA"] = in'.a * 256 + Lo(After(in'.de))
      /\ Worked'["BITIX"] = (in'.hl + Signed(in'.d)) % 65536
  BY DEF Worked, Workers
<1>6. Hi(in.a * 256 + Lo(After(in.de))) = Hi(in.a * 256)
  <2>1. in.a \in Byte /\ in.de \in Word
    BY <1>0, InputTypes DEF TypeOK
  <2>2. After(in.de) \in Word
    BY <2>1, WordInt, Wrap16 DEF After
  <2>3. Lo(After(in.de)) \in Byte
    BY <2>2, WordHalves
  <2> QED
    BY <2>1, <2>3, HighPart
<1>7. /\ ShowsLater("RLD", After(in.hl))' /\ ShowsLater("ADDHL", After(in.hl))'
      /\ ShowsLater("LDADE", After(in.de))' /\ ShowsLater("IN", After(in.bc))'
      /\ ShowsLater("BITIX", (in.hl + Signed(in.d)) % 65536)'
  BY <1>4, <1>5 DEF Workers, ShowsLater
<1>8. ShowsLater("LDDEA", in.a * 256)'
  <2>1. ShowsLater("LDDEA", Worked["LDDEA"])'
    BY <1>4 DEF Workers
  <2>2. Hi(Worked["LDDEA"])' = Hi(in.a * 256)'
    BY <1>0, <1>5, <1>6
  <2> QED
    BY <2>1, <2>2 DEF ShowsLater
<1> QED
  BY <1>1, <1>2, <1>3, <1>7, <1>8 DEF LatchesShow

----------------------------------------------------------------------------
(* Rotations, shifts and single bits.                                       *)

(* A shift to the left is undone by one to the right that puts back the bit *)
(* shifted out, and is up to bit 7 by any other.                            *)
LEMMA ShiftedBack ==
  ASSUME NEW v \in Byte, NEW b \in BOOLEAN, NEW h \in BOOLEAN
  PROVE  /\ Right(Left(v, b), Bit(v, 7)) = v
         /\ Bit(Left(v, b), 0) <=> b
         /\ Right(Left(v, b), h) % 128 = v % 128
<1> DEFINE top == IF v > 127 THEN 1 ELSE 0
           low == IF b THEN 1 ELSE 0
           r   == Left(v, b)
           x   == v - 128 * top
<1>1. v \in 0 .. 255 /\ (Bit(v, 7) <=> v > 127)
  BY ByteBits DEF Byte
<1>2. x \in 0 .. 127 /\ v = x + 128 * top /\ low \in 0 .. 1
  BY <1>1
<1>3. (v * 2) % 256 = 2 * x
  BY <1>1, <1>2
<1>4. r = 2 * x + low
  BY <1>3 DEF Left
<1> HIDE DEF r, x, low
<1>5. r \in Byte /\ r \div 2 = x /\ (r % 2 = 1 <=> low = 1)
  BY <1>2, <1>4 DEF Byte
<1>6. Right(r, Bit(v, 7)) = v
  BY <1>1, <1>2, <1>5 DEF Right
<1>7. Bit(r, 0) <=> b
  BY <1>5, ByteBits DEF low
<1>8. Right(r, h) = x + (IF h THEN 128 ELSE 0)
  BY <1>5 DEF Right
<1>9. Right(r, h) % 128 = x /\ v % 128 = x
  BY <1>1, <1>2, <1>8
<1> QED
  BY <1>6, <1>7, <1>9 DEF r

(* The rotations of the CB page, and those of A: what they leave in the     *)
(* byte they rotate and in C.                                               *)
LEMMA Rotates ==
  ASSUME TypeOK, Next
  PROVE  /\ Head(todo) = "RL" => /\ m' = Left(m, "C" \in f) /\ ("C" \in f' <=> Bit(m, 7))
                                 /\ a' = a
         /\ Head(todo) = "RR" => /\ m' = Right(m, "C" \in f) /\ ("C" \in f' <=> Bit(m, 0))
                                 /\ a' = a
         /\ Head(todo) = "RLC" => m' = Left(m, Bit(m, 7)) /\ a' = a
         /\ Head(todo) = "RRC" => m' = Right(m, Bit(m, 0)) /\ a' = a
         /\ Head(todo) = "SLL" => m' = Left(m, TRUE)
         /\ Head(todo) = "SLA" => m' = Left(m, FALSE)
         /\ Head(todo) = "SRL" => m' = Right(m, FALSE)
         /\ Head(todo) = "SRA" => m' = Right(m, Bit(m, 7))
<1>1. ASSUME NEW kind \in Kinds, ROT(kind)
      PROVE  /\ m' = ShiftIn(kind, m) /\ ("C" \in f' <=> ShiftOut(kind, m)) /\ a' = a
  <2> DEFINE r == ShiftIn(kind, m)
  <2>1. m' = r /\ f' = szxy[r] \cup parity[r] \cup If(ShiftOut(kind, m), {"C"}) /\ a' = a
    BY <1>1 DEF ROT, ToOperand, SetF, Rot, Res
  <2>2. r \in Byte
    BY RotFits DEF TypeOK
  <2> HIDE DEF r
  <2>3. "C" \notin szxy[r] /\ "C" \notin parity[r]
    BY <2>2, SZXY, ParityFlag
  <2> QED
    BY <2>1, <2>3 DEF If, r
<1>2. /\ Fill("RL", m) <=> "C" \in f
      /\ Fill("RR", m) <=> "C" \in f
      /\ Fill("RLC", m) <=> Bit(m, 7)
      /\ Fill("RRC", m) <=> Bit(m, 0)
      /\ Fill("SLL", m) /\ ~Fill("SLA", m) /\ ~Fill("SRL", m)
      /\ Fill("SRA", m) <=> Bit(m, 7)
  BY DEF Fill
<1>3. /\ ShiftIn("RL", m) = Left(m, "C" \in f)
      /\ ShiftIn("RLC", m) = Left(m, Bit(m, 7))
      /\ ShiftIn("SLL", m) = Left(m, TRUE)
      /\ ShiftIn("SLA", m) = Left(m, FALSE)
  BY <1>2 DEF ShiftIn, ToLeft, Left
<1>4. /\ ShiftIn("RR", m) = Right(m, "C" \in f)
      /\ ShiftIn("RRC", m) = Right(m, Bit(m, 0))
      /\ ShiftIn("SRL", m) = Right(m, FALSE)
      /\ ShiftIn("SRA", m) = Right(m, Bit(m, 7))
  BY <1>2 DEF ShiftIn, ToLeft, Right
<1>5. (ShiftOut("RL", m) <=> Bit(m, 7)) /\ (ShiftOut("RR", m) <=> Bit(m, 0))
  BY DEF ShiftOut, ToLeft
<1>6. /\ Head(todo) = "RL" => ROT("RL")
      /\ Head(todo) = "RR" => ROT("RR")
      /\ Head(todo) = "RLC" => ROT("RLC")
      /\ Head(todo) = "RRC" => ROT("RRC")
  BY RunsNamed DEF Named
<1>7. /\ Head(todo) = "SLL" => ROT("SLL")
      /\ Head(todo) = "SLA" => ROT("SLA")
      /\ Head(todo) = "SRL" => ROT("SRL")
      /\ Head(todo) = "SRA" => ROT("SRA")
  BY RunsNamed DEF Named
<1>8. \A kind \in {"RL", "RR", "RLC", "RRC", "SLL", "SLA", "SRL", "SRA"} : kind \in Kinds
  BY DEF Kinds, ToLeft
<1>9. /\ Head(todo) = "RL" => /\ m' = Left(m, "C" \in f) /\ ("C" \in f' <=> Bit(m, 7))
                              /\ a' = a
      /\ Head(todo) = "RR" => /\ m' = Right(m, "C" \in f) /\ ("C" \in f' <=> Bit(m, 0))
                              /\ a' = a
  BY <1>1, <1>3, <1>4, <1>5, <1>6, <1>8
<1>10. /\ Head(todo) = "RLC" => m' = Left(m, Bit(m, 7)) /\ a' = a
       /\ Head(todo) = "RRC" => m' = Right(m, Bit(m, 0)) /\ a' = a
  BY <1>1, <1>3, <1>4, <1>6, <1>8
<1>11. /\ Head(todo) = "SLL" => m' = Left(m, TRUE)
       /\ Head(todo) = "SLA" => m' = Left(m, FALSE)
       /\ Head(todo) = "SRL" => m' = Right(m, FALSE)
       /\ Head(todo) = "SRA" => m' = Right(m, Bit(m, 7))
  BY <1>1, <1>3, <1>4, <1>7, <1>8
<1> QED
  BY <1>9, <1>10, <1>11

LEMMA RotatesA ==
  ASSUME TypeOK, Next
  PROVE  /\ Head(todo) = "RLA" => /\ a' = Left(a, "C" \in f) /\ ("C" \in f' <=> Bit(a, 7))
                                  /\ m' = m
         /\ Head(todo) = "RRA" => /\ a' = Right(a, "C" \in f) /\ ("C" \in f' <=> Bit(a, 0))
                                  /\ m' = m
         /\ Head(todo) = "RLCA" => a' = Left(a, Bit(a, 7)) /\ m' = m
         /\ Head(todo) = "RRCA" => a' = Right(a, Bit(a, 0)) /\ m' = m
<1>1. ASSUME NEW kind, RotA(kind)
      PROVE  /\ a' = ShiftIn(kind, a) /\ ("C" \in f' <=> ShiftOut(kind, a)) /\ m' = m
  <2> DEFINE r == ShiftIn(kind, a)
  <2>1. /\ a' = r /\ m' = m
        /\ f' = (f \cap SZPV) \cup XYOf(r) \cup If(ShiftOut(kind, a), {"C"})
    BY <1>1 DEF RotA, Accumulate, SetF, Res
  <2> HIDE DEF r
  <2> QED
    BY <2>1, XYFlags DEF SZPV, If, r
<1>2. /\ Fill("RL", a) <=> "C" \in f
      /\ Fill("RR", a) <=> "C" \in f
      /\ Fill("RLC", a) <=> Bit(a, 7)
      /\ Fill("RRC", a) <=> Bit(a, 0)
  BY DEF Fill
<1>3. /\ ShiftIn("RL", a) = Left(a, "C" \in f)
      /\ ShiftIn("RLC", a) = Left(a, Bit(a, 7))
      /\ ShiftIn("RR", a) = Right(a, "C" \in f)
      /\ ShiftIn("RRC", a) = Right(a, Bit(a, 0))
  BY <1>2 DEF ShiftIn, ToLeft, Left, Right
<1>4. (ShiftOut("RL", a) <=> Bit(a, 7)) /\ (ShiftOut("RR", a) <=> Bit(a, 0))
  BY DEF ShiftOut, ToLeft
<1>5. /\ Head(todo) = "RLA" => RotA("RL")
      /\ Head(todo) = "RRA" => RotA("RR")
      /\ Head(todo) = "RLCA" => RotA("RLC")
      /\ Head(todo) = "RRCA" => RotA("RRC")
  BY RunsNamed DEF Named
<1> QED
  BY <1>1, <1>3, <1>4, <1>5

(* The nibbles: RLD and RRD on A and (HL).                                  *)
AofRLD(x, v) == (x - (x % 16)) + (v \div 16)
MofRLD(x, v) == ((v * 16) % 256) + (x % 16)
AofRRD(x, v) == (x - (x % 16)) + (v % 16)
MofRRD(x, v) == ((x * 16) % 256) + (v \div 16)

LEMMA NibblesOf ==
  ASSUME NEW x \in Byte, NEW v \in Byte
  PROVE  /\ AofRLD(x, v) \in Byte /\ MofRLD(x, v) \in Byte
         /\ AofRRD(x, v) \in Byte /\ MofRRD(x, v) \in Byte
         /\ AofRLD(x, v) \div 16 = x \div 16 /\ AofRLD(x, v) % 16 = v \div 16
         /\ MofRLD(x, v) \div 16 = v % 16    /\ MofRLD(x, v) % 16 = x % 16
         /\ AofRRD(x, v) \div 16 = x \div 16 /\ AofRRD(x, v) % 16 = v % 16
         /\ MofRRD(x, v) \div 16 = x % 16    /\ MofRRD(x, v) % 16 = v \div 16
<1> DEFINE xh == x \div 16   xl == x % 16
           vh == v \div 16   vl == v % 16
<1>1. /\ xh \in 0 .. 15 /\ xl \in 0 .. 15 /\ x = 16 * xh + xl
      /\ vh \in 0 .. 15 /\ vl \in 0 .. 15 /\ v = 16 * vh + vl
  BY DEF Byte
<1>2. /\ AofRLD(x, v) = (x - xl) + vh /\ MofRLD(x, v) = ((v * 16) % 256) + xl
      /\ AofRRD(x, v) = (x - xl) + vl /\ MofRRD(x, v) = ((x * 16) % 256) + vh
  BY DEF AofRLD, MofRLD, AofRRD, MofRRD
<1> HIDE DEF xh, xl, vh, vl
<1>3. (v * 16) % 256 = 16 * vl /\ (x * 16) % 256 = 16 * xl /\ x - xl = 16 * xh
  BY <1>1
<1>4. /\ AofRLD(x, v) = 16 * xh + vh /\ MofRLD(x, v) = 16 * vl + xl
      /\ AofRRD(x, v) = 16 * xh + vl /\ MofRRD(x, v) = 16 * xl + vh
  BY <1>2, <1>3
<1>5. AofRLD(x, v) \in Byte /\ AofRLD(x, v) \div 16 = xh /\ AofRLD(x, v) % 16 = vh
  BY <1>1, <1>4 DEF Byte
<1>6. MofRLD(x, v) \in Byte /\ MofRLD(x, v) \div 16 = vl /\ MofRLD(x, v) % 16 = xl
  BY <1>1, <1>4 DEF Byte
<1>7. AofRRD(x, v) \in Byte /\ AofRRD(x, v) \div 16 = xh /\ AofRRD(x, v) % 16 = vl
  BY <1>1, <1>4 DEF Byte
<1>8. MofRRD(x, v) \in Byte /\ MofRRD(x, v) \div 16 = xl /\ MofRRD(x, v) % 16 = vh
  BY <1>1, <1>4 DEF Byte
<1> QED
  BY <1>5, <1>6, <1>7, <1>8 DEF xh, xl, vh, vl

LEMMA SameNibbles ==
  ASSUME NEW x \in Byte, NEW v \in Byte, x \div 16 = v \div 16, x % 16 = v % 16
  PROVE  x = v
  BY DEF Byte

LEMMA NibblesBack ==
  ASSUME NEW x \in Byte, NEW v \in Byte
  PROVE  LET x1 == AofRLD(x, v)     v1 == MofRLD(x, v)
             x2 == AofRLD(x1, v1)   v2 == MofRLD(x1, v1)
         IN  /\ AofRRD(x1, v1) = x /\ MofRRD(x1, v1) = v
             /\ AofRLD(x2, v2) = x /\ MofRLD(x2, v2) = v
<1> DEFINE x1 == AofRLD(x, v)     v1 == MofRLD(x, v)
           x2 == AofRLD(x1, v1)   v2 == MofRLD(x1, v1)
<1>1. /\ x1 \in Byte /\ x1 \div 16 = x \div 16 /\ x1 % 16 = v \div 16
      /\ v1 \in Byte /\ v1 \div 16 = v % 16 /\ v1 % 16 = x % 16
  BY NibblesOf
<1> HIDE DEF x1, v1
<1>2. /\ x2 \in Byte /\ x2 \div 16 = x \div 16 /\ x2 % 16 = v % 16
      /\ v2 \in Byte /\ v2 \div 16 = x % 16 /\ v2 % 16 = v \div 16
  BY <1>1, NibblesOf
<1> HIDE DEF x2, v2
<1>3. AofRRD(x1, v1) = x /\ MofRRD(x1, v1) = v
  BY <1>1, NibblesOf, SameNibbles
<1>4. AofRLD(x2, v2) = x /\ MofRLD(x2, v2) = v
  BY <1>2, NibblesOf, SameNibbles
<1> QED
  BY <1>3, <1>4 DEF x1, v1, x2, v2

LEMMA MovesNibbles ==
  ASSUME TypeOK, Next
  PROVE  /\ Head(todo) = "RLD" => /\ a' = AofRLD(a, m) /\ m' = MofRLD(a, m)
                                  /\ "C" \in f' <=> "C" \in f
         /\ Head(todo) = "RRD" => /\ a' = AofRRD(a, m) /\ m' = MofRRD(a, m)
                                  /\ "C" \in f' <=> "C" \in f
<1>1. Head(todo) = "RLD" => RLD
  BY RunsNamed DEF Named
<1>2. Head(todo) = "RRD" => RRD
  BY RunsNamed DEF Named
<1>3. ASSUME Head(todo) = "RLD"
      PROVE  /\ a' = AofRLD(a, m) /\ m' = MofRLD(a, m)
             /\ f' = (f \cap {"C"}) \cup szxy[a'] \cup parity[a']
  BY <1>1, <1>3 DEF RLD, SetF, AofRLD, MofRLD
<1>4. ASSUME Head(todo) = "RRD"
      PROVE  /\ a' = AofRRD(a, m) /\ m' = MofRRD(a, m)
             /\ f' = (f \cap {"C"}) \cup szxy[a'] \cup parity[a']
  BY <1>2, <1>4 DEF RRD, SetF, AofRRD, MofRRD
<1>5. a' \in Byte
  BY NextTypes DEF TypeOK
<1>6. "C" \notin szxy[a'] /\ "C" \notin parity[a']
  BY <1>5, SZXY, ParityFlag
<1> QED
  BY <1>3, <1>4, <1>6

(* SET, RES and BIT.                                                        *)
LEMMA OneBit ==
  ASSUME Next
  PROVE  /\ Head(todo) = "SET" => m' = ByteOf(Bits(m) \cup {in.bit}) /\ f' = f
         /\ Head(todo) = "RES" => m' = ByteOf(Bits(m) \ {in.bit}) /\ f' = f
         /\ Head(todo) = "BIT" => f' = BitFlags(in.bit, m, m)
<1>1. /\ Head(todo) = "SET" => SET
      /\ Head(todo) = "RES" => RES
      /\ Head(todo) = "BIT" => BIT
  BY RunsNamed DEF Named
<1> QED
  BY <1>1 DEF SET, RES, BIT, ToOperandOnly, KeepF, JustFlags, SetF

(* What the first instructions of the programs of BitsInPlace leave.        *)
RotationsRun ==
  /\ First("RL") => /\ m = Left(in.m, "C" \in in.f) /\ ("C" \in f <=> Bit(in.m, 7))
                    /\ a = in.a
  /\ First("RLA") => /\ a = Left(in.a, "C" \in in.f) /\ ("C" \in f <=> Bit(in.a, 7))
                     /\ m = in.m
  /\ First("RLC") => m = Left(in.m, Bit(in.m, 7)) /\ a = in.a
  /\ First("RLCA") => a = Left(in.a, Bit(in.a, 7)) /\ m = in.m
  /\ First("SLL") => m = Left(in.m, TRUE)
  /\ First("SLA") => m = Left(in.m, FALSE)

NibblesRun ==
  LET x == AofRLD(in.a, in.m)
      v == MofRLD(in.a, in.m)
  IN  /\ First("RLD") => a = x /\ m = v /\ SameC
      /\ Second("RLD", "RLD") => a = AofRLD(x, v) /\ m = MofRLD(x, v) /\ SameC

BitsRun ==
  /\ First("SET") => m = ByteOf(Bits(in.m) \cup {in.bit}) /\ f = in.f
  /\ First("RES") => m = ByteOf(Bits(in.m) \ {in.bit}) /\ f = in.f

LEMMA NextRotations == ASSUME Control, Next PROVE RotationsRun'
<1>0. TypeOK /\ Rest /\ Fresh
  BY DEF Control
<1>1. ASSUME NEW op, First(op)'
      PROVE  /\ Head(todo) = op /\ in' = in /\ a = in.a /\ m = in.m /\ f = in.f
  BY <1>0, <1>1, FirstRuns
<1>2. First("RL")' => (/\ m = Left(in.m, "C" \in in.f) /\ ("C" \in f <=> Bit(in.m, 7))
                       /\ a = in.a)'
  BY <1>0, <1>1, Rotates DEF Left, Bit
<1>3. First("RLA")' => (/\ a = Left(in.a, "C" \in in.f) /\ ("C" \in f <=> Bit(in.a, 7))
                        /\ m = in.m)'
  BY <1>0, <1>1, RotatesA DEF Left, Bit
<1>4. First("RLC")' => (m = Left(in.m, Bit(in.m, 7)) /\ a = in.a)'
  BY <1>0, <1>1, Rotates DEF Left, Bit
<1>5. First("RLCA")' => (a = Left(in.a, Bit(in.a, 7)) /\ m = in.m)'
  BY <1>0, <1>1, RotatesA DEF Left, Bit
<1>6. First("SLL")' => (m = Left(in.m, TRUE))'
  BY <1>0, <1>1, Rotates DEF Left
<1>7. First("SLA")' => (m = Left(in.m, FALSE))'
  BY <1>0, <1>1, Rotates DEF Left
<1> QED
  BY <1>2, <1>3, <1>4, <1>5, <1>6, <1>7 DEF RotationsRun

LEMMA NextNibbles == ASSUME Control, NibblesRun, Next PROVE NibblesRun'
<1>0. TypeOK /\ Rest /\ Fresh /\ in' = in
  BY Advances DEF Control
<1>1. ASSUME First("RLD")'
      PROVE  /\ a' = AofRLD(in.a, in.m) /\ m' = MofRLD(in.a, in.m)
             /\ "C" \in f' <=> "C" \in in.f
  <2>1. Head(todo) = "RLD" /\ a = in.a /\ m = in.m /\ f = in.f
    BY <1>0, <1>1, FirstRuns
  <2> QED
    BY <1>0, <2>1, MovesNibbles
<1>2. ASSUME Second("RLD", "RLD")'
      PROVE  LET x == AofRLD(in.a, in.m)
                 v == MofRLD(in.a, in.m)
             IN  /\ a' = AofRLD(x, v) /\ m' = MofRLD(x, v)
                 /\ "C" \in f' <=> "C" \in in.f
  <2>1. First("RLD") /\ Head(todo) = "RLD"
    BY <1>0, <1>2, SecondRuns
  <2>2. a = AofRLD(in.a, in.m) /\ m = MofRLD(in.a, in.m) /\ SameC
    BY <2>1 DEF NibblesRun
  <2> QED
    BY <1>0, <2>1, <2>2, MovesNibbles DEF SameC
<1> QED
  BY <1>0, <1>1, <1>2 DEF NibblesRun, SameC, AofRLD, MofRLD

LEMMA NextBits == ASSUME Control, Next PROVE BitsRun'
<1>0. TypeOK /\ Rest /\ Fresh
  BY DEF Control
<1>1. ASSUME NEW op, First(op)'
      PROVE  /\ Head(todo) = op /\ in' = in /\ m = in.m /\ f = in.f
  BY <1>0, <1>1, FirstRuns
<1>2. First("SET")' => m' = ByteOf(Bits(in.m) \cup {in.bit}) /\ f' = in.f
  BY <1>1, OneBit
<1>3. First("RES")' => m' = ByteOf(Bits(in.m) \ {in.bit}) /\ f' = in.f
  BY <1>1, OneBit
<1>4. in' = in
  BY <1>0, Advances
<1> QED
  BY <1>2, <1>3, <1>4 DEF BitsRun, ByteOf, Bits, Bit

(* The nine bits that RL and RR rotate: C above the operand.                *)
Ring == m + (IF "C" \in f THEN 256 ELSE 0)
Loaded == in.m + (IF "C" \in in.f THEN 256 ELSE 0)

NineBits == 0 .. 511

(* Nine bits rotated to the left, seen as two parts that change places: w   *)
(* cut where the lower part has `cut` values.                               *)
Exchanged(w, cut) == w \div cut + (512 \div cut) * (w % cut)

CutAt == [i \in 0 .. 9 |-> <<512, 256, 128, 64, 32, 16, 8, 4, 2, 1>>[i + 1]]

LEMMA CutsAt ==
  /\ CutAt[0] = 512 /\ CutAt[1] = 256 /\ CutAt[2] = 128 /\ CutAt[3] = 64 /\ CutAt[4] = 32
  /\ CutAt[5] = 16 /\ CutAt[6] = 8 /\ CutAt[7] = 4 /\ CutAt[8] = 2 /\ CutAt[9] = 1
  BY DEF CutAt

Turned(w) == IF w > 255 THEN 2 * w - 511 ELSE 2 * w

LEMMA Exchanges ==
  ASSUME NEW w \in NineBits
  PROVE  Exchanged(w, 512) = w /\ Exchanged(w, 1) = w
  BY DEF Exchanged, NineBits

LEMMA TurnsOne ==
  ASSUME NEW w \in NineBits, NEW i \in 0 .. 8
  PROVE  Exchanged(w, CutAt[i + 1]) = Turned(Exchanged(w, CutAt[i]))
<1>1. Exchanged(w, 256) = Turned(Exchanged(w, 512))
  <2> DEFINE hi == w \div 512   lo == w % 512
  <2>1. hi \in 0 .. 0 /\ lo \in 0 .. 511 /\ w = 512 * hi + lo
    BY DEF NineBits
  <2> HIDE DEF hi, lo
  <2>2. w \div 256 = 2 * hi + (IF lo > 255 THEN 1 ELSE 0)
    BY <2>1
  <2>3. w % 256 = IF lo > 255 THEN lo - 256 ELSE lo
    BY <2>1
  <2>4. Exchanged(w, 512) = hi + 1 * lo
    BY DEF Exchanged, hi, lo
  <2>5. Exchanged(w, 256) = w \div 256 + 2 * (w % 256)
    BY DEF Exchanged
  <2>6. hi + 1 * lo > 255 <=> lo > 255
    BY <2>1
  <2> QED
    BY <2>1, <2>2, <2>3, <2>4, <2>5, <2>6 DEF Turned
<1>2. Exchanged(w, 128) = Turned(Exchanged(w, 256))
  <2> DEFINE hi == w \div 256   lo == w % 256
  <2>1. hi \in 0 .. 1 /\ lo \in 0 .. 255 /\ w = 256 * hi + lo
    BY DEF NineBits
  <2> HIDE DEF hi, lo
  <2>2. w \div 128 = 2 * hi + (IF lo > 127 THEN 1 ELSE 0)
    BY <2>1
  <2>3. w % 128 = IF lo > 127 THEN lo - 128 ELSE lo
    BY <2>1
  <2>4. Exchanged(w, 256) = hi + 2 * lo
    BY DEF Exchanged, hi, lo
  <2>5. Exchanged(w, 128) = w \div 128 + 4 * (w % 128)
    BY DEF Exchanged
  <2>6. hi + 2 * lo > 255 <=> lo > 127
    BY <2>1
  <2> QED
    BY <2>1, <2>2, <2>3, <2>4, <2>5, <2>6 DEF Turned
<1>3. Exchanged(w, 64) = Turned(Exchanged(w, 128))
  <2> DEFINE hi == w \div 128   lo == w % 128
  <2>1. hi \in 0 .. 3 /\ lo \in 0 .. 127 /\ w = 128 * hi + lo
    BY DEF NineBits
  <2> HIDE DEF hi, lo
  <2>2. w \div 64 = 2 * hi + (IF lo > 63 THEN 1 ELSE 0)
    BY <2>1
  <2>3. w % 64 = IF lo > 63 THEN lo - 64 ELSE lo
    BY <2>1
  <2>4. Exchanged(w, 128) = hi + 4 * lo
    BY DEF Exchanged, hi, lo
  <2>5. Exchanged(w, 64) = w \div 64 + 8 * (w % 64)
    BY DEF Exchanged
  <2>6. hi + 4 * lo > 255 <=> lo > 63
    BY <2>1
  <2> QED
    BY <2>1, <2>2, <2>3, <2>4, <2>5, <2>6 DEF Turned
<1>4. Exchanged(w, 32) = Turned(Exchanged(w, 64))
  <2> DEFINE hi == w \div 64   lo == w % 64
  <2>1. hi \in 0 .. 7 /\ lo \in 0 .. 63 /\ w = 64 * hi + lo
    BY DEF NineBits
  <2> HIDE DEF hi, lo
  <2>2. w \div 32 = 2 * hi + (IF lo > 31 THEN 1 ELSE 0)
    BY <2>1
  <2>3. w % 32 = IF lo > 31 THEN lo - 32 ELSE lo
    BY <2>1
  <2>4. Exchanged(w, 64) = hi + 8 * lo
    BY DEF Exchanged, hi, lo
  <2>5. Exchanged(w, 32) = w \div 32 + 16 * (w % 32)
    BY DEF Exchanged
  <2>6. hi + 8 * lo > 255 <=> lo > 31
    BY <2>1
  <2> QED
    BY <2>1, <2>2, <2>3, <2>4, <2>5, <2>6 DEF Turned
<1>5. Exchanged(w, 16) = Turned(Exchanged(w, 32))
  <2> DEFINE hi == w \div 32   lo == w % 32
  <2>1. hi \in 0 .. 15 /\ lo \in 0 .. 31 /\ w = 32 * hi + lo
    BY DEF NineBits
  <2> HIDE DEF hi, lo
  <2>2. w \div 16 = 2 * hi + (IF lo > 15 THEN 1 ELSE 0)
    BY <2>1
  <2>3. w % 16 = IF lo > 15 THEN lo - 16 ELSE lo
    BY <2>1
  <2>4. Exchanged(w, 32) = hi + 16 * lo
    BY DEF Exchanged, hi, lo
  <2>5. Exchanged(w, 16) = w \div 16 + 32 * (w % 16)
    BY DEF Exchanged
  <2>6. hi + 16 * lo > 255 <=> lo > 15
    BY <2>1
  <2> QED
    BY <2>1, <2>2, <2>3, <2>4, <2>5, <2>6 DEF Turned
<1>6. Exchanged(w, 8) = Turned(Exchanged(w, 16))
  <2> DEFINE hi == w \div 16   lo == w % 16
  <2>1. hi \in 0 .. 31 /\ lo \in 0 .. 15 /\ w = 16 * hi + lo
    BY DEF NineBits
  <2> HIDE DEF hi, lo
  <2>2. w \div 8 = 2 * hi + (IF lo > 7 THEN 1 ELSE 0)
    BY <2>1
  <2>3. w % 8 = IF lo > 7 THEN lo - 8 ELSE lo
    BY <2>1
  <2>4. Exchanged(w, 16) = hi + 32 * lo
    BY DEF Exchanged, hi, lo
  <2>5. Exchanged(w, 8) = w \div 8 + 64 * (w % 8)
    BY DEF Exchanged
  <2>6. hi + 32 * lo > 255 <=> lo > 7
    BY <2>1
  <2> QED
    BY <2>1, <2>2, <2>3, <2>4, <2>5, <2>6 DEF Turned
<1>7. Exchanged(w, 4) = Turned(Exchanged(w, 8))
  <2> DEFINE hi == w \div 8   lo == w % 8
  <2>1. hi \in 0 .. 63 /\ lo \in 0 .. 7 /\ w = 8 * hi + lo
    BY DEF NineBits
  <2> HIDE DEF hi, lo
  <2>2. w \div 4 = 2 * hi + (IF lo > 3 THEN 1 ELSE 0)
    BY <2>1
  <2>3. w % 4 = IF lo > 3 THEN lo - 4 ELSE lo
    BY <2>1
  <2>4. Exchanged(w, 8) = hi + 64 * lo
    BY DEF Exchanged, hi, lo
  <2>5. Exchanged(w, 4) = w \div 4 + 128 * (w % 4)
    BY DEF Exchanged
  <2>6. hi + 64 * lo > 255 <=> lo > 3
    BY <2>1
  <2> QED
    BY <2>1, <2>2, <2>3, <2>4, <2>5, <2>6 DEF Turned
<1>8. Exchanged(w, 2) = Turned(Exchanged(w, 4))
  <2> DEFINE hi == w \div 4   lo == w % 4
  <2>1. hi \in 0 .. 127 /\ lo \in 0 .. 3 /\ w = 4 * hi + lo
    BY DEF NineBits
  <2> HIDE DEF hi, lo
  <2>2. w \div 2 = 2 * hi + (IF lo > 1 THEN 1 ELSE 0)
    BY <2>1
  <2>3. w % 2 = IF lo > 1 THEN lo - 2 ELSE lo
    BY <2>1
  <2>4. Exchanged(w, 4) = hi + 128 * lo
    BY DEF Exchanged, hi, lo
  <2>5. Exchanged(w, 2) = w \div 2 + 256 * (w % 2)
    BY DEF Exchanged
  <2>6. hi + 128 * lo > 255 <=> lo > 1
    BY <2>1
  <2> QED
    BY <2>1, <2>2, <2>3, <2>4, <2>5, <2>6 DEF Turned
<1>9. Exchanged(w, 1) = Turned(Exchanged(w, 2))
  <2> DEFINE hi == w \div 2   lo == w % 2
  <2>1. hi \in 0 .. 255 /\ lo \in 0 .. 1 /\ w = 2 * hi + lo
    BY DEF NineBits
  <2> HIDE DEF hi, lo
  <2>2. w \div 1 = 2 * hi + (IF lo > 0 THEN 1 ELSE 0)
    BY <2>1
  <2>3. w % 1 = IF lo > 0 THEN lo - 1 ELSE lo
    BY <2>1
  <2>4. Exchanged(w, 2) = hi + 256 * lo
    BY DEF Exchanged, hi, lo
  <2>5. Exchanged(w, 1) = w \div 1 + 512 * (w % 1)
    BY DEF Exchanged
  <2>6. hi + 256 * lo > 255 <=> lo > 0
    BY <2>1
  <2> QED
    BY <2>1, <2>2, <2>3, <2>4, <2>5, <2>6 DEF Turned
<1>10. i \in {0, 1, 2, 3, 4, 5, 6, 7, 8}
  OBVIOUS
<1> QED
  BY <1>1, <1>2, <1>3, <1>4, <1>5, <1>6, <1>7, <1>8, <1>9, <1>10, CutsAt

(* RL turns the ring by one.                                                *)
LEMMA RLTurns ==
  ASSUME TypeOK, Next, Head(todo) = "RL"
  PROVE  Ring' = Turned(Ring) /\ a' = a
<1>1. m' = Left(m, "C" \in f) /\ ("C" \in f' <=> Bit(m, 7)) /\ a' = a
  BY Rotates
<1>2. m \in 0 .. 255 /\ (Bit(m, 7) <=> m > 127)
  BY ByteBits DEF TypeOK, Byte
<1>3. (m * 2) % 256 = IF m > 127 THEN 2 * m - 256 ELSE 2 * m
  BY <1>2
<1>4. m' = (IF m > 127 THEN 2 * m - 256 ELSE 2 * m) + (IF "C" \in f THEN 1 ELSE 0)
  BY <1>1, <1>3 DEF Left
<1>5. Ring' = m' + (IF m > 127 THEN 256 ELSE 0)
  BY <1>1, <1>2 DEF Ring
<1>6. Ring' = Turned(Ring)
  BY <1>2, <1>4, <1>5 DEF Ring, Turned
<1> QED
  BY <1>1, <1>6

NineRL == <<"RL", "RL", "RL", "RL", "RL", "RL", "RL", "RL", "RL">>

RingAt(i) == Ring = Exchanged(Loaded, CutAt[i]) /\ a = in.a

RingRun == in.prog = NineRL => \A i \in 1 .. 9 : Ran(i) => RingAt(i)

LEMMA LoadedTypes ==
  ASSUME TypeOK
  PROVE  Loaded \in NineBits /\ Ring \in NineBits
<1>1. in.m \in 0 .. 255 /\ m \in 0 .. 255
  BY InputTypes DEF TypeOK, Byte
<1> QED
  BY <1>1 DEF Loaded, Ring, NineBits

LEMMA NextRing == ASSUME Control, RingRun, Next PROVE RingRun'
<1>0. TypeOK /\ Rest /\ in' = in
  BY Advances DEF Control
<1> SUFFICES ASSUME in.prog = NineRL, NEW i \in 0 .. 8, Ran(i + 1)'
             PROVE  RingAt(i + 1)'
  <2>1. ASSUME \A i \in 0 .. 8 : Ran(i + 1)' => RingAt(i + 1)'
        PROVE  \A i \in 1 .. 9 : Ran(i)' => RingAt(i)'
    <3>1. ASSUME NEW i \in 1 .. 9 PROVE Ran(i)' => RingAt(i)'
      <4>1. i - 1 \in 0 .. 8 /\ (i - 1) + 1 = i
        OBVIOUS
      <4> QED
        BY <2>1, <4>1
    <3> QED
      BY <3>1
  <2> QED
    BY <1>0, <2>1 DEF RingRun
<1>1. Ran(i) /\ Head(todo) = NineRL[i + 1]
  BY <1>0, Follows
<1>2. Head(todo) = "RL"
  BY <1>1 DEF NineRL
<1>3. Ring = Exchanged(Loaded, CutAt[i]) /\ a = in.a
  <2>1. CASE i = 0
    <3>1. Ring = Loaded /\ a = in.a
      BY <1>1, <2>1 DEF Control, Fresh, Ring, Loaded
    <3> QED
      BY <1>0, <2>1, <3>1, CutsAt, Exchanges, LoadedTypes
  <2>2. CASE i # 0
    BY <1>1, <2>2 DEF RingRun, RingAt
  <2> QED
    BY <2>1, <2>2
<1>4. Ring' = Turned(Ring) /\ a' = a
  BY <1>0, <1>2, RLTurns
<1>5. Ring' = Exchanged(Loaded, CutAt[i + 1])
  BY <1>0, <1>3, <1>4, LoadedTypes, TurnsOne
<1>6. Loaded' = Loaded
  BY <1>0 DEF Loaded
<1> QED
  BY <1>0, <1>3, <1>4, <1>5, <1>6 DEF RingAt

LEMMA RingIsBack == ASSUME Control, RingRun, Ended(NineRL) PROVE Same /\ SameC
<1>1. in.prog = NineRL /\ Ran(9)
  BY DEF Ended, Ran, NineRL
<1>2. Ring = Exchanged(Loaded, CutAt[9]) /\ a = in.a
  BY <1>1 DEF RingRun, RingAt
<1>3. Ring = Loaded
  BY <1>2, CutsAt, Exchanges, LoadedTypes DEF Control
<1>4. in.m \in 0 .. 255 /\ m \in 0 .. 255
  BY InputTypes DEF Control, TypeOK, Byte
<1>5. m = in.m /\ SameC
  BY <1>3, <1>4 DEF Ring, Loaded, SameC
<1> QED
  BY <1>2, <1>5 DEF Same

(* BitsInPlace, without the nine RL.                                        *)
InPlace ==
  /\ Ended(<<"RL", "RR">>) \/ Ended(<<"RLA", "RRA">>) => Same /\ SameC
  /\ Ended(<<"RLC", "RRC">>) \/ Ended(<<"RLCA", "RRCA">>) => Same
  /\ Ended(<<"RLD", "RRD">>) \/ Ended(<<"RLD", "RLD", "RLD">>) => Same /\ SameC
  /\ Ended(<<"SLL", "SRL">>) \/ Ended(<<"SLA", "SRA">>) => m % 128 = in.m % 128
  /\ Ended(<<"SET", "BIT">>) => f \ {"X", "Y"} = {"H"} \cup (in.f \cap {"C"})
                                                  \cup If(in.bit = 7, {"S"})
  /\ Ended(<<"RES", "BIT">>) => f \ {"X", "Y"} = {"H", "Z", "PV"} \cup (in.f \cap {"C"})
  /\ Ended(<<"SET", "RES">>) \/ Ended(<<"RES", "SET">>) =>
       Bits(m) \ {in.bit} = Bits(in.m) \ {in.bit} /\ f = in.f

LEMMA NextInPlace ==
  ASSUME Control, RotationsRun, NibblesRun, BitsRun, Next
  PROVE  InPlace'
<1>0. TypeOK /\ Rest /\ in' = in
  BY Advances DEF Control
<1>1. in.a \in Byte /\ in.m \in Byte /\ in.bit \in 0 .. 7
  BY <1>0, InputTypes DEF TypeOK
<1>2. ASSUME NEW one, NEW two, Ended(<<one, two>>)'
      PROVE  First(one) /\ Head(todo) = two
  BY <1>0, <1>2, EndTwoNext, SecondRuns
<1>3. ASSUME Ended(<<"RL", "RR">>)' PROVE a' = in.a /\ m' = in.m /\ ("C" \in f' <=> "C" \in in.f)
  <2>1. /\ m = Left(in.m, "C" \in in.f) /\ ("C" \in f <=> Bit(in.m, 7)) /\ a = in.a
        /\ m' = Right(m, "C" \in f) /\ ("C" \in f' <=> Bit(m, 0)) /\ a' = a
    BY <1>0, <1>2, <1>3, Rotates DEF RotationsRun
  <2>2. Right(m, "C" \in f) = Right(m, Bit(in.m, 7))
    BY <2>1 DEF Right
  <2> DEFINE c == "C" \in in.f
  <2>3. c \in BOOLEAN
    OBVIOUS
  <2> HIDE DEF c
  <2>4. /\ Right(Left(in.m, c), Bit(in.m, 7)) = in.m
        /\ Bit(Left(in.m, c), 0) <=> c
    BY <1>1, <2>3, ShiftedBack
  <2> QED
    BY <2>1, <2>2, <2>4 DEF c
<1>4. ASSUME Ended(<<"RLA", "RRA">>)'
      PROVE  a' = in.a /\ m' = in.m /\ ("C" \in f' <=> "C" \in in.f)
  <2>1. /\ a = Left(in.a, "C" \in in.f) /\ ("C" \in f <=> Bit(in.a, 7)) /\ m = in.m
        /\ a' = Right(a, "C" \in f) /\ ("C" \in f' <=> Bit(a, 0)) /\ m' = m
    BY <1>0, <1>2, <1>4, RotatesA DEF RotationsRun
  <2>2. Right(a, "C" \in f) = Right(a, Bit(in.a, 7))
    BY <2>1 DEF Right
  <2> DEFINE c == "C" \in in.f
  <2>3. c \in BOOLEAN
    OBVIOUS
  <2> HIDE DEF c
  <2>4. /\ Right(Left(in.a, c), Bit(in.a, 7)) = in.a
        /\ Bit(Left(in.a, c), 0) <=> c
    BY <1>1, <2>3, ShiftedBack
  <2> QED
    BY <2>1, <2>2, <2>4 DEF c
<1>5. ASSUME Ended(<<"RLC", "RRC">>)' PROVE a' = in.a /\ m' = in.m
  <2>1. /\ m = Left(in.m, Bit(in.m, 7)) /\ a = in.a
        /\ m' = Right(m, Bit(m, 0)) /\ a' = a
    BY <1>0, <1>2, <1>5, Rotates DEF RotationsRun
  <2>2. Bit(m, 0) <=> Bit(in.m, 7)
    BY <1>1, <2>1, ShiftedBack DEF Bit
  <2>3. Right(m, Bit(m, 0)) = Right(m, Bit(in.m, 7))
    BY <2>2 DEF Right
  <2> QED
    BY <1>1, <2>1, <2>3, ShiftedBack DEF Bit
<1>6. ASSUME Ended(<<"RLCA", "RRCA">>)' PROVE a' = in.a /\ m' = in.m
  <2>1. /\ a = Left(in.a, Bit(in.a, 7)) /\ m = in.m
        /\ a' = Right(a, Bit(a, 0)) /\ m' = m
    BY <1>0, <1>2, <1>6, RotatesA DEF RotationsRun
  <2>2. Bit(a, 0) <=> Bit(in.a, 7)
    BY <1>1, <2>1, ShiftedBack DEF Bit
  <2>3. Right(a, Bit(a, 0)) = Right(a, Bit(in.a, 7))
    BY <2>2 DEF Right
  <2> QED
    BY <1>1, <2>1, <2>3, ShiftedBack DEF Bit
<1>7. ASSUME Ended(<<"SLL", "SRL">>)' PROVE m' % 128 = in.m % 128
  <2>1. m = Left(in.m, TRUE) /\ m' = Right(m, FALSE)
    BY <1>0, <1>2, <1>7, Rotates DEF RotationsRun
  <2> QED
    BY <1>1, <2>1, ShiftedBack
<1>8. ASSUME Ended(<<"SLA", "SRA">>)' PROVE m' % 128 = in.m % 128
  <2>1. m = Left(in.m, FALSE) /\ m' = Right(m, Bit(m, 7))
    BY <1>0, <1>2, <1>8, Rotates DEF RotationsRun
  <2> QED
    BY <1>1, <2>1, ShiftedBack DEF Bit
<1>9. ASSUME Ended(<<"RLD", "RRD">>)'
       PROVE  a' = in.a /\ m' = in.m /\ ("C" \in f' <=> "C" \in in.f)
  <2>1. /\ a = AofRLD(in.a, in.m) /\ m = MofRLD(in.a, in.m) /\ SameC
        /\ a' = AofRRD(a, m) /\ m' = MofRRD(a, m) /\ ("C" \in f' <=> "C" \in f)
    BY <1>0, <1>2, <1>9, MovesNibbles DEF NibblesRun
  <2> QED
    BY <1>1, <2>1, NibblesBack DEF SameC
<1>10. ASSUME Ended(<<"RLD", "RLD", "RLD">>)'
       PROVE  a' = in.a /\ m' = in.m /\ ("C" \in f' <=> "C" \in in.f)
  <2>1. Second("RLD", "RLD") /\ Head(todo) = "RLD"
    BY <1>0, <1>10, ThirdRuns
  <2>2. /\ a = AofRLD(AofRLD(in.a, in.m), MofRLD(in.a, in.m))
        /\ m = MofRLD(AofRLD(in.a, in.m), MofRLD(in.a, in.m)) /\ SameC
        /\ a' = AofRLD(a, m) /\ m' = MofRLD(a, m) /\ ("C" \in f' <=> "C" \in f)
    BY <1>0, <2>1, MovesNibbles DEF NibblesRun
  <2> QED
    BY <1>1, <2>2, NibblesBack DEF SameC
<1>11. ASSUME NEW set, m = ByteOf(set), f = in.f, Head(todo) = "BIT"
       PROVE  f' \ {"X", "Y"} =
                {"H"} \cup (in.f \cap {"C"})
                  \cup (IF in.bit \in set THEN If(in.bit = 7, {"S"}) ELSE {"Z", "PV"})
  <2>1. f' = BitFlags(in.bit, m, m)
    BY <1>11, OneBit
  <2>2. Bit(m, in.bit) <=> in.bit \in set
    BY <1>1, <1>11, Weights
  <2>3. in.bit = 7 => (Bit(m, 7) <=> in.bit \in set)
    BY <2>2
  <2>4. XYOf(m) \subseteq {"X", "Y"}
    BY XYFlags
  <2> QED
    BY <1>11, <2>1, <2>2, <2>3, <2>4 DEF BitFlags, If
<1>12. ASSUME Ended(<<"SET", "BIT">>)'
       PROVE  f' \ {"X", "Y"} = {"H"} \cup (in.f \cap {"C"}) \cup If(in.bit = 7, {"S"})
  <2>1. m = ByteOf(Bits(in.m) \cup {in.bit}) /\ f = in.f /\ Head(todo) = "BIT"
    BY <1>2, <1>12 DEF BitsRun
  <2> QED
    BY <1>11, <2>1
<1>13. ASSUME Ended(<<"RES", "BIT">>)'
       PROVE  f' \ {"X", "Y"} = {"H", "Z", "PV"} \cup (in.f \cap {"C"})
  <2>1. m = ByteOf(Bits(in.m) \ {in.bit}) /\ f = in.f /\ Head(todo) = "BIT"
    BY <1>2, <1>13 DEF BitsRun
  <2> QED
    BY <1>11, <2>1
<1>14. Bits(in.m) \cup {in.bit} \in SUBSET (0 .. 7) /\ Bits(in.m) \ {in.bit} \in SUBSET (0 .. 7)
  BY <1>1 DEF Bits
<1>15. ASSUME Ended(<<"SET", "RES">>)'
       PROVE  Bits(m') \ {in.bit} = Bits(in.m) \ {in.bit} /\ f' = in.f
  <2>1. /\ m = ByteOf(Bits(in.m) \cup {in.bit}) /\ f = in.f
        /\ m' = ByteOf(Bits(m) \ {in.bit}) /\ f' = f
    BY <1>2, <1>15, OneBit DEF BitsRun
  <2>2. Bits(m) = Bits(in.m) \cup {in.bit}
    BY <1>14, <2>1, BitsOf
  <2>3. Bits(m) \ {in.bit} = Bits(in.m) \ {in.bit}
    BY <2>2
  <2>4. Bits(m') = Bits(m) \ {in.bit}
    BY <1>14, <2>1, <2>3, BitsOf
  <2> QED
    BY <2>1, <2>3, <2>4
<1>16. ASSUME Ended(<<"RES", "SET">>)'
       PROVE  Bits(m') \ {in.bit} = Bits(in.m) \ {in.bit} /\ f' = in.f
  <2>1. /\ m = ByteOf(Bits(in.m) \ {in.bit}) /\ f = in.f
        /\ m' = ByteOf(Bits(m) \cup {in.bit}) /\ f' = f
    BY <1>2, <1>16, OneBit DEF BitsRun
  <2>2. Bits(m) = Bits(in.m) \ {in.bit}
    BY <1>14, <2>1, BitsOf
  <2>3. Bits(m) \cup {in.bit} = Bits(in.m) \cup {in.bit}
    BY <2>2
  <2>4. Bits(m') = Bits(m) \cup {in.bit}
    BY <1>14, <2>1, <2>3, BitsOf
  <2> QED
    BY <2>1, <2>2, <2>4
<1>17. /\ Ended(<<"RL", "RR">>)' \/ Ended(<<"RLA", "RRA">>)' => (Same /\ SameC)'
       /\ Ended(<<"RLC", "RRC">>)' \/ Ended(<<"RLCA", "RRCA">>)' => Same'
       /\ Ended(<<"RLD", "RRD">>)' \/ Ended(<<"RLD", "RLD", "RLD">>)' => (Same /\ SameC)'
  BY <1>0, <1>3, <1>4, <1>5, <1>6, <1>9, <1>10 DEF Same, SameC
<1>18. Ended(<<"SLL", "SRL">>)' \/ Ended(<<"SLA", "SRA">>)' => (m % 128 = in.m % 128)'
  BY <1>0, <1>7, <1>8
<1>19. /\ Ended(<<"SET", "BIT">>)' =>
            (f \ {"X", "Y"} = {"H"} \cup (in.f \cap {"C"}) \cup If(in.bit = 7, {"S"}))'
       /\ Ended(<<"RES", "BIT">>)' =>
            (f \ {"X", "Y"} = {"H", "Z", "PV"} \cup (in.f \cap {"C"}))'
  BY <1>0, <1>12, <1>13 DEF If
<1>20. Ended(<<"SET", "RES">>)' \/ Ended(<<"RES", "SET">>)' =>
         (Bits(m) \ {in.bit} = Bits(in.m) \ {in.bit} /\ f = in.f)'
  BY <1>0, <1>15, <1>16 DEF Bits, Bit
<1> QED
  BY <1>17, <1>18, <1>19, <1>20 DEF InPlace

LEMMA AllInPlace == Control /\ RingRun /\ InPlace => BitsInPlace
  BY RingIsBack DEF InPlace, BitsInPlace, NineRL
----------------------------------------------------------------------------
(* Decimal arithmetic.                                                      *)

(* The adjustment of a sum of two packed decimals, nibble by nibble.        *)
Sum(x, y, cin) == (x + y + cin) % 256
HighSum(x, y, cin) == x + y + cin > 255 \/ Sum(x, y, cin) > 153
LowSum(x, y, cin) == (x % 16) + (y % 16) + cin > 15 \/ Sum(x, y, cin) % 16 > 9
AdjustSum(x, y, cin) ==
  (IF HighSum(x, y, cin) THEN 96 ELSE 0) + (IF LowSum(x, y, cin) THEN 6 ELSE 0)

LEMMA AdjustsSum ==
  ASSUME NEW x \in Byte, NEW y \in Byte, NEW cin \in 0 .. 1, Decimal(x), Decimal(y)
  PROVE  /\ (Sum(x, y, cin) + AdjustSum(x, y, cin)) % 256
              = ToDecimal((Value(x) + Value(y) + cin) % 100)
         /\ HighSum(x, y, cin) <=> Value(x) + Value(y) + cin \notin 0 .. 99
<1> DEFINE xh == x \div 16   xl == x % 16
           yh == y \div 16   yl == y % 16
           tens == xh + yh
           ones == xl + yl + cin
           s    == x + y + cin
           z    == s % 256
           high == s > 255 \/ z > 153
           low  == ones > 15 \/ z % 16 > 9
           n    == Value(x) + Value(y) + cin
           over == IF high THEN 1 ELSE 0
           half == IF low THEN 1 ELSE 0
<1>1. /\ xh \in 0 .. 9 /\ xl \in 0 .. 9 /\ x = 16 * xh + xl
      /\ yh \in 0 .. 9 /\ yl \in 0 .. 9 /\ y = 16 * yh + yl
  BY DEF Byte, Decimal
<1>2. n = 10 * tens + ones
  <2>1. Value(x) = 10 * xh + xl /\ Value(y) = 10 * yh + yl
    BY <1>1 DEF Value
  <2>2. n = Value(x) + Value(y) + cin
    OBVIOUS
  <2> HIDE DEF xh, xl, yh, yl, n
  <2> QED
    BY <1>1, <2>1, <2>2
<1> HIDE DEF xh, xl, yh, yl, n
<1>3. tens \in 0 .. 18 /\ ones \in 0 .. 19 /\ s = 16 * tens + ones
  <2>1. tens \in 0 .. 18 /\ ones \in 0 .. 19
    BY <1>1
  <2> QED
    BY <1>1, <2>1
<1> HIDE DEF tens, ones
<1>4. z = IF s > 255 THEN s - 256 ELSE s
  BY <1>3
<1> HIDE DEF s
<1>5. z % 16 = IF ones > 15 THEN ones - 16 ELSE ones
  BY <1>3, <1>4
<1>6. low <=> ones > 9
  BY <1>3, <1>5
<1>7. high <=> n > 99
  BY <1>2, <1>3, <1>4
<1>8. z \in 0 .. 255 /\ n \in 0 .. 199
  BY <1>2, <1>3, <1>4
<1> HIDE DEF z, high, low
<1>9. over \in 0 .. 1 /\ half \in 0 .. 1 /\ (half = 1 <=> ones > 9) /\ (over = 1 <=> n > 99)
  BY <1>6, <1>7
<1> DEFINE ten == tens + half - 10 * over
           one == ones - 10 * half
<1>10. (IF high THEN 96 ELSE 0) + (IF low THEN 6 ELSE 0) = 96 * over + 6 * half
  OBVIOUS
<1> HIDE DEF over, half
<1>11. ten \in 0 .. 9 /\ one \in 0 .. 9
  BY <1>2, <1>3, <1>9
<1>12. n % 100 = 10 * ten + one
  BY <1>2, <1>3, <1>8, <1>9
<1>13. (z + (96 * over + 6 * half)) % 256 = 16 * ten + one
  <2> DEFINE d == 16 * ten + one
             t == z + (96 * over + 6 * half)
  <2>1. t = d \/ t = d + 256
    BY <1>2, <1>3, <1>4, <1>9
  <2>2. d \in 0 .. 255
    BY <1>11
  <2> HIDE DEF d, t
  <2>3. t % 256 = d
    BY <2>1, <2>2
  <2> QED
    BY <2>3 DEF d, t
<1>14. ToDecimal(n % 100) = 16 * ten + one
  <2> HIDE DEF ten, one
  <2>1. (10 * ten + one) \div 10 = ten /\ (10 * ten + one) % 10 = one
    BY <1>11
  <2> QED
    BY <1>11, <1>12, <2>1 DEF ToDecimal
<1>15. high <=> n \notin 0 .. 99
  BY <1>7, <1>8
<1> QED
  BY <1>10, <1>13, <1>14, <1>15 DEF s, z, high, low, n, ones, xl, yl,
       Sum, HighSum, LowSum, AdjustSum

(* The same for a difference.                                               *)
Difference(x, y, cin) == (x - y - cin) % 256
HighDifference(x, y, cin) == x - y - cin < 0 \/ Difference(x, y, cin) > 153
LowDifference(x, y, cin) == (x % 16) - (y % 16) - cin < 0 \/ Difference(x, y, cin) % 16 > 9
AdjustDifference(x, y, cin) ==
  (IF HighDifference(x, y, cin) THEN 96 ELSE 0) + (IF LowDifference(x, y, cin) THEN 6 ELSE 0)

LEMMA AdjustsDifference ==
  ASSUME NEW x \in Byte, NEW y \in Byte, NEW cin \in 0 .. 1, Decimal(x), Decimal(y)
  PROVE  /\ (Difference(x, y, cin) - AdjustDifference(x, y, cin)) % 256
              = ToDecimal((Value(x) - Value(y) - cin) % 100)
         /\ HighDifference(x, y, cin) <=> Value(x) - Value(y) - cin \notin 0 .. 99
<1> DEFINE xh == x \div 16   xl == x % 16
           yh == y \div 16   yl == y % 16
           tens == xh - yh
           ones == xl - yl - cin
           s    == x - y - cin
           z    == s % 256
           high == s < 0 \/ z > 153
           low  == ones < 0 \/ z % 16 > 9
           n    == Value(x) - Value(y) - cin
           over == IF high THEN 1 ELSE 0
           half == IF low THEN 1 ELSE 0
<1>1. /\ xh \in 0 .. 9 /\ xl \in 0 .. 9 /\ x = 16 * xh + xl
      /\ yh \in 0 .. 9 /\ yl \in 0 .. 9 /\ y = 16 * yh + yl
  BY DEF Byte, Decimal
<1>2. n = 10 * tens + ones
  <2>1. Value(x) = 10 * xh + xl /\ Value(y) = 10 * yh + yl
    BY <1>1 DEF Value
  <2>2. n = Value(x) - Value(y) - cin
    OBVIOUS
  <2> HIDE DEF xh, xl, yh, yl, n
  <2> QED
    BY <1>1, <2>1, <2>2
<1> HIDE DEF xh, xl, yh, yl, n
<1>3. tens \in -9 .. 9 /\ ones \in -10 .. 9 /\ s = 16 * tens + ones
  BY <1>1
<1> HIDE DEF tens, ones
<1>4. z = IF s < 0 THEN s + 256 ELSE s
  BY <1>3
<1> HIDE DEF s
<1>5. z % 16 = IF ones < 0 THEN ones + 16 ELSE ones
  BY <1>3, <1>4
<1>6. low <=> ones < 0
  BY <1>3, <1>5
<1>7. high <=> n < 0
  BY <1>2, <1>3, <1>4
<1>8. z \in 0 .. 255 /\ n \in -100 .. 99
  BY <1>2, <1>3, <1>4
<1> HIDE DEF z, high, low
<1>9. over \in 0 .. 1 /\ half \in 0 .. 1 /\ (half = 1 <=> ones < 0) /\ (over = 1 <=> n < 0)
  BY <1>6, <1>7
<1> DEFINE ten == tens - half + 10 * over
           one == ones + 10 * half
<1>10. (IF high THEN 96 ELSE 0) + (IF low THEN 6 ELSE 0) = 96 * over + 6 * half
  OBVIOUS
<1> HIDE DEF over, half
<1>11. ten \in 0 .. 9 /\ one \in 0 .. 9
  BY <1>2, <1>3, <1>9
<1>12. n % 100 = 10 * ten + one
  BY <1>2, <1>3, <1>8, <1>9
<1>13. (z - (96 * over + 6 * half)) % 256 = 16 * ten + one
  <2> DEFINE d == 16 * ten + one
             t == z - (96 * over + 6 * half)
  <2>1. t = d \/ t = d - 256
    BY <1>2, <1>3, <1>4, <1>9
  <2>2. d \in 0 .. 255
    BY <1>11
  <2> HIDE DEF d, t
  <2>3. t % 256 = d
    BY <2>1, <2>2
  <2> QED
    BY <2>3 DEF d, t
<1>14. ToDecimal(n % 100) = 16 * ten + one
  <2> HIDE DEF ten, one
  <2>1. (10 * ten + one) \div 10 = ten /\ (10 * ten + one) % 10 = one
    BY <1>11
  <2> QED
    BY <1>11, <1>12, <2>1 DEF ToDecimal
<1>15. high <=> n \notin 0 .. 99
  BY <1>7, <1>8
<1> QED
  BY <1>10, <1>13, <1>14, <1>15 DEF s, z, high, low, n, ones, xl, yl,
       Difference, HighDifference, LowDifference, AdjustDifference

(* What DAA does with A, C, H and N.                                        *)
LEMMA Adjusts ==
  ASSUME TypeOK, Next, Head(todo) = "DAA"
  PROVE  LET high   == "C" \in f \/ a > 153
             low    == "H" \in f \/ a % 16 > 9
             adjust == (IF high THEN 96 ELSE 0) + (IF low THEN 6 ELSE 0)
         IN  /\ a' = (IF "N" \in f THEN a - adjust ELSE a + adjust) % 256
             /\ "C" \in f' <=> high
<1> DEFINE high   == "C" \in f \/ a > 153
           low    == "H" \in f \/ a % 16 > 9
           adjust == (IF high THEN 96 ELSE 0) + (IF low THEN 6 ELSE 0)
           r      == (IF "N" \in f THEN a - adjust ELSE a + adjust) % 256
           half   == IF "N" \in f THEN "H" \in f /\ a % 16 < 6 ELSE a % 16 > 9
<1>1. DAA
  BY RunsNamed DEF Named
<1>2. a' = r /\ f' = (f \cap {"N"}) \cup If(high, {"C"}) \cup If(half, {"H"})
                       \cup szxy[r] \cup parity[r]
  BY <1>1 DEF DAA, Accumulate, SetF, Daa, Res
<1>3. r \in Byte
  BY <1>2, NextTypes DEF TypeOK
<1> HIDE DEF r, half, high
<1>4. "C" \notin szxy[r] /\ "C" \notin parity[r]
  BY <1>3, SZXY, ParityFlag
<1>5. "C" \in f' <=> high
  BY <1>2, <1>4 DEF If
<1> QED
  BY <1>2, <1>5 DEF r, high

LEMMA AdjustsAdd ==
  ASSUME TypeOK, Next, Head(todo) = "DAA",
         NEW x \in Byte, NEW y \in Byte, NEW cin \in 0 .. 1, Decimal(x), Decimal(y),
         Holds(Add8(x, y, cin))
  PROVE  /\ a' = ToDecimal((Value(x) + Value(y) + cin) % 100)
         /\ "C" \in f' <=> Value(x) + Value(y) + cin \notin 0 .. 99
<1> DEFINE sum == Add8(x, y, cin)
           z == (x + y + cin) % 256
<1>1. /\ sum.r = z
      /\ "C" \in sum.f <=> x + y + cin > 255
      /\ "H" \in sum.f <=> (x % 16) + (y % 16) + cin > 15
      /\ "N" \notin sum.f
  BY Add8Flags
<1>2. a = sum.r /\ f = sum.f
  BY DEF Holds
<1> HIDE DEF sum, z
<1>3. /\ a = z
      /\ "C" \in f <=> x + y + cin > 255
      /\ "H" \in f <=> (x % 16) + (y % 16) + cin > 15
      /\ "N" \notin f
  BY <1>1, <1>2
<1>4. /\ a' = (z + AdjustSum(x, y, cin)) % 256
      /\ "C" \in f' <=> HighSum(x, y, cin)
  BY <1>3, Adjusts DEF Sum, HighSum, LowSum, AdjustSum, z
<1>5. /\ (z + AdjustSum(x, y, cin)) % 256 = ToDecimal((Value(x) + Value(y) + cin) % 100)
      /\ HighSum(x, y, cin) <=> Value(x) + Value(y) + cin \notin 0 .. 99
  BY AdjustsSum DEF Sum, z
<1> QED
  BY <1>4, <1>5

LEMMA AdjustsSub ==
  ASSUME TypeOK, Next, Head(todo) = "DAA",
         NEW x \in Byte, NEW y \in Byte, NEW cin \in 0 .. 1, Decimal(x), Decimal(y),
         Holds(Sub8(x, y, cin))
  PROVE  /\ a' = ToDecimal((Value(x) - Value(y) - cin) % 100)
         /\ "C" \in f' <=> Value(x) - Value(y) - cin \notin 0 .. 99
<1> DEFINE diff == Sub8(x, y, cin)
           z == (x - y - cin) % 256
<1>1. /\ diff.r = z
      /\ "C" \in diff.f <=> x - y - cin < 0
      /\ "H" \in diff.f <=> (x % 16) - (y % 16) - cin < 0
      /\ "N" \in diff.f
  BY Sub8Flags
<1>2. a = diff.r /\ f = diff.f
  BY DEF Holds
<1> HIDE DEF diff, z
<1>3. /\ a = z
      /\ "C" \in f <=> x - y - cin < 0
      /\ "H" \in f <=> (x % 16) - (y % 16) - cin < 0
      /\ "N" \in f
  BY <1>1, <1>2
<1>4. /\ a' = (z - AdjustDifference(x, y, cin)) % 256
      /\ "C" \in f' <=> HighDifference(x, y, cin)
  BY <1>3, Adjusts DEF Difference, HighDifference, LowDifference, AdjustDifference, z
<1>5. /\ (z - AdjustDifference(x, y, cin)) % 256 = ToDecimal((Value(x) - Value(y) - cin) % 100)
      /\ HighDifference(x, y, cin) <=> Value(x) - Value(y) - cin \notin 0 .. 99
  BY AdjustsDifference DEF Difference, z
<1> QED
  BY <1>4, <1>5

LEMMA NextDecimal == ASSUME Control, SumsRun, Next PROVE DecimalExact'
<1>0. TypeOK /\ Rest /\ in' = in
  BY Advances DEF Control
<1>1. /\ in.a \in Byte /\ in.m \in Byte /\ Cin \in 0 .. 1 /\ 0 \in 0 .. 1
      /\ Value(in.a) \in Int /\ Value(in.m) \in Int
  <2>1. in.a \in Byte /\ in.m \in Byte
    BY <1>0, InputTypes DEF TypeOK
  <2>2. \A v \in Byte : Value(v) \in Int
    BY DEF Byte, Value
  <2> QED
    BY <2>1, <2>2, CarryTypes
<1>2. ASSUME NEW one, Ended(<<one, "DAA">>)'
      PROVE  First(one) /\ Head(todo) = "DAA"
  BY <1>0, <1>2, EndTwoNext, SecondRuns
<1> SUFFICES ASSUME Decimal(in.a), Decimal(in.m)
             PROVE  /\ Ended(<<"ADD", "DAA">>)' => DecimalSum(Value(in.a) + Value(in.m))'
                    /\ Ended(<<"ADC", "DAA">>)' => DecimalSum(Value(in.a) + Value(in.m) + Cin)'
                    /\ Ended(<<"SUB", "DAA">>)' => DecimalSum(Value(in.a) - Value(in.m))'
                    /\ Ended(<<"SBC", "DAA">>)' => DecimalSum(Value(in.a) - Value(in.m) - Cin)'
  BY <1>0 DEF DecimalExact, Decimal
<1>3. Cin' = Cin /\ Value(in.a)' = Value(in.a) /\ Value(in.m)' = Value(in.m)
  BY <1>0 DEF Cin, Value
<1>4. /\ Value(in.a) + Value(in.m) + 0 = Value(in.a) + Value(in.m)
      /\ Value(in.a) - Value(in.m) - 0 = Value(in.a) - Value(in.m)
  BY <1>1
<1>5. ASSUME Ended(<<"ADD", "DAA">>)' PROVE DecimalSum(Value(in.a) + Value(in.m))'
  <2>1. Holds(Add8(in.a, in.m, 0)) /\ Head(todo) = "DAA"
    BY <1>2, <1>5 DEF SumsRun
  <2>2. /\ a' = ToDecimal((Value(in.a) + Value(in.m) + 0) % 100)
        /\ "C" \in f' <=> Value(in.a) + Value(in.m) + 0 \notin 0 .. 99
    BY <1>0, <1>1, <2>1, AdjustsAdd
  <2> QED
    BY <1>3, <1>4, <2>2 DEF DecimalSum, ToDecimal
<1>6. ASSUME Ended(<<"ADC", "DAA">>)' PROVE DecimalSum(Value(in.a) + Value(in.m) + Cin)'
  <2>1. Holds(Add8(in.a, in.m, Cin)) /\ Head(todo) = "DAA"
    BY <1>2, <1>6 DEF SumsRun
  <2>2. /\ a' = ToDecimal((Value(in.a) + Value(in.m) + Cin) % 100)
        /\ "C" \in f' <=> Value(in.a) + Value(in.m) + Cin \notin 0 .. 99
    BY <1>0, <1>1, <2>1, AdjustsAdd
  <2> QED
    BY <1>3, <2>2 DEF DecimalSum, ToDecimal
<1>7. ASSUME Ended(<<"SUB", "DAA">>)' PROVE DecimalSum(Value(in.a) - Value(in.m))'
  <2>1. Holds(Sub8(in.a, in.m, 0)) /\ Head(todo) = "DAA"
    BY <1>2, <1>7 DEF SumsRun
  <2>2. /\ a' = ToDecimal((Value(in.a) - Value(in.m) - 0) % 100)
        /\ "C" \in f' <=> Value(in.a) - Value(in.m) - 0 \notin 0 .. 99
    BY <1>0, <1>1, <2>1, AdjustsSub
  <2> QED
    BY <1>3, <1>4, <2>2 DEF DecimalSum, ToDecimal
<1>8. ASSUME Ended(<<"SBC", "DAA">>)' PROVE DecimalSum(Value(in.a) - Value(in.m) - Cin)'
  <2>1. Holds(Sub8(in.a, in.m, Cin)) /\ Head(todo) = "DAA"
    BY <1>2, <1>8 DEF SumsRun
  <2>2. /\ a' = ToDecimal((Value(in.a) - Value(in.m) - Cin) % 100)
        /\ "C" \in f' <=> Value(in.a) - Value(in.m) - Cin \notin 0 .. 99
    BY <1>0, <1>1, <2>1, AdjustsSub
  <2> QED
    BY <1>3, <2>2 DEF DecimalSum, ToDecimal
<1> QED
  BY <1>5, <1>6, <1>7, <1>8
----------------------------------------------------------------------------
(* The invariant.                                                           *)

(* The registers and flags behind the first instructions of each program,   *)
(* and what a program of several instructions leaves.                       *)
Stages == /\ SumsRun /\ CompareRun /\ StepsRun /\ WordsRun /\ Latched
          /\ RotationsRun /\ NibblesRun /\ BitsRun /\ RingRun

Results == TakenBack /\ LatchesShow /\ InPlace /\ DecimalExact

IInv == Control /\ Stages /\ Results

LEMMA InitInv == Init => IInv
<1> SUFFICES ASSUME Init PROVE IInv
  OBVIOUS
<1>1. Control
  BY InitControl
<1>2. \A one, two : ~First(one) /\ ~Second(one, two)
  BY <1>1, NotFirstYet
<1>3. \A k \in 1 .. 9 : ~Ran(k)
  BY <1>1, NotFirstYet
<1>4. SumsRun /\ CompareRun /\ StepsRun /\ WordsRun
  <2>1. SumsRun
    BY <1>2 DEF SumsRun
  <2>2. CompareRun
    BY <1>2 DEF CompareRun
  <2>3. StepsRun
    BY <1>2 DEF StepsRun
  <2>4. WordsRun
    BY <1>2 DEF WordsRun
  <2> QED
    BY <2>1, <2>2, <2>3, <2>4
<1>5. Latched
  BY <1>2 DEF Latched
<1>6. RotationsRun /\ NibblesRun /\ BitsRun
  BY <1>2 DEF RotationsRun, NibblesRun, BitsRun
<1>7. RingRun
  BY <1>3 DEF RingRun
<1>8. \A one, two : ~Ended(<<one, two>>)
  BY NotEnded
<1>9. \A one, two, three : ~Ended(<<one, two, three>>)
  BY NotEnded
<1>10. TakenBack /\ InPlace /\ DecimalExact
  BY <1>8, <1>9 DEF TakenBack, InPlace, DecimalExact
<1>11. ASSUME NEW op, NEW addr PROVE ShowsLater(op, addr)
  <2> SUFFICES ASSUME NEW between \in {<<>>, <<"SET">>, <<"ADD">>}
               PROVE  ~Ended(<<op>> \o between \o <<"BITHL">>)
    BY DEF ShowsLater
  <2> DEFINE prog == <<op>> \o between \o <<"BITHL">>
  <2>1. \/ prog = <<op, "BITHL">>
        \/ prog = <<op, "SET", "BITHL">>
        \/ prog = <<op, "ADD", "BITHL">>
    BY Joined
  <2> HIDE DEF prog
  <2>2. ~Ended(prog)
    BY <1>8, <1>9, <2>1
  <2> QED
    BY <2>2 DEF prog
<1>12. LatchesShow
  BY <1>8, <1>9, <1>11 DEF LatchesShow
<1> QED
  BY <1>1, <1>4, <1>5, <1>6, <1>7, <1>10, <1>12 DEF IInv, Stages, Results

LEMMA NextInv == IInv /\ Next => IInv'
<1> SUFFICES ASSUME IInv, Next PROVE IInv'
  OBVIOUS
<1> USE DEF IInv, Stages, Results
<1>1. Control'
  BY NextControl
<1>2. SumsRun' /\ CompareRun' /\ StepsRun' /\ WordsRun'
  BY NextSums, NextCompare, NextSteps, NextWords
<1>3. Latched' /\ RotationsRun' /\ NibblesRun' /\ BitsRun' /\ RingRun'
  BY NextLatched, NextRotations, NextNibbles, NextBits, NextRing
<1>4. TakenBack' /\ LatchesShow' /\ InPlace' /\ DecimalExact'
  BY NextTakenBack, NextLatchesShow, NextInPlace, NextDecimal
<1> QED
  BY <1>1, <1>2, <1>3, <1>4

LEMMA StutterInv == IInv /\ UNCHANGED vars => IInv'
<1> SUFFICES ASSUME IInv, UNCHANGED vars PROVE IInv'
  OBVIOUS
<1>0. /\ a' = a /\ f' = f /\ m' = m /\ hl' = hl /\ de' = de /\ q' = q /\ wz' = wz
      /\ todo' = todo /\ in' = in
  BY DEF vars
<1> USE DEF IInv, Stages, Results
<1> USE DEF First, Second, Ran, Ended, Cin, SameC, Same
<1>1. Control'
  BY NextControl
<1>2. SumsRun' /\ CompareRun'
  BY <1>0 DEF SumsRun, CompareRun, Holds
<1>3. StepsRun' /\ WordsRun'
  BY <1>0 DEF StepsRun, WordsRun
<1>4. Latched'
  BY <1>0 DEF Latched, Worked
<1>5. RotationsRun' /\ NibblesRun' /\ BitsRun'
  <2>1. RotationsRun'
    BY <1>0 DEF RotationsRun
  <2>2. NibblesRun'
    BY <1>0 DEF NibblesRun
  <2>3. BitsRun'
    BY <1>0 DEF BitsRun
  <2> QED
    BY <2>1, <2>2, <2>3
<1>6. RingRun'
  <2>1. ASSUME NEW i PROVE RingAt(i)' <=> RingAt(i)
    BY <1>0 DEF RingAt, Ring, Loaded
  <2>2. ASSUME NEW i PROVE Ran(i)' <=> Ran(i)
    BY <1>0
  <2> HIDE DEF Ran
  <2> QED
    BY <1>0, <2>1, <2>2 DEF RingRun
<1>7. TakenBack' /\ InPlace'
  <2>1. TakenBack'
    BY <1>0 DEF TakenBack
  <2>2. InPlace'
    BY <1>0 DEF InPlace
  <2> QED
    BY <2>1, <2>2
<1>8. DecimalExact'
  <2>1. ASSUME NEW n PROVE DecimalSum(n)' <=> DecimalSum(n)
    BY <1>0 DEF DecimalSum
  <2>2. ASSUME NEW prog PROVE Ended(prog)' <=> Ended(prog)
    BY <1>0
  <2> HIDE DEF Ended
  <2> QED
    BY <1>0, <2>1, <2>2 DEF DecimalExact
<1>9. LatchesShow'
  BY <1>0 DEF LatchesShow, ShowsLater
<1> QED
  BY <1>1, <1>2, <1>3, <1>4, <1>5, <1>6, <1>7, <1>8, <1>9

(* Behind every instruction the registers, the flags and the two latches    *)
(* are what the instructions run so far compute from the initial values.    *)
THEOREM StagesHold == Spec => []IInv
<1>1. Init => IInv
  BY InitInv
<1>2. IInv /\ [Next]_vars => IInv'
  BY NextInv, StutterInv
<1> QED
  BY <1>1, <1>2, PTL DEF Spec

(* For all operands and flags, the result of an 8-bit addition or           *)
(* subtraction is the exact integer, cut to a byte, and C, H and PV tell    *)
(* where it was cut.                                                        *)
THEOREM ArithmeticIsExact == Spec => []ArithmeticExact
<1>1. IInv => ArithmeticExact
  BY SumsAreExact DEF IInv, Stages
<1> QED
  BY <1>1, StagesHold, PTL

(* For any two bytes the flags of CP order them, unsigned and signed.       *)
THEOREM ComparisonOrders == Spec => []CompareOrders
<1>1. IInv => CompareOrders
  BY ComparesInOrder DEF IInv, Stages
<1> QED
  BY <1>1, StagesHold, PTL

(* INC and DEC of any byte are additions and subtractions of one that leave *)
(* C alone, and take each other back.                                       *)
THEOREM IncDecAreSteps == Spec => []IncDecStep
<1>1. IInv => IncDecStep
  BY StepsAreSums DEF IInv, Stages, Results
<1> QED
  BY <1>1, StagesHold, PTL

(* For any two words the 16-bit operations are two 8-bit ones, the carry of *)
(* the first in the second.                                                 *)
THEOREM WordsAreTwoBytes == Spec => []WordsChain
<1>1. IInv => WordsChain
  BY WordsAreChained DEF IInv, Stages
<1> QED
  BY <1>1, StagesHold, PTL

(* After any two packed decimals have been added or subtracted, DAA makes   *)
(* the packed decimal sum or difference and its carry.                      *)
THEOREM DecimalsAreExact == Spec => []DecimalExact
<1>1. IInv => DecimalExact
  BY DEF IInv, Results
<1> QED
  BY <1>1, StagesHold, PTL

(* Rotations are undone by their opposites and by a whole turn, and SET and *)
(* RES change one bit of any byte.                                          *)
THEOREM BitsStayInPlace == Spec => []BitsInPlace
<1>1. IInv => BitsInPlace
  BY AllInPlace DEF IInv, Stages, Results
<1> QED
  BY <1>1, StagesHold, PTL

(* X and Y after SCF, CCF and BIT n,(HL) show Q and WZ, as the instruction  *)
(* before, or the one before that, left them.                               *)
THEOREM LatchesAreShown == Spec => []LatchesShow
<1>1. IInv => LatchesShow
  BY DEF IInv, Results
<1> QED
  BY <1>1, StagesHold, PTL
=============================================================================
