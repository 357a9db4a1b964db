--------------------------- MODULE Z80BlockProofs ---------------------------
(***************************************************************************)
(* The block instructions, one unit per Step and interrupted between any   *)
(* two, do what module BlockOp does in one step: for every size of memory, *)
(* instruction, operands, counter and device.                              *)
(***************************************************************************)
EXTENDS Z80Block, SequenceTheorems, TLAPS

----------------------------------------------------------------------------
(* Remainders, for a modulus that is not known.                             *)

LEMMA ModRange == ASSUME NEW W \in Nat \ {0}, NEW x \in Int
                  PROVE  x % W \in 0 .. W - 1
  BY SMT

LEMMA ModUnique == ASSUME NEW W \in Nat \ {0}, NEW q \in Int, NEW r \in 0 .. W - 1
                   PROVE  (W * q + r) % W = r
  BY SMT

LEMMA ModSmall == ASSUME NEW W \in Nat \ {0}, NEW x \in 0 .. W - 1
                  PROVE  x % W = x
  BY SMT

LEMMA ModParts == ASSUME NEW W \in Nat \ {0}, NEW x \in Int
                  PROVE  x = W * (x \div W) + (x % W) /\ x \div W \in Int
  BY SMT

LEMMA ModShift == ASSUME NEW W \in Nat \ {0}, NEW x \in Int, NEW q \in Int
                  PROVE  (x + W * q) % W = x % W
<1> DEFINE r == x % W
           p == x \div W
<1>1. r \in 0 .. W - 1 /\ p \in Int /\ x = W * p + r
  BY ModRange, ModParts
<1> HIDE DEF r, p
<1>2. x + W * q = W * (p + q) + r
  BY <1>1
<1>3. p + q \in Int
  BY <1>1
<1>4. (W * (p + q) + r) % W = r
  BY <1>1, <1>3, ModUnique
<1> QED
  BY <1>2, <1>4 DEF r

LEMMA ModAdd == ASSUME NEW W \in Nat \ {0}, NEW x \in Int, NEW y \in Int
                PROVE  ((x % W) + y) % W = (x + y) % W
<1> DEFINE r == x % W
           p == x \div W
           z == r + y
<1>1. r \in 0 .. W - 1 /\ p \in Int /\ x = W * p + r
  BY ModRange, ModParts
<1> HIDE DEF r, p
<1>2. z \in Int /\ x + y = z + W * p
  BY <1>1
<1> HIDE DEF z
<1>3. (z + W * p) % W = z % W
  BY <1>1, <1>2, ModShift
<1> QED
  BY <1>2, <1>3 DEF z, r

LEMMA ModSub == ASSUME NEW W \in Nat \ {0}, NEW x \in Int, NEW y \in Int
                PROVE  (y - (x % W)) % W = (y - x) % W
<1> DEFINE r == x % W
           p == x \div W
           z == y - r
<1>1. r \in 0 .. W - 1 /\ p \in Int /\ x = W * p + r
  BY ModRange, ModParts
<1> HIDE DEF r, p
<1>2. z \in Int /\ y - x = z + W * (-p) /\ -p \in Int
  BY <1>1
<1> HIDE DEF z
<1>3. (z + W * (-p)) % W = z % W
  BY <1>2, ModShift
<1> QED
  BY <1>2, <1>3 DEF z, r

(* A counter of full range for zero: it comes to zero at its last unit, and *)
(* at no unit before.                                                       *)
LEMMA CountsDown ==
  ASSUME NEW W \in Nat \ {0}, NEW n \in 0 .. W - 1,
         NEW k \in 1 .. (IF n = 0 THEN W ELSE n)
  PROVE  (n - k) % W = 0 <=> k = IF n = 0 THEN W ELSE n
<1>1. CASE n # 0
  <2>1. n - k \in 0 .. W - 1
    BY <1>1
  <2> DEFINE d == n - k
  <2>2. d % W = d
    <3> HIDE DEF d
    <3> QED BY <2>1, ModSmall DEF d
  <2> QED
    BY <1>1, <2>1, <2>2
<1>2. CASE n = 0 /\ k < W
  <2>1. W - k \in 0 .. W - 1 /\ n - k = W * (-1) + (W - k)
    BY <1>2
  <2> DEFINE d == W - k
  <2>2. (W * (-1) + d) % W = d
    <3>1. d \in 0 .. W - 1 /\ -1 \in Int BY <2>1
    <3> HIDE DEF d
    <3> QED BY <3>1, ModUnique
  <2> QED
    BY <1>2, <2>1, <2>2
<1>3. CASE n = 0 /\ k = W
  <2>1. n - k = W * (-1) + 0 /\ 0 \in 0 .. W - 1 /\ -1 \in Int
    BY <1>3
  <2>2. (W * (-1) + 0) % W = 0
    BY <2>1, ModUnique
  <2> QED
    BY <1>3, <2>1, <2>2
<1> QED
  BY <1>1, <1>2, <1>3

(* The cell y that unit k stores to, and the unit that stores to a cell x:  *)
(* upwards and downwards.                                                   *)
SameCell(W, k, x, y, z) == z % W = k % W <=> x = y % W

LEMMA UnitUp ==
  ASSUME NEW W \in Nat \ {0}, NEW k \in Int, NEW x \in 0 .. W - 1, NEW y \in Int,
         NEW z, z = x + k - y
  PROVE  SameCell(W, k, x, y, z)
<1> DEFINE p == z \div W
           q == k \div W
           r == k % W
           n == y \div W
           t == y % W
<1>1. z \in Int /\ x \in Int
  OBVIOUS
<1>2. y = W * n + t /\ n \in Int /\ t \in 0 .. W - 1
  BY ModParts, ModRange
<1>3. k = W * q + r /\ q \in Int /\ r \in 0 .. W - 1
  BY ModParts, ModRange
<1>4. ASSUME x = t
      PROVE  z % W = r
  <2>1. z = k + W * (-n) /\ -n \in Int
    <3> HIDE DEF n, t
    <3> QED BY <1>2, <1>4
  <2> HIDE DEF n
  <2>2. (k + W * (-n)) % W = k % W
    BY <2>1, ModShift
  <2> QED BY <2>1, <2>2 DEF r
<1>5. ASSUME z % W = r
      PROVE  x = t
  <2>1. z = W * p + r /\ p \in Int
    BY <1>1, <1>5, ModParts
  <2> DEFINE e == q - p
  <2>2. y = x + W * e /\ e \in Int
    <3> HIDE DEF p, q, r
    <3> QED BY <1>3, <2>1
  <2> HIDE DEF e
  <2>3. (x + W * e) % W = x % W
    BY <1>1, <2>2, ModShift
  <2>4. x % W = x
    BY ModSmall
  <2> QED
    BY <2>2, <2>3, <2>4
<1> QED
  BY <1>4, <1>5 DEF SameCell

LEMMA UnitDown ==
  ASSUME NEW W \in Nat \ {0}, NEW k \in Int, NEW x \in 0 .. W - 1, NEW y \in Int,
         NEW z, z = y + k - x
  PROVE  SameCell(W, k, x, y, z)
<1> DEFINE p == z \div W
           q == k \div W
           r == k % W
           n == y \div W
           t == y % W
<1>1. z \in Int /\ x \in Int
  OBVIOUS
<1>2. y = W * n + t /\ n \in Int /\ t \in 0 .. W - 1
  BY ModParts, ModRange
<1>3. k = W * q + r /\ q \in Int /\ r \in 0 .. W - 1
  BY ModParts, ModRange
<1>4. ASSUME x = t
      PROVE  z % W = r
  <2>1. z = k + W * n
    <3> HIDE DEF n, t
    <3> QED BY <1>2, <1>4
  <2> HIDE DEF n
  <2>2. (k + W * n) % W = k % W
    BY <1>2, ModShift
  <2> QED BY <2>1, <2>2 DEF r
<1>5. ASSUME z % W = r
      PROVE  x = t
  <2>1. z = W * p + r /\ p \in Int
    BY <1>1, <1>5, ModParts
  <2> DEFINE e == p - q
  <2>2. y = x + W * e /\ e \in Int
    <3> HIDE DEF p, q, r
    <3> QED BY <1>3, <2>1
  <2> HIDE DEF e
  <2>3. (x + W * e) % W = x % W
    BY <1>1, <2>2, ModShift
  <2>4. x % W = x
    BY ModSmall
  <2> QED
    BY <2>2, <2>3, <2>4
<1> QED
  BY <1>4, <1>5 DEF SameCell

----------------------------------------------------------------------------
(* Flags.                                                                   *)

LEMMA SZXY ==
  ASSUME NEW v \in Byte
  PROVE  /\ szxy[v] \in SUBSET Flags
         /\ "S" \in szxy[v] <=> v > 127
         /\ "Z" \in szxy[v] <=> v = 0
         /\ szxy[v] \cap {"H", "PV", "N", "C"} = {}
<1>1. szxy[v] = If(Bit(v, 7), {"S"}) \cup If(v = 0, {"Z"}) \cup XYOf(v)
  BY DEF szxy
<1>2. Bit(v, 7) <=> v > 127
  BY DEF Bit, Byte
<1>3. XYOf(v) \subseteq {"X", "Y"}
  BY DEF XYOf, If
<1> HIDE DEF XYOf
<1> QED
  BY <1>1, <1>2, <1>3 DEF If, Flags

LEMMA Difference == ASSUME NEW x \in Byte, NEW v \in Byte
                    PROVE  (x - v) % 256 \in Byte /\ ((x - v) % 256 = 0 <=> v = x)
<1>1. (x - v) % 256 = IF x >= v THEN x - v ELSE x - v + 256
  BY DEF Byte
<1> QED
  BY <1>1 DEF Byte

(* H of a subtraction, which the code takes from bit 4 of an XOR.           *)
LEMMA HalfBorrow ==
  ASSUME NEW x \in Byte, NEW v \in Byte
  PROVE  Xor3(x, v, (x - v) % 256, 4) <=> x % 16 < v % 16
<1> DEFINE xh == x \div 16    xl == x % 16
           vh == v \div 16    vl == v % 16
           r  == (x - v) % 256
<1>1. /\ xh \in 0 .. 15 /\ xl \in 0 .. 15 /\ x = 16 * xh + xl
      /\ vh \in 0 .. 15 /\ vl \in 0 .. 15 /\ v = 16 * vh + vl
  BY DEF Byte
<1>2. r = IF x >= v THEN x - v ELSE x - v + 256
  BY DEF Byte
<1>3. 2 ^ 4 = 16
  OBVIOUS
<1> HIDE DEF xh, xl, vh, vl
<1>4. r \div 16 = IF xl >= vl THEN (IF xh >= vh THEN xh - vh ELSE xh - vh + 16)
                  ELSE (IF xh > vh THEN xh - vh - 1 ELSE xh - vh + 15)
  BY <1>1, <1>2
<1> HIDE DEF r
<1>5. (r \div 16) % 2 = (xh + vh + (IF xl < vl THEN 1 ELSE 0)) % 2
  BY <1>1, <1>4
<1>6. Xor3(x, v, r, 4) <=> ((xh % 2 = 1) # (vh % 2 = 1)) # ((r \div 16) % 2 = 1)
  BY <1>3 DEF Xor3, Bit, xh, vh
<1>7. Xor3(x, v, r, 4) <=> xl < vl
  BY <1>1, <1>5, <1>6
<1> QED
  BY <1>7 DEF r, xl, vl

LEMMA RepeatKeeps ==
  ASSUME NEW flags \in SUBSET Flags, NEW back \in Word
  PROVE  /\ RepeatXY(flags, back) \in SUBSET Flags
         /\ \A flag \in {"S", "Z", "H", "PV", "N", "C"} :
              flag \in RepeatXY(flags, back) <=> flag \in flags
<1>1. XYOf(HighByte[back]) \subseteq {"X", "Y"}
  BY DEF XYOf, If
<1> QED
  BY <1>1 DEF RepeatXY, Flags

LEMMA RepeatIOKeeps ==
  ASSUME NEW flags \in SUBSET Flags, NEW count
  PROVE  /\ RepeatIO(flags, count) \in SUBSET Flags
         /\ "Z" \in RepeatIO(flags, count) <=> "Z" \in flags
<1> DEFINE half == If(count % 16 = (IF "N" \in flags THEN 0 ELSE 15), {"H"})
           base == IF "C" \in flags THEN (flags \ {"H"}) \cup half ELSE flags
<1>1. half \subseteq {"H"}
  BY DEF If
<1> HIDE DEF half
<1>2. base \in SUBSET Flags /\ ("Z" \in base <=> "Z" \in flags)
  BY <1>1 DEF Flags
<1>3. RepeatIO(flags, count) \in {base, Flip(base, "PV")}
  BY DEF RepeatIO, half
<1> HIDE DEF base
<1>4. Flip(base, "PV") \in SUBSET Flags /\ ("Z" \in Flip(base, "PV") <=> "Z" \in base)
  BY <1>2 DEF Flip, Flags
<1> QED
  BY <1>2, <1>3, <1>4

----------------------------------------------------------------------------
(* The instruction of a job.                                                *)

LEMMA JobFacts ==
  ASSUME job \in Jobs
  PROVE  /\ job.op \in Byte /\ job.pc \in Word /\ job.hl \in Word /\ job.de \in Word
         /\ job.bc \in Word /\ job.b \in Byte /\ job.c \in Byte /\ job.a \in Byte
         /\ job.f \in SUBSET Flags /\ job.mem \in [Word -> Byte]
         /\ job.mem[job.pc] = PrefixED /\ job.mem[Up(job.pc)] = job.op
  BY BlockAssumption DEF Job, Up

LEMMA Decoded ==
  ASSUME job \in Jobs
  PROVE  /\ Kind \in 0 .. 3
         /\ Atomic!Kind = "LD" <=> Kind = 0
         /\ Atomic!Kind = "CP" <=> Kind = 1
         /\ Atomic!Kind = "IN" <=> Kind = 2
         /\ Atomic!Kind = "OUT" <=> Kind = 3
         /\ Atomic!Sign = IF Bit(job.op, 3) THEN -1 ELSE 1
         /\ Atomic!Repeats <=> Bit(job.op, 4)
<1>1. job.op \in Byte
  BY JobFacts
<1>2. Kind \in 0 .. 3
  BY <1>1 DEF Kind, Byte
<1>3. Atomic!Kind = <<"LD", "CP", "IN", "OUT">>[Kind + 1]
  BY DEF Atomic!Kind, Kind
<1>4. 2 ^ 3 = 8 /\ 2 ^ 4 = 16
  OBVIOUS
<1>5. (Bit(job.op, 3) <=> (job.op \div 8) % 2 = 1) /\ (Bit(job.op, 4) <=> (job.op \div 16) % 2 = 1)
  BY <1>4 DEF Bit
<1> HIDE DEF Kind
<1> QED
  BY <1>2, <1>3, <1>5 DEF Atomic!Sign, Atomic!Repeats

LEMMA Moves ==
  ASSUME NEW w \in Word
  PROVE  /\ Up(w) \in Word /\ Down(w) \in Word
         /\ Up(Down(w)) = w /\ Down(Up(w)) = w
         /\ Next2(w) = (w + 2) % WordMod /\ Next2(w) \in Word /\ Next2(w) # w
         /\ Back2(Next2(w)) = w
<1>1. WordMod \in Nat \ {0} /\ WordMod > 2 /\ w \in Int /\ w \in 0 .. WordMod - 1
  BY BlockAssumption DEF Word
<1>2. Up(w) \in Word /\ Down(w) \in Word
  BY <1>1, ModRange DEF Up, Down, Word
<1>3. Up(Down(w)) = w
  <2>1. w - 1 \in Int /\ 1 \in Int /\ (w - 1) + 1 = w
    BY <1>1
  <2>2. (((w - 1) % WordMod) + 1) % WordMod = ((w - 1) + 1) % WordMod
    BY <1>1, <2>1, ModAdd
  <2> QED
    BY <1>1, <2>1, <2>2, ModSmall DEF Up, Down
<1>4. \A x \in Word : Down(Up(x)) = x
  BY <1>1, ModAdd, ModSmall DEF Up, Down, Word
<1>5. Next2(w) = (w + 2) % WordMod
  <2>1. w + 1 \in Int /\ 1 \in Int /\ (w + 1) + 1 = w + 2
    BY <1>1
  <2>2. (((w + 1) % WordMod) + 1) % WordMod = ((w + 1) + 1) % WordMod
    BY <1>1, <2>1, ModAdd
  <2> QED
    BY <2>1, <2>2 DEF Next2, Up
<1>6. Next2(w) \in Word /\ Next2(w) # w
  <2>1. CASE w + 2 < WordMod
    BY <1>1, <1>5, <2>1, ModSmall DEF Word
  <2>2. CASE w + 2 >= WordMod
    <3> DEFINE r == w + 2 - WordMod
    <3>1. r \in 0 .. WordMod - 1 /\ w + 2 = WordMod * 1 + r /\ r # w
      BY <1>1, <2>2
    <3> HIDE DEF r
    <3> QED
      BY <1>1, <1>5, <3>1, ModUnique DEF Word
  <2> QED
    BY <1>1, <2>1, <2>2
<1>7. Back2(Next2(w)) = w
  BY <1>2, <1>4 DEF Back2, Next2
<1> QED
  BY <1>2, <1>3, <1>4, <1>5, <1>6, <1>7

----------------------------------------------------------------------------
(* How far the instruction is after k units.                                *)

LEMMA Counters ==
  ASSUME job \in Jobs
  PROVE  /\ Atomic!Count \in Nat \ {0}
         /\ ~Bit(job.op, 4) => Atomic!Count = 1
         /\ Kind \in {0, 1} => Atomic!Count <= WordMod
         /\ \A k \in 1 .. Atomic!Count : Bit(job.op, 4) =>
              /\ Kind \in {0, 1} => ((job.bc - k) % WordMod = 0 <=> k = Atomic!Count)
              /\ Kind \in {2, 3} => ((job.b - k) % 256 = 0 <=> k = Atomic!Count)
<1>1. /\ WordMod \in Nat \ {0} /\ 256 \in Nat \ {0}
      /\ job.bc \in 0 .. WordMod - 1 /\ job.b \in 0 .. 255
  BY BlockAssumption, JobFacts DEF Word, Byte
<1>2. /\ Kind \in 0 .. 3
      /\ Atomic!Kind \in {"LD", "CP"} <=> Kind \in {0, 1}
      /\ Atomic!Repeats <=> Bit(job.op, 4)
  BY Decoded
<1>3. ~Bit(job.op, 4) => Atomic!Count = 1
  BY <1>2 DEF Atomic!Count
<1>4. Bit(job.op, 4) /\ Kind \in {0, 1} =>
        Atomic!Count = IF job.bc = 0 THEN WordMod ELSE job.bc
  BY <1>2 DEF Atomic!Count, Atomic!Full
<1>5. Bit(job.op, 4) /\ Kind \in {2, 3} => Atomic!Count = IF job.b = 0 THEN 256 ELSE job.b
  BY <1>2 DEF Atomic!Count, Atomic!Full
<1>6. Kind \in {0, 1} \/ Kind \in {2, 3}
  BY <1>2
<1> DEFINE n == Atomic!Count
<1> HIDE DEF n
<1>7. n \in Nat \ {0} /\ (Kind \in {0, 1} => n <= WordMod)
  BY <1>1, <1>3, <1>4, <1>5, <1>6 DEF n
<1>8. ASSUME NEW k \in 1 .. n, Bit(job.op, 4), Kind \in {0, 1}
      PROVE  (job.bc - k) % WordMod = 0 <=> k = n
  BY <1>1, <1>4, <1>8, CountsDown DEF n
<1>9. ASSUME NEW k \in 1 .. n, Bit(job.op, 4), Kind \in {2, 3}
      PROVE  (job.b - k) % 256 = 0 <=> k = n
  <2>1. /\ k \in 1 .. (IF job.b = 0 THEN 256 ELSE job.b)
        /\ n = IF job.b = 0 THEN 256 ELSE job.b
        /\ job.b \in 0 .. 256 - 1
    BY <1>1, <1>5, <1>9 DEF n
  <2> QED
    BY <1>1, <2>1, CountsDown
<1> QED
  BY <1>3, <1>7, <1>8, <1>9 DEF n

LEMMA Addresses ==
  ASSUME job \in Jobs, NEW k \in Nat
  PROVE  /\ Atomic!From(0) = job.hl /\ Atomic!To(0) = job.de
         /\ Atomic!From(k) \in Word /\ Atomic!To(k) \in Word
         /\ Atomic!From(k + 1) = IF Bit(job.op, 3) THEN Down(Atomic!From(k)) ELSE Up(Atomic!From(k))
         /\ Atomic!To(k + 1) = IF Bit(job.op, 3) THEN Down(Atomic!To(k)) ELSE Up(Atomic!To(k))
<1>1. /\ WordMod \in Nat \ {0} /\ job.hl \in Int /\ job.de \in Int
      /\ job.hl \in 0 .. WordMod - 1 /\ job.de \in 0 .. WordMod - 1
  BY BlockAssumption, JobFacts DEF Word
<1> DEFINE s == Atomic!Sign
<1>2. s = IF Bit(job.op, 3) THEN -1 ELSE 1
  BY Decoded
<1> HIDE DEF s
<1>3. ASSUME NEW base \in 0 .. WordMod - 1
      PROVE  /\ (base + s * 0) % WordMod = base
             /\ (base + s * k) % WordMod \in Word
             /\ (base + s * (k + 1)) % WordMod =
                  IF Bit(job.op, 3) THEN Down((base + s * k) % WordMod)
                  ELSE Up((base + s * k) % WordMod)
  <2> DEFINE y == base + s * k
  <2>1. y \in Int /\ base + s * 0 = base /\ 1 \in Int /\ -1 \in Int
    BY <1>1, <1>2
  <2>2. base + s * (k + 1) = y + (IF Bit(job.op, 3) THEN -1 ELSE 1)
    BY <1>1, <1>2
  <2> HIDE DEF y
  <2>3. y % WordMod \in Word /\ y % WordMod \in Int
    BY <1>1, <2>1, ModRange DEF Word
  <2>4. ((y % WordMod) + 1) % WordMod = (y + 1) % WordMod
    BY <1>1, <2>1, ModAdd
  <2>5. ((y % WordMod) + (-1)) % WordMod = (y + (-1)) % WordMod
    BY <1>1, <2>1, ModAdd
  <2>6. (y % WordMod) - 1 = (y % WordMod) + (-1)
    BY <2>3
  <2>7. (base + s * (k + 1)) % WordMod =
           IF Bit(job.op, 3) THEN Down(y % WordMod) ELSE Up(y % WordMod)
    BY <2>2, <2>4, <2>5, <2>6 DEF Up, Down
  <2> QED
    BY <1>1, <2>1, <2>3, <2>7, ModSmall DEF y
<1> QED
  BY <1>1, <1>3 DEF Atomic!From, Atomic!To, s

(* A counter that starts at n and wraps below 0.                            *)
WrapsDown(W, n, k) ==
  /\ (n - 0) % W = n /\ (n - k) % W \in 0 .. W - 1
  /\ (n - (k + 1)) % W = (((n - k) % W) - 1) % W

LEMMA CountDown ==
  ASSUME NEW W \in Nat \ {0}, NEW n \in 0 .. W - 1, NEW k \in Nat
  PROVE  WrapsDown(W, n, k)
<1> DEFINE y == n - k
<1>1. y \in Int /\ n - 0 = n /\ n - (k + 1) = y + (-1) /\ -1 \in Int
  OBVIOUS
<1> HIDE DEF y
<1>2. y % W \in 0 .. W - 1 /\ y % W \in Int
  BY <1>1, ModRange
<1>3. ((y % W) + (-1)) % W = (y + (-1)) % W
  BY <1>1, ModAdd
<1>4. (y % W) + (-1) = (y % W) - 1
  BY <1>2
<1> QED
  BY <1>1, <1>2, <1>3, <1>4, ModSmall DEF y, WrapsDown

LEMMA CountersStep ==
  ASSUME job \in Jobs, NEW k \in Nat
  PROVE  /\ (job.bc - 0) % WordMod = job.bc /\ (job.b - 0) % 256 = job.b
         /\ (job.bc - k) % WordMod \in Word /\ (job.b - k) % 256 \in Byte
         /\ (job.bc - (k + 1)) % WordMod = Down((job.bc - k) % WordMod)
         /\ (job.b - (k + 1)) % 256 = (((job.b - k) % 256) - 1) % 256
<1>1. /\ WordMod \in Nat \ {0}
      /\ job.bc \in 0 .. WordMod - 1 /\ job.b \in 0 .. 255
  BY BlockAssumption, JobFacts DEF Word, Byte
<1>2. WrapsDown(WordMod, job.bc, k) /\ WrapsDown(256, job.b, k)
  <2>1. 256 \in Nat \ {0} /\ job.b \in 0 .. 256 - 1
    BY <1>1
  <2> QED
    BY <1>1, <2>1, CountDown
<1> QED
  BY <1>2 DEF WrapsDown, Down, Word, Byte

----------------------------------------------------------------------------
(* What memory holds after k units.                                         *)

LEMMA Units ==
  ASSUME job \in Jobs, NEW x \in Word, NEW k \in Nat
  PROVE  /\ Atomic!Unit(x) \in 0 .. WordMod - 1
         /\ Kind = 0 => (Atomic!Unit(x) = k % WordMod <=> x = Atomic!To(k))
         /\ Kind # 0 => (Atomic!Unit(x) = k % WordMod <=> x = Atomic!From(k))
<1>1. /\ WordMod \in Nat \ {0} /\ x \in 0 .. WordMod - 1
      /\ job.hl \in 0 .. WordMod - 1 /\ job.de \in 0 .. WordMod - 1
  BY BlockAssumption, JobFacts DEF Word
<1>2. Atomic!Sign \in {1, -1} /\ (Atomic!Kind = "LD" <=> Kind = 0)
  BY Decoded
<1> DEFINE s == Atomic!Sign
           base == IF Kind = 0 THEN job.de ELSE job.hl
<1>3. Atomic!Unit(x) = (s * (x - base)) % WordMod
  BY <1>2 DEF Atomic!Unit
<1>4. s \in {1, -1} /\ base \in 0 .. WordMod - 1
  BY <1>1, <1>2
<1>5. (base + s * k) % WordMod = IF Kind = 0 THEN Atomic!To(k) ELSE Atomic!From(k)
  BY DEF Atomic!To, Atomic!From
<1> HIDE DEF s, base
<1>6. (s * (x - base)) % WordMod = k % WordMod <=> x = (base + s * k) % WordMod
  <2> DEFINE z == s * (x - base)
             t == base + s * k
  <2>1. z \in Int /\ t \in Int /\ k \in Int
    BY <1>1, <1>4
  <2>2. z = x + k - t \/ z = t + k - x
    BY <1>1, <1>4
  <2> HIDE DEF z, t
  <2>3. SameCell(WordMod, k, x, t, z)
    <3>1. CASE z = x + k - t
      BY <1>1, <2>1, <3>1, UnitUp
    <3>2. CASE z = t + k - x
      BY <1>1, <2>1, <3>2, UnitDown
    <3> QED
      BY <2>2, <3>1, <3>2
  <2> QED
    BY <2>3 DEF SameCell, z, t
<1> DEFINE y == s * (x - base)
<1>7. y \in Int
  BY <1>1, <1>4
<1> HIDE DEF y
<1>8. y % WordMod \in 0 .. WordMod - 1
  BY <1>1, <1>7, ModRange
<1> QED
  BY <1>3, <1>5, <1>6, <1>8 DEF y

(* LDIR: the byte that unit k reads is not yet overwritten, or is one that  *)
(* the copy has put there.                                                  *)
LEMMA CopyReads ==
  ASSUME job \in Jobs, Kind = 0, NEW k \in 0 .. WordMod - 1
  PROVE  Atomic!CellAfter(k, Atomic!From(k)) = Atomic!Copied(k)
<1>1. /\ WordMod \in Nat \ {0} /\ job.hl \in 0 .. WordMod - 1 /\ job.de \in 0 .. WordMod - 1
  BY BlockAssumption, JobFacts DEF Word
<1>2. Atomic!Sign \in {1, -1} /\ Atomic!Kind = "LD"
  BY Decoded
<1> DEFINE s == Atomic!Sign
           x == Atomic!From(k)
           y == s * (job.de - job.hl)
           ahead == y % WordMod
<1>3. y \in Int /\ x \in Word
  BY <1>1, <1>2, Addresses
<1>4. ahead \in 0 .. WordMod - 1
  BY <1>1, <1>3, ModRange
<1>5. Atomic!Unit(x) = (k - ahead) % WordMod
  <2> DEFINE t == job.hl + s * k
             p == t \div WordMod
             z == s * (x - job.de)
  <2>1. t \in Int
    BY <1>1, <1>2
  <2>2. t = WordMod * p + x /\ p \in Int /\ x \in Int
    <3>1. x = t % WordMod
      BY DEF Atomic!From
    <3> HIDE DEF t
    <3>2. t = WordMod * (t \div WordMod) + (t % WordMod) /\ t \div WordMod \in Int
      BY <1>1, <2>1, ModParts
    <3>3. t % WordMod \in 0 .. WordMod - 1
      BY <1>1, <2>1, ModRange
    <3> QED BY <1>1, <3>1, <3>2, <3>3 DEF t
  <2>3. Atomic!Unit(x) = z % WordMod
    BY <1>2 DEF Atomic!Unit
  <2> DEFINE wp == WordMod * p
  <2> HIDE DEF x, p
  <2>4. \E e \in Int : z = (k - y) + WordMod * e
    <3>1. CASE s = 1
      <4>1. z = (k - y) + WordMod * (-p) /\ -p \in Int
        BY <1>1, <2>2, <3>1
      <4> QED BY <4>1
    <3>2. CASE s = -1
      <4>1. wp \in Int /\ t = wp + x /\ x \in Int /\ k \in Int
        BY <1>1, <2>2
      <4> HIDE DEF wp
      <4>2. z = job.de - x /\ y = job.hl - job.de /\ t = job.hl - k
        BY <1>1, <2>2, <3>2
      <4> HIDE DEF z, y, t
      <4>3. z = (k - y) + wp
        BY <1>1, <4>1, <4>2
      <4> QED BY <2>2, <4>3 DEF wp
    <3> QED BY <1>2, <3>1, <3>2
  <2> DEFINE d == k - y
  <2>5. d \in Int
    BY <1>3
  <2>6. z % WordMod = d % WordMod
    <3> HIDE DEF z, y
    <3>1. PICK e \in Int : z = d + WordMod * e
      BY <2>4
    <3> HIDE DEF d
    <3> QED BY <1>1, <2>5, <3>1, ModShift
  <2>7. (k - (y % WordMod)) % WordMod = (k - y) % WordMod
    <3>1. k \in Int
      BY <1>1
    <3> HIDE DEF y
    <3> QED BY <1>1, <1>3, <3>1, ModSub
  <2> QED
    BY <2>3, <2>6, <2>7
<1>6. Atomic!CellAfter(k, x) = IF Atomic!Unit(x) >= k THEN job.mem[x]
                               ELSE Atomic!Copied(Atomic!Unit(x))
  BY <1>2 DEF Atomic!CellAfter
<1>7. \A j : Atomic!Copied(j) = job.mem[Atomic!From(IF ahead = 0 THEN j ELSE j % ahead)]
  BY DEF Atomic!Copied
<1> HIDE DEF ahead, x
<1>8. CASE ahead <= k /\ ahead # 0
  <2> DEFINE d == k - ahead
  <2>1. d \in 0 .. WordMod - 1 /\ d < k /\ ahead \in Nat \ {0} /\ d \in Int
    BY <1>1, <1>4, <1>8
  <2>2. d % WordMod = d
    <3> HIDE DEF d
    <3> QED BY <1>1, <2>1, ModSmall
  <2>3. d % ahead = k % ahead
    <3>1. k = d + ahead * 1 /\ 1 \in Int
      BY <1>1, <1>4
    <3> HIDE DEF d
    <3>2. (d + ahead * 1) % ahead = d % ahead
      BY <2>1, <3>1, ModShift
    <3> QED BY <3>1, <3>2
  <2>4. Atomic!Unit(x) = d
    BY <1>5, <2>2
  <2> HIDE DEF d
  <2> QED
    BY <1>6, <1>7, <1>8, <2>1, <2>3, <2>4 DEF x
<1>9. CASE ahead = 0
  <2>1. k - ahead = k /\ k % WordMod = k
    BY <1>1, <1>9, ModSmall
  <2>2. Atomic!Unit(x) = k
    BY <1>5, <2>1
  <2> QED
    BY <1>6, <1>7, <1>9, <2>2 DEF x
<1>10. CASE ahead > k
  <2> DEFINE d == k - ahead + WordMod
  <2>1. d \in 0 .. WordMod - 1 /\ d >= k /\ k - ahead = WordMod * (-1) + d /\ -1 \in Int
    BY <1>1, <1>4, <1>10
  <2>2. (WordMod * (-1) + d) % WordMod = d
    <3> HIDE DEF d
    <3> QED BY <1>1, <2>1, ModUnique
  <2>3. Atomic!Unit(x) = d
    BY <1>5, <2>1, <2>2
  <2>4. k % ahead = k
    <3>1. ahead \in Nat \ {0} /\ k \in 0 .. ahead - 1
      BY <1>4, <1>10
    <3> QED BY <3>1, ModSmall
  <2> HIDE DEF d
  <2> QED
    BY <1>4, <1>6, <1>7, <1>10, <2>1, <2>3, <2>4 DEF x
<1> QED
  BY <1>4, <1>8, <1>9, <1>10 DEF x

LEMMA CopyStores ==
  ASSUME job \in Jobs, Kind = 0, NEW k \in 0 .. WordMod - 1, NEW x \in Word
  PROVE  Atomic!CellAfter(k + 1, x) =
           IF x = Atomic!To(k) THEN Atomic!Copied(k) ELSE Atomic!CellAfter(k, x)
<1>1. WordMod \in Nat \ {0} /\ k \in Nat /\ k % WordMod = k
  BY BlockAssumption, ModSmall
<1>2. Atomic!Kind = "LD"
  BY Decoded
<1>3. Atomic!Unit(x) \in 0 .. WordMod - 1 /\ (Atomic!Unit(x) = k <=> x = Atomic!To(k))
  BY <1>1, Units
<1> QED
  BY <1>1, <1>2, <1>3 DEF Atomic!CellAfter

LEMMA InputStores ==
  ASSUME job \in Jobs, Kind = 2, NEW k \in Nat, NEW x \in Word
  PROVE  Atomic!CellAfter(k + 1, x) =
           IF x = Atomic!From(k) THEN Device[Atomic!Port(k)] ELSE Atomic!CellAfter(k, x)
<1>1. WordMod \in Nat \ {0}
  BY BlockAssumption
<1>2. Atomic!Kind = "IN"
  BY Decoded
<1> DEFINE u == Atomic!Unit(x)
<1>3. u \in 0 .. WordMod - 1 /\ (u = k % WordMod <=> x = Atomic!From(k))
  BY Units
<1> DEFINE q == k \div WordMod
           r == k % WordMod
<1>4. k = WordMod * q + r /\ q \in Int /\ r \in 0 .. WordMod - 1
  BY <1>1, ModParts, ModRange
<1>5. \A j : Atomic!CellAfter(j, x) =
               IF u >= j THEN job.mem[x]
               ELSE Device[Atomic!Port(u + WordMod * ((j - 1 - u) \div WordMod))]
  BY <1>2 DEF Atomic!CellAfter, Atomic!InputAt
<1> HIDE DEF u, q, r
<1>6. \A a1 \in Int : \A b1 \in 0 .. WordMod - 1 : (WordMod * a1 + b1) \div WordMod = a1
  BY <1>1, SMT
<1>7. q >= 0 /\ (u < k + 1 <=> u < k \/ u = k)
  <2>1. q >= 0
    BY <1>1, <1>4, SMT
  <2> QED BY <1>3, <2>1
<1>8. CASE u = r
  <2>1. k + 1 - 1 - u = WordMod * q + 0 /\ 0 \in 0 .. WordMod - 1
    BY <1>1, <1>3, <1>4, <1>8
  <2>2. (k + 1 - 1 - u) \div WordMod = q
    BY <1>4, <1>6, <2>1
  <2>3. u + WordMod * q = k /\ u <= k
    BY <1>1, <1>3, <1>4, <1>7, <1>8, SMT
  <2> QED
    BY <1>3, <1>5, <1>8, <2>2, <2>3 DEF r
<1>9. CASE u # r /\ u < k
  <2>1. CASE u < r
    <3>1. /\ k + 1 - 1 - u = WordMod * q + (r - u) /\ r - u \in 0 .. WordMod - 1
          /\ k - 1 - u = WordMod * q + (r - u - 1) /\ r - u - 1 \in 0 .. WordMod - 1
      BY <1>1, <1>3, <1>4, <2>1
    <3>2. (k + 1 - 1 - u) \div WordMod = q /\ (k - 1 - u) \div WordMod = q
      BY <1>4, <1>6, <3>1
    <3> QED
      BY <1>3, <1>5, <1>9, <3>2 DEF r
  <2>2. CASE u > r
    <3> DEFINE p == q - 1
               e == r - u + WordMod
    <3>1. /\ k + 1 - 1 - u = WordMod * p + e /\ e \in 0 .. WordMod - 1
          /\ k - 1 - u = WordMod * p + (e - 1) /\ e - 1 \in 0 .. WordMod - 1
          /\ p \in Int
      BY <1>1, <1>3, <1>4, <2>2
    <3> HIDE DEF p, e
    <3>2. (k + 1 - 1 - u) \div WordMod = p /\ (k - 1 - u) \div WordMod = p
      BY <1>6, <3>1
    <3> QED
      BY <1>3, <1>5, <1>9, <3>2 DEF r
  <2> QED
    BY <1>3, <1>4, <1>9, <2>1, <2>2
<1>10. CASE u # r /\ u >= k
  <2>1. u # k
    <3>1. CASE u = k
      <4>1. k % WordMod = k
        BY <1>1, <1>3, <3>1, ModSmall
      <4> QED BY <1>10, <3>1, <4>1 DEF r
    <3> QED BY <3>1
  <2> QED
    BY <1>3, <1>5, <1>10, <2>1 DEF r
<1> QED
  BY <1>3, <1>8, <1>9, <1>10

----------------------------------------------------------------------------
(* The inductive invariant: after k units the registers, the memory and the *)
(* ports are those of a loop of k units, no unit but the last one rewrote   *)
(* the instruction or found its byte, and the address in PC, or the one the *)
(* handler returns to, tells whether unit k was the last.                   *)

Found(k) == Atomic!Found(k)
Rewrote(k) == Atomic!Rewritten(k)
Read(k)  == job.mem[Atomic!From(k - 1)]
Last(k)  == k # 0 /\ (k = Atomic!Count \/ (Kind = 1 /\ Found(k)))

Operands(k) ==
  /\ hl = Atomic!From(k)
  /\ de = IF Kind = 0 THEN Atomic!To(k) ELSE job.de
  /\ bc = IF Kind \in {0, 1} THEN (job.bc - k) % WordMod ELSE job.bc
  /\ b = IF Kind \in {2, 3} THEN (job.b - k) % 256 ELSE job.b

Stored(k) == mem = [x \in Word |-> Atomic!CellAfter(k, x)]

Sent(k) ==
  /\ Kind = 3 => /\ Len(out) = k
                 /\ \A i \in 1 .. k : out[i] = <<Atomic!Port(i), Read(i)>>
  /\ Kind # 3 => out = <<>>

SearchFlags(k) ==
  /\ "Z" \in f <=> Found(k)
  /\ "S" \in f <=> (job.a - Read(k)) % 256 > 127
  /\ "H" \in f <=> job.a % 16 < Read(k) % 16
  /\ "N" \in f
  /\ "C" \in f <=> "C" \in job.f

FlagsSay(k) ==
  /\ Kind \in {0, 1} => ("PV" \in f <=> bc # 0)
  /\ Kind \in {2, 3} => ("Z" \in f <=> b = 0)
  /\ Kind = 0 => /\ f \cap {"H", "N"} = {}
                 /\ \A flag \in {"S", "Z", "C"} : flag \in f <=> flag \in job.f
  /\ Kind = 1 => SearchFlags(k)

Before(k) == \A j \in 1 .. k - 1 : ~Rewrote(j) /\ (Kind = 1 => ~Found(j))

Stage(k) ==
  /\ begun <=> k # 0
  /\ k <= Atomic!Count
  /\ Operands(k) /\ Stored(k) /\ Sent(k) /\ Before(k)
  /\ IF k = 0 THEN f = job.f ELSE FlagsSay(k)
  /\ Here = IF Last(k) THEN Next2(job.pc) ELSE job.pc

IInv == job \in Jobs /\ TypeOK /\ \E k \in Nat : Stage(k)

(* The job of a behaviour never changes, nor does what is computed from it. *)
LEMMA Rigid ==
  ASSUME job' = job
  PROVE  /\ Kind' = Kind /\ Atomic!Kind' = Atomic!Kind
         /\ Atomic!Count' = Atomic!Count
         /\ \A k : /\ Atomic!From(k)' = Atomic!From(k) /\ Atomic!To(k)' = Atomic!To(k)
                   /\ Atomic!Port(k)' = Atomic!Port(k)
                   /\ Found(k)' = Found(k) /\ Rewrote(k)' = Rewrote(k)
                   /\ Read(k)' = Read(k) /\ Last(k)' = Last(k)
         /\ \A k, x : Atomic!CellAfter(k, x)' = Atomic!CellAfter(k, x)
<1>1. Kind' = Kind /\ Atomic!Kind' = Atomic!Kind /\ Atomic!Sign' = Atomic!Sign
      /\ Atomic!Repeats' = Atomic!Repeats
  BY DEF Kind, Atomic!Kind, Atomic!Sign, Atomic!Repeats
<1>2. Atomic!Count' = Atomic!Count
  BY <1>1 DEF Atomic!Count, Atomic!Full
<1>3. \A k : /\ Atomic!From(k)' = Atomic!From(k) /\ Atomic!To(k)' = Atomic!To(k)
             /\ Atomic!Port(k)' = Atomic!Port(k)
  BY <1>1 DEF Atomic!From, Atomic!To, Atomic!Port
<1>4. \A x : Atomic!Unit(x)' = Atomic!Unit(x)
  BY <1>1 DEF Atomic!Unit
<1>5. \A k : Atomic!Copied(k)' = Atomic!Copied(k)
  BY <1>1, <1>3 DEF Atomic!Copied
<1>6. \A k, x : Atomic!InputAt(x, k)' = Atomic!InputAt(x, k)
  BY <1>3, <1>4 DEF Atomic!InputAt
<1>7. \A k, x : Atomic!CellAfter(k, x)' = Atomic!CellAfter(k, x)
  BY <1>1, <1>4, <1>5, <1>6 DEF Atomic!CellAfter
<1>8. \A k : Found(k)' = Found(k) /\ Read(k)' = Read(k)
  BY <1>3 DEF Found, Atomic!Found, Read
<1>9. \A k : Rewrote(k)' = Rewrote(k)
  BY <1>7 DEF Rewrote, Atomic!Rewritten, Atomic!OwnBytes
<1>10. \A k : Last(k)' = Last(k)
  BY <1>1, <1>2, <1>8 DEF Last
<1> QED
  BY <1>1, <1>2, <1>3, <1>7, <1>8, <1>9, <1>10

(* What holds when a Step does unit k + 1.                                  *)
LEMMA Begins ==
  ASSUME job \in Jobs, TypeOK, NEW k \in Nat, Stage(k), NEW kind, Executes(kind)
  PROVE  /\ Kind = kind /\ k + 1 \in 1 .. Atomic!Count /\ ~Last(k)
         /\ Backwards <=> Bit(job.op, 3)
         /\ Repeats <=> Bit(job.op, 4)
         /\ Here = job.pc /\ pc = job.pc /\ \A x \in OwnBytes : mem[x] = job.mem[x]
         /\ \A j \in 1 .. k : ~Rewrote(j) /\ (Kind = 1 => ~Found(j))
<1>1. /\ ret = NoReturn /\ pc = job.pc /\ mem[pc] = PrefixED /\ Opcode = job.op
      /\ Opcode % 4 = kind
  BY DEF Executes
<1>2. /\ job.pc \in Word /\ job.mem[job.pc] = PrefixED /\ job.mem[Up(job.pc)] = job.op
  BY JobFacts
<1>3. Here = job.pc /\ Next2(job.pc) # job.pc
  BY <1>1, <1>2, Moves DEF Here
<1>4. ~Last(k)
  BY <1>3 DEF Stage
<1>5. k + 1 \in 1 .. Atomic!Count
  <2>1. Atomic!Count \in Nat \ {0} /\ k <= Atomic!Count
    BY Counters DEF Stage
  <2>2. k # 0 => k # Atomic!Count
    BY <1>4 DEF Last
  <2> QED
    BY <2>1, <2>2
<1>6. mem[Up(pc)] = job.op
  BY <1>1 DEF Opcode
<1>7. \A x \in OwnBytes : mem[x] = job.mem[x]
  BY <1>1, <1>2, <1>6 DEF OwnBytes
<1>8. ~Rewrote(k)
  <2>1. OwnBytes \subseteq Word
    BY <1>2, Moves DEF OwnBytes
  <2>2. \A x \in OwnBytes : mem[x] = Atomic!CellAfter(k, x)
    BY <2>1 DEF Stage, Stored
  <2> QED
    BY <1>7, <2>2 DEF Rewrote, Atomic!Rewritten, Atomic!OwnBytes, OwnBytes, Up
<1>9. k # 0 => (Kind = 1 => ~Found(k))
  BY <1>4 DEF Last
<1>10. \A j \in 1 .. k : ~Rewrote(j) /\ (Kind = 1 => ~Found(j))
  <2> SUFFICES ASSUME NEW j \in 1 .. k
               PROVE  ~Rewrote(j) /\ (Kind = 1 => ~Found(j))
    OBVIOUS
  <2>1. j \in 1 .. k - 1 \/ (j = k /\ k # 0)
    OBVIOUS
  <2> QED
    BY <1>8, <1>9, <2>1 DEF Stage, Before
<1>11. Kind = kind /\ (Backwards <=> Bit(job.op, 3)) /\ (Repeats <=> Bit(job.op, 4))
  BY <1>1 DEF Kind, Backwards, Repeats
<1> QED
  BY <1>3, <1>1, <1>4, <1>5, <1>7, <1>10, <1>11

(* The parts that all four instructions share.                              *)
LEMMA Ends ==
  ASSUME job \in Jobs, TypeOK, NEW k \in Nat, Stage(k), NEW kind, Executes(kind),
         Operands(k + 1)', Stored(k + 1)', Sent(k + 1)', FlagsSay(k + 1)',
         pc' = IF Last(k + 1) THEN Next2(pc) ELSE Back2(Next2(pc))
  PROVE  Stage(k + 1)' /\ pc' \in Word
<1>1. job' = job /\ begun' = TRUE /\ ret' = NoReturn
  BY DEF Executes
<1>2. /\ k + 1 \in 1 .. Atomic!Count /\ pc = job.pc
      /\ \A j \in 1 .. k : ~Rewrote(j) /\ (Kind = 1 => ~Found(j))
  BY Begins
<1>3. job.pc \in Word
  BY JobFacts
<1>4. pc' = IF Last(k + 1) THEN Next2(job.pc) ELSE job.pc
  BY <1>2, <1>3, Moves
<1>5. Here' = pc'
  BY <1>1 DEF Here
<1>6. k + 1 # 0 /\ (k + 1) - 1 = k
  OBVIOUS
<1>7. Before(k + 1)'
  BY <1>1, <1>2, <1>6, Rigid DEF Before
<1>8. (k + 1 <= Atomic!Count)'
  <2>1. Atomic!Count' = Atomic!Count
    BY <1>1, Rigid
  <2> QED BY <1>2, <2>1
<1>9. Last(k + 1)' = Last(k + 1)
  BY <1>1, Rigid
<1>10. Next2(job.pc)' = Next2(job.pc)
  BY <1>1 DEF Next2, Up
<1>11. (Here = IF Last(k + 1) THEN Next2(job.pc) ELSE job.pc)'
  BY <1>1, <1>4, <1>5, <1>9, <1>10
<1>12. pc' \in Word
  BY <1>3, <1>4, Moves
<1>13. (begun <=> k + 1 # 0)'
  BY <1>1, <1>6
<1> QED
  BY <1>6, <1>7, <1>8, <1>11, <1>12, <1>13 DEF Stage

----------------------------------------------------------------------------
(* The four instructions.                                                   *)

LEMMA InOutKeeps ==
  ASSUME b' \in Byte, NEW v, NEW n
  PROVE  InOutFlags(v, n) \in SUBSET Flags /\ ("Z" \in InOutFlags(v, n) <=> b' = 0)
<1>1. szxy[b'] \in SUBSET Flags /\ ("Z" \in szxy[b'] <=> b' = 0)
  BY SZXY
<1> DEFINE same == parity[n % 8] = parity[b']
<1>2. InOutFlags(v, n) = szxy[b'] \cup If(v > 127, {"N"}) \cup If(n > 255, {"H", "C"})
                           \cup If(same, {"PV"})
  BY DEF InOutFlags
<1> HIDE DEF same
<1> QED
  BY <1>1, <1>2 DEF If, Flags

LEMMA TypesOfStep ==
  ASSUME job \in Jobs, TypeOK, NEW kind, Executes(kind),
         pc' \in Word, hl' \in Word, de' \in Word, bc' \in Word, b' \in Byte,
         f' \in SUBSET Flags, mem' \in [Word -> Byte],
         out' \in Seq((Byte \X Byte) \X Byte)
  PROVE  TypeOK'
<1>1. job' = job /\ begun' = TRUE /\ ret' = ret
  BY DEF Executes
<1> QED
  BY <1>1 DEF TypeOK

LEMMA MovesOn ==
  ASSUME job \in Jobs, TypeOK, NEW k \in Nat, Stage(k), NEW kind, Executes(kind)
  PROVE  /\ Moved(hl) = Atomic!From(k + 1) /\ Moved(hl) \in Word
         /\ Kind = 0 => Moved(de) = Atomic!To(k + 1) /\ Moved(de) \in Word
         /\ Kind \in {0, 1} => Down(bc) = (job.bc - (k + 1)) % WordMod
         /\ Kind \in {2, 3} => (b - 1) % 256 = (job.b - (k + 1)) % 256
         /\ Down(bc) \in Word /\ (b - 1) % 256 \in Byte
<1>1. Backwards <=> Bit(job.op, 3)
  BY Begins
<1>2. /\ hl = Atomic!From(k) /\ (Kind = 0 => de = Atomic!To(k))
      /\ Kind \in {0, 1} => bc = (job.bc - k) % WordMod
      /\ Kind \in {2, 3} => b = (job.b - k) % 256
  BY DEF Stage, Operands
<1>3. Moved(hl) = Atomic!From(k + 1) /\ (Kind = 0 => Moved(de) = Atomic!To(k + 1))
  BY <1>1, <1>2, Addresses DEF Moved
<1>4. k + 1 \in Nat
  OBVIOUS
<1>5. Atomic!From(k + 1) \in Word /\ Atomic!To(k + 1) \in Word
  BY <1>4, Addresses
<1>6. /\ Kind \in {0, 1} => Down(bc) = (job.bc - (k + 1)) % WordMod
      /\ Kind \in {2, 3} => (b - 1) % 256 = (job.b - (k + 1)) % 256
  BY <1>2, CountersStep
<1>7. Down(bc) \in Word /\ (b - 1) % 256 \in Byte
  BY Moves DEF TypeOK, Byte
<1> QED
  BY <1>3, <1>5, <1>6, <1>7

(* Whether a unit is the last, as the code decides it.                      *)
LEMMA Decides ==
  ASSUME job \in Jobs, TypeOK, NEW k \in Nat, Stage(k), NEW kind, Executes(kind)
  PROVE  /\ Kind = 0 => (Last(k + 1) <=> ~(Repeats /\ Down(bc) # 0))
         /\ Kind = 1 => (Last(k + 1) <=> ~(Repeats /\ Down(bc) # 0 /\ ~Found(k + 1)))
         /\ Kind \in {2, 3} => (Last(k + 1) <=> ~(Repeats /\ (b - 1) % 256 # 0))
<1>1. k + 1 \in 1 .. Atomic!Count /\ k + 1 # 0 /\ (Repeats <=> Bit(job.op, 4))
  BY Begins
<1> DEFINE n == k + 1
<1>2. /\ Atomic!Count \in Nat \ {0} /\ (~Bit(job.op, 4) => Atomic!Count = 1)
      /\ Bit(job.op, 4) =>
           /\ Kind \in {0, 1} => ((job.bc - n) % WordMod = 0 <=> n = Atomic!Count)
           /\ Kind \in {2, 3} => ((job.b - n) % 256 = 0 <=> n = Atomic!Count)
  <2>1. n \in 1 .. Atomic!Count
    BY <1>1
  <2> HIDE DEF n
  <2> QED BY <2>1, Counters
<1>3. /\ Kind \in {0, 1} => Down(bc) = (job.bc - n) % WordMod
      /\ Kind \in {2, 3} => (b - 1) % 256 = (job.b - n) % 256
  BY MovesOn
<1>4. ~Bit(job.op, 4) => n = Atomic!Count
  BY <1>1, <1>2
<1>5. Last(n) <=> n = Atomic!Count \/ (Kind = 1 /\ Found(n))
  BY <1>1 DEF Last
<1> HIDE DEF n
<1>6. Repeats <=> Bit(job.op, 4)
  BY <1>1
<1>7. /\ Kind = 0 => (Last(n) <=> ~(Repeats /\ Down(bc) # 0))
      /\ Kind = 1 => (Last(n) <=> ~(Repeats /\ Down(bc) # 0 /\ ~Found(n)))
      /\ Kind \in {2, 3} => (Last(n) <=> ~(Repeats /\ (b - 1) % 256 # 0))
  BY <1>2, <1>3, <1>4, <1>5, <1>6
<1> QED
  BY <1>7 DEF n

LEMMA LDIStep ==
  ASSUME job \in Jobs, TypeOK, NEW k \in Nat, Stage(k), LDI
  PROVE  TypeOK' /\ Stage(k + 1)'
<1> DEFINE v == mem[hl]
<1>1. /\ Executes(0)
      /\ mem' = [mem EXCEPT ![de] = v]
      /\ hl' = Moved(hl) /\ de' = Moved(de) /\ bc' = Down(bc)
      /\ IF Repeats /\ bc' # 0 THEN Again(LdFlags(v)) ELSE Leave(LdFlags(v))
      /\ b' = b /\ out' = out
  BY DEF LDI
<1>2. Kind = 0 /\ k + 1 \in 1 .. Atomic!Count /\ pc = job.pc
  BY <1>1, Begins
<1>3. job' = job
  BY <1>1 DEF Executes
<1>4. v \in Byte /\ hl \in Word /\ de \in Word /\ mem \in [Word -> Byte] /\ f \in SUBSET Flags
  BY DEF TypeOK
<1>5. Operands(k + 1)'
  <2>1. /\ hl' = Atomic!From(k + 1) /\ de' = Atomic!To(k + 1)
        /\ bc' = (job.bc - (k + 1)) % WordMod
    BY <1>1, <1>2, MovesOn
  <2>2. b' = job.b
    BY <1>1, <1>2 DEF Stage, Operands
  <2>3. /\ Kind' = 0 /\ Atomic!From(k + 1)' = Atomic!From(k + 1)
        /\ Atomic!To(k + 1)' = Atomic!To(k + 1)
    BY <1>2, <1>3, Rigid
  <2> QED
    BY <1>3, <2>1, <2>2, <2>3 DEF Operands
<1>6. Stored(k + 1)'
  <2>1. hl = Atomic!From(k) /\ de = Atomic!To(k)
    BY <1>2 DEF Stage, Operands
  <2>2. k \in 0 .. WordMod - 1
    <3>1. Atomic!Count \in Nat /\ Atomic!Count <= WordMod
      BY <1>2, Counters
    <3> QED BY <1>2, <3>1, BlockAssumption
  <2>3. \A x \in Word : mem[x] = Atomic!CellAfter(k, x)
    BY DEF Stage, Stored
  <2>4. v = Atomic!Copied(k)
    BY <1>2, <1>4, <2>1, <2>2, <2>3, CopyReads
  <2>5. \A x \in Word : mem'[x] = Atomic!CellAfter(k + 1, x)
    BY <1>1, <1>2, <1>4, <2>1, <2>2, <2>3, <2>4, CopyStores
  <2>6. mem' = [x \in Word |-> Atomic!CellAfter(k + 1, x)]
    BY <1>1, <1>4, <2>5
  <2>7. \A x : Atomic!CellAfter(k + 1, x)' = Atomic!CellAfter(k + 1, x)
    BY <1>3, Rigid
  <2> QED
    BY <2>6, <2>7 DEF Stored
<1>7. Sent(k + 1)'
  <2>1. out = <<>>
    BY <1>2 DEF Stage, Sent
  <2>2. Kind' = 0
    BY <1>2, <1>3, Rigid
  <2> QED
    BY <1>1, <2>1, <2>2 DEF Sent
<1> DEFINE flags == LdFlags(v)
           xy == BlockXY((job.a + v) % 256)
<1>8. /\ flags \in SUBSET Flags
      /\ "PV" \in flags <=> bc' # 0
      /\ flags \cap {"H", "N"} = {}
      /\ \A flag \in {"S", "Z", "C"} : flag \in flags <=> flag \in f
  <2>1. xy \subseteq {"X", "Y"}
    BY DEF BlockXY, If
  <2>2. flags = (f \cap {"S", "Z", "C"}) \cup xy \cup If(bc' # 0, {"PV"})
    BY DEF LdFlags
  <2> HIDE DEF xy, flags
  <2> QED
    BY <2>1, <2>2 DEF If, Flags
<1>9. \A flag \in {"S", "Z", "C"} : flag \in f <=> flag \in job.f
  BY <1>2 DEF Stage, FlagsSay
<1>10. pc' = IF Last(k + 1) THEN Next2(pc) ELSE Back2(Next2(pc))
  <2>1. Last(k + 1) <=> ~(Repeats /\ bc' # 0)
    BY <1>1, <1>2, Decides
  <2> QED
    BY <1>1, <2>1 DEF Again, Leave
<1>11. f' = IF Last(k + 1) THEN flags ELSE RepeatXY(flags, pc')
  <2>1. Last(k + 1) <=> ~(Repeats /\ bc' # 0)
    BY <1>1, <1>2, Decides
  <2> QED
    BY <1>1, <2>1 DEF Again, Leave
<1>12. pc' \in Word
  BY <1>2, <1>10, JobFacts, Moves
<1> HIDE DEF flags
<1>13. f' \in SUBSET Flags /\ \A flag \in {"S", "Z", "H", "PV", "N", "C"} :
                                flag \in f' <=> flag \in flags
  BY <1>8, <1>11, <1>12, RepeatKeeps
<1>14. FlagsSay(k + 1)'
  <2>1. Kind' = 0
    BY <1>2, <1>3, Rigid
  <2>2. "PV" \in f' <=> bc' # 0
    BY <1>8, <1>13
  <2>3. f' \cap {"H", "N"} = {}
    BY <1>8, <1>13
  <2>4. \A flag \in {"S", "Z", "C"} : flag \in f' <=> flag \in job.f
    BY <1>8, <1>9, <1>13
  <2> QED
    BY <1>3, <2>1, <2>2, <2>3, <2>4 DEF FlagsSay
<1>15. Stage(k + 1)'
  BY <1>1, <1>5, <1>6, <1>7, <1>10, <1>14, Ends
<1>16. hl' \in Word /\ de' \in Word /\ bc' \in Word
  BY <1>1, <1>2, MovesOn
<1>17. mem' \in [Word -> Byte]
  BY <1>1, <1>4
<1>18. b' \in Byte /\ out' \in Seq((Byte \X Byte) \X Byte)
  BY <1>1 DEF TypeOK
<1>19. TypeOK'
  BY <1>1, <1>12, <1>13, <1>16, <1>17, <1>18, TypesOfStep
<1> QED
  BY <1>15, <1>19

LEMMA PlainMemory ==
  ASSUME job \in Jobs, Kind \in {1, 3}, NEW k, Stored(k)
  PROVE  /\ \A j, x : Atomic!CellAfter(j, x) = job.mem[x]
         /\ \A x \in Word : mem[x] = job.mem[x]
         /\ \A j : Stored(j)
<1>1. Atomic!Kind \notin {"LD", "IN"}
  BY Decoded
<1>2. \A j, x : Atomic!CellAfter(j, x) = job.mem[x]
  BY <1>1 DEF Atomic!CellAfter
<1>3. mem = [x \in Word |-> job.mem[x]]
  BY <1>2 DEF Stored
<1> QED
  BY <1>2, <1>3 DEF Stored

LEMMA CPIStep ==
  ASSUME job \in Jobs, TypeOK, NEW k \in Nat, Stage(k), CPI
  PROVE  TypeOK' /\ Stage(k + 1)'
<1> DEFINE v == mem[hl]
<1>1. /\ Executes(1)
      /\ hl' = Moved(hl) /\ bc' = Down(bc)
      /\ IF Repeats /\ bc' # 0 /\ v # job.a THEN Again(CpFlags(v)) ELSE Leave(CpFlags(v))
      /\ de' = de /\ b' = b /\ mem' = mem /\ out' = out
  BY DEF CPI
<1>2. Kind = 1 /\ k + 1 \in 1 .. Atomic!Count /\ pc = job.pc
  BY <1>1, Begins
<1>3. job' = job
  BY <1>1 DEF Executes
<1>4. v \in Byte /\ hl \in Word /\ mem \in [Word -> Byte] /\ f \in SUBSET Flags
  BY DEF TypeOK
<1>5. Operands(k + 1)'
  <2>1. hl' = Atomic!From(k + 1) /\ bc' = (job.bc - (k + 1)) % WordMod
    BY <1>1, <1>2, MovesOn
  <2>2. b' = job.b /\ de' = job.de
    BY <1>1, <1>2 DEF Stage, Operands
  <2>3. Kind' = 1 /\ Atomic!From(k + 1)' = Atomic!From(k + 1)
    BY <1>2, <1>3, Rigid
  <2> QED
    BY <1>3, <2>1, <2>2, <2>3 DEF Operands
<1>6. Stored(k + 1)'
  <2>1. Stored(k + 1)
    BY <1>2, PlainMemory DEF Stage
  <2>2. \A x : Atomic!CellAfter(k + 1, x)' = Atomic!CellAfter(k + 1, x)
    BY <1>3, Rigid
  <2> QED
    BY <1>1, <2>1, <2>2 DEF Stored
<1>7. Sent(k + 1)'
  <2>1. out = <<>>
    BY <1>2 DEF Stage, Sent
  <2>2. Kind' = 1
    BY <1>2, <1>3, Rigid
  <2> QED
    BY <1>1, <2>1, <2>2 DEF Sent
<1>8. v = Read(k + 1) /\ (v = job.a <=> Found(k + 1))
  <2>1. hl = Atomic!From(k) /\ v = job.mem[hl] /\ (k + 1) - 1 = k
    BY <1>2, <1>4, PlainMemory DEF Stage, Operands
  <2> QED
    BY <2>1 DEF Read, Found, Atomic!Found
<1> DEFINE flags == CpFlags(v)
           res  == (job.a - v) % 256
           half == Xor3(job.a, v, res, 4)
           n    == IF half THEN (res - 1) % 256 ELSE res
           xy   == BlockXY(n)
           sz   == szxy[res] \cap {"S", "Z"}
<1>9. job.a \in Byte /\ res \in Byte
  BY <1>4, JobFacts, Difference
<1>10. res = 0 <=> v = job.a
  BY <1>4, JobFacts, Difference
<1>11. /\ flags \in SUBSET Flags
       /\ "PV" \in flags <=> bc' # 0
       /\ "Z" \in flags <=> v = job.a
       /\ "S" \in flags <=> res > 127
       /\ "H" \in flags <=> job.a % 16 < v % 16
       /\ "N" \in flags
       /\ "C" \in flags <=> "C" \in f
  <2>1. xy \subseteq {"X", "Y"}
    BY DEF BlockXY, If
  <2>2. flags = (f \cap {"C"}) \cup {"N"} \cup sz \cup If(half, {"H"})
                  \cup xy \cup If(bc' # 0, {"PV"})
    BY DEF CpFlags
  <2>3. half <=> job.a % 16 < v % 16
    BY <1>4, <1>9, HalfBorrow
  <2>4. sz \subseteq {"S", "Z"} /\ ("S" \in sz <=> res > 127) /\ ("Z" \in sz <=> res = 0)
    <3> HIDE DEF res
    <3> QED BY <1>9, SZXY
  <2> HIDE DEF xy, flags, sz, half, res
  <2> QED
    BY <1>10, <2>1, <2>2, <2>3, <2>4 DEF If, Flags
<1>12. "C" \in f <=> "C" \in job.f
  BY <1>2 DEF Stage, FlagsSay, SearchFlags
<1>13. Last(k + 1) <=> ~(Repeats /\ bc' # 0 /\ v # job.a)
  BY <1>1, <1>2, <1>8, Decides
<1>14. pc' = IF Last(k + 1) THEN Next2(pc) ELSE Back2(Next2(pc))
  BY <1>1, <1>13 DEF Again, Leave
<1>15. f' = IF Last(k + 1) THEN flags ELSE RepeatXY(flags, pc')
  BY <1>1, <1>13 DEF Again, Leave
<1>16. pc' \in Word
  BY <1>2, <1>14, JobFacts, Moves
<1>17. f' \in SUBSET Flags /\ \A flag \in {"S", "Z", "H", "PV", "N", "C"} :
                                flag \in f' <=> flag \in flags
  <2> HIDE DEF flags
  <2> QED BY <1>11, <1>15, <1>16, RepeatKeeps
<1> HIDE DEF flags
<1>18. FlagsSay(k + 1)'
  <2>1. Kind' = 1 /\ Found(k + 1)' = Found(k + 1) /\ Read(k + 1)' = Read(k + 1)
    BY <1>2, <1>3, Rigid
  <2>2. "PV" \in f' <=> bc' # 0
    BY <1>11, <1>17
  <2>3. /\ "Z" \in f' <=> Found(k + 1)
        /\ "S" \in f' <=> (job.a - Read(k + 1)) % 256 > 127
        /\ "H" \in f' <=> job.a % 16 < Read(k + 1) % 16
        /\ "N" \in f'
        /\ "C" \in f' <=> "C" \in job.f
    BY <1>8, <1>11, <1>12, <1>17
  <2>4. SearchFlags(k + 1)'
    BY <1>3, <2>1, <2>3 DEF SearchFlags
  <2> QED
    BY <2>1, <2>2, <2>4 DEF FlagsSay
<1>19. Stage(k + 1)'
  BY <1>1, <1>5, <1>6, <1>7, <1>14, <1>18, Ends
<1>20. hl' \in Word /\ bc' \in Word
  BY <1>1, <1>2, MovesOn
<1>21. /\ b' \in Byte /\ de' \in Word /\ mem' \in [Word -> Byte]
       /\ out' \in Seq((Byte \X Byte) \X Byte)
  BY <1>1 DEF TypeOK
<1>22. TypeOK'
  BY <1>1, <1>16, <1>17, <1>20, <1>21, TypesOfStep
<1> QED
  BY <1>19, <1>22

LEMMA INIStep ==
  ASSUME job \in Jobs, TypeOK, NEW k \in Nat, Stage(k), INI
  PROVE  TypeOK' /\ Stage(k + 1)'
<1> DEFINE v     == Device[<<b, job.c>>]
           flags == InOutFlags(v, MovedC + v)
<1>1. /\ Executes(2)
      /\ b' = (b - 1) % 256 /\ hl' = Moved(hl)
      /\ mem' = [mem EXCEPT ![hl] = v]
      /\ IF Repeats /\ b' # 0 THEN AgainIO(flags) ELSE Leave(flags)
      /\ de' = de /\ bc' = bc /\ out' = out
  BY DEF INI
<1>2. Kind = 2 /\ k + 1 \in 1 .. Atomic!Count /\ pc = job.pc
  BY <1>1, Begins
<1>3. job' = job
  BY <1>1 DEF Executes
<1>4. v \in Byte /\ hl \in Word /\ mem \in [Word -> Byte] /\ b' \in Byte
  <2>1. b \in Byte /\ job.c \in Byte
    BY JobFacts DEF TypeOK
  <2>2. Device \in [Byte \X Byte -> Byte]
    BY BlockAssumption
  <2>3. b' \in Byte
    BY <1>1, <1>2, MovesOn
  <2> QED
    BY <2>1, <2>2, <2>3 DEF TypeOK
<1>5. Operands(k + 1)'
  <2>1. hl' = Atomic!From(k + 1) /\ b' = (job.b - (k + 1)) % 256
    BY <1>1, <1>2, MovesOn
  <2>2. bc' = job.bc /\ de' = job.de
    BY <1>1, <1>2 DEF Stage, Operands
  <2>3. Kind' = 2 /\ Atomic!From(k + 1)' = Atomic!From(k + 1)
    BY <1>2, <1>3, Rigid
  <2> QED
    BY <1>3, <2>1, <2>2, <2>3 DEF Operands
<1>6. Stored(k + 1)'
  <2>1. hl = Atomic!From(k) /\ b = (job.b - k) % 256
    BY <1>2 DEF Stage, Operands
  <2>2. v = Device[Atomic!Port(k)]
    BY <2>1 DEF Atomic!Port
  <2>3. \A x \in Word : mem[x] = Atomic!CellAfter(k, x)
    BY DEF Stage, Stored
  <2>4. \A x \in Word : mem'[x] = Atomic!CellAfter(k + 1, x)
    BY <1>1, <1>2, <1>4, <2>1, <2>2, <2>3, InputStores
  <2>5. mem' = [x \in Word |-> Atomic!CellAfter(k + 1, x)]
    BY <1>1, <1>4, <2>4
  <2>6. \A x : Atomic!CellAfter(k + 1, x)' = Atomic!CellAfter(k + 1, x)
    BY <1>3, Rigid
  <2> QED
    BY <2>5, <2>6 DEF Stored
<1>7. Sent(k + 1)'
  <2>1. out = <<>>
    BY <1>2 DEF Stage, Sent
  <2>2. Kind' = 2
    BY <1>2, <1>3, Rigid
  <2> QED
    BY <1>1, <2>1, <2>2 DEF Sent
<1>8. flags \in SUBSET Flags /\ ("Z" \in flags <=> b' = 0)
  BY <1>4, InOutKeeps
<1> HIDE DEF flags
<1>9. Last(k + 1) <=> ~(Repeats /\ b' # 0)
  BY <1>1, <1>2, Decides
<1>10. pc' = IF Last(k + 1) THEN Next2(pc) ELSE Back2(Next2(pc))
  BY <1>1, <1>9 DEF AgainIO, Leave
<1>11. pc' \in Word
  BY <1>2, <1>10, JobFacts, Moves
<1>12. f' = IF Last(k + 1) THEN flags ELSE RepeatIO(RepeatXY(flags, pc'), b')
  BY <1>1, <1>9 DEF AgainIO, Leave
<1>13. f' \in SUBSET Flags /\ ("Z" \in f' <=> b' = 0)
  BY <1>8, <1>11, <1>12, RepeatKeeps, RepeatIOKeeps
<1>14. FlagsSay(k + 1)'
  <2>1. Kind' = 2
    BY <1>2, <1>3, Rigid
  <2> QED
    BY <1>13, <2>1 DEF FlagsSay
<1>15. Stage(k + 1)'
  BY <1>1, <1>5, <1>6, <1>7, <1>10, <1>14, Ends
<1>16. hl' \in Word
  BY <1>1, <1>2, MovesOn
<1>17. mem' \in [Word -> Byte]
  BY <1>1, <1>4
<1>18. de' \in Word /\ bc' \in Word /\ out' \in Seq((Byte \X Byte) \X Byte)
  BY <1>1 DEF TypeOK
<1>19. TypeOK'
  BY <1>1, <1>4, <1>11, <1>13, <1>16, <1>17, <1>18, TypesOfStep
<1> QED
  BY <1>15, <1>19

LEMMA OUTIStep ==
  ASSUME job \in Jobs, TypeOK, NEW k \in Nat, Stage(k), OUTI
  PROVE  TypeOK' /\ Stage(k + 1)'
<1> DEFINE v     == mem[hl]
           flags == InOutFlags(v, LowByte[hl'] + v)
           e     == <<<<b', job.c>>, v>>
           S     == (Byte \X Byte) \X Byte
<1>1. /\ Executes(3)
      /\ b' = (b - 1) % 256 /\ hl' = Moved(hl)
      /\ out' = Append(out, e)
      /\ IF Repeats /\ b' # 0 THEN AgainIO(flags) ELSE Leave(flags)
      /\ de' = de /\ bc' = bc /\ mem' = mem
  BY DEF OUTI
<1>2. Kind = 3 /\ k + 1 \in 1 .. Atomic!Count /\ pc = job.pc
  BY <1>1, Begins
<1>3. job' = job
  BY <1>1 DEF Executes
<1>4. v \in Byte /\ hl \in Word /\ mem \in [Word -> Byte] /\ b' \in Byte /\ out \in Seq(S)
  <2>1. b' \in Byte
    BY <1>1, <1>2, MovesOn
  <2> QED
    BY <2>1 DEF TypeOK
<1>5. Operands(k + 1)'
  <2>1. hl' = Atomic!From(k + 1) /\ b' = (job.b - (k + 1)) % 256
    BY <1>1, <1>2, MovesOn
  <2>2. bc' = job.bc /\ de' = job.de
    BY <1>1, <1>2 DEF Stage, Operands
  <2>3. Kind' = 3 /\ Atomic!From(k + 1)' = Atomic!From(k + 1)
    BY <1>2, <1>3, Rigid
  <2> QED
    BY <1>3, <2>1, <2>2, <2>3 DEF Operands
<1>6. Stored(k + 1)'
  <2>1. Stored(k + 1)
    BY <1>2, PlainMemory DEF Stage
  <2>2. \A x : Atomic!CellAfter(k + 1, x)' = Atomic!CellAfter(k + 1, x)
    BY <1>3, Rigid
  <2> QED
    BY <1>1, <2>1, <2>2 DEF Stored
<1>7. e \in S
  BY <1>4, JobFacts
<1>8. e = <<Atomic!Port(k + 1), Read(k + 1)>>
  <2>1. hl = Atomic!From(k) /\ v = job.mem[hl] /\ (k + 1) - 1 = k
    BY <1>2, <1>4, PlainMemory DEF Stage, Operands
  <2>2. b' = (job.b - (k + 1)) % 256
    BY <1>1, <1>2, MovesOn
  <2> QED
    BY <2>1, <2>2 DEF Read, Atomic!Port
<1>9. out' \in Seq(S) /\ Sent(k + 1)'
  <2> HIDE DEF e, S
  <2>1. Len(out) = k /\ \A i \in 1 .. k : out[i] = <<Atomic!Port(i), Read(i)>>
    BY <1>2 DEF Stage, Sent
  <2>2. /\ out' \in Seq(S) /\ Len(out') = k + 1 /\ out'[k + 1] = e
        /\ \A i \in 1 .. k : out'[i] = out[i]
    BY <1>1, <1>4, <1>7, <2>1, AppendProperties
  <2>3. \A i \in 1 .. k + 1 : out'[i] = <<Atomic!Port(i), Read(i)>>
    <3>1. \A i \in 1 .. k + 1 : i \in 1 .. k \/ i = k + 1
      OBVIOUS
    <3> QED
      BY <1>8, <2>1, <2>2, <3>1
  <2>4. /\ Kind' = 3
        /\ \A i : Atomic!Port(i)' = Atomic!Port(i) /\ Read(i)' = Read(i)
    BY <1>2, <1>3, Rigid
  <2> QED
    BY <2>2, <2>3, <2>4 DEF Sent
<1>10. flags \in SUBSET Flags /\ ("Z" \in flags <=> b' = 0)
  BY <1>4, InOutKeeps
<1> HIDE DEF flags, e
<1>11. Last(k + 1) <=> ~(Repeats /\ b' # 0)
  BY <1>1, <1>2, Decides
<1>12. pc' = IF Last(k + 1) THEN Next2(pc) ELSE Back2(Next2(pc))
  BY <1>1, <1>11 DEF AgainIO, Leave
<1>13. pc' \in Word
  BY <1>2, <1>12, JobFacts, Moves
<1>14. f' = IF Last(k + 1) THEN flags ELSE RepeatIO(RepeatXY(flags, pc'), b')
  BY <1>1, <1>11 DEF AgainIO, Leave
<1>15. f' \in SUBSET Flags /\ ("Z" \in f' <=> b' = 0)
  BY <1>10, <1>13, <1>14, RepeatKeeps, RepeatIOKeeps
<1>16. FlagsSay(k + 1)'
  <2>1. Kind' = 3
    BY <1>2, <1>3, Rigid
  <2> QED
    BY <1>15, <2>1 DEF FlagsSay
<1>17. Stage(k + 1)'
  BY <1>1, <1>5, <1>6, <1>9, <1>12, <1>16, Ends
<1>18. hl' \in Word
  BY <1>1, <1>2, MovesOn
<1>19. de' \in Word /\ bc' \in Word /\ mem' \in [Word -> Byte]
  BY <1>1 DEF TypeOK
<1>20. TypeOK'
  BY <1>1, <1>4, <1>9, <1>13, <1>15, <1>18, <1>19, TypesOfStep
<1> QED
  BY <1>17, <1>20

----------------------------------------------------------------------------
(* The invariant.                                                           *)

LEMMA InitIInv == Init => IInv
<1> SUFFICES ASSUME Init
             PROVE  IInv
  OBVIOUS
<1>1. /\ job \in Jobs
      /\ pc = job.pc /\ hl = job.hl /\ de = job.de /\ bc = job.bc /\ b = job.b
      /\ f = job.f /\ mem = job.mem
      /\ out = <<>> /\ ret = NoReturn /\ begun = FALSE
  BY DEF Init
<1>2. TypeOK
  <2>1. job \in Job
    BY <1>1, BlockAssumption
  <2>2. out \in Seq((Byte \X Byte) \X Byte)
    BY <1>1
  <2> QED
    BY <1>1, <2>1, <2>2, JobFacts DEF TypeOK
<1>3. Operands(0)
  <2>1. /\ Atomic!From(0) = job.hl /\ Atomic!To(0) = job.de
        /\ (job.bc - 0) % WordMod = job.bc /\ (job.b - 0) % 256 = job.b
    BY <1>1, Addresses, CountersStep
  <2> QED
    BY <1>1, <2>1 DEF Operands
<1>4. Stored(0)
  <2>1. \A x \in Word : Atomic!CellAfter(0, x) = job.mem[x]
    <3> TAKE x \in Word
    <3>1. Atomic!Unit(x) \in 0 .. WordMod - 1 /\ WordMod \in Nat
      BY <1>1, BlockAssumption, Units
    <3> QED
      BY <3>1 DEF Atomic!CellAfter
  <2>2. job.mem \in [Word -> Byte]
    BY <1>1, JobFacts
  <2> QED
    BY <1>1, <2>1, <2>2 DEF Stored
<1>5. Sent(0)
  <2>1. Len(<<>>) = 0
    OBVIOUS
  <2> QED BY <1>1, <2>1 DEF Sent
<1>6. Before(0) /\ ~Last(0) /\ Here = job.pc /\ 0 <= Atomic!Count
  BY <1>1, Counters DEF Before, Last, Here
<1>7. Stage(0)
  BY <1>1, <1>3, <1>4, <1>5, <1>6 DEF Stage
<1> QED
  BY <1>1, <1>2, <1>7 DEF IInv

(* An interrupt, its return and a stuttering step: nothing that the         *)
(* invariant speaks of changes.                                             *)
LEMMA Undisturbed ==
  ASSUME IInv,
         job' = job, hl' = hl, de' = de, bc' = bc, b' = b, f' = f, mem' = mem,
         out' = out, begun' = begun, Here' = Here
  PROVE  \A k \in Nat : Stage(k) => Stage(k)'
<1> SUFFICES ASSUME NEW k \in Nat, Stage(k)
             PROVE  Stage(k)'
  OBVIOUS
<1>1. Next2(job.pc)' = Next2(job.pc)
  BY DEF Next2, Up
<1>2. /\ Kind' = Kind /\ Atomic!Count' = Atomic!Count /\ Last(k)' = Last(k)
      /\ \A j : /\ Atomic!From(j)' = Atomic!From(j) /\ Atomic!To(j)' = Atomic!To(j)
                /\ Atomic!Port(j)' = Atomic!Port(j) /\ Found(j)' = Found(j)
                /\ Rewrote(j)' = Rewrote(j) /\ Read(j)' = Read(j)
      /\ \A j, x : Atomic!CellAfter(j, x)' = Atomic!CellAfter(j, x)
  BY Rigid
<1>3. Operands(k)'
  BY <1>2 DEF Stage, Operands
<1>4. Stored(k)'
  BY <1>2 DEF Stage, Stored
<1>5. Sent(k)'
  BY <1>2 DEF Stage, Sent
<1>6. Before(k)'
  BY <1>2 DEF Stage, Before
<1>7. (IF k = 0 THEN f = job.f ELSE FlagsSay(k))'
  BY <1>2 DEF Stage, FlagsSay, SearchFlags
<1> QED
  BY <1>1, <1>2, <1>3, <1>4, <1>5, <1>6, <1>7 DEF Stage

LEMMA InterruptSteps ==
  ASSUME IInv, Interrupt \/ Return
  PROVE  /\ TypeOK'
         /\ job' = job /\ hl' = hl /\ de' = de /\ bc' = bc /\ b' = b /\ f' = f /\ mem' = mem
         /\ out' = out /\ begun' = begun /\ Here' = Here
<1>1. /\ job' = job /\ hl' = hl /\ de' = de /\ bc' = bc /\ b' = b /\ f' = f /\ mem' = mem
      /\ out' = out /\ begun' = begun
  BY DEF Interrupt, Return, registers
<1>2. pc \in Word /\ ret \in Word \cup {NoReturn} /\ NoReturn \notin Word /\ Handler \in Word
  BY BlockAssumption DEF IInv, TypeOK, NoReturn, Word
<1>3. CASE Interrupt
  <2>1. ret = NoReturn /\ ret' = pc /\ pc' = Handler
    BY <1>3 DEF Interrupt
  <2> QED
    BY <1>1, <1>2, <2>1 DEF Here, IInv, TypeOK
<1>4. CASE Return
  <2>1. ret # NoReturn /\ pc' = ret /\ ret' = NoReturn
    BY <1>4 DEF Return
  <2> QED
    BY <1>1, <1>2, <2>1 DEF Here, IInv, TypeOK
<1> QED
  BY <1>3, <1>4

LEMMA StepStage ==
  ASSUME job \in Jobs, TypeOK, NEW k \in Nat, Stage(k), Step
  PROVE  TypeOK' /\ Stage(k + 1)' /\ job' = job
<1>1. job' = job
  BY DEF Step, LDI, CPI, INI, OUTI, Executes
<1> QED
  BY <1>1, LDIStep, CPIStep, INIStep, OUTIStep DEF Step

LEMMA NextIInv == IInv /\ [Next]_vars => IInv'
<1> SUFFICES ASSUME IInv, [Next]_vars
             PROVE  IInv'
  OBVIOUS
<1>1. job \in Jobs /\ TypeOK
  BY DEF IInv
<1>2. PICK k \in Nat : Stage(k)
  BY DEF IInv
<1>3. CASE Step
  <2>1. TypeOK' /\ Stage(k + 1)' /\ job' = job /\ k + 1 \in Nat
    BY <1>1, <1>2, <1>3, StepStage
  <2> QED
    BY <1>1, <2>1 DEF IInv
<1>4. CASE Interrupt \/ Return
  <2>1. TypeOK' /\ Stage(k)' /\ job' = job
    BY <1>2, <1>4, InterruptSteps, Undisturbed
  <2> QED
    BY <1>1, <2>1 DEF IInv
<1>5. CASE UNCHANGED vars
  <2>1. /\ job' = job /\ hl' = hl /\ de' = de /\ bc' = bc /\ b' = b /\ f' = f /\ mem' = mem
        /\ out' = out /\ begun' = begun /\ pc' = pc /\ ret' = ret
    BY <1>5 DEF vars, registers
  <2>2. Here' = Here /\ TypeOK'
    BY <1>1, <2>1 DEF Here, TypeOK
  <2>3. Stage(k)'
    BY <1>2, <2>1, <2>2, Undisturbed
  <2> QED
    BY <1>1, <2>1, <2>2, <2>3 DEF IInv
<1> QED
  BY <1>3, <1>4, <1>5 DEF Next

(* Between any two steps, interrupts and their handlers included, the       *)
(* registers, the memory and the output are those of a whole number of      *)
(* units of the job, and PC says whether another one follows.               *)
THEOREM StagesReached == Spec => []IInv
  BY InitIInv, NextIInv, PTL DEF Spec

(* A unit at a time, in and out of interrupt handlers: every register stays *)
(* in its width, every cell a byte, and F a set of flags.                   *)
THEOREM BlockTypes == Spec => []TypeOK
<1>1. IInv => TypeOK
  BY DEF IInv
<1> QED
  BY <1>1, StagesReached, PTL

(* The stage of an instruction, read off its PC and flags.                  *)
LEMMA ResumesAt ==
  ASSUME IInv
  PROVE  Resumes
<1>1. job \in Jobs /\ TypeOK
  BY DEF IInv
<1>2. PICK k \in Nat : Stage(k)
  BY DEF IInv
<1>3. /\ begun <=> k # 0
      /\ k <= Atomic!Count /\ Operands(k) /\ Stored(k)
      /\ k # 0 => FlagsSay(k)
      /\ Here = IF Last(k) THEN Next2(job.pc) ELSE job.pc
  BY <1>2 DEF Stage
<1>4. Kind \in 0 .. 3
  BY <1>1, Decoded
<1>5. begun /\ Kind = 1 => ("Z" \in f <=> Found(k))
  BY <1>3 DEF FlagsSay, SearchFlags
<1>6. Last(k) <=> ~Unfinished
  <2>1. CASE k = 0
    BY <1>3, <2>1 DEF Last, Unfinished
  <2>2. CASE k # 0
    <3>1. k \in 1 .. Atomic!Count
      <4>1. Atomic!Count \in Nat
        BY <1>1, Counters
      <4> QED BY <1>3, <2>2, <4>1
    <3>2. CASE ~Bit(job.op, 4)
      <4>1. k = Atomic!Count
        BY <1>1, <3>1, <3>2, Counters
      <4> QED
        BY <1>3, <2>2, <3>2, <4>1 DEF Last, Unfinished
    <3>3. CASE Bit(job.op, 4)
      <4>1. ~CountLeft <=> k = Atomic!Count
        BY <1>1, <1>3, <1>4, <3>1, <3>3, Counters DEF CountLeft, Operands
      <4>2. Matched <=> Kind = 1 /\ Found(k)
        BY <1>3, <1>5, <2>2 DEF Matched
      <4> QED
        BY <1>3, <2>2, <3>3, <4>1, <4>2 DEF Last, Unfinished
    <3> QED BY <3>2, <3>3
  <2> QED BY <2>1, <2>2
<1>7. begun /\ Kind = 1 => (Found(k) <=> mem[LastRead] = job.a)
  <2> SUFFICES ASSUME begun, Kind = 1
               PROVE  Found(k) <=> mem[LastRead] = job.a
    OBVIOUS
  <2>1. k - 1 \in Nat /\ (k - 1) + 1 = k
    BY <1>3
  <2> DEFINE n == k - 1
  <2>2. /\ Atomic!From(n) \in Word
        /\ Atomic!From(n + 1) = IF Bit(job.op, 3) THEN Down(Atomic!From(n))
                                ELSE Up(Atomic!From(n))
    <3>1. n \in Nat BY <2>1
    <3> HIDE DEF n
    <3> QED BY <1>1, <3>1, Addresses
  <2>3. hl = IF Bit(job.op, 3) THEN Down(Atomic!From(n)) ELSE Up(Atomic!From(n))
    BY <1>3, <2>1, <2>2 DEF Operands
  <2>4. LastRead = Atomic!From(n)
    BY <2>2, <2>3, Moves DEF LastRead
  <2>5. mem[LastRead] = job.mem[Atomic!From(n)]
    BY <1>1, <1>3, <2>2, <2>4, PlainMemory
  <2> QED
    BY <2>5 DEF Found, Atomic!Found
<1>8. /\ begun /\ Kind \in {0, 1} => ("PV" \in f <=> bc # 0)
      /\ begun /\ Kind \in {2, 3} => ("Z" \in f <=> b = 0)
  BY <1>3 DEF FlagsSay
<1>9. Here = IF Unfinished THEN job.pc ELSE Next2(job.pc)
  BY <1>3, <1>6
<1> QED
  BY <1>5, <1>7, <1>8, <1>9 DEF Resumes

(* Wherever an interrupt comes, the address it pushes and the flags it      *)
(* leaves say how far the instruction is.                                   *)
THEOREM InterruptsResume == Spec => []Resumes
  BY ResumesAt, StagesReached, PTL

----------------------------------------------------------------------------
(* The refinement of BlockOp.                                               *)

LEMMA LengthOthers ==
  ASSUME job \in Jobs, Kind # 1
  PROVE  Atomic!Length = Atomic!Count
<1>1. Atomic!Kind # "CP"
  BY Decoded
<1> QED
  BY <1>1 DEF Atomic!Length

LEMMA LengthReached ==
  ASSUME job \in Jobs, NEW k \in 1 .. Atomic!Count, Last(k), Before(k)
  PROVE  Atomic!Length = k
<1>1. CASE Kind # 1
  BY <1>1, LengthOthers DEF Last
<1>2. CASE Kind = 1
  <2>1. Atomic!Kind = "CP" /\ Atomic!Count \in Nat
    BY <1>2, Decoded, Counters
  <2>2. \A j \in 1 .. k - 1 : ~Atomic!Found(j)
    BY <1>2 DEF Before, Found
  <2>3. k = Atomic!Count \/ Atomic!Found(k)
    BY DEF Last, Found
  <2>4. CASE Atomic!Found(k)
    <3> DEFINE P(n) == Atomic!Found(n) /\ \A j \in 1 .. n - 1 : ~Atomic!Found(j)
    <3>1. P(k)
      BY <2>2, <2>4
    <3>2. Atomic!Length = CHOOSE n \in 1 .. Atomic!Count : P(n)
      BY <2>1, <2>4 DEF Atomic!Length
    <3>3. Atomic!Length \in 1 .. Atomic!Count /\ P(Atomic!Length)
      <4> HIDE DEF P
      <4> QED BY <3>1, <3>2
    <3> DEFINE m == Atomic!Length
    <3>4. m \in 1 .. Atomic!Count /\ P(m)
      BY <3>3
    <3> HIDE DEF m
    <3>5. ~(m < k) /\ ~(k < m)
      BY <2>1, <3>1, <3>4
    <3> QED
      BY <2>1, <3>4, <3>5 DEF m
  <2>5. CASE ~Atomic!Found(k)
    <3>1. k = Atomic!Count
      BY <2>3, <2>5
    <3>2. ~\E j \in 1 .. Atomic!Count : Atomic!Found(j)
      <4> SUFFICES ASSUME NEW j \in 1 .. Atomic!Count
                   PROVE  ~Atomic!Found(j)
        OBVIOUS
      <4>1. j \in 1 .. k - 1 \/ j = k
        BY <2>1, <3>1
      <4> QED BY <2>2, <2>5, <4>1
    <3> QED
      BY <3>1, <3>2 DEF Atomic!Length
  <2> QED
    BY <2>4, <2>5
<1> QED
  BY <1>1, <1>2

(* What BlockOp sees of a behaviour while nothing it speaks of is over.     *)
LEMMA PendingView ==
  ASSUME Status = "pending"
  PROVE  /\ Here = job.pc
         /\ Whole(hl, job.hl) = job.hl /\ Whole(de, job.de) = job.de
         /\ Whole(bc, job.bc) = job.bc /\ Whole(b, job.b) = job.b
         /\ Whole(f, job.f) = job.f /\ Whole(mem, job.mem) = job.mem
         /\ Whole(out, <<>>) = <<>>
  BY DEF Status, Whole

LEMMA OverView ==
  ASSUME Status' # "pending"
  PROVE  /\ Whole(hl, job.hl)' = hl' /\ Whole(de, job.de)' = de'
         /\ Whole(bc, job.bc)' = bc' /\ Whole(b, job.b)' = b'
         /\ Whole(f, job.f)' = f' /\ Whole(mem, job.mem)' = mem'
         /\ Whole(out, <<>>)' = out'
  BY DEF Whole

LEMMA InitRefines == Init => Atomic!Init
<1> SUFFICES ASSUME Init
             PROVE  Atomic!Init
  OBVIOUS
<1>1. Status = "pending"
  BY DEF Init, Status, Here
<1>2. job \in Atomic!Job
  <2>1. Atomic!Job = Job
    BY DEF Job, Atomic!Job, Word, Atomic!Word, Byte, Atomic!Byte, Flags, Atomic!Flags
  <2> QED
    BY <2>1, BlockAssumption DEF Init
<1> QED
  BY <1>1, <1>2, PendingView DEF Atomic!Init

LEMMA Unchanged ==
  ASSUME job' = job, hl' = hl, de' = de, bc' = bc, b' = b, f' = f, mem' = mem,
         out' = out, Here' = Here
  PROVE  UNCHANGED Atomic!vars
<1>1. Status' = Status
  BY DEF Status, OwnBytes, Up
<1> QED
  BY <1>1 DEF Atomic!vars, Whole

(* The last unit of an instruction, or the one that overwrites it, is where *)
(* BlockOp does all of them.                                                *)
LEMMA RunRefines ==
  ASSUME job \in Jobs, TypeOK, NEW k \in Nat, Stage(k), NEW kind, Executes(kind),
         TypeOK', Stage(k + 1)', Status' # "pending"
  PROVE  Atomic!Run(k + 1)
<1> DEFINE n == k + 1
<1>1. /\ n \in 1 .. Atomic!Count /\ Here = job.pc /\ (\A x \in OwnBytes : mem[x] = job.mem[x])
      /\ \A j \in 1 .. k : ~Rewrote(j) /\ (Kind = 1 => ~Found(j))
  BY Begins
<1>2. job' = job
  BY DEF Executes
<1>3. /\ n # 0 /\ n - 1 = k /\ n \in Nat
  OBVIOUS
<1> HIDE DEF n
<1>4. Stage(n)'
  BY DEF n
<1>5. /\ Kind' = Kind /\ Last(n)' = Last(n)
      /\ \A j : /\ Atomic!From(j)' = Atomic!From(j) /\ Atomic!To(j)' = Atomic!To(j)
                /\ Atomic!Port(j)' = Atomic!Port(j)
                /\ Found(j)' = Found(j) /\ Rewrote(j)' = Rewrote(j) /\ Read(j)' = Read(j)
      /\ \A j, x : Atomic!CellAfter(j, x)' = Atomic!CellAfter(j, x)
  BY <1>2, Rigid
<1>6. /\ hl' = Atomic!From(n) /\ de' = (IF Kind = 0 THEN Atomic!To(n) ELSE job.de)
      /\ bc' = IF Kind \in {0, 1} THEN (job.bc - n) % WordMod ELSE job.bc
      /\ b' = IF Kind \in {2, 3} THEN (job.b - n) % 256 ELSE job.b
  BY <1>2, <1>4, <1>5 DEF Stage, Operands
<1>7. mem' = [x \in Word |-> Atomic!CellAfter(n, x)]
  BY <1>4, <1>5 DEF Stage, Stored
<1>8. Here' = IF Last(n) THEN Next2(job.pc) ELSE job.pc
  <2>1. Next2(job.pc)' = Next2(job.pc)
    BY <1>2 DEF Next2, Up
  <2>2. (Here = IF Last(n) THEN Next2(job.pc) ELSE job.pc)'
    BY <1>4 DEF Stage
  <2> QED
    BY <1>2, <1>5, <2>1, <2>2
<1>9. /\ Next2(job.pc) # job.pc /\ Next2(job.pc) = (job.pc + 2) % WordMod
      /\ job.pc \in Word /\ Up(job.pc) \in Word
  BY JobFacts, Moves
<1>10. OwnBytes' = OwnBytes /\ OwnBytes \subseteq Word
  BY <1>2, <1>9 DEF OwnBytes, Up
<1>11. Status = "pending"
  BY <1>1 DEF Status
<1>12. /\ Atomic!Stops(n)
       /\ Status' = IF n = Atomic!Length THEN "done" ELSE "cut"
       /\ Here' = IF n = Atomic!Length THEN (job.pc + 2) % WordMod ELSE job.pc
  <2>1. \A j \in 1 .. n - 1 : ~Atomic!Rewritten(j)
    BY <1>1, <1>3 DEF Rewrote
  <2>2. CASE Last(n)
    <3>1. Before(n)
      BY <1>1, <1>3 DEF Before
    <3>2. Atomic!Length = n
      BY <1>1, <2>2, <3>1, LengthReached
    <3>3. Status' = "done"
      BY <1>2, <1>8, <1>9, <2>2 DEF Status
    <3> QED
      BY <1>8, <1>9, <2>1, <2>2, <3>2, <3>3 DEF Atomic!Stops
  <2>3. CASE ~Last(n)
    <3>1. Here' = job.pc /\ Status' = "cut"
      BY <1>2, <1>8, <2>3 DEF Status
    <3>2. PICK x \in OwnBytes : mem'[x] # job.mem[x]
      BY <1>2, <1>10, <3>1 DEF Status
    <3>3. Atomic!CellAfter(n, x) # job.mem[x]
      BY <1>7, <1>10, <3>2
    <3>4. Atomic!Rewritten(n)
      BY <3>3 DEF Atomic!Rewritten, Atomic!OwnBytes, OwnBytes, Up
    <3>5. Kind # 1
      <4>1. Kind = 1 => Atomic!CellAfter(n, x) = job.mem[x]
        BY Decoded DEF Atomic!CellAfter
      <4> QED BY <3>3, <4>1
    <3>6. n # Atomic!Length
      BY <1>3, <2>3, <3>5, LengthOthers DEF Last
    <3> QED
      BY <2>1, <3>1, <3>4, <3>6 DEF Atomic!Stops
  <2> QED BY <2>2, <2>3
<1>13. /\ Kind \in 0 .. 3
       /\ Atomic!Kind = "LD" <=> Kind = 0
       /\ Atomic!Kind = "CP" <=> Kind = 1
       /\ Atomic!Kind \in {"LD", "CP"} <=> Kind \in {0, 1}
       /\ Atomic!Kind \in {"IN", "OUT"} <=> Kind \in {2, 3}
       /\ Atomic!Kind = "OUT" <=> Kind = 3
  BY Decoded
<1>14. out' = IF Atomic!Kind = "OUT"
              THEN [i \in 1 .. n |-> <<Atomic!Port(i), job.mem[Atomic!From(i - 1)]>>]
              ELSE <<>>
  <2>1. CASE Kind = 3
    <3> DEFINE S == (Byte \X Byte) \X Byte
    <3>1. out' \in Seq(S)
      BY DEF TypeOK
    <3>2. Len(out') = n /\ \A i \in 1 .. n : out'[i] = <<Atomic!Port(i), Read(i)>>
      BY <1>4, <1>5, <2>1 DEF Stage, Sent
    <3> HIDE DEF S
    <3>3. out' \in [1 .. n -> S]
      BY <3>1, <3>2, LenProperties
    <3>4. out' = [i \in 1 .. n |-> <<Atomic!Port(i), Read(i)>>]
      BY <3>2, <3>3
    <3> QED
      BY <1>13, <2>1, <3>4 DEF Read
  <2>2. CASE Kind # 3
    BY <1>4, <1>5, <1>13, <2>2 DEF Stage, Sent
  <2> QED BY <2>1, <2>2
<1>15. /\ Kind \in {0, 1} => ("PV" \in f' <=> bc' # 0)
       /\ Kind \in {2, 3} => ("Z" \in f' <=> b' = 0)
       /\ Kind = 0 => /\ f' \cap {"H", "N"} = {}
                      /\ \A flag \in {"S", "Z", "C"} : flag \in f' <=> flag \in job.f
       /\ Kind = 1 => /\ "Z" \in f' <=> Found(n)
                      /\ "S" \in f' <=> (job.a - Read(n)) % 256 > 127
                      /\ "H" \in f' <=> job.a % 16 < Read(n) % 16
                      /\ "N" \in f'
                      /\ "C" \in f' <=> "C" \in job.f
  <2>1. FlagsSay(n)'
    BY <1>3, <1>4 DEF Stage
  <2> QED
    BY <1>2, <1>5, <2>1 DEF FlagsSay, SearchFlags
<1>16. /\ Whole(hl, job.hl)' = hl' /\ Whole(de, job.de)' = de'
       /\ Whole(bc, job.bc)' = bc' /\ Whole(b, job.b)' = b'
       /\ Whole(f, job.f)' = f' /\ Whole(mem, job.mem)' = mem'
       /\ Whole(out, <<>>)' = out'
  BY OverView
<1>17. Atomic!FlagsAfter(n, Whole(f, job.f)')
  BY <1>13, <1>15, <1>16 DEF Atomic!FlagsAfter, Found, Read
<1>18. /\ Whole(hl, job.hl)' = Atomic!From(n)
       /\ Whole(de, job.de)' = IF Atomic!Kind = "LD" THEN Atomic!To(n) ELSE job.de
       /\ Whole(bc, job.bc)' = IF Atomic!Kind \in {"LD", "CP"} THEN (job.bc - n) % WordMod
                               ELSE job.bc
       /\ Whole(b, job.b)' = IF Atomic!Kind \in {"IN", "OUT"} THEN (job.b - n) % 256
                             ELSE job.b
  BY <1>6, <1>13, <1>16
<1>19. Whole(mem, job.mem)' = [x \in Atomic!Word |-> Atomic!CellAfter(n, x)]
  BY <1>7, <1>16 DEF Word, Atomic!Word
<1>20. Atomic!Run(n)
  BY <1>2, <1>11, <1>12, <1>14, <1>16, <1>17, <1>18, <1>19 DEF Atomic!Run
<1> QED
  BY <1>20 DEF n

LEMMA StepRefines == IInv /\ IInv' /\ [Next]_vars => [Atomic!Next]_(Atomic!vars)
<1> SUFFICES ASSUME IInv, IInv', [Next]_vars
             PROVE  [Atomic!Next]_(Atomic!vars)
  OBVIOUS
<1>1. job \in Jobs /\ TypeOK /\ TypeOK'
  BY DEF IInv
<1>2. PICK k \in Nat : Stage(k)
  BY DEF IInv
<1>3. CASE Step
  <2>1. Stage(k + 1)' /\ job' = job
    BY <1>1, <1>2, <1>3, StepStage
  <2>2. PICK kind \in 0 .. 3 : Executes(kind)
    BY <1>3 DEF Step, LDI, CPI, INI, OUTI
  <2>3. CASE Status' # "pending"
    <3>1. Atomic!Run(k + 1)
      BY <1>1, <1>2, <2>1, <2>2, <2>3, RunRefines
    <3>2. k + 1 \in 1 .. Atomic!Count
      BY <1>1, <1>2, <2>2, Begins
    <3> QED
      BY <3>1, <3>2 DEF Atomic!Next
  <2>4. CASE Status' = "pending"
    <3>1. Status = "pending"
      BY <1>1, <1>2, <2>2, Begins DEF Status
    <3>2. Here' = job.pc /\ Here = job.pc
      BY <2>1, <2>4, <3>1 DEF Status
    <3> QED
      BY <2>1, <2>4, <3>1, <3>2 DEF Atomic!vars, Whole
  <2> QED BY <2>3, <2>4
<1>4. CASE Interrupt \/ Return
  BY <1>4, InterruptSteps, Unchanged
<1>5. CASE UNCHANGED vars
  <2>1. /\ job' = job /\ hl' = hl /\ de' = de /\ bc' = bc /\ b' = b /\ f' = f /\ mem' = mem
        /\ out' = out /\ pc' = pc /\ ret' = ret
    BY <1>5 DEF vars, registers
  <2>2. Here' = Here
    BY <2>1 DEF Here
  <2> QED
    BY <2>1, <2>2, Unchanged
<1> QED
  BY <1>3, <1>4, <1>5 DEF Next

(* However it is interrupted, a block instruction is the one step of        *)
(* BlockOp: no transfer is lost, repeated or made with other operands.      *)
THEOREM BlockRefines == Spec => ImplementsBlockOp
  BY InitRefines, StepRefines, StagesReached, PTL DEF Spec, ImplementsBlockOp, Atomic!Spec
=============================================================================
