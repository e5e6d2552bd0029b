---------------------------- MODULE Emulator_proofs ----------------------------
(***************************************************************************)
(* Theorems about the reference machine, for registers of any width, every *)
(* size of memory and every set of programs: what it computes stays within *)
(* its registers, branches follow comparisons, the trace accounts for the  *)
(* memory, calls return, and the flags tell the arithmetic.                *)
(***************************************************************************)
EXTENDS Emulator, SumTheorems, SequenceTheorems

-----------------------------------------------------------------------------
(* Quotients and remainders.                                               *)

LEMMA DivMod ==
  ASSUME NEW a \in Int, NEW n \in Nat \ {0}
  PROVE  /\ a \div n \in Int /\ a % n \in 0..(n - 1)
         /\ a = n * (a \div n) + (a % n)
OBVIOUS

LEMMA DivModUnique ==
  ASSUME NEW n \in Nat \ {0}, NEW q \in Int, NEW r \in 0..(n - 1)
  PROVE  (n * q + r) \div n = q /\ (n * q + r) % n = r
<1> DEFINE a == n * q + r
           p == a \div n
           s == a % n
<1>1. p \in Int /\ s \in 0..(n - 1) /\ a = n * p + s /\ a \in Int
  BY DivMod
<1>2. n * p + s = n * q + r
  BY <1>1
<1> HIDE DEF p, s, a
<1>3. n * (p - q) = r - s
  BY <1>1, <1>2
<1>4. p - q < 1
  <2>1. \A d \in Int : d >= 1 => n * d >= n
    OBVIOUS
  <2>2. QED
    BY <1>1, <1>3, <2>1
<1>5. p - q > -1
  <2>1. \A d \in Int : d <= -1 => n * d <= -n
    OBVIOUS
  <2>2. QED
    BY <1>1, <1>3, <2>1
<1>6. p = q
  BY <1>1, <1>4, <1>5
<1>7. QED
  BY <1>1, <1>2, <1>6 DEF p, s, a

LEMMA DivBelow ==
  ASSUME NEW m \in Nat \ {0}, NEW n \in Nat \ {0}, NEW a \in 0..(m * n - 1)
  PROVE  a \div n \in 0..(m - 1)
<1> DEFINE q == a \div n
<1>1. m * n \in Nat
  OBVIOUS
<1>2. q \in Int /\ a = n * q + (a % n) /\ a % n \in 0..(n - 1) /\ a \in Int
  BY <1>1, DivMod
<1> DEFINE r == a % n
<1> HIDE DEF q, r
<1>a. r \in 0..(n - 1) /\ a = n * q + r
  BY <1>2 DEF r
<1>3. q >= 0
  <2>1. \A d \in Int : d <= -1 => n * d <= -n
    OBVIOUS
  <2>2. QED
    BY <1>1, <1>2, <1>a, <2>1
<1>4. q < m
  <2>1. \A d \in Int : d >= m => n * d >= m * n
    OBVIOUS
  <2>2. QED
    BY <1>1, <1>2, <1>a, <2>1
<1>5. QED
  BY <1>2, <1>3, <1>4 DEF q

(* The remainder of a number less than one size away from the range.       *)
LEMMA ModNear ==
  ASSUME NEW n \in Nat \ {0}, NEW a \in Int
  PROVE  /\ 0 <= a /\ a < n => a % n = a
         /\ n <= a /\ a < 2 * n => a % n = a - n
         /\ -n <= a /\ a < 0 => a % n = a + n
<1>1. CASE 0 <= a /\ a < n
  <2>1. a = n * 0 + a /\ a \in 0..(n - 1)
    BY <1>1
  <2>2. (n * 0 + a) % n = a
    BY <2>1, DivModUnique
  <2>3. QED
    BY <1>1, <2>1, <2>2
<1>2. CASE n <= a /\ a < 2 * n
  <2>1. a = n * 1 + (a - n) /\ a - n \in 0..(n - 1)
    BY <1>2
  <2>2. (n * 1 + (a - n)) % n = a - n
    BY <2>1, DivModUnique
  <2>3. QED
    BY <1>2, <2>1, <2>2
<1>3. CASE -n <= a /\ a < 0
  <2>1. a = n * (-1) + (a + n) /\ a + n \in 0..(n - 1)
    BY <1>3
  <2>2. (n * (-1) + (a + n)) % n = a + n
    BY <2>1, DivModUnique
  <2>3. QED
    BY <1>3, <2>1, <2>2
<1>4. QED
  BY <1>1, <1>2, <1>3

LEMMA ModAtMost ==
  ASSUME NEW n \in Nat \ {0}, NEW a \in Nat
  PROVE  a % n \in 0..a
<1>1. CASE a < n
  BY <1>1, ModNear
<1>2. CASE a >= n
  BY <1>2, DivMod
<1>3. QED
  BY <1>1, <1>2

LEMMA DivAtMost ==
  ASSUME NEW n \in Nat \ {0}, NEW a \in Nat
  PROVE  a \div n \in 0..a
<1>1. a \in 0..((a + 1) * n - 1)
  <2>1. (a + 1) * n >= a + 1
    OBVIOUS
  <2>2. (a + 1) * n \in Nat
    OBVIOUS
  <2>3. QED
    BY <2>1, <2>2
<1>2. a \div n \in 0..((a + 1) - 1)
  BY <1>1, DivBelow
<1>3. QED
  BY <1>2

-----------------------------------------------------------------------------
(* The sizes of bytes, words and registers.                                *)
Half == 2^(RegBits - 1)

LEMMA Sizes ==
  /\ ByteBits \in Nat /\ WordBits \in Nat /\ RegBits \in Nat
  /\ ByteBits > 0 /\ RegBits >= 8 /\ ByteBits < WordBits /\ WordBits < RegBits
  /\ ByteSize \in Nat /\ ByteSize > 0 /\ WordSize \in Nat /\ WordSize > 0
  /\ RegSize \in Nat /\ RegSize > 0 /\ Half \in Nat /\ Half > 0
  /\ RegSize = WordSize * WordSize /\ RegSize = 2 * Half
  /\ ByteSize <= WordSize /\ WordSize <= RegSize /\ RegBits < RegSize
<1>1. /\ ByteBits \in Nat /\ WordBits \in Nat /\ RegBits \in Nat
      /\ ByteBits > 0 /\ RegBits >= 8 /\ ByteBits < WordBits /\ WordBits < RegBits
      /\ RegBits = WordBits + WordBits /\ RegBits - 1 \in Nat
  BY MachineWordsAssumption DEF WordBits, RegBits
<1>2. /\ ByteSize \in Nat /\ ByteSize > 0 /\ WordSize \in Nat /\ WordSize > 0
      /\ RegSize \in Nat /\ RegSize > 0 /\ Half \in Nat /\ Half > 0
  BY <1>1, PowerNat DEF ByteSize, WordSize, RegSize, Half
<1>3. RegSize = WordSize * WordSize
  BY <1>1, PowerSum DEF WordSize, RegSize
<1>4. RegSize = 2 * Half
  <2>1. (RegBits - 1) + 1 = RegBits
    BY <1>1
  <2>2. 2^((RegBits - 1) + 1) = 2 * 2^(RegBits - 1)
    BY <1>1, PowerNext
  <2>3. QED
    BY <2>1, <2>2 DEF RegSize, Half
<1>5. ByteSize <= WordSize /\ WordSize <= RegSize
  BY <1>1, PowerMonotone DEF ByteSize, WordSize, RegSize
<1>6. RegBits < RegSize
  BY <1>1, PowerExceeds DEF RegSize
<1>7. QED
  BY <1>1, <1>2, <1>3, <1>4, <1>5, <1>6

LEMMA WordInReg == Word \subseteq Reg /\ Reg \subseteq Nat /\ Word \subseteq Nat
BY Sizes DEF Word, Reg

LEMMA ModReg ==
  ASSUME NEW x \in Int
  PROVE  x % RegSize \in Reg /\ x % WordSize \in Word
BY Sizes, DivMod DEF Reg, Word

LEMMA BitType ==
  ASSUME NEW x \in Nat, NEW i \in Nat
  PROVE  Bit(x, i) \in {0, 1} /\ x \div 2^i \in Nat
<1>1. 2^i \in Nat \ {0}
  BY PowerNat
<1>2. x \div 2^i \in 0..x
  BY <1>1, DivAtMost
<1>3. QED
  BY <1>2 DEF Bit

(* The two's complement reading, without powers.                           *)
LEMMA SignedReading ==
  ASSUME NEW x \in Reg
  PROVE  /\ x \in Nat /\ x < 2 * Half /\ Half \in Nat /\ Half > 0
         /\ SignBit(x) = IF x >= Half THEN 1 ELSE 0
         /\ Signed(x) = IF x >= Half THEN x - 2 * Half ELSE x
         /\ Signed(x) \in (-Half)..(Half - 1)
<1>1. x \in 0..(2 * Half - 1) /\ Half \in Nat \ {0} /\ RegSize = 2 * Half
  BY Sizes DEF Reg
<1>2. Signed(x) = IF x >= Half THEN x - 2 * Half ELSE x
  BY <1>1 DEF Signed, SignedOf, RegSize, Half
<1>3. SignBit(x) = (x \div Half) % 2
  BY DEF SignBit, Bit, Half
<1>4. x \div Half = IF x >= Half THEN 1 ELSE 0
  <2>1. CASE x >= Half
    <3>1. x = Half * 1 + (x - Half) /\ x - Half \in 0..(Half - 1)
      BY <1>1, <2>1
    <3>2. (Half * 1 + (x - Half)) \div Half = 1
      BY <1>1, <3>1, DivModUnique
    <3>3. QED
      BY <2>1, <3>1, <3>2
  <2>2. CASE ~(x >= Half)
    <3>1. x = Half * 0 + x /\ x \in 0..(Half - 1)
      BY <1>1, <2>2
    <3>2. (Half * 0 + x) \div Half = 0
      BY <1>1, <3>1, DivModUnique
    <3>3. QED
      BY <2>2, <3>1, <3>2
  <2>3. QED
    BY <2>1, <2>2
<1>5. SignBit(x) = IF x >= Half THEN 1 ELSE 0
  BY <1>3, <1>4
<1>6. QED
  BY <1>1, <1>2, <1>5

LEMMA SignedOfInt ==
  ASSUME NEW x \in Int, NEW bits \in Nat \ {0}
  PROVE  SignedOf(x, bits) \in Int
<1>1. bits \in Nat /\ bits - 1 \in Nat
  OBVIOUS
<1>2. 2^bits \in Nat /\ 2^(bits - 1) \in Nat
  BY <1>1, PowerNat
<1>3. QED
  BY <1>2 DEF SignedOf

LEMMA SignExtendReg ==
  ASSUME NEW x \in Int, NEW bits \in Nat \ {0}
  PROVE  SignExtend(x, bits) \in Reg
<1>1. 2^bits \in Nat \ {0}
  BY PowerNat
<1>2. x % 2^bits \in Int
  BY <1>1, DivMod
<1>3. SignedOf(x % 2^bits, bits) \in Int
  BY <1>2, SignedOfInt
<1>4. QED
  BY <1>3, ModReg DEF SignExtend

-----------------------------------------------------------------------------
(* Multiples of the divisor.                                               *)

LEMMA DivModShift ==
  ASSUME NEW n \in Nat \ {0}, NEW a \in Int, NEW q \in Int
  PROVE  /\ (a + n * q) \div n = (a \div n) + q
         /\ (a + n * q) % n = a % n
<1> DEFINE p == a \div n
           r == a % n
<1>1. p \in Int /\ r \in 0..(n - 1) /\ a = n * p + r
  BY DivMod
<1> HIDE DEF p, r
<1>2. (n * (p + q) + r) \div n = p + q /\ (n * (p + q) + r) % n = r
  BY <1>1, DivModUnique
<1>3. n * (p + q) = n * p + n * q
  BY <1>1
<1>4. n * p \in Int /\ n * q \in Int
  BY <1>1
<1>5. a + n * q = n * (p + q) + r
  BY <1>1, <1>3, <1>4
<1>6. QED
  BY <1>2, <1>5 DEF p, r

(* A sum of digits, each below the weight of the next, is below the weight *)
(* of the digit after the last.                                            *)
LEMMA DigitsBelow ==
  ASSUME NEW w \in Nat, NEW f, NEW n \in Nat,
         \A i \in 0..(n - 1) : f[i] \in Nat /\ f[i] + 2^(w * i) <= 2^(w * (i + 1))
  PROVE  SumFunctionOnSet(f, 0..(n - 1)) \in 0..(2^(w * n) - 1)
<1> DEFINE Below(k) == SumFunctionOnSet(f, 0..(k - 1)) \in 0..(2^(w * k) - 1)
           N == {k \in Nat : k <= n => Below(k)}
<1>1. 0 \in N
  <2>1. 0..(0 - 1) = {}
    OBVIOUS
  <2>2. SumFunctionOnSet(f, 0..(0 - 1)) = 0
    BY <2>1, SumEmpty, Zenon
  <2>3. 2^(w * 0) = 1
    <3>1. w * 0 = 0 /\ 2^0 = 1
      OBVIOUS
    <3>2. QED
      BY <3>1
  <2>4. QED
    BY <2>2, <2>3
<1>2. ASSUME NEW k \in Nat, k \in N
      PROVE  k + 1 \in N
  <2> SUFFICES ASSUME k + 1 <= n
               PROVE  Below(k + 1)
    OBVIOUS
  <2>1. Below(k)
    BY <1>2
  <2>2. SumFunctionOnSet(f, 0..k) = SumFunctionOnSet(f, 0..(k - 1)) + f[k]
    <3>1. \A i \in 0..k : f[i] \in Int
      OBVIOUS
    <3>2. QED
      BY <3>1, SumNext
  <2>3. w * k \in Nat /\ w * (k + 1) \in Nat
    OBVIOUS
  <2>4. 2^(w * k) \in Nat /\ 2^(w * (k + 1)) \in Nat
    BY <2>3, PowerNat
  <2>5. f[k] \in Nat /\ f[k] + 2^(w * k) <= 2^(w * (k + 1))
    OBVIOUS
  <2>6. (k + 1) - 1 = k
    OBVIOUS
  <2>7. SumFunctionOnSet(f, 0..k) \in 0..(2^(w * (k + 1)) - 1)
    <3> DEFINE a == 2^(w * k)
               b == 2^(w * (k + 1))
               s == SumFunctionOnSet(f, 0..(k - 1))
    <3>1. s \in 0..(a - 1) /\ a \in Nat /\ b \in Nat /\ f[k] + a <= b
          /\ SumFunctionOnSet(f, 0..k) = s + f[k]
      BY <2>1, <2>2, <2>4, <2>5
    <3> HIDE DEF a, b, s
    <3>2. SumFunctionOnSet(f, 0..k) \in 0..(b - 1)
      BY <2>5, <3>1
    <3>3. QED
      BY <3>2 DEF b
  <2>8. QED
    BY <2>6, <2>7
<1>3. n \in N
  <2> HIDE DEF N
  <2>1. QED
    BY <1>1, <1>2, NumberInduction
<1>4. QED
  BY <1>3

LEMMA BitsInReg ==
  ASSUME NEW f, DOMAIN f = BitIndices, \A i \in BitIndices : f[i] \in {0, 2^i}
  PROVE  SumFunction(f) \in Reg
<1>1. \A i \in 0..(RegBits - 1) : i \in Nat /\ 1 * i = i /\ 1 * (i + 1) = i + 1
  BY Sizes
<1>2. \A i \in 0..(RegBits - 1) : 2^i \in Nat /\ 2^(i + 1) = 2 * 2^i
  BY <1>1, PowerNat, PowerNext
<1>3. \A i \in 0..(RegBits - 1) : f[i] \in Nat /\ f[i] + 2^(1 * i) <= 2^(1 * (i + 1))
  BY <1>1, <1>2 DEF BitIndices
<1>4. SumFunctionOnSet(f, 0..(RegBits - 1)) \in 0..(2^(1 * RegBits) - 1)
  BY <1>3, Sizes, DigitsBelow
<1>5. 1 * RegBits = RegBits
  BY Sizes
<1>6. QED
  BY <1>4, <1>5 DEF SumFunction, BitIndices, Reg, RegSize

LEMMA NonzeroHasBit ==
  ASSUME NEW n \in Nat, NEW x \in 1..(2^n - 1)
  PROVE  \E i \in 0..(n - 1) : Bit(x, i) = 1
<1> DEFINE Has(k) == \A a \in 1..(2^k - 1) : \E i \in 0..(k - 1) : Bit(a, i) = 1
           N == {k \in Nat : Has(k)}
<1>1. 0 \in N
  <2>1. 1..(2^0 - 1) = {}
    OBVIOUS
  <2>2. QED
    BY <2>1
<1>2. ASSUME NEW k \in Nat, k \in N
      PROVE  k + 1 \in N
  <2>1. 2^k \in Nat \ {0} /\ 2^(k + 1) = 2 * 2^k
    BY PowerNat, PowerNext
  <2>2. ASSUME NEW a \in 1..(2^(k + 1) - 1)
        PROVE  \E i \in 0..((k + 1) - 1) : Bit(a, i) = 1
    <3>1. CASE a < 2^k
      <4>1. a \in 1..(2^k - 1)
        BY <2>1, <3>1
      <4>2. PICK i \in 0..(k - 1) : Bit(a, i) = 1
        BY <1>2, <4>1
      <4>3. QED
        BY <4>2
    <3>2. CASE ~(a < 2^k)
      <4>1. a = 2^k * 1 + (a - 2^k) /\ a - 2^k \in 0..(2^k - 1)
        BY <2>1, <3>2
      <4>2. (2^k * 1 + (a - 2^k)) \div 2^k = 1
        BY <2>1, <4>1, DivModUnique
      <4>3. Bit(a, k) = 1
        BY <4>1, <4>2 DEF Bit
      <4>4. QED
        BY <4>3
    <3>3. QED
      BY <3>1, <3>2
  <2>3. QED
    BY <2>2
<1>3. n \in N
  <2> HIDE DEF N
  <2>1. QED
    BY <1>1, <1>2, NumberInduction
<1>4. QED
  BY <1>3

LEMMA MinMax ==
  ASSUME NEW n \in Nat, NEW S \in SUBSET (0..n), S # {}
  PROVE  /\ Min(S) \in S /\ \A x \in S : Min(S) <= x
         /\ Max(S) \in S /\ \A x \in S : x <= Max(S)
<1>1. \E j \in S : \A k \in S : j <= k
  <2>1. S \subseteq Nat
    OBVIOUS
  <2>2. QED
    BY <2>1, LeastOf
<1>2. \E j \in S : \A k \in S : k <= j
  <2> DEFINE T == {n - x : x \in S}
  <2>1. T \subseteq Nat /\ T # {}
    <3>1. \A x \in S : n - x \in Nat
      OBVIOUS
    <3>2. QED
      BY <3>1
  <2>2. PICK j \in T : \A k \in T : j <= k
    BY <2>1, LeastOf
  <2>3. PICK x \in S : j = n - x
    BY <2>2
  <2>4. \A y \in S : n - x <= n - y
    BY <2>2, <2>3
  <2>5. \A y \in S : y <= x
    BY <2>4
  <2>6. QED
    BY <2>5
<1>3. Min(S) \in S /\ \A x \in S : Min(S) <= x
  BY <1>1 DEF Min
<1>4. Max(S) \in S /\ \A x \in S : x <= Max(S)
  BY <1>2 DEF Max
<1>5. QED
  BY <1>3, <1>4

-----------------------------------------------------------------------------
(* Bytes: a sum of weighted bytes has those bytes, and a number is the sum *)
(* of its bytes.                                                           *)

LEMMA Weights ==
  /\ ByteWeight(0) = 1 /\ ByteWeight(8) = RegSize
  /\ \A i \in Nat : /\ ByteWeight(i) \in Nat /\ ByteWeight(i) > 0
                    /\ ByteWeight(i + 1) = ByteSize * ByteWeight(i)
<1>1. ByteWeight(0) = 1
  <2>1. ByteBits * 0 = 0 /\ 2^0 = 1
    BY Sizes
  <2>2. QED
    BY <2>1 DEF ByteWeight
<1>2. ByteWeight(8) = RegSize
  <2>1. ByteBits * 8 = RegBits
    BY Sizes DEF RegBits
  <2>2. QED
    BY <2>1 DEF ByteWeight, RegSize
<1>3. ASSUME NEW i \in Nat
      PROVE  /\ ByteWeight(i) \in Nat /\ ByteWeight(i) > 0
             /\ ByteWeight(i + 1) = ByteSize * ByteWeight(i)
  <2>1. ByteBits * i \in Nat /\ ByteBits * (i + 1) = ByteBits + ByteBits * i
    BY Sizes
  <2>2. 2^(ByteBits + ByteBits * i) = 2^ByteBits * 2^(ByteBits * i)
    BY <2>1, Sizes, PowerSum
  <2>3. 2^(ByteBits * i) \in Nat /\ 2^(ByteBits * i) > 0
    BY <2>1, PowerNat
  <2>4. QED
    BY <2>1, <2>2, <2>3 DEF ByteWeight, ByteSize
<1>4. QED
  BY <1>1, <1>2, <1>3

LEMMA ByteOfType ==
  ASSUME NEW x \in Int, NEW i \in Nat
  PROVE  ByteOf(x, i) \in Byte
<1>1. ByteWeight(i) \in Nat \ {0} /\ ByteSize \in Nat \ {0}
  BY Weights, Sizes
<1>2. x \div ByteWeight(i) \in Int
  BY <1>1, DivMod
<1>3. QED
  BY <1>1, <1>2, DivMod DEF ByteOf, Byte

(* Less than a whole number of weights.                                    *)
LEMMA WeightedByte ==
  ASSUME NEW d \in Byte, NEW i \in Nat
  PROVE  /\ d * ByteWeight(i) \in Nat
         /\ d * ByteWeight(i) + ByteWeight(i) <= ByteWeight(i + 1)
<1>1. /\ ByteWeight(i) \in Nat /\ ByteSize \in Nat /\ d \in Nat /\ d + 1 <= ByteSize
      /\ ByteWeight(i + 1) = ByteSize * ByteWeight(i)
  BY Weights, Sizes DEF Byte
<1>2. \A a, b, c \in Nat : a + 1 <= b => a * c + c <= b * c
  <2> SUFFICES ASSUME NEW a \in Nat, NEW b \in Nat, NEW c \in Nat, a + 1 <= b
               PROVE  a * c + c <= b * c
    OBVIOUS
  <2>1. (b - (a + 1)) * c >= 0
    OBVIOUS
  <2>2. QED
    BY <2>1
<1>3. QED
  BY <1>1, <1>2

LEMMA BytesBelow ==
  ASSUME NEW n \in Nat, NEW f,
         \A i \in 0..(n - 1) : \E d \in Byte : f[i] = d * ByteWeight(i)
  PROVE  SumFunctionOnSet(f, 0..(n - 1)) \in 0..(ByteWeight(n) - 1)
<1>1. ASSUME NEW i \in 0..(n - 1)
      PROVE  f[i] \in Nat /\ f[i] + 2^(ByteBits * i) <= 2^(ByteBits * (i + 1))
  <2>1. PICK d \in Byte : f[i] = d * ByteWeight(i)
    OBVIOUS
  <2>2. i \in Nat
    OBVIOUS
  <2>3. d * ByteWeight(i) \in Nat /\ d * ByteWeight(i) + ByteWeight(i) <= ByteWeight(i + 1)
    BY <2>2, WeightedByte
  <2>4. QED
    BY <2>1, <2>3 DEF ByteWeight
<1>2. SumFunctionOnSet(f, 0..(n - 1)) \in 0..(2^(ByteBits * n) - 1)
  BY <1>1, Sizes, DigitsBelow
<1>3. QED
  BY <1>2 DEF ByteWeight

LEMMA BytesNext ==
  ASSUME NEW n \in Nat, NEW f,
         \A i \in 0..n : \E d \in Byte : f[i] = d * ByteWeight(i)
  PROVE  SumFunctionOnSet(f, 0..n) = SumFunctionOnSet(f, 0..(n - 1)) + f[n]
<1>1. ASSUME NEW i \in 0..n
      PROVE  f[i] \in Int
  <2>1. PICK d \in Byte : f[i] = d * ByteWeight(i)
    OBVIOUS
  <2>2. d * ByteWeight(i) \in Nat
    BY WeightedByte
  <2>3. QED
    BY <2>1, <2>2
<1>2. QED
  BY <1>1, SumNext

LEMMA WeightSplit ==
  ASSUME NEW k \in Nat, NEW n \in Nat, k < n
  PROVE  \E c \in Nat : ByteWeight(n) = ByteWeight(k) * (ByteSize * c)
<1>1. n - k - 1 \in Nat /\ (ByteBits * (k + 1)) \in Nat /\ ByteBits * (n - k - 1) \in Nat
  BY Sizes
<1>2. ByteBits * n = ByteBits * (k + 1) + ByteBits * (n - k - 1)
  <2>1. \A b \in Nat : b * n = b * (k + 1) + b * (n - k - 1)
    OBVIOUS
  <2>2. QED
    BY <2>1, Sizes
<1>3. 2^(ByteBits * (k + 1) + ByteBits * (n - k - 1))
        = 2^(ByteBits * (k + 1)) * 2^(ByteBits * (n - k - 1))
  BY <1>1, PowerSum
<1>4. ByteWeight(n) = ByteWeight(k + 1) * ByteWeight(n - k - 1)
  BY <1>2, <1>3 DEF ByteWeight
<1>5. ByteWeight(k + 1) = ByteSize * ByteWeight(k) /\ ByteWeight(k) \in Nat
      /\ ByteWeight(n - k - 1) \in Nat /\ ByteSize \in Nat
  BY <1>1, Weights, Sizes
<1>6. \A a, b, c \in Nat : (a * b) * c = b * (a * c)
  OBVIOUS
<1>7. ByteWeight(n) = ByteWeight(k) * (ByteSize * ByteWeight(n - k - 1))
  BY <1>4, <1>5, <1>6
<1>8. QED
  BY <1>5, <1>7

LEMMA ByteOfSum ==
  ASSUME NEW n \in Nat, NEW d, NEW f,
         \A i \in 0..(n - 1) : d[i] \in Byte /\ f[i] = d[i] * ByteWeight(i)
  PROVE  \A k \in 0..(n - 1) : ByteOf(SumFunctionOnSet(f, 0..(n - 1)), k) = d[k]
<1> DEFINE Sum(m) == SumFunctionOnSet(f, 0..(m - 1))
           Right(m) == \A k \in 0..(m - 1) : ByteOf(Sum(m), k) = d[k]
           N == {m \in Nat : m <= n => Right(m)}
<1>1. 0 \in N
  OBVIOUS
<1>2. ASSUME NEW m \in Nat, m \in N
      PROVE  m + 1 \in N
  <2> SUFFICES ASSUME m + 1 <= n, NEW k \in 0..m
               PROVE  ByteOf(SumFunctionOnSet(f, 0..m), k) = d[k]
    <3>1. (m + 1) - 1 = m
      OBVIOUS
    <3>2. QED
      BY <3>1
  <2> DEFINE W(i) == ByteWeight(i)
  <2>1. \A i \in 0..m : \E e \in Byte : f[i] = e * ByteWeight(i)
    OBVIOUS
  <2>2. SumFunctionOnSet(f, 0..m) = Sum(m) + d[m] * W(m)
    BY <2>1, BytesNext
  <2>3. Sum(m) \in 0..(W(m) - 1)
    BY <2>1, BytesBelow
  <2>4. W(m) \in Nat \ {0} /\ W(k) \in Nat \ {0} /\ ByteSize \in Nat \ {0}
        /\ d[m] \in Nat /\ d[m] \in 0..(ByteSize - 1)
    BY Weights, Sizes DEF Byte
  <2>5. CASE k = m
    <3> DEFINE s == Sum(m)
               w == W(m)
               e == d[m]
    <3>1. /\ s \in 0..(w - 1) /\ w \in Nat \ {0}
          /\ e \in Int /\ 0 <= e /\ e < ByteSize
      BY <2>3, <2>4
    <3>2. SumFunctionOnSet(f, 0..m) = s + e * w
      BY <2>2
    <3> HIDE DEF s, w, e
    <3>3. s + e * w = w * e + s
      BY <3>1
    <3>4. (w * e + s) \div w = e
      BY <3>1, DivModUnique
    <3>5. e % ByteSize = e
      BY <2>4, <3>1, ModNear
    <3>6. ByteOf(SumFunctionOnSet(f, 0..m), m) = e
      BY <3>2, <3>3, <3>4, <3>5 DEF ByteOf, w
    <3>7. QED
      BY <2>5, <3>6 DEF e
  <2>6. CASE k < m
    <3>1. PICK c \in Nat : W(m) = W(k) * (ByteSize * c)
      BY <2>6, WeightSplit
    <3> DEFINE s == Sum(m)
               w == W(k)
               q == d[m] * (ByteSize * c)
    <3>2. s \in Int /\ w \in Nat \ {0}
      BY <2>3, <2>4
    <3>3. d[m] * W(m) = w * q
      <4>1. \A a, b, e \in Nat : a * (b * e) = b * (a * e)
        OBVIOUS
      <4>2. ByteSize * c \in Nat
        BY <2>4
      <4>3. QED
        BY <2>4, <3>1, <4>1, <4>2
    <3>4. q = ByteSize * (d[m] * c) /\ d[m] * c \in Int /\ q \in Int
      BY <2>4
    <3>5. SumFunctionOnSet(f, 0..m) = s + w * q
      BY <2>2, <3>3
    <3> HIDE DEF s, w, q
    <3>6. (s + w * q) \div w = (s \div w) + q /\ s \div w \in Int
      BY <3>2, <3>4, DivModShift, DivMod
    <3>7. ((s \div w) + ByteSize * (d[m] * c)) % ByteSize = (s \div w) % ByteSize
      BY <2>4, <3>4, <3>6, DivModShift
    <3>8. ByteOf(SumFunctionOnSet(f, 0..m), k) = ByteOf(s, k)
      BY <3>4, <3>5, <3>6, <3>7 DEF ByteOf, w
    <3>9. ByteOf(Sum(m), k) = d[k]
      BY <1>2, <2>6
    <3>10. QED
      BY <3>8, <3>9 DEF s
  <2>7. QED
    BY <2>5, <2>6
<1>3. n \in N
  <2> HIDE DEF N
  <2>1. QED
    BY <1>1, <1>2, NumberInduction
<1>4. QED
  BY <1>3

LEMMA SumOfBytes ==
  ASSUME NEW n \in Nat, NEW x \in Int, NEW f,
         \A i \in 0..(n - 1) : f[i] = ByteOf(x, i) * ByteWeight(i)
  PROVE  SumFunctionOnSet(f, 0..(n - 1)) = x % ByteWeight(n)
<1> DEFINE Right(m) == SumFunctionOnSet(f, 0..(m - 1)) = x % ByteWeight(m)
           N == {m \in Nat : m <= n => Right(m)}
<1>1. 0 \in N
  <2>1. 0..(0 - 1) = {}
    OBVIOUS
  <2>2. SumFunctionOnSet(f, 0..(0 - 1)) = 0
    BY <2>1, SumEmpty, Zenon
  <2>3. x % ByteWeight(0) = 0
    BY Weights
  <2>4. QED
    BY <2>2, <2>3
<1>2. ASSUME NEW m \in Nat, m \in N
      PROVE  m + 1 \in N
  <2> SUFFICES ASSUME m + 1 <= n
               PROVE  SumFunctionOnSet(f, 0..m) = x % ByteWeight(m + 1)
    <3>1. (m + 1) - 1 = m
      OBVIOUS
    <3>2. QED
      BY <3>1
  <2> DEFINE w == ByteWeight(m)
             q == x \div w
             r == x % w
             b == q % ByteSize
             p == q \div ByteSize
  <2>1. \A i \in 0..m : \E e \in Byte : f[i] = e * ByteWeight(i)
    BY ByteOfType
  <2>2. SumFunctionOnSet(f, 0..m) = r + b * w
    <3>1. f[m] = b * w
      BY DEF ByteOf
    <3>2. SumFunctionOnSet(f, 0..(m - 1)) = r
      BY <1>2
    <3>3. QED
      BY <2>1, <3>1, <3>2, BytesNext
  <2>3. w \in Nat \ {0} /\ ByteSize \in Nat \ {0} /\ ByteWeight(m + 1) = ByteSize * w
    BY Weights, Sizes
  <2>4. q \in Int /\ r \in 0..(w - 1) /\ x = w * q + r
    BY <2>3, DivMod
  <2>5. p \in Int /\ b \in 0..(ByteSize - 1) /\ q = ByteSize * p + b
    BY <2>3, <2>4, DivMod
  <2>6. b * w + w <= ByteSize * w /\ b * w \in Nat /\ ByteSize * w \in Nat \ {0}
    <3>1. b \in Byte
      BY <2>5 DEF Byte
    <3>2. b * w \in Nat /\ b * w + w <= ByteWeight(m + 1)
      BY <3>1, WeightedByte
    <3> HIDE DEF b, w
    <3>3. QED
      BY <2>3, <3>2
  <2> HIDE DEF p, q, r, b, w
  <2>7. x = (ByteSize * w) * p + (r + b * w)
    <3>1. w * q = w * (ByteSize * p + b)
      BY <2>5
    <3>2. w * (ByteSize * p + b) = (ByteSize * w) * p + b * w
      BY <2>3, <2>5
    <3>3. (ByteSize * w) * p \in Int
      BY <2>3, <2>5
    <3>4. QED
      BY <2>4, <2>6, <3>1, <3>2, <3>3
  <2>8. r + b * w \in 0..(ByteSize * w - 1)
    BY <2>3, <2>4, <2>6
  <2>9. ((ByteSize * w) * p + (r + b * w)) % (ByteSize * w) = r + b * w
    BY <2>5, <2>6, <2>8, DivModUnique
  <2>10. QED
    BY <2>2, <2>3, <2>7, <2>9
<1>3. n \in N
  <2> HIDE DEF N
  <2>1. QED
    BY <1>1, <1>2, NumberInduction
<1>4. QED
  BY <1>3

-----------------------------------------------------------------------------
(* Operations on registers give registers.                                 *)

LEMMA SmallInReg ==
  /\ 0 \in Reg /\ 1 \in Reg /\ AllOnes \in Reg
  /\ \A p \in BOOLEAN : Number(p) \in {0, 1}
  /\ \A k \in 0..RegBits : k \in Reg
BY Sizes DEF Reg, AllOnes, Number

(* A shift distance, what stays below it and what stays above it.          *)
LEMMA SplitPower ==
  ASSUME NEW n \in 0..RegBits
  PROVE  /\ n \in Nat /\ RegBits - n \in Nat
         /\ 2^n \in Nat \ {0} /\ 2^(RegBits - n) \in Nat \ {0}
         /\ RegSize = 2^(RegBits - n) * 2^n
<1>1. n \in Nat /\ RegBits - n \in Nat /\ RegBits = (RegBits - n) + n
  BY Sizes
<1>2. 2^((RegBits - n) + n) = 2^(RegBits - n) * 2^n
  BY <1>1, PowerSum
<1>3. 2^((RegBits - n) + n) = RegSize
  BY <1>1 DEF RegSize
<1>4. 2^n \in Nat \ {0} /\ 2^(RegBits - n) \in Nat \ {0}
  BY <1>1, PowerNat
<1>5. QED
  BY <1>1, <1>2, <1>3, <1>4

LEMMA ShiftRightBelow ==
  ASSUME NEW a \in Reg, NEW n \in 0..RegBits
  PROVE  ShiftRight(a, n) \in 0..(2^(RegBits - n) - 1) /\ ShiftRight(a, n) \in Reg
<1>1. 2^n \in Nat \ {0} /\ 2^(RegBits - n) \in Nat \ {0} /\ RegSize = 2^(RegBits - n) * 2^n
  BY SplitPower
<1>2. a \in 0..(2^(RegBits - n) * 2^n - 1)
  BY <1>1 DEF Reg
<1>3. a \div 2^n \in 0..(2^(RegBits - n) - 1)
  BY <1>1, <1>2, DivBelow
<1>4. a \div 2^n \in 0..a
  BY <1>1, WordInReg, DivAtMost
<1>5. QED
  BY <1>3, <1>4, Sizes DEF ShiftRight, Reg

(* What a shift to the left leaves room for.                               *)
LEMMA ShiftLeftBelow ==
  ASSUME NEW a \in Reg, NEW n \in 0..RegBits
  PROVE  /\ ShiftLeft(a, n) \in Nat
         /\ ShiftLeft(a, n) + 2^n <= RegSize
         /\ ShiftLeft(a, n) \in Reg
<1> DEFINE u == 2^(RegBits - n)
           v == 2^n
           r == a % u
<1>1. u \in Nat \ {0} /\ v \in Nat \ {0} /\ RegSize = u * v
  BY SplitPower
<1>2. r \in 0..(u - 1)
  <2>1. a \in Int
    BY WordInReg
  <2> HIDE DEF u, v
  <2>2. QED
    BY <1>1, <2>1, DivMod
<1>3. ShiftLeft(a, n) = r * v
  BY DEF ShiftLeft
<1> HIDE DEF u, v, r
<1>4. r * v \in Nat /\ r * v + v <= u * v
  <2>1. r \in Nat /\ (u - (r + 1)) * v >= 0
    BY <1>1, <1>2
  <2>2. QED
    BY <1>1, <1>2, <2>1
<1>5. QED
  BY <1>1, <1>3, <1>4, Sizes DEF v, Reg

LEMMA RotateInReg ==
  ASSUME NEW a \in Reg, NEW n \in Nat
  PROVE  RotateLeft(a, n) \in Reg /\ RotateRight(a, n) \in Reg
<1>1. ASSUME NEW m \in Nat
      PROVE  RotateLeft(a, m) \in Reg
  <2> DEFINE k == m % RegBits
  <2>1. k \in 0..(RegBits - 1)
    BY Sizes, DivMod
  <2>2. k \in 0..RegBits /\ RegBits - k \in 0..RegBits /\ RegBits - (RegBits - k) = k
    BY <2>1, Sizes
  <2>3. ShiftLeft(a, k) \in Nat /\ ShiftLeft(a, k) + 2^k <= RegSize
    BY <2>2, ShiftLeftBelow
  <2>4. ShiftRight(a, RegBits - k) \in 0..(2^k - 1)
    BY <2>2, ShiftRightBelow
  <2>5. RotateLeft(a, m) = ShiftLeft(a, k) + ShiftRight(a, RegBits - k)
    BY DEF RotateLeft
  <2>6. 2^k \in Nat
    BY <2>2, SplitPower
  <2> HIDE DEF k
  <2>7. QED
    BY <2>3, <2>4, <2>5, <2>6, Sizes DEF Reg
<1>2. RegBits - (n % RegBits) \in Nat
  BY Sizes, DivMod
<1>3. QED
  BY <1>1, <1>2 DEF RotateRight

LEMMA ShiftArithmeticInReg ==
  ASSUME NEW a \in Reg, NEW n \in Nat
  PROVE  ShiftArithmetic(a, n) \in Reg
<1>1. Signed(a) \in Int /\ 2^n \in Nat \ {0}
  BY SignedReading, PowerNat
<1>2. Signed(a) \div 2^n \in Int
  BY <1>1, DivMod
<1>3. QED
  BY <1>2, ModReg DEF ShiftArithmetic

LEMMA WithBitInReg ==
  ASSUME NEW a \in Reg, NEW i \in 0..(RegBits - 1), NEW v \in {0, 1}
  PROVE  WithBit(a, i, v) \in Reg
<1> DEFINE p == 2^i
           q == a \div p
           r == a % p
           u == 2^(RegBits - 1 - i)
<1>1. i \in Nat /\ RegBits - 1 - i \in Nat /\ RegBits - i \in Nat /\ i \in 0..RegBits
      /\ RegBits - i = (RegBits - 1 - i) + 1
  BY Sizes
<1>2. 2^((RegBits - 1 - i) + 1) = 2 * 2^(RegBits - 1 - i) /\ u \in Nat \ {0}
  BY <1>1, PowerNext, PowerNat
<1>3. p \in Nat \ {0} /\ RegSize = 2^(RegBits - i) * p /\ 2^(RegBits - i) = 2 * u
  BY <1>1, <1>2, SplitPower
<1>4. q \in 0..(2 * u - 1)
  <2>1. ShiftRight(a, i) \in 0..(2^(RegBits - i) - 1)
    BY <1>1, ShiftRightBelow
  <2>2. QED
    BY <1>3, <2>1 DEF ShiftRight
<1>5. r \in 0..(p - 1) /\ a = p * q + r
  <2>1. a \in Int
    BY WordInReg
  <2> HIDE DEF p
  <2>2. QED
    BY <1>3, <2>1, DivMod
<1>6. WithBit(a, i, v) = a + (v - (q % 2)) * p
  BY DEF WithBit, Bit
<1>7. a \in 0..(RegSize - 1) /\ RegSize = (2 * u) * p
  BY <1>3 DEF Reg
<1> HIDE DEF p, q, r, u
<1>8. CASE q % 2 = v
  BY <1>3, <1>6, <1>7, <1>8 DEF Reg
<1>9. CASE q % 2 = 1 /\ v = 0
  <2>1. q >= 1
    BY <1>4, <1>9
  <2>2. (q - 1) * p >= 0 /\ (q - 1) * p = p * q - p
    BY <1>3, <1>4, <2>1
  <2>3. p * q \in Nat
    BY <1>3, <1>4
  <2>4. a + (0 - 1) * p = a - p
    BY <1>3, <1>7, Sizes
  <2>5. QED
    BY <1>3, <1>5, <1>6, <1>7, <1>9, <2>2, <2>3, <2>4, Sizes DEF Reg
<1>10. CASE q % 2 = 0 /\ v = 1
  <2>1. q + 2 <= 2 * u
    BY <1>2, <1>4, <1>10
  <2>2. (2 * u - (q + 2)) * p >= 0
    BY <1>2, <1>3, <1>4, <2>1
  <2>3. (2 * u - (q + 2)) * p = (2 * u) * p - p * q - 2 * p
    BY <1>2, <1>3, <1>4
  <2>4. p * q \in Nat
    BY <1>3, <1>4
  <2>5. a + (1 - 0) * p = a + p
    BY <1>3, <1>7, Sizes
  <2>6. QED
    BY <1>3, <1>5, <1>6, <1>7, <1>10, <2>2, <2>3, <2>4, <2>5, Sizes DEF Reg
<1>11. q % 2 \in {0, 1}
  BY <1>4, <1>2
<1>12. QED
  BY <1>8, <1>9, <1>10, <1>11

LEMMA QuotientInt ==
  ASSUME NEW a \in Int, NEW b \in Int, b # 0
  PROVE  Quotient(a, b) \in Int /\ Remainder(a, b) \in Int
<1>1. Magnitude(a) \in Int /\ Magnitude(b) \in Nat \ {0}
  BY DEF Magnitude
<1>2. Magnitude(a) \div Magnitude(b) \in Int
  BY <1>1, DivMod
<1> DEFINE q == Magnitude(a) \div Magnitude(b)
<1>3. Quotient(a, b) \in {q, -q}
  BY DEF Quotient
<1> HIDE DEF q
<1>4. q \in Int
  BY <1>2 DEF q
<1>5. Quotient(a, b) \in Int
  BY <1>3, <1>4
<1>6. b * Quotient(a, b) \in Int
  BY <1>5
<1>7. QED
  BY <1>5, <1>6 DEF Remainder

LEMMA HighProduct ==
  ASSUME NEW a \in Reg, NEW b \in Reg
  PROVE  (a * b) \div RegSize \in Reg
<1>1. RegSize \in Nat \ {0} /\ a \in 0..(RegSize - 1) /\ b \in 0..(RegSize - 1)
  BY Sizes DEF Reg
<1>2. a * b \in 0..(RegSize * RegSize - 1)
  <2>1. (RegSize - 1 - a) * b >= 0 /\ (RegSize - 1 - b) * RegSize >= 0
    BY <1>1
  <2>2. a * b \in Nat
    BY <1>1
  <2>3. a * b <= RegSize * RegSize - 1
    BY <1>1, <2>1
  <2>4. QED
    BY <1>1, <2>2, <2>3
<1>3. QED
  BY <1>1, <1>2, DivBelow DEF Reg

LEMMA SignedInt ==
  ASSUME NEW a \in Reg
  PROVE  Signed(a) \in Int /\ (Signed(a) = 0 <=> a = 0) /\ Magnitude(Signed(a)) \in Reg
<1>1. /\ a \in Nat /\ a < 2 * Half /\ Half \in Nat /\ Half > 0
      /\ Signed(a) = IF a >= Half THEN a - 2 * Half ELSE a
  BY SignedReading
<1>2. QED
  BY <1>1, Sizes DEF Magnitude, Reg

LEMMA RrrValueInReg ==
  ASSUME NEW op \in ValueOps, NEW a \in Reg, NEW b \in Reg
  PROVE  RrrValue(op, a, b) \in Reg
<1> DEFINE sa == Signed(a)
           sb == Signed(b)
           sh == b % RegBits
<1>1. sa \in Int /\ sb \in Int /\ (sb = 0 <=> b = 0) /\ a \in Int /\ b \in Int
      /\ a \in Nat /\ b \in Nat
  BY SignedInt, WordInReg
<1>2. sa * sb \in Int /\ (sa * sb) \div RegSize \in Int
  <2>1. sa * sb \in Int
    BY <1>1
  <2> HIDE DEF sa, sb
  <2>2. QED
    BY <2>1, Sizes, DivMod
<1>3. (sa * sb) % RegSize \in Reg /\ ((sa * sb) \div RegSize) % RegSize \in Reg
  BY <1>2, ModReg
<1>4. (a * b) % RegSize \in Reg /\ (a * b) \div RegSize \in Reg
  BY <1>1, ModReg, HighProduct
<1>5. b # 0 => /\ Quotient(sa, sb) % RegSize \in Reg
               /\ Remainder(sa, sb) % RegSize \in Reg
  BY <1>1, QuotientInt, ModReg
<1>6. b # 0 => a \div b \in Reg /\ a % b \in Reg
  <2>1. b # 0 => a \div b \in 0..a /\ a % b \in 0..a
    BY <1>1, DivAtMost, ModAtMost
  <2>2. \A x \in 0..a : x \in Reg
    BY Sizes DEF Reg
  <2>3. QED
    BY <2>1, <2>2
<1>7. \A p : Number(p) \in Reg
  BY SmallInReg DEF Number
<1>8. \A p : SmallerOf(p, a, b) \in Reg /\ SmallerOf(p, b, a) \in Reg
  BY DEF SmallerOf
<1>9. sh \in 0..(RegBits - 1) /\ sh \in Nat
  <2> HIDE DEF sa, sb
  <2>1. QED
    BY <1>1, Sizes, DivMod
<1>10. Bit(a, sh) \in {0, 1} /\ 1 - Bit(a, sh) \in {0, 1}
  <2> HIDE DEF sh
  <2>1. Bit(a, sh) \in {0, 1}
    BY <1>1, <1>9, BitType
  <2>2. QED
    BY <2>1
<1>11. /\ WithBit(a, sh, 1) \in Reg /\ WithBit(a, sh, 0) \in Reg
       /\ WithBit(a, sh, 1 - Bit(a, sh)) \in Reg
  <2> HIDE DEF sh
  <2>1. QED
    BY <1>9, <1>10, WithBitInReg
<1>12. Bit(a, sh) \in Reg
  BY <1>10, SmallInReg
<1> HIDE DEF sa, sb, sh
<1>13. CASE op \in {"MULR", "MULUR", "MULHR", "MULHUR"}
  BY <1>3, <1>4, <1>13 DEF RrrValue, sa, sb
<1>14. CASE op \in {"DIVR", "DIVUR", "MODR", "MODUR"}
  BY <1>5, <1>6, <1>14, SmallInReg DEF RrrValue, sa, sb
<1>15. CASE op \in {"CMPEQR", "CMPNER", "CMPLTR", "CMPLER", "CMPGTR", "CMPGER", "CMPULTR",
                    "CMPULER", "CMPUGTR", "CMPUGER"}
  BY <1>7, <1>15 DEF RrrValue
<1>16. CASE op \in {"MINR", "MAXR", "MINUR", "MAXUR"}
  BY <1>8, <1>16 DEF RrrValue
<1>17. CASE op \in {"BSETRR", "BCLRRR", "BTGLRR", "BTSTRR"}
  BY <1>11, <1>12, <1>17 DEF RrrValue, sh
<1>18. QED
  BY <1>13, <1>14, <1>15, <1>16, <1>17 DEF ValueOps

LEMMA BitwiseInReg ==
  ASSUME NEW a \in Nat, NEW b \in Nat
  PROVE  /\ BitAnd(a, b) \in Reg /\ BitOr(a, b) \in Reg /\ BitXor(a, b) \in Reg
         /\ ReverseBits(a) \in Reg /\ SwapBytes(a) \in Reg
<1>1. ASSUME NEW f, DOMAIN f = BitIndices,
             \A i \in BitIndices : \E bit \in {0, 1} : f[i] = bit * 2^i
      PROVE  SumFunction(f) \in Reg
  <2>1. ASSUME NEW i \in BitIndices
        PROVE  f[i] \in {0, 2^i}
    <3>1. 2^i \in Nat
      BY Sizes, PowerNat DEF BitIndices
    <3>2. QED
      BY <1>1, <3>1
  <2>2. QED
    BY <1>1, <2>1, BitsInReg
<1>2. \A i \in BitIndices : i \in Nat /\ RegBits - 1 - i \in Nat
  BY Sizes DEF BitIndices
<1>3. \A i \in Nat : Bit(a, i) \in {0, 1} /\ Bit(b, i) \in {0, 1}
  BY BitType
<1>4. BitAnd(a, b) \in Reg
  <2> DEFINE f == [i \in BitIndices |-> (Bit(a, i) * Bit(b, i)) * 2^i]
  <2>1. \A i \in BitIndices : Bit(a, i) * Bit(b, i) \in {0, 1}
    BY <1>2, <1>3
  <2>2. SumFunction(f) \in Reg
    BY <1>1, <2>1
  <2>3. QED
    BY <2>2 DEF BitAnd, FromBits
<1>5. BitOr(a, b) \in Reg
  <2> DEFINE f == [i \in BitIndices |-> Number(Bit(a, i) + Bit(b, i) > 0) * 2^i]
  <2>1. \A i \in BitIndices : Number(Bit(a, i) + Bit(b, i) > 0) \in {0, 1}
    BY DEF Number
  <2>2. SumFunction(f) \in Reg
    BY <1>1, <2>1
  <2>3. QED
    BY <2>2 DEF BitOr, FromBits
<1>6. BitXor(a, b) \in Reg
  <2> DEFINE f == [i \in BitIndices |-> ((Bit(a, i) + Bit(b, i)) % 2) * 2^i]
  <2>1. \A i \in BitIndices : (Bit(a, i) + Bit(b, i)) % 2 \in {0, 1}
    BY <1>2, <1>3
  <2>2. SumFunction(f) \in Reg
    BY <1>1, <2>1
  <2>3. QED
    BY <2>2 DEF BitXor, FromBits
<1>7. ReverseBits(a) \in Reg
  <2> DEFINE f == [i \in BitIndices |-> Bit(a, RegBits - 1 - i) * 2^i]
  <2>1. \A i \in BitIndices : Bit(a, RegBits - 1 - i) \in {0, 1}
    BY <1>2, <1>3
  <2>2. SumFunction(f) \in Reg
    BY <1>1, <2>1
  <2>3. QED
    BY <2>2 DEF ReverseBits, FromBits
<1>8. SwapBytes(a) \in Reg
  <2> DEFINE at(i) == (7 - (i \div ByteBits)) * ByteBits + (i % ByteBits)
             f == [i \in BitIndices |-> Bit(a, at(i)) * 2^i]
  <2>1. ASSUME NEW i \in BitIndices
        PROVE  at(i) \in Nat
    <3>1. ByteBits \in Nat \ {0} /\ i \in 0..(8 * ByteBits - 1) /\ i \in Int
      BY Sizes DEF BitIndices, RegBits
    <3>2. i \div ByteBits \in 0..(8 - 1)
      BY <3>1, DivBelow
    <3>3. i % ByteBits \in Nat
      BY <3>1, DivMod
    <3>4. (7 - (i \div ByteBits)) * ByteBits \in Nat
      BY <3>1, <3>2
    <3>5. QED
      BY <3>3, <3>4
  <2>2. \A i \in BitIndices : Bit(a, at(i)) \in {0, 1}
    BY <1>3, <2>1
  <2>3. SumFunction(f) \in Reg
    BY <1>1, <2>2
  <2>4. QED
    BY <2>3 DEF SwapBytes, FromBits
<1>9. QED
  BY <1>4, <1>5, <1>6, <1>7, <1>8

LEMMA RrrLogicInReg ==
  ASSUME NEW op \in ZeroFlagOps, NEW a \in Reg, NEW b \in Reg
  PROVE  RrrLogic(op, a, b) \in Reg
<1> DEFINE sh == b % RegBits
<1>1. a \in Nat /\ b \in Nat
  BY WordInReg
<1>2. sh \in 0..RegBits /\ sh \in Nat
  BY <1>1, Sizes, DivMod
<1> HIDE DEF sh
<1>3. /\ BitAnd(a, b) \in Reg /\ BitOr(a, b) \in Reg /\ BitXor(a, b) \in Reg
  BY <1>1, BitwiseInReg
<1>4. /\ ShiftLeft(a, sh) \in Reg /\ ShiftRight(a, sh) \in Reg
      /\ ShiftArithmetic(a, sh) \in Reg
      /\ RotateLeft(a, sh) \in Reg /\ RotateRight(a, sh) \in Reg
  BY <1>2, ShiftLeftBelow, ShiftRightBelow, ShiftArithmeticInReg, RotateInReg
<1>5. QED
  BY <1>3, <1>4 DEF RrrLogic, ZeroFlagOps, sh

LEMMA OnesOf ==
  ASSUME NEW a \in Reg
  PROVE  /\ LeadingZeros(a) \in Reg /\ TrailingZeros(a) \in Reg
         /\ Cardinality(Ones(a)) \in Reg
<1>1. RegBits \in Nat /\ RegBits - 1 \in Nat /\ Ones(a) \in SUBSET (0..(RegBits - 1))
  BY Sizes DEF Ones, BitIndices
<1>2. Cardinality(Ones(a)) \in 0..RegBits
  <2>1. IsFiniteSet(0..(RegBits - 1)) /\ Cardinality(0..(RegBits - 1)) = RegBits
    BY <1>1, FS_Interval
  <2>2. Cardinality(Ones(a)) <= RegBits /\ IsFiniteSet(Ones(a))
    BY <1>1, <2>1, FS_Subset
  <2>3. Cardinality(Ones(a)) \in Nat
    BY <2>2, FS_CardinalityType
  <2>4. QED
    BY <1>1, <2>2, <2>3
<1>3. a # 0 => Ones(a) # {}
  <2> SUFFICES ASSUME a # 0
               PROVE  Ones(a) # {}
    OBVIOUS
  <2>1. a \in 1..(2^RegBits - 1)
    BY Sizes DEF Reg, RegSize
  <2>2. PICK i \in 0..(RegBits - 1) : Bit(a, i) = 1
    BY <1>1, <2>1, NonzeroHasBit
  <2>3. QED
    BY <2>2 DEF Ones, BitIndices
<1>4. a # 0 => Min(Ones(a)) \in 0..(RegBits - 1) /\ Max(Ones(a)) \in 0..(RegBits - 1)
  BY <1>1, <1>3, MinMax
<1>5. LeadingZeros(a) \in 0..RegBits /\ TrailingZeros(a) \in 0..RegBits
  <2>1. CASE a = 0
    BY <1>1, <2>1 DEF LeadingZeros, TrailingZeros
  <2>2. CASE a # 0
    BY <1>1, <1>4, <2>2 DEF LeadingZeros, TrailingZeros
  <2>3. QED
    BY <2>1, <2>2
<1>6. QED
  BY <1>2, <1>5, SmallInReg

LEMMA FlagsRegisterInReg ==
  ASSUME NEW old
  PROVE  FlagsRegister(old) \in Reg
<1> DEFINE q == 2^(RegBits - 4)
<1>1. /\ RegBits - 4 \in Nat /\ RegBits - 3 = (RegBits - 4) + 1
      /\ RegBits - 2 = (RegBits - 3) + 1 /\ RegBits - 1 = (RegBits - 2) + 1
      /\ RegBits - 3 \in Nat /\ RegBits - 2 \in Nat
  BY Sizes
<1>2. q \in Nat \ {0}
  BY <1>1, PowerNat
<1>3. 2^(RegBits - 3) = 2 * q
  <2>1. 2^((RegBits - 4) + 1) = 2 * 2^(RegBits - 4)
    BY <1>1, PowerNext
  <2>2. QED
    BY <1>1, <2>1
<1>4. 2^(RegBits - 2) = 2 * 2^(RegBits - 3)
  <2>1. 2^((RegBits - 3) + 1) = 2 * 2^(RegBits - 3)
    BY <1>1, PowerNext
  <2>2. QED
    BY <1>1, <2>1
<1>5. 2^(RegBits - 1) = 2 * 2^(RegBits - 2)
  <2>1. 2^((RegBits - 2) + 1) = 2 * 2^(RegBits - 2)
    BY <1>1, PowerNext
  <2>2. QED
    BY <1>1, <2>1
<1> HIDE DEF q
<1>6. 2^(RegBits - 2) = 4 * q /\ 2^(RegBits - 1) = 8 * q /\ RegSize = 16 * q
  BY <1>2, <1>3, <1>4, <1>5, Sizes DEF Half
<1> DEFINE z == Number(old.zero)
           e == Number(old.equal)
           c == Number(old.carry)
           o == Number(old.overflow)
<1>7. z \in {0, 1} /\ e \in {0, 1} /\ c \in {0, 1} /\ o \in {0, 1}
  BY DEF Number
<1>8. FlagsRegister(old) = z * (8 * q) + e * (4 * q) + c * (2 * q) + o * q
  BY <1>3, <1>6 DEF FlagsRegister, q
<1> HIDE DEF z, e, c, o
<1>9. /\ z * (8 * q) \in 0..(8 * q) /\ e * (4 * q) \in 0..(4 * q)
      /\ c * (2 * q) \in 0..(2 * q) /\ o * q \in 0..q
  <2>1. z * (8 * q) \in {0, 8 * q} /\ e * (4 * q) \in {0, 4 * q}
        /\ c * (2 * q) \in {0, 2 * q} /\ o * q \in {0, q}
    BY <1>2, <1>7
  <2>2. QED
    BY <1>2, <2>1
<1>10. QED
  BY <1>2, <1>6, <1>8, <1>9 DEF Reg

-----------------------------------------------------------------------------
(* Flags: what an operation may do to them, and what its result is.        *)
KeepsCompare(old, new) ==
  /\ new \in Flags
  /\ new.equal = old.equal /\ new.less = old.less /\ new.ult = old.ult

Outcome(old, o) == o.result \in Reg /\ KeepsCompare(old, o.flags)

LEMMA SetZSKeeps ==
  ASSUME NEW old \in Flags, NEW res
  PROVE  KeepsCompare(old, SetZS(old, res))
BY DEF KeepsCompare, SetZS, Flags

LEMMA PlainOutcome ==
  ASSUME NEW old, NEW f \in Flags, KeepsCompare(old, f), NEW res \in Reg
  PROVE  Outcome(old, Plain(f, res))
BY DEF Outcome, Plain

LEMMA ZeroOutcome ==
  ASSUME NEW old, NEW f \in Flags, KeepsCompare(old, f), NEW res \in Reg
  PROVE  Outcome(old, Zero(f, res)) /\ Outcome(old, ZeroSign(f, res))
<1>1. KeepsCompare(old, [f EXCEPT !.zero = (res = 0)])
  BY DEF KeepsCompare, Flags
<1>2. KeepsCompare(old, SetZS(f, res))
  BY DEF KeepsCompare, Flags, SetZS
<1>3. QED
  BY <1>1, <1>2 DEF Outcome, Zero, ZeroSign

LEMMA AddFlagsOutcome ==
  ASSUME NEW old \in Flags, NEW a \in Int, NEW b \in Int, NEW c \in Int
  PROVE  Outcome(old, AddFlags(old, a, b, c)) /\ Outcome(old, SubFlags(old, a, b, c))
<1>1. (((a + b) % RegSize) + c) % RegSize \in Reg /\ (((a - b) % RegSize) - c) % RegSize \in Reg
  <2>1. (a + b) % RegSize \in Int /\ (a - b) % RegSize \in Int
    <3>1. a + b \in Int /\ a - b \in Int
      OBVIOUS
    <3>2. (a + b) % RegSize \in Reg /\ (a - b) % RegSize \in Reg
      BY <3>1, ModReg
    <3>3. QED
      BY <3>1, Sizes, DivMod
  <2>2. QED
    BY <2>1, ModReg
<1>2. ASSUME NEW f, KeepsCompare(old, f), NEW p \in BOOLEAN, NEW q \in BOOLEAN
      PROVE  KeepsCompare(old, [f EXCEPT !.carry = p, !.overflow = q])
  BY <1>2 DEF KeepsCompare, Flags
<1>3. Outcome(old, AddFlags(old, a, b, c))
  <2> DEFINE res == (((a + b) % RegSize) + c) % RegSize
             p == CarryOut(a, b, c)
             q == SignBit(a) = SignBit(b) /\ SignBit(res) # SignBit(a)
             f == SetZS(old, res)
  <2>1. KeepsCompare(old, f)
    BY SetZSKeeps
  <2>2. p \in BOOLEAN /\ q \in BOOLEAN
    BY Zenon DEF CarryOut
  <2>3. AddFlags(old, a, b, c)
          = [result |-> res, flags |-> [f EXCEPT !.carry = p, !.overflow = q]]
    BY DEF AddFlags
  <2> HIDE DEF f, p, q, res
  <2>4. KeepsCompare(old, [f EXCEPT !.carry = p, !.overflow = q])
    BY <1>2, <2>1, <2>2
  <2>5. QED
    BY <1>1, <2>3, <2>4 DEF Outcome, res
<1>4. Outcome(old, SubFlags(old, a, b, c))
  <2> DEFINE s1 == (a - b) % RegSize
             res == (s1 - c) % RegSize
             p == a < b \/ s1 < c
             q == SignBit(a) # SignBit(b) /\ SignBit(res) # SignBit(a)
             f == SetZS(old, res)
  <2>1. KeepsCompare(old, f)
    BY SetZSKeeps
  <2>2. p \in BOOLEAN /\ q \in BOOLEAN
    BY Zenon
  <2>3. SubFlags(old, a, b, c)
          = [result |-> res, flags |-> [f EXCEPT !.carry = p, !.overflow = q]]
    BY DEF SubFlags
  <2> HIDE DEF f, p, q, res
  <2>4. KeepsCompare(old, [f EXCEPT !.carry = p, !.overflow = q])
    BY <1>2, <2>1, <2>2
  <2>5. QED
    BY <1>1, <2>3, <2>4 DEF Outcome, res
<1>5. QED
  BY <1>3, <1>4

LEMMA FlagsKeepCompare ==
  ASSUME NEW old \in Flags
  PROVE  /\ KeepsCompare(old, old)
         /\ \A p \in BOOLEAN : /\ KeepsCompare(old, [old EXCEPT !.zero = p])
                               /\ KeepsCompare(old, [old EXCEPT !.carry = p])
                               /\ KeepsCompare(old, [old EXCEPT !.overflow = p])
BY DEF KeepsCompare, Flags

LEMMA RrrOutcome ==
  ASSUME NEW op \in RrrOps, NEW a \in Reg, NEW b \in Reg, NEW old \in Flags
  PROVE  Outcome(old, Rrr(op, a, b, old))
<1>1. KeepsCompare(old, old)
  BY FlagsKeepCompare
<1>2. CASE op \in ValueOps
  <2>1. RrrValue(op, a, b) \in Reg
    BY <1>2, RrrValueInReg
  <2>2. Outcome(old, Plain(old, RrrValue(op, a, b)))
    BY <1>1, <2>1, PlainOutcome
  <2>3. QED
    BY <1>2, <2>2 DEF Rrr, ValueOps, ZeroFlagOps
<1>3. CASE op \in ZeroFlagOps
  <2>1. RrrLogic(op, a, b) \in Reg
    BY <1>3, RrrLogicInReg
  <2>2. Outcome(old, Zero(old, RrrLogic(op, a, b)))
    BY <1>1, <2>1, ZeroOutcome
  <2>3. QED
    BY <1>3, <2>2 DEF Rrr, ValueOps, ZeroFlagOps
<1>4. CASE op \in AddOps
  <2>1. a \in Int /\ b \in Int /\ Number(old.carry) \in Int
    BY WordInReg DEF Number
  <2>2. /\ Outcome(old, AddFlags(old, a, b, 0)) /\ Outcome(old, SubFlags(old, a, b, 0))
        /\ Outcome(old, AddFlags(old, a, b, Number(old.carry)))
        /\ Outcome(old, SubFlags(old, a, b, Number(old.carry)))
    BY <2>1, AddFlagsOutcome
  <2>3. QED
    BY <1>4, <2>2 DEF Rrr, AddOps, ValueOps, ZeroFlagOps
<1>5. QED
  BY <1>2, <1>3, <1>4 DEF RrrOps

LEMMA SignBitShape ==
  ASSUME NEW old \in Flags, NEW p
  PROVE  KeepsCompare(old, [old EXCEPT !.carry = (p = 1)])
<1>1. (p = 1) \in BOOLEAN
  OBVIOUS
<1>2. QED
  BY <1>1, FlagsKeepCompare, Zenon

LEMMA UnaryInReg ==
  ASSUME NEW a \in Reg
  PROVE  /\ (-a) % RegSize \in Reg /\ BitNot(a) \in Reg
         /\ a % ByteSize \in Reg /\ a % ByteWeight(2) \in Reg /\ a % WordSize \in Reg
         /\ \A c \in {0, 1} : /\ ShiftLeft(a, 1) + c \in Reg
                              /\ ShiftRight(a, 1) + c * 2^(RegBits - 1) \in Reg
<1>1. a \in Nat /\ a \in Int /\ -a \in Int /\ a \in 0..(RegSize - 1)
  BY WordInReg DEF Reg
<1>2. (-a) % RegSize \in Reg
  BY <1>1, ModReg
<1>3. BitNot(a) \in Reg
  BY <1>1, Sizes DEF BitNot, Reg
<1>4. \A n \in Nat \ {0} : a % n \in Reg
  <2>1. \A n \in Nat \ {0} : a % n \in 0..a
    BY <1>1, ModAtMost
  <2>2. \A x \in 0..a : x \in Reg
    BY <1>1, Sizes DEF Reg
  <2>3. QED
    BY <2>1, <2>2
<1>5. a % ByteSize \in Reg /\ a % ByteWeight(2) \in Reg /\ a % WordSize \in Reg
  <2>1. ByteSize \in Nat \ {0} /\ ByteWeight(2) \in Nat \ {0} /\ WordSize \in Nat \ {0}
    BY Sizes, Weights
  <2>2. QED
    BY <1>4, <2>1
<1>6. 2^1 = 2 /\ 1 \in 0..RegBits
  BY Sizes
<1>7. ShiftLeft(a, 1) \in Nat /\ ShiftLeft(a, 1) + 2 <= RegSize
  BY <1>6, ShiftLeftBelow
<1>8. ShiftRight(a, 1) \in 0..(Half - 1)
  <2>1. ShiftRight(a, 1) \in 0..(2^(RegBits - 1) - 1)
    BY <1>6, ShiftRightBelow
  <2>2. QED
    BY <2>1 DEF Half
<1>9. ASSUME NEW c \in {0, 1}
      PROVE  ShiftLeft(a, 1) + c \in Reg /\ ShiftRight(a, 1) + c * 2^(RegBits - 1) \in Reg
  <2>1. ShiftLeft(a, 1) + c \in Reg
    BY <1>7, Sizes DEF Reg
  <2>2. c * Half \in {0, Half}
    BY Sizes
  <2>3. ShiftRight(a, 1) + c * Half \in Reg
    BY <1>8, <2>2, Sizes DEF Reg
  <2>4. QED
    BY <2>1, <2>3 DEF Half
<1>10. QED
  BY <1>2, <1>3, <1>5, <1>9

LEMMA RvUnaryOutcome ==
  ASSUME NEW op \in OneWordRv, NEW a \in Reg, NEW old \in Flags
  PROVE  Outcome(old, RvUnary(op, a, old))
<1>1. KeepsCompare(old, old) /\ KeepsCompare(old, [old EXCEPT !.overflow = FALSE])
  BY FlagsKeepCompare
<1>2. \A res \in Reg : /\ Outcome(old, Plain(old, res)) /\ Outcome(old, Zero(old, res))
                       /\ Outcome(old, ZeroSign(old, res))
  BY <1>1, PlainOutcome, ZeroOutcome
<1>3. a \in Nat /\ a \in Int /\ 1 \in Int
  BY WordInReg
<1>4. CASE op \in {"INCR", "DECR"}
  <2>1. Outcome(old, AddFlags(old, a, 1, 0)) /\ Outcome(old, SubFlags(old, a, 1, 0))
    BY <1>3, AddFlagsOutcome
  <2>2. QED
    BY <1>4, <2>1 DEF RvUnary
<1>5. CASE op \in {"SETFR", "NEGR", "NOTR"}
  BY <1>2, <1>5, FlagsRegisterInReg, UnaryInReg DEF RvUnary
<1>6. CASE op = "ABSR"
  <2>1. Magnitude(Signed(a)) \in Reg /\ [old EXCEPT !.overflow = FALSE] \in Flags
    BY <1>1, SignedInt DEF KeepsCompare
  <2>2. Outcome(old, Zero([old EXCEPT !.overflow = FALSE], Magnitude(Signed(a))))
    BY <1>1, <2>1, ZeroOutcome
  <2>3. QED
    BY <1>6, <2>2 DEF RvUnary
<1>7. CASE op \in {"SEXTB", "SEXTH", "SEXTW"}
  <2>1. ByteBits \in Nat \ {0} /\ 2 * ByteBits \in Nat \ {0} /\ WordBits \in Nat \ {0}
    BY Sizes
  <2>2. /\ SignExtend(a, ByteBits) \in Reg /\ SignExtend(a, 2 * ByteBits) \in Reg
        /\ SignExtend(a, WordBits) \in Reg
    BY <1>3, <2>1, SignExtendReg
  <2>3. QED
    BY <1>2, <1>7, <2>2 DEF RvUnary
<1>8. CASE op \in {"ZEXTB", "ZEXTH", "ZEXTW"}
  BY <1>2, <1>8, UnaryInReg DEF RvUnary
<1>9. CASE op \in {"SHLR1", "SHLAR", "SHRR1", "SHRAR", "ROLR1", "RORR1"}
  <2>1. 1 \in 0..RegBits /\ 1 \in Nat
    BY Sizes
  <2>2. /\ ShiftLeft(a, 1) \in Reg /\ ShiftRight(a, 1) \in Reg
        /\ ShiftArithmetic(a, 1) \in Reg
        /\ RotateLeft(a, 1) \in Reg /\ RotateRight(a, 1) \in Reg
    BY <2>1, ShiftLeftBelow, ShiftRightBelow, ShiftArithmeticInReg, RotateInReg
  <2>3. QED
    BY <1>2, <1>9, <2>2 DEF RvUnary
<1>10. CASE op \in {"ROLCR", "RORCR"}
  <2> DEFINE c == Number(old.carry)
             f == [old EXCEPT !.carry = (SignBit(a) = 1)]
             g == [old EXCEPT !.carry = (a % 2 = 1)]
  <2>1. c \in {0, 1}
    BY DEF Number
  <2>2. ShiftLeft(a, 1) + c \in Reg /\ ShiftRight(a, 1) + c * 2^(RegBits - 1) \in Reg
    BY <2>1, UnaryInReg
  <2>3. KeepsCompare(old, f) /\ KeepsCompare(old, g)
    BY SignBitShape
  <2> HIDE DEF f, g
  <2>4. f \in Flags /\ g \in Flags
    BY <2>3 DEF KeepsCompare
  <2>5. /\ Outcome(old, Plain(f, ShiftLeft(a, 1) + c))
        /\ Outcome(old, Plain(g, ShiftRight(a, 1) + c * 2^(RegBits - 1)))
    BY <2>2, <2>3, <2>4, PlainOutcome
  <2>6. QED
    BY <1>10, <2>5 DEF RvUnary, f, g
<1>11. CASE op \in {"BSWAP", "BITREV", "POPCNT", "CLZ", "CTZ"}
  <2>1. SwapBytes(a) \in Reg /\ ReverseBits(a) \in Reg
    BY <1>3, BitwiseInReg
  <2>2. QED
    BY <1>2, <1>11, <2>1, OnesOf DEF RvUnary
<1>12. QED
  BY <1>4, <1>5, <1>6, <1>7, <1>8, <1>9, <1>10, <1>11 DEF OneWordRv

LEMMA FieldInReg ==
  ASSUME NEW a \in Reg, NEW imm \in Word
  PROVE  BitsExtracted(a, imm) \in Reg /\ BitsDeposited(a, imm) \in Reg
<1>1. imm \in Nat /\ a \in Nat /\ WordBits \in Nat \ {0} /\ ByteSize \in Nat \ {0}
      /\ WordSize \in Nat \ {0}
  BY WordInReg, Sizes
<1> DEFINE start == FieldStart(imm)
           length == FieldLength(imm)
<1>2. start \in Nat /\ length \in Nat
  <2>1. imm \div ByteSize \in Nat
    BY <1>1, DivAtMost
  <2>2. QED
    BY <1>1, <2>1, ModAtMost DEF FieldStart, FieldLength
<1> HIDE DEF start, length
<1>3. BitsExtracted(a, imm) \in Reg
  <2>1. 2^start \in Nat \ {0} /\ 2^length \in Nat \ {0}
    BY <1>2, PowerNat
  <2> DEFINE x == a % WordSize
             y == x \div 2^start
             z == y % 2^length
  <2>2. x \in 0..a
    BY <1>1, ModAtMost
  <2>3. y \in 0..x
    BY <1>1, <2>1, <2>2, DivAtMost
  <2> HIDE DEF x
  <2>4. y \in Nat /\ x \in Nat
    BY <1>1, <2>2, <2>3
  <2> HIDE DEF y
  <2>5. z \in 0..y
    BY <2>1, <2>4, ModAtMost
  <2>6. BitsExtracted(a, imm) = z
    BY DEF BitsExtracted, start, length, x, y
  <2> HIDE DEF z
  <2>7. QED
    BY <1>1, <2>2, <2>3, <2>4, <2>5, <2>6, Sizes DEF Reg
<1>4. BitsDeposited(a, imm) \in Reg
  <2> DEFINE bit(i) == IF i >= WordBits THEN 0
                       ELSE IF i \in start..(start + length - 1)
                            THEN Bit(a, i - start) ELSE Bit(a, i)
             f == [i \in BitIndices |-> bit(i) * 2^i]
  <2>1. ASSUME NEW i \in BitIndices
        PROVE  bit(i) \in {0, 1} /\ f[i] \in {0, 2^i}
    <3>1. i \in Nat /\ 2^i \in Nat
      BY Sizes, PowerNat DEF BitIndices
    <3>2. i \in start..(start + length - 1) => i - start \in Nat
      BY <1>2, <3>1
    <3>3. bit(i) \in {0, 1}
      BY <1>1, <3>1, <3>2, BitType
    <3> HIDE DEF bit
    <3>4. QED
      BY <3>1, <3>3
  <2>2. SumFunction(f) \in Reg
    <3>1. DOMAIN f = BitIndices
      OBVIOUS
    <3> HIDE DEF f
    <3>2. QED
      BY <2>1, <3>1, BitsInReg
  <2>3. QED
    BY <2>2 DEF BitsDeposited, FromBits, start, length
<1>5. QED
  BY <1>3, <1>4

LEMMA CompareFlags ==
  ASSUME NEW old \in Flags, NEW a \in Reg, NEW b \in Reg
  PROVE  /\ Compare(old, a, b) \in Flags
         /\ Compare(old, a, b).equal = (a = b)
         /\ Compare(old, a, b).less = (Signed(a) < Signed(b))
         /\ Compare(old, a, b).ult = (a < b)
<1> DEFINE p == a = b
           q == Signed(a) < Signed(b)
           r == a < b
           t == SignBit((a - b) % RegSize) = 1
<1>1. a \in Int /\ b \in Int /\ Signed(a) \in Int /\ Signed(b) \in Int
  BY WordInReg, SignedInt
<1>2. p \in BOOLEAN /\ q \in BOOLEAN /\ r \in BOOLEAN /\ t \in BOOLEAN
  BY <1>1
<1>3. Compare(old, a, b)
        = [old EXCEPT !.equal = p, !.less = q, !.ult = r, !.sign = t]
  BY DEF Compare
<1> HIDE DEF p, q, r, t
<1> DEFINE f == [old EXCEPT !.equal = p, !.less = q, !.ult = r, !.sign = t]
<1>4. f \in Flags /\ f.equal = p /\ f.less = q /\ f.ult = r
  BY <1>2 DEF Flags
<1> HIDE DEF f
<1>5. QED
  BY <1>3, <1>4, Zenon DEF f, p, q, r

LEMMA RvImmediateOutcome ==
  ASSUME NEW op \in TwoWordRv \ {"CMPRV", "LEAPC"}, NEW a \in Reg, NEW imm \in Word,
         NEW old \in Flags
  PROVE  Outcome(old, RvImmediate(op, a, imm, old))
<1> DEFINE extended == SignExtend(imm, WordBits)
           d == Signed(extended)
           sh == imm % RegBits
<1>1. KeepsCompare(old, old)
  BY FlagsKeepCompare
<1>2. \A res \in Reg : Outcome(old, Plain(old, res)) /\ Outcome(old, Zero(old, res))
  BY <1>1, PlainOutcome, ZeroOutcome
<1>3. a \in Nat /\ a \in Int /\ imm \in Nat /\ imm \in Int
  BY WordInReg
<1>4. extended \in Reg
  BY <1>3, Sizes, SignExtendReg
<1>5. sh \in 0..(RegBits - 1) /\ sh \in 0..RegBits /\ sh \in Nat
  BY <1>3, Sizes, DivMod
<1>6. d \in Int /\ Signed(a) \in Int
  BY <1>4, SignedInt
<1> HIDE DEF sh, d, extended
<1>7. Bit(a, sh) \in {0, 1} /\ 1 - Bit(a, sh) \in {0, 1}
  <2>1. Bit(a, sh) \in {0, 1}
    BY <1>3, <1>5, BitType
  <2>2. QED
    BY <2>1
<1>8. CASE op = "SETR"
  BY <1>2, <1>4, <1>8 DEF RvImmediate, extended
<1>9. CASE op \in {"ADDV", "MINUSV"}
  <2>1. Outcome(old, AddFlags(old, a, imm, 0)) /\ Outcome(old, SubFlags(old, a, imm, 0))
    BY <1>3, AddFlagsOutcome
  <2>2. QED
    BY <1>9, <2>1 DEF RvImmediate
<1>10. CASE op \in {"ANDV", "ORV", "XORV"}
  <2>1. BitAnd(a, imm) \in Reg /\ BitOr(a, imm) \in Reg /\ BitXor(a, imm) \in Reg
    BY <1>3, BitwiseInReg
  <2>2. QED
    BY <1>2, <1>10, <2>1 DEF RvImmediate
<1>11. CASE op \in {"SHLV", "SHRV", "SHRAV", "ROLV", "RORV"}
  <2>1. /\ ShiftLeft(a, sh) \in Reg /\ ShiftRight(a, sh) \in Reg
        /\ ShiftArithmetic(a, sh) \in Reg
        /\ RotateLeft(a, sh) \in Reg /\ RotateRight(a, sh) \in Reg
    BY <1>5, ShiftLeftBelow, ShiftRightBelow, ShiftArithmeticInReg, RotateInReg
  <2>2. QED
    BY <1>2, <1>11, <2>1 DEF RvImmediate, sh
<1>12. CASE op \in {"BSET", "BCLR", "BTGL"}
  <2>1. /\ WithBit(a, sh, 1) \in Reg /\ WithBit(a, sh, 0) \in Reg
        /\ WithBit(a, sh, 1 - Bit(a, sh)) \in Reg
    BY <1>5, <1>7, WithBitInReg
  <2>2. QED
    BY <1>2, <1>12, <2>1 DEF RvImmediate, sh
<1>13. CASE op = "BTST"
  <2> DEFINE f == [old EXCEPT !.zero = (Bit(a, sh) = 0)]
  <2>1. KeepsCompare(old, f)
    BY DEF KeepsCompare, Flags
  <2> HIDE DEF f
  <2>2. f \in Flags
    BY <2>1 DEF KeepsCompare
  <2>3. Outcome(old, Plain(f, a))
    BY <2>1, <2>2, PlainOutcome
  <2>4. QED
    BY <1>13, <2>3 DEF RvImmediate, f, sh
<1>14. CASE op \in {"BEXTR", "BDEP"}
  BY <1>2, <1>14, FieldInReg DEF RvImmediate
<1>15. CASE op = "MULV"
  <2>1. Signed(a) * d \in Int
    BY <1>6
  <2>2. (Signed(a) * d) % RegSize \in Reg
    BY <2>1, ModReg
  <2>3. QED
    BY <1>2, <1>15, <2>2 DEF RvImmediate, d, extended
<1>16. CASE op \in {"DIVV", "MODV"}
  <2> DEFINE f == [old EXCEPT !.overflow = TRUE]
  <2>1. KeepsCompare(old, f)
    BY FlagsKeepCompare
  <2> HIDE DEF f
  <2>2. f \in Flags
    BY <2>1 DEF KeepsCompare
  <2>3. Outcome(old, Plain(f, AllOnes)) /\ Outcome(old, Plain(f, a))
    BY <2>1, <2>2, SmallInReg, PlainOutcome
  <2>4. d # 0 => /\ Quotient(Signed(a), d) % RegSize \in Reg
                 /\ Remainder(Signed(a), d) % RegSize \in Reg
    BY <1>6, QuotientInt, ModReg
  <2>5. Outcome(old, Divided(old, a, d)) /\ Outcome(old, Reduced(old, a, d))
    BY <1>2, <2>3, <2>4 DEF Divided, Reduced, f
  <2>6. QED
    BY <1>16, <2>5 DEF RvImmediate, d, extended
<1>17. QED
  BY <1>8, <1>9, <1>10, <1>11, <1>12, <1>13, <1>14, <1>15, <1>16 DEF TwoWordRv

-----------------------------------------------------------------------------
(* Additions and subtractions, as sums of the integers they stand for.     *)

LEMMA ModSize ==
  ASSUME NEW x \in Int, -RegSize <= x, x < 2 * RegSize
  PROVE  x % RegSize = IF x < 0 THEN x + 2 * Half
                       ELSE IF x < 2 * Half THEN x ELSE x - 2 * Half
<1>1. RegSize \in Nat \ {0}
  BY Sizes
<1>2. /\ 0 <= x /\ x < RegSize => x % RegSize = x
      /\ RegSize <= x /\ x < 2 * RegSize => x % RegSize = x - RegSize
      /\ -RegSize <= x /\ x < 0 => x % RegSize = x + RegSize
  BY <1>1, ModNear
<1> DEFINE r == x % RegSize
<1>3. /\ 0 <= x /\ x < RegSize => r = x
      /\ RegSize <= x /\ x < 2 * RegSize => r = x - RegSize
      /\ -RegSize <= x /\ x < 0 => r = x + RegSize
  BY <1>2
<1> HIDE DEF r
<1>4. RegSize = 2 * Half
  BY Sizes
<1>5. r = IF x < 0 THEN x + RegSize ELSE IF x < RegSize THEN x ELSE x - RegSize
  BY <1>1, <1>3
<1>6. QED
  BY <1>4, <1>5 DEF r

SumAgrees(a, b, c) ==
  LET res == (((a + b) % RegSize) + c) % RegSize
      exact == Signed(a) + Signed(b) + c
  IN  /\ res \in Reg /\ exact \in Int /\ exact % RegSize = res
      /\ CarryOut(a, b, c) <=> a + b + c >= RegSize
      /\ SignBit(a) = SignBit(b) /\ SignBit(res) # SignBit(a)
           <=> exact \notin (-Half)..(Half - 1)
      /\ SignBit(res) = 1 <=> res >= Half

DifferenceAgrees(a, b, c) ==
  LET s1 == (a - b) % RegSize
      res == (s1 - c) % RegSize
      exact == Signed(a) - Signed(b) - c
  IN  /\ res \in Reg /\ exact \in Int /\ exact % RegSize = res
      /\ a < b \/ s1 < c <=> a < b + c
      /\ SignBit(a) # SignBit(b) /\ SignBit(res) # SignBit(a)
           <=> exact \notin (-Half)..(Half - 1)
      /\ SignBit(res) = 1 <=> res >= Half

LEMMA AddNumbers ==
  ASSUME NEW a \in Reg, NEW b \in Reg, NEW c \in {0, 1}
  PROVE  SumAgrees(a, b, c)
<1> DEFINE s1 == (a + b) % RegSize
           res == (s1 + c) % RegSize
           exact == Signed(a) + Signed(b) + c
<1>1. /\ RegSize = 2 * Half /\ Half \in Nat /\ Half > 0 /\ RegSize \in Nat \ {0}
      /\ a \in 0..(2 * Half - 1) /\ b \in 0..(2 * Half - 1) /\ a \in Int /\ b \in Int
  BY Sizes DEF Reg
<1>2. s1 = IF a + b < 2 * Half THEN a + b ELSE (a + b) - 2 * Half
  <2> DEFINE t == a + b
  <2>1. t \in Int /\ 0 <= t /\ -RegSize <= t /\ t < 2 * RegSize
    BY <1>1
  <2> HIDE DEF t
  <2>2. t % RegSize = IF t < 0 THEN t + 2 * Half
                      ELSE IF t < 2 * Half THEN t ELSE t - 2 * Half
    BY <2>1, ModSize
  <2>3. t % RegSize = IF t < 2 * Half THEN t ELSE t - 2 * Half
    BY <2>1, <2>2
  <2>4. QED
    BY <2>3, Zenon DEF t
<1> HIDE DEF s1
<1>3. s1 \in 0..(2 * Half - 1)
  BY <1>1, <1>2
<1>4. res = IF s1 + c < 2 * Half THEN s1 + c ELSE (s1 + c) - 2 * Half
  <2> DEFINE t == s1 + c
  <2>1. t \in Int /\ 0 <= t /\ -RegSize <= t /\ t < 2 * RegSize
    BY <1>1, <1>3
  <2> HIDE DEF t
  <2>2. t % RegSize = IF t < 0 THEN t + 2 * Half
                      ELSE IF t < 2 * Half THEN t ELSE t - 2 * Half
    BY <2>1, ModSize
  <2>3. t % RegSize = IF t < 2 * Half THEN t ELSE t - 2 * Half
    BY <2>1, <2>2
  <2>4. QED
    BY <2>3, Zenon DEF t
<1> HIDE DEF res
<1>5. res \in 0..(2 * Half - 1) /\ res \in Reg
  BY <1>1, <1>3, <1>4 DEF Reg
<1>6. /\ SignBit(a) = IF a >= Half THEN 1 ELSE 0
      /\ Signed(a) = IF a >= Half THEN a - 2 * Half ELSE a
      /\ SignBit(b) = IF b >= Half THEN 1 ELSE 0
      /\ Signed(b) = IF b >= Half THEN b - 2 * Half ELSE b
      /\ SignBit(res) = IF res >= Half THEN 1 ELSE 0
  BY <1>5, SignedReading
<1>7. exact \in (-2 * Half)..(2 * Half - 1)
  BY <1>1, <1>6
<1>8. exact % RegSize = IF exact < 0 THEN exact + 2 * Half ELSE exact
  <2>1. exact \in Int /\ -RegSize <= exact /\ exact < 2 * RegSize /\ exact < 2 * Half
    BY <1>1, <1>7
  <2> HIDE DEF exact
  <2>2. exact % RegSize = IF exact < 0 THEN exact + 2 * Half
                          ELSE IF exact < 2 * Half THEN exact ELSE exact - 2 * Half
    BY <2>1, ModSize
  <2>3. QED
    BY <2>1, <2>2
<1>9. exact = (IF a >= Half THEN a - 2 * Half ELSE a)
                + (IF b >= Half THEN b - 2 * Half ELSE b) + c
  BY <1>6
<1> HIDE DEF exact
<1>10. exact % RegSize = res
  BY <1>1, <1>2, <1>4, <1>8, <1>9
<1>11. CarryOut(a, b, c) <=> a + b + c >= RegSize
  BY <1>1, <1>2 DEF CarryOut, s1
<1>12. SignBit(a) = SignBit(b) /\ SignBit(res) # SignBit(a)
         <=> exact \notin (-Half)..(Half - 1)
  BY <1>1, <1>2, <1>4, <1>5, <1>6, <1>7, <1>9
<1>13. SignBit(res) = 1 <=> res >= Half
  BY <1>6
<1>14. exact \in Int
  BY <1>1, <1>7
<1>15. QED
  BY <1>5, <1>10, <1>11, <1>12, <1>13, <1>14 DEF res, exact, s1, SumAgrees

LEMMA SubNumbers ==
  ASSUME NEW a \in Reg, NEW b \in Reg, NEW c \in {0, 1}
  PROVE  DifferenceAgrees(a, b, c)
<1> DEFINE s1 == (a - b) % RegSize
           res == (s1 - c) % RegSize
           exact == Signed(a) - Signed(b) - c
<1>1. /\ RegSize = 2 * Half /\ Half \in Nat /\ Half > 0 /\ RegSize \in Nat \ {0}
      /\ a \in 0..(2 * Half - 1) /\ b \in 0..(2 * Half - 1) /\ a \in Int /\ b \in Int
  BY Sizes DEF Reg
<1>2. s1 = IF a < b THEN a - b + 2 * Half ELSE a - b
  <2>1. a - b \in Int /\ -RegSize <= a - b /\ a - b < 2 * RegSize
    BY <1>1
  <2>2. s1 = IF a - b < 0 THEN a - b + 2 * Half
             ELSE IF a - b < 2 * Half THEN a - b ELSE a - b - 2 * Half
    BY <2>1, ModSize
  <2>3. QED
    BY <1>1, <2>2
<1> HIDE DEF s1
<1>3. s1 \in 0..(2 * Half - 1)
  BY <1>1, <1>2
<1>4. res = IF s1 < c THEN s1 - c + 2 * Half ELSE s1 - c
  <2>1. s1 - c \in Int /\ -RegSize <= s1 - c /\ s1 - c < 2 * RegSize
    BY <1>1, <1>3
  <2>2. res = IF s1 - c < 0 THEN s1 - c + 2 * Half
              ELSE IF s1 - c < 2 * Half THEN s1 - c ELSE s1 - c - 2 * Half
    BY <2>1, ModSize
  <2>3. QED
    BY <1>1, <1>3, <2>2
<1> HIDE DEF res
<1>5. res \in 0..(2 * Half - 1) /\ res \in Reg
  BY <1>1, <1>3, <1>4 DEF Reg
<1>6. /\ SignBit(a) = IF a >= Half THEN 1 ELSE 0
      /\ Signed(a) = IF a >= Half THEN a - 2 * Half ELSE a
      /\ SignBit(b) = IF b >= Half THEN 1 ELSE 0
      /\ Signed(b) = IF b >= Half THEN b - 2 * Half ELSE b
      /\ SignBit(res) = IF res >= Half THEN 1 ELSE 0
  BY <1>5, SignedReading
<1>7. exact \in (-2 * Half)..(2 * Half - 1)
  BY <1>1, <1>6
<1>8. exact % RegSize = IF exact < 0 THEN exact + 2 * Half ELSE exact
  <2>1. exact \in Int /\ -RegSize <= exact /\ exact < 2 * RegSize /\ exact < 2 * Half
    BY <1>1, <1>7
  <2> HIDE DEF exact
  <2>2. exact % RegSize = IF exact < 0 THEN exact + 2 * Half
                          ELSE IF exact < 2 * Half THEN exact ELSE exact - 2 * Half
    BY <2>1, ModSize
  <2>3. QED
    BY <2>1, <2>2
<1>9. exact = (IF a >= Half THEN a - 2 * Half ELSE a)
                - (IF b >= Half THEN b - 2 * Half ELSE b) - c
  BY <1>6
<1> HIDE DEF exact
<1>10. exact % RegSize = res
  BY <1>1, <1>2, <1>4, <1>8, <1>9
<1>11. a < b \/ s1 < c <=> a < b + c
  BY <1>1, <1>2
<1>12. SignBit(a) # SignBit(b) /\ SignBit(res) # SignBit(a)
         <=> exact \notin (-Half)..(Half - 1)
  BY <1>1, <1>2, <1>4, <1>5, <1>6, <1>7, <1>9
<1>13. SignBit(res) = 1 <=> res >= Half
  BY <1>6
<1>14. exact \in Int
  BY <1>1, <1>7
<1>15. QED
  BY <1>5, <1>10, <1>11, <1>12, <1>13, <1>14 DEF res, exact, s1, DifferenceAgrees

(* A comparison and its converses.                                         *)
LEMMA SignedOrder ==
  ASSUME NEW a \in Reg, NEW b \in Reg
  PROVE  /\ Signed(a) \in Int /\ Signed(b) \in Int /\ a \in Int /\ b \in Int
         /\ Signed(a) = Signed(b) <=> a = b
BY SignedReading

-----------------------------------------------------------------------------
(* The instruction that is executed, and where its operands lie.           *)

LEMMA CurrentInstruction ==
  ASSUME program \in Programs, ins.op # "invalid"
  PROVE  /\ ins.rd \in Registers /\ ins.rs1 \in Registers /\ ins.rs2 \in Registers
         /\ ins.imm \in Word /\ ins.high \in Word
<1>1. pc \in DOMAIN program.code
  BY DEF ins, NoInstruction
<1>2. program.code[pc] \in Instruction
  BY <1>1, ProgramsAssumption
<1>3. ins = program.code[pc]
  BY <1>1 DEF ins
<1>4. QED
  BY <1>2, <1>3 DEF Instruction

(* The part of the state an instruction computes with.                     *)
MachineOK ==
  /\ regs \in [Registers -> Reg] /\ sp \in Word /\ pc \in Word /\ flags \in Flags
  /\ mem \in [Addresses -> Byte]

LEMMA AdvanceInWord ==
  ASSUME pc \in Word, NEW n \in Nat
  PROVE  (pc + n) % WordSize \in Word
<1>1. pc + n \in Int
  BY WordInReg
<1>2. QED
  BY <1>1, ModReg

LEMMA MemoryBounds ==
  /\ MemSize \in Nat /\ MemSize > 0 /\ MemSize \in Word /\ Addresses \subseteq Word
  /\ MemSize % 8 = 0
BY EmulatorAssumption, Sizes DEF Addresses, Word

LEMMA ReadSubBelow ==
  ASSUME MachineOK, NEW addr \in Nat, NEW n \in Nat
  PROVE  ReadSub(addr, n) \in 0..(ByteWeight(n) - 1)
<1> DEFINE f == [i \in 0..(n - 1) |->
                   IF addr + i \in Addresses THEN mem[addr + i] * ByteWeight(i) ELSE 0]
<1>1. 0 \in Byte
  BY Sizes DEF Byte
<1>2. ASSUME NEW i \in 0..(n - 1)
      PROVE  \E d \in Byte : f[i] = d * ByteWeight(i)
  <2>1. 0 * ByteWeight(i) = 0
    BY Weights
  <2>2. CASE addr + i \in Addresses
    <3>1. mem[addr + i] \in Byte
      BY <2>2 DEF MachineOK
    <3>2. QED
      BY <2>2, <3>1
  <2>3. CASE addr + i \notin Addresses
    BY <1>1, <2>1, <2>3
  <2>4. QED
    BY <2>2, <2>3
<1>3. SumFunctionOnSet(f, 0..(n - 1)) \in 0..(ByteWeight(n) - 1)
  <2> HIDE DEF f
  <2>1. QED
    BY <1>2, BytesBelow
<1>4. QED
  BY <1>3 DEF ReadSub, SumFunction

LEMMA ReadInReg ==
  ASSUME MachineOK, NEW addr \in Nat
  PROVE  Read64(addr) \in Reg /\ \A n \in {1, 2, 4, 8} : ReadSub(addr, n) \in Reg
<1>1. ASSUME NEW n \in {1, 2, 4, 8}
      PROVE  ReadSub(addr, n) \in Reg
  <2>1. ReadSub(addr, n) \in 0..(ByteWeight(n) - 1)
    BY ReadSubBelow
  <2>2. ByteBits * n \in Nat /\ ByteBits * n <= RegBits
    BY Sizes DEF RegBits
  <2>3. ByteWeight(n) <= RegSize
    BY <2>2, Sizes, PowerMonotone DEF ByteWeight, RegSize
  <2>4. ByteWeight(n) \in Nat
    BY Weights
  <2>5. QED
    BY <2>1, <2>3, <2>4, Sizes DEF Reg
<1>2. Read64(addr) \in Reg
  BY <1>1, SmallInReg DEF Read64
<1>3. QED
  BY <1>1, <1>2

-----------------------------------------------------------------------------
(* What an instruction does to memory: nothing, or one write.              *)
MemoryStep ==
  \/ NoStore
  \/ \E addr \in Word, val \in Reg : Write64(addr, val)
  \/ \E n \in {1, 2, 4} : \E addr \in Word, val \in Reg :
       addr % n = 0 /\ WriteSub(addr, val, n)

(* The write the trace reports is the write that happened.                 *)
WriteTold ==
  LET written == BytesOf(last_write')
  IN  /\ \A a \in Addresses : mem'[a] # mem[a] => a \in written
      /\ written \subseteq Addresses =>
           \A a \in written : mem'[a] = ByteOf(last_write'.data, a - last_write'.addr)

LEMMA StoredType ==
  ASSUME MachineOK, NEW addr \in Word, NEW val \in Reg, NEW n \in {1, 2, 4, 8}
  PROVE  Stored(addr, val, n) \in [Addresses -> Byte]
<1>1. ASSUME NEW a \in Addresses
      PROVE  IF a \in addr..(addr + n - 1) THEN ByteOf(val, a - addr) \in Byte
             ELSE mem[a] \in Byte
  <2>1. CASE a \in addr..(addr + n - 1)
    <3>1. a - addr \in Nat /\ val \in Int
      BY <2>1, WordInReg
    <3>2. ByteOf(val, a - addr) \in Byte
      BY <3>1, ByteOfType
    <3>3. QED
      BY <2>1, <3>2
  <2>2. CASE a \notin addr..(addr + n - 1)
    BY <2>2 DEF MachineOK
  <2>3. QED
    BY <2>1, <2>2
<1>2. QED
  BY <1>1 DEF Stored

LEMMA LanesAtEight ==
  ASSUME NEW addr \in Nat, NEW n \in {1, 2, 4}, addr % n = 0
  PROVE  LET low == AlignedTo(addr, 8)
         IN  /\ low \in Nat /\ low % 8 = 0 /\ low <= addr
             /\ {low + lane : lane \in LanesOf(addr, n)} = addr..(addr + n - 1)
<1> DEFINE low == AlignedTo(addr, 8)
           k == addr % 8
<1>1. k \in 0..7 /\ low = addr - k /\ low \in Nat /\ low % 8 = 0 /\ low <= addr
  BY DEF AlignedTo
<1>2. k + n <= 8
  BY <1>1
<1>3. LanesOf(addr, n) = {lane \in 0..7 : lane - k \in 0..(n - 1)}
  BY DEF LanesOf, AllLanes
<1> HIDE DEF k, low
<1>4. ASSUME NEW a \in addr..(addr + n - 1)
      PROVE  \E lane \in LanesOf(addr, n) : a = low + lane
  <2>1. a - low \in 0..7 /\ (a - low) - k \in 0..(n - 1) /\ a = low + (a - low)
    BY <1>1, <1>2
  <2>2. a - low \in LanesOf(addr, n)
    BY <1>3, <2>1
  <2>3. QED
    BY <2>1, <2>2
<1>5. ASSUME NEW lane \in LanesOf(addr, n)
      PROVE  low + lane \in addr..(addr + n - 1)
  BY <1>1, <1>3
<1>6. {low + lane : lane \in LanesOf(addr, n)} = addr..(addr + n - 1)
  BY <1>4, <1>5
<1>7. QED
  BY <1>1, <1>6 DEF low

(* Eight bytes of a memory, as a number and back.                          *)
LEMMA DoublewordBytes ==
  ASSUME NEW m \in [Addresses -> Byte], NEW addr \in Nat
  PROVE  /\ DoublewordIn(m, addr) \in Reg
         /\ addr + 8 <= MemSize =>
              \A k \in AllLanes : ByteOf(DoublewordIn(m, addr), k) = m[addr + k]
<1>1. CASE addr + 8 <= MemSize
  <2> DEFINE f == [i \in AllLanes |-> m[addr + i] * ByteWeight(i)]
             d == [i \in AllLanes |-> m[addr + i]]
  <2>1. AllLanes = 0..(8 - 1)
    BY DEF AllLanes
  <2>2. \A i \in AllLanes : m[addr + i] \in Byte
    BY <1>1, MemoryBounds DEF AllLanes, Addresses
  <2>3. \A i \in 0..(8 - 1) : d[i] \in Byte /\ f[i] = d[i] * ByteWeight(i)
    BY <2>1, <2>2
  <2>4. ~(addr + 8 > MemSize)
    BY <1>1, MemoryBounds
  <2>5. DoublewordIn(m, addr) = SumFunctionOnSet(f, 0..(8 - 1))
    BY <2>1, <2>4 DEF DoublewordIn, SumFunction
  <2>6. \A k \in AllLanes : d[k] = m[addr + k]
    OBVIOUS
  <2> HIDE DEF f, d
  <2>7. \A k \in 0..(8 - 1) : ByteOf(SumFunctionOnSet(f, 0..(8 - 1)), k) = d[k]
    <3>1. 8 \in Nat
      OBVIOUS
    <3>2. QED
      BY <2>3, <3>1, ByteOfSum, Zenon
  <2>8. SumFunctionOnSet(f, 0..(8 - 1)) \in 0..(ByteWeight(8) - 1)
    BY <2>3, BytesBelow
  <2>9. QED
    BY <2>1, <2>5, <2>6, <2>7, <2>8, Weights DEF Reg
<1>2. CASE ~(addr + 8 <= MemSize)
  <2>1. addr + 8 > MemSize
    BY <1>2, MemoryBounds
  <2>2. DoublewordIn(m, addr) = 0
    BY <2>1 DEF DoublewordIn
  <2>3. QED
    BY <1>2, <2>2, SmallInReg
<1>3. QED
  BY <1>1, <1>2

(* A byte of memory after a write of n bytes at addr.                      *)
LEMMA StoredBytes ==
  ASSUME NEW addr, NEW val, NEW n, NEW a \in Addresses, mem' = Stored(addr, val, n)
  PROVE  /\ a \in addr..(addr + n - 1) => mem'[a] = ByteOf(val, a - addr)
         /\ a \notin addr..(addr + n - 1) => mem'[a] = mem[a]
BY DEF Stored

LEMMA Write64Told ==
  ASSUME MachineOK, NEW addr \in Word, NEW val \in Reg, Write64(addr, val)
  PROVE  /\ mem' \in [Addresses -> Byte]
         /\ last_write' \in [addr : Word, lanes : SUBSET AllLanes, data : Reg]
         /\ BytesOf(last_write') = addr..(addr + 7)
         /\ WriteTold
<1> USE WordInReg, MemoryBounds
<1>1. /\ last_write' = [addr |-> addr, lanes |-> AllLanes, data |-> val]
      /\ mem' = IF addr + 8 <= MemSize THEN Stored(addr, val, 8) ELSE mem
  BY DEF Write64
<1>2. mem' \in [Addresses -> Byte]
  BY <1>1, StoredType DEF MachineOK
<1>3. BytesOf(last_write') = addr..(addr + 7)
  <2>1. BytesOf(last_write') = {addr + lane : lane \in 0..7}
    BY <1>1 DEF BytesOf, AllLanes
  <2>2. ASSUME NEW a \in addr..(addr + 7)
        PROVE  a - addr \in 0..7 /\ a = addr + (a - addr)
    OBVIOUS
  <2>3. addr..(addr + 7) \subseteq {addr + lane : lane \in 0..7}
    BY <2>2
  <2>4. {addr + lane : lane \in 0..7} \subseteq addr..(addr + 7)
    OBVIOUS
  <2>5. QED
    BY <2>1, <2>3, <2>4
<1>4. \A a \in Addresses : mem'[a] # mem[a] => a \in BytesOf(last_write')
  <2>1. CASE addr + 8 <= MemSize
    <3>1. mem' = Stored(addr, val, 8) /\ addr..(addr + 8 - 1) = addr..(addr + 7)
      BY <1>1, <2>1
    <3>2. ASSUME NEW a \in Addresses, a \notin addr..(addr + 7)
          PROVE  mem'[a] = mem[a]
      <4>1. mem' = Stored(addr, val, 8) /\ a \notin addr..(addr + 8 - 1)
        BY <3>1, <3>2, Zenon
      <4>2. QED
        BY <4>1, Zenon DEF Stored
    <3>3. QED
      BY <1>3, <3>2
  <2>2. CASE ~(addr + 8 <= MemSize)
    BY <1>1, <2>2
  <2>3. QED
    BY <2>1, <2>2
<1>5. ASSUME BytesOf(last_write') \subseteq Addresses, NEW a \in BytesOf(last_write')
      PROVE  mem'[a] = ByteOf(last_write'.data, a - last_write'.addr)
  <2>1. addr + 7 \in Addresses
    BY <1>3, <1>5
  <2>2. addr + 8 <= MemSize
    BY <2>1 DEF Addresses
  <2>3. mem' = Stored(addr, val, 8) /\ a \in addr..(addr + 8 - 1) /\ a \in Addresses
    BY <1>1, <1>3, <1>5, <2>2
  <2>4. mem'[a] = ByteOf(val, a - addr)
    BY <2>3, StoredBytes
  <2>5. QED
    BY <1>1, <2>4
<1>6. QED
  BY <1>1, <1>2, <1>3, <1>4, <1>5 DEF WriteTold

LEMMA WriteSubTold ==
  ASSUME MachineOK, NEW n \in {1, 2, 4}, NEW addr \in Word, NEW val \in Reg,
         addr % n = 0, WriteSub(addr, val, n)
  PROVE  /\ mem' \in [Addresses -> Byte]
         /\ last_write' \in [addr : Word, lanes : SUBSET AllLanes, data : Reg]
         /\ WriteTold
<1> DEFINE low == AlignedTo(addr, 8)
<1>1. /\ last_write' = [addr |-> low, lanes |-> LanesOf(addr, n),
                        data |-> DoublewordIn(mem', low)]
      /\ mem' = Stored(addr, val, n)
  BY DEF WriteSub
<1>2. addr \in Nat
  BY WordInReg
<1>3. /\ low \in Nat /\ low % 8 = 0 /\ low <= addr
      /\ {low + lane : lane \in LanesOf(addr, n)} = addr..(addr + n - 1)
  BY <1>2, LanesAtEight
<1> HIDE DEF low
<1>4. mem' \in [Addresses -> Byte]
  BY <1>1, StoredType
<1>5. low \in Word
  BY <1>2, <1>3, Sizes DEF Word
<1>6. LanesOf(addr, n) \subseteq AllLanes
  BY DEF LanesOf
<1>7. DoublewordIn(mem', low) \in Reg
  BY <1>3, <1>4, DoublewordBytes
<1>8. BytesOf(last_write') = addr..(addr + n - 1)
  BY <1>1, <1>3 DEF BytesOf
<1>9. \A a \in Addresses : mem'[a] # mem[a] => a \in BytesOf(last_write')
  <2>1. ASSUME NEW a \in Addresses, a \notin addr..(addr + n - 1)
        PROVE  mem'[a] = mem[a]
    BY <1>1, <2>1 DEF Stored
  <2>2. QED
    BY <1>8, <2>1
<1>10. ASSUME BytesOf(last_write') \subseteq Addresses, NEW a \in BytesOf(last_write')
       PROVE  mem'[a] = ByteOf(last_write'.data, a - last_write'.addr)
  <2>1. addr \in Addresses
    BY <1>2, <1>8, <1>10
  <2>2. low + 8 <= MemSize
    <3>1. addr < MemSize
      BY <2>1, MemoryBounds DEF Addresses
    <3>2. QED
      BY <1>2, <1>3, <3>1, MemoryBounds
  <2>3. PICK lane \in LanesOf(addr, n) : a = low + lane
    BY <1>3, <1>8, <1>10
  <2>4. lane \in AllLanes /\ a - low = lane
    BY <1>3, <1>6, <2>3 DEF AllLanes
  <2>5. ByteOf(DoublewordIn(mem', low), lane) = mem'[low + lane]
    BY <1>3, <1>4, <2>2, <2>4, DoublewordBytes
  <2>6. QED
    BY <1>1, <2>3, <2>4, <2>5
<1>11. QED
  BY <1>1, <1>4, <1>5, <1>6, <1>7, <1>9, <1>10 DEF WriteTold

LEMMA MemoryStepTold ==
  ASSUME MachineOK, MemoryStep
  PROVE  /\ mem' \in [Addresses -> Byte]
         /\ last_write' \in [addr : Word, lanes : SUBSET AllLanes, data : Reg]
         /\ WriteTold
<1>1. CASE NoStore
  <2>1. BytesOf(last_write') = {}
    BY <1>1 DEF NoStore, NoWrite, BytesOf
  <2>2. 0 \in Word /\ 0 \in Reg
    BY Sizes DEF Word, Reg
  <2>3. QED
    BY <1>1, <2>1, <2>2 DEF NoStore, NoWrite, WriteTold, MachineOK
<1>2. CASE \E addr \in Word, val \in Reg : Write64(addr, val)
  BY <1>2, Write64Told
<1>3. CASE \E n \in {1, 2, 4} : \E addr \in Word, val \in Reg :
             addr % n = 0 /\ WriteSub(addr, val, n)
  BY <1>3, WriteSubTold
<1>4. QED
  BY <1>1, <1>2, <1>3 DEF MemoryStep

-----------------------------------------------------------------------------
(* What one instruction does, of whatever kind.                            *)
Output == {"hex", "byte", "TEST", "newline"} \X Reg

RestOK ==
  uart \in Seq(Output) /\ halted \in BOOLEAN /\ stop \in StopReasons \cup {"none"}

(* The flags of comparison change in comparisons, and when they are        *)
(* restored from the stack.                                                *)
CompareStep ==
  \/ ins.op = "CMPRR" /\ flags' = Compare(flags, regs[ins.rs1], regs[ins.rs2])
  \/ ins.op = "CMPRV" /\ flags' = Compare(flags, regs[ins.rs2], SignExtend(ins.imm, WordBits))
  \/ ins.op = "IRET"
  \/ ins.op \notin {"CMPRR", "CMPRV", "IRET"} /\ KeepsCompare(flags, flags')

Effect ==
  /\ regs' \in [Registers -> Reg] /\ sp' \in Word /\ pc' \in Word /\ flags' \in Flags
  /\ uart' \in Seq(Output) /\ halted' \in BOOLEAN /\ stop' \in StopReasons \cup {"none"}
  /\ MemoryStep
  /\ CompareStep

LEMMA RegNumber ==
  ASSUME NEW x \in Reg
  PROVE  x \in Nat /\ x \in Int
BY WordInReg

LEMMA WordNumber ==
  ASSUME NEW x \in Word
  PROVE  x \in Reg /\ x \in Nat /\ x \in Int
BY WordInReg

LEMMA RegisterWritten ==
  ASSUME MachineOK, NEW r \in Registers, NEW v \in Reg, regs' = [regs EXCEPT ![r] = v]
  PROVE  regs' \in [Registers -> Reg]
BY DEF MachineOK

LEMMA AdvanceStep ==
  ASSUME MachineOK, NEW n \in {4, 8, 12}, Advance(n)
  PROVE  pc' \in Word
<1>1. n \in Nat
  OBVIOUS
<1>2. QED
  BY <1>1, AdvanceInWord DEF Advance, MachineOK

LEMMA FlagsKept ==
  ASSUME MachineOK, flags' = flags, ins.op \notin {"CMPRR", "CMPRV", "IRET"}
  PROVE  CompareStep
BY FlagsKeepCompare DEF CompareStep, MachineOK

LEMMA RegisterRead ==
  ASSUME program \in Programs, MachineOK, ins.op # "invalid"
  PROVE  /\ regs[ins.rd] \in Reg /\ regs[ins.rs1] \in Reg /\ regs[ins.rs2] \in Reg
         /\ regs[ins.rs2] % WordSize \in Word
         /\ SignExtend(ins.imm, WordBits) \in Reg
<1>1. regs[ins.rd] \in Reg /\ regs[ins.rs1] \in Reg /\ regs[ins.rs2] \in Reg
  BY CurrentInstruction DEF MachineOK
<1>2. regs[ins.rs2] \in Int /\ ins.imm \in Int /\ WordBits \in Nat \ {0}
  BY <1>1, CurrentInstruction, RegNumber, WordNumber, Sizes
<1>3. QED
  BY <1>1, <1>2, ModReg, SignExtendReg

LEMMA PushStep ==
  ASSUME MachineOK, NEW val \in Reg, Push(val)
  PROVE  sp' \in Word /\ MemoryStep
<1>1. sp - 8 \in Int
  BY WordInReg DEF MachineOK
<1>2. sp' \in Word
  BY <1>1, ModReg DEF Push
<1>3. QED
  BY <1>2 DEF Push, MemoryStep

LEMMA PopStep ==
  ASSUME MachineOK, Pop
  PROVE  sp' \in Word /\ Popped \in Reg /\ Popped % WordSize \in Word
<1>1. sp + 8 \in Int /\ sp \in Nat
  BY WordInReg DEF MachineOK
<1>2. sp' \in Word
  BY <1>1, ModReg DEF Pop
<1>3. Popped \in Reg /\ Popped \in Int
  BY <1>1, ReadInReg, RegNumber DEF Popped
<1>4. QED
  BY <1>2, <1>3, ModReg

LEMMA NoStoreStep == NoStore => MemoryStep
BY DEF MemoryStep

LEMMA LoadNames ==
  DOMAIN Loads =
    {"MEMREADRR", "MEMREADR", "MEMGET8", "MEMGET16", "MEMGET32", "MEMGET64", "LDIDX64",
     "LDIDX64R", "LDIDX64A", "LDIDX32", "LDIDX16", "LDIDX8", "LDIDX16_S", "LDIDX8_S"}
BY DEF Loads

LEMMA StoreNames ==
  DOMAIN Stores =
    {"MEMSET64RR", "MEMSETR", "MEMSET8", "MEMSET16", "MEMSET32", "MEMSET64", "STIDX64",
     "STIDX64R", "STIDX64A", "STIDX32", "STIDX16", "STIDX8"}
BY DEF Stores

(* An access the tables name, and one that stores less than 8 bytes.       *)
AccessOK(access) ==
  /\ access.bytes \in {1, 2, 4, 8} /\ access.align \in {1, 2, 4, 8}
  /\ access.mode \in {"register", "immediate", "indexed", "two registers"}

StoreOK(access) == AccessOK(access) /\ (access.bytes # 8 => access.align = access.bytes)

LEMMA Accesses ==
  /\ \A op \in DOMAIN Loads : AccessOK(Loads[op])
  /\ \A op \in DOMAIN Stores : StoreOK(Stores[op])
<1>1. ASSUME NEW bytes \in {1, 2, 4, 8}, NEW align \in {1, 2, 4, 8},
             NEW mode \in {"register", "immediate", "indexed", "two registers"}
      PROVE  /\ AccessOK(Access(bytes, align, mode))
             /\ bytes = 8 \/ align = bytes => StoreOK(Access(bytes, align, mode))
  BY DEF Access, AccessOK, StoreOK
<1>2. /\ AccessOK(Loads["MEMREADRR"]) /\ AccessOK(Loads["MEMREADR"])
      /\ AccessOK(Loads["MEMGET8"]) /\ AccessOK(Loads["MEMGET16"])
      /\ AccessOK(Loads["MEMGET32"]) /\ AccessOK(Loads["MEMGET64"])
      /\ AccessOK(Loads["LDIDX64"]) /\ AccessOK(Loads["LDIDX64R"])
      /\ AccessOK(Loads["LDIDX64A"]) /\ AccessOK(Loads["LDIDX32"])
      /\ AccessOK(Loads["LDIDX16"]) /\ AccessOK(Loads["LDIDX8"])
      /\ AccessOK(Loads["LDIDX16_S"]) /\ AccessOK(Loads["LDIDX8_S"])
  BY <1>1 DEF Loads
<1>3. /\ StoreOK(Stores["MEMSET64RR"]) /\ StoreOK(Stores["MEMSETR"])
      /\ StoreOK(Stores["MEMSET8"]) /\ StoreOK(Stores["MEMSET16"])
      /\ StoreOK(Stores["MEMSET32"]) /\ StoreOK(Stores["MEMSET64"])
      /\ StoreOK(Stores["STIDX64"]) /\ StoreOK(Stores["STIDX64R"])
      /\ StoreOK(Stores["STIDX64A"]) /\ StoreOK(Stores["STIDX32"])
      /\ StoreOK(Stores["STIDX16"]) /\ StoreOK(Stores["STIDX8"])
  BY <1>1 DEF Stores
<1>4. \A op \in DOMAIN Loads : AccessOK(Loads[op])
  BY <1>2, LoadNames, Zenon
<1>5. \A op \in DOMAIN Stores : StoreOK(Stores[op])
  BY <1>3, StoreNames, Zenon
<1>6. QED
  BY <1>4, <1>5

LEMMA Aligned ==
  ASSUME NEW x \in Word, NEW n \in {1, 2, 4, 8}
  PROVE  AlignedTo(x, n) \in Word /\ AlignedTo(x, n) % n = 0
<1>1. x \in Nat
  BY WordInReg
<1>2. AlignedTo(x, n) \in 0..x
  <2>1. n \in Nat \ {0}
    OBVIOUS
  <2>2. x % n \in 0..x
    BY <1>1, <2>1, ModAtMost
  <2> DEFINE r == x % n
  <2> HIDE DEF r
  <2>3. x - r \in 0..x
    BY <1>1, <2>2 DEF r
  <2>4. QED
    BY <2>3 DEF AlignedTo, r
<1>3. AlignedTo(x, n) % n = 0
  <2>1. CASE n = 1
    BY <1>1, <2>1 DEF AlignedTo
  <2>2. CASE n = 2
    BY <1>1, <2>2 DEF AlignedTo
  <2>3. CASE n = 4
    BY <1>1, <2>3 DEF AlignedTo
  <2>4. CASE n = 8
    BY <1>1, <2>4 DEF AlignedTo
  <2>5. QED
    BY <2>1, <2>2, <2>3, <2>4
<1>4. AlignedTo(x, n) \in Word
  <2> DEFINE y == AlignedTo(x, n)
  <2> HIDE DEF y
  <2>1. y \in 0..x
    BY <1>2 DEF y
  <2>2. y \in Word
    BY <2>1, Sizes DEF Word
  <2>3. QED
    BY <2>2 DEF y
<1>5. QED
  BY <1>3, <1>4

LEMMA AddressInWord ==
  ASSUME program \in Programs, MachineOK, ins.op # "invalid", NEW access,
         AccessOK(access)
  PROVE  AddressOf(access) \in Word /\ AddressOf(access) % access.align = 0
<1> DEFINE base == regs[ins.rs2]
           other == regs[ins.imm % 16]
<1>1. base \in Int /\ ins.imm \in Nat
  BY RegisterRead, CurrentInstruction, RegNumber, WordNumber
<1>2. other \in Int
  <2>1. ASSUME NEW x \in Nat
        PROVE  x % 16 \in Registers
    BY <2>1 DEF Registers
  <2>2. other \in Reg
    BY <1>1, <2>1 DEF MachineOK
  <2>3. QED
    BY <2>2, RegNumber
<1>3. base + ins.imm \in Int /\ base + other \in Int
  <2> DEFINE x == base
             y == ins.imm
             z == other
  <2>1. x \in Int /\ y \in Int /\ z \in Int
    <3>1. ASSUME NEW n \in Nat
          PROVE  n \in Int
      OBVIOUS
    <3>2. QED
      BY <1>1, <1>2, <3>1, Zenon
  <2> HIDE DEF x, y, z
  <2>2. x + y \in Int /\ x + z \in Int
    BY <2>1
  <2>3. QED
    BY <2>2 DEF x, y, z
<1> DEFINE at == CASE access.mode = "register"      -> base
                   [] access.mode = "immediate"     -> ins.imm
                   [] access.mode = "indexed"       -> base + ins.imm
                   [] access.mode = "two registers" -> base + other
<1>4. at \in Int
  <2>1. ins.imm \in Int
    BY CurrentInstruction, WordNumber
  <2>2. QED
    BY <1>1, <1>2, <1>3, <2>1, Zenon DEF AccessOK
<1>5. AddressOf(access) = AlignedTo(at % WordSize, access.align)
  BY DEF AddressOf
<1> HIDE DEF at
<1>6. at % WordSize \in Word
  BY <1>4, ModReg
<1>7. QED
  <2>1. access.align \in {1, 2, 4, 8}
    BY Zenon DEF AccessOK
  <2>2. /\ AlignedTo(at % WordSize, access.align) \in Word
        /\ AlignedTo(at % WordSize, access.align) % access.align = 0
    BY <1>6, <2>1, Aligned, Zenon
  <2>3. QED
    BY <1>5, <2>2, Zenon

-----------------------------------------------------------------------------
(* One kind of instruction after the other.                                *)
LEMMA LoadEffect ==
  ASSUME program \in Programs, MachineOK, RestOK, ExecLoad
  PROVE  Effect
<1> DEFINE access == Loads[ins.op]
           addr == AddressOf(access)
           read == IF access.bytes = 8 THEN Read64(addr) ELSE ReadSub(addr, access.bytes)
           extended == IF ins.op \in {"LDIDX8_S", "LDIDX16_S"}
                       THEN SignExtend(read, access.bytes * ByteBits) ELSE read
<1>1. /\ ins.op \in DOMAIN Loads
      /\ regs' = [regs EXCEPT ![Operand(access)] = extended]
      /\ Advance(AccessBytes(access)) /\ NoStore /\ GoesOn
      /\ UNCHANGED << sp, flags, uart >>
  BY DEF ExecLoad
<1>2. ins.op \notin {"invalid", "CMPRR", "CMPRV", "IRET"}
  BY <1>1, LoadNames
<1>3. AccessOK(access)
  BY <1>1, Accesses
<1>4. addr \in Word /\ addr \in Nat
  BY <1>2, <1>3, AddressInWord, WordNumber
<1>5. access.bytes \in {1, 2, 4, 8}
  BY <1>3 DEF AccessOK
<1>6. Operand(access) \in Registers
  BY <1>2, CurrentInstruction DEF Operand
<1> HIDE DEF access, addr
<1>7. read \in Reg
  BY <1>4, <1>5, ReadInReg
<1>8. extended \in Reg
  <2> DEFINE n == access.bytes
  <2>1. n \in {1, 2, 4, 8}
    BY <1>5
  <2> HIDE DEF n, read
  <2>2. n * ByteBits \in Nat \ {0}
    BY <2>1, Sizes
  <2>3. SignExtend(read, n * ByteBits) \in Reg
    BY <1>7, <2>2, RegNumber, SignExtendReg
  <2>4. QED
    BY <1>7, <2>3 DEF n
<1> HIDE DEF extended
<1>9. regs' \in [Registers -> Reg]
  BY <1>1, <1>6, <1>8, RegisterWritten
<1>10. pc' \in Word
  BY <1>1, AdvanceStep DEF AccessBytes
<1>11. QED
  BY <1>1, <1>2, <1>9, <1>10, NoStoreStep, FlagsKept
     DEF Effect, GoesOn, MachineOK, RestOK

LEMMA StoreEffect ==
  ASSUME program \in Programs, MachineOK, RestOK, ExecStore
  PROVE  Effect
<1> DEFINE access == Stores[ins.op]
           addr == AddressOf(access)
           val == regs[Operand(access)]
<1>1. /\ ins.op \in DOMAIN Stores
      /\ IF access.bytes = 8 THEN Write64(addr, val) ELSE WriteSub(addr, val, access.bytes)
      /\ Advance(AccessBytes(access)) /\ GoesOn
      /\ UNCHANGED << regs, sp, flags, uart >>
  BY DEF ExecStore
<1>2. ins.op \notin {"invalid", "CMPRR", "CMPRV", "IRET"}
  BY <1>1, StoreNames
<1>3. StoreOK(access)
  BY <1>1, Accesses
<1>4. addr \in Word /\ addr % access.align = 0
  BY <1>2, <1>3, AddressInWord DEF StoreOK
<1>5. access.bytes \in {1, 2, 4, 8} /\ (access.bytes # 8 => access.align = access.bytes)
  BY <1>3 DEF StoreOK, AccessOK
<1>6. Operand(access) \in Registers
  BY <1>2, CurrentInstruction DEF Operand
<1>7. val \in Reg
  BY <1>6 DEF MachineOK
<1> HIDE DEF access, addr, val
<1>8. MemoryStep
  <2>1. CASE access.bytes = 8
    BY <1>1, <1>4, <1>7, <2>1 DEF MemoryStep
  <2>2. CASE access.bytes # 8
    <3>1. access.bytes \in {1, 2, 4} /\ addr % access.bytes = 0
      BY <1>4, <1>5, <2>2
    <3>2. WriteSub(addr, val, access.bytes)
      BY <1>1, <2>2
    <3>3. QED
      BY <1>4, <1>7, <3>1, <3>2, Zenon DEF MemoryStep
  <2>3. QED
    BY <2>1, <2>2
<1>9. pc' \in Word
  BY <1>1, AdvanceStep DEF AccessBytes
<1>10. QED
  BY <1>1, <1>2, <1>8, <1>9, FlagsKept DEF Effect, GoesOn, MachineOK, RestOK

LEMMA BytesOutput ==
  ASSUME NEW text \in Seq(Reg)
  PROVE  Bytes(text) \in Seq(Output)
<1>1. Len(text) \in Nat
  BY LenProperties
<1>2. \A i \in 1..Len(text) : << "byte", text[i] >> \in Output
  BY ElementOfSeq DEF Output
<1>3. Bytes(text) \in [1..Len(text) -> Output]
  BY <1>2 DEF Bytes
<1>4. QED
  BY <1>1, <1>3, SeqDef

LEMMA StringOf ==
  ASSUME MachineOK, NEW addr \in Word
  PROVE  StringAt(addr) \in Seq(Reg)
<1>1. addr \in Nat /\ MemSize \in Nat
  BY WordNumber, MemoryBounds
<1>2. CASE addr >= MemSize
  BY <1>2 DEF StringAt
<1>3. CASE ~(addr >= MemSize)
  <2> DEFINE S == {a \in addr..MemSize : a = MemSize \/ mem[a] = 0}
             end == Min(S)
             text == [i \in 1..(end - addr) |-> mem[addr + i - 1]]
  <2>1. S \in SUBSET (0..MemSize) /\ MemSize \in S
    BY <1>1, <1>3
  <2>2. end \in S
    <3> HIDE DEF S
    <3>1. QED
      BY <1>1, <2>1, MinMax
  <2>3. StringAt(addr) = text
    BY <1>3 DEF StringAt
  <2> HIDE DEF end
  <2>4. end \in addr..MemSize
    BY <2>2
  <2>5. ASSUME NEW i \in 1..(end - addr)
        PROVE  mem[addr + i - 1] \in Reg
    <3>1. addr + i - 1 \in Addresses
      BY <1>1, <2>4 DEF Addresses
    <3>2. mem[addr + i - 1] \in Byte
      BY <3>1 DEF MachineOK
    <3>3. QED
      BY <3>2, Sizes DEF Byte, Reg
  <2>6. end - addr \in Nat
    BY <1>1, <2>4
  <2>7. text \in [1..(end - addr) -> Reg]
    BY <2>5
  <2>8. QED
    BY <2>3, <2>6, <2>7, SeqDef
<1>4. QED
  BY <1>2, <1>3

LEMMA ByteRead ==
  ASSUME MachineOK, NEW addr \in Word
  PROVE  /\ Hex(Read64(AlignedTo(addr, 8))) \in Seq(Output)
         /\ Bytes(<< ReadSub(addr, 1) >>) \in Seq(Output)
         /\ Bytes(StringAt(addr)) \in Seq(Output)
<1>1. AlignedTo(addr, 8) \in Nat /\ addr \in Nat
  BY Aligned, WordNumber
<1>2. Read64(AlignedTo(addr, 8)) \in Reg /\ ReadSub(addr, 1) \in Reg
  BY <1>1, ReadInReg
<1>3. Hex(Read64(AlignedTo(addr, 8))) \in Seq(Output)
  BY <1>2 DEF Hex, Output
<1>4. << ReadSub(addr, 1) >> \in Seq(Reg)
  BY <1>2
<1>5. QED
  BY <1>3, <1>4, StringOf, BytesOutput

Transmits ==
  {"TXR", "TXMEMR", "TXCHARMEMR", "TXSTRMEMR", "TXMEM", "TXSTRMEM", "TESTMSG", "NEWLINE"}

LEMMA TransmittedOutput ==
  ASSUME program \in Programs, MachineOK, ins.op \in Transmits
  PROVE  Transmitted \in Seq(Output)
<1> DEFINE addr == regs[ins.rs2] % WordSize
<1>1. ins.op # "invalid"
  BY DEF Transmits
<1>2. addr \in Word /\ ins.imm \in Word /\ regs[ins.rs2] \in Reg
  BY <1>1, RegisterRead, CurrentInstruction
<1>3. Transmitted \in {Hex(regs[ins.rs2]), Hex(Read64(AlignedTo(addr, 8))),
                       Bytes(<< ReadSub(addr, 1) >>), Bytes(StringAt(addr)),
                       Hex(Read64(AlignedTo(ins.imm, 8))), Bytes(StringAt(ins.imm)),
                       Text("TEST"), Text("newline")}
  BY Zenon DEF Transmitted, Transmits
<1>4. Hex(regs[ins.rs2]) \in Seq(Output)
  BY <1>2 DEF Hex, Output
<1>5. Text("TEST") \in Seq(Output) /\ Text("newline") \in Seq(Output)
  <2>1. 0 \in Reg
    BY SmallInReg
  <2>2. << "TEST", 0 >> \in Output /\ << "newline", 0 >> \in Output
    BY <2>1 DEF Output
  <2>3. QED
    BY <2>2 DEF Text
<1>6. QED
  BY <1>2, <1>3, <1>4, <1>5, ByteRead

LEMMA TransmitEffect ==
  ASSUME program \in Programs, MachineOK, RestOK, ExecTransmit
  PROVE  Effect
<1>1. /\ ins.op \in Transmits
      /\ uart' = uart \o Transmitted
      /\ Advance(IF ins.op \in {"TXMEM", "TXSTRMEM"} THEN 8 ELSE 4) /\ NoStore /\ GoesOn
      /\ UNCHANGED << regs, sp, flags >>
  BY DEF ExecTransmit, Transmits
<1>2. uart' \in Seq(Output)
  <2>1. Transmitted \in Seq(Output)
    BY <1>1, TransmittedOutput
  <2>2. QED
    BY <1>1, <2>1, ConcatProperties DEF RestOK
<1>3. pc' \in Word
  BY <1>1, AdvanceStep
<1>4. ins.op \notin {"CMPRR", "CMPRV", "IRET"}
  BY <1>1 DEF Transmits
<1>5. QED
  BY <1>1, <1>2, <1>3, <1>4, FlagsKept, NoStoreStep DEF Effect, GoesOn, MachineOK, RestOK

LEMMA RrrEffect ==
  ASSUME program \in Programs, MachineOK, RestOK, ExecRrr
  PROVE  Effect
<1> DEFINE outcome == Rrr(ins.op, regs[ins.rs1], regs[ins.rs2], flags)
<1>1. /\ ins.op \in RrrOps
      /\ regs' = [regs EXCEPT ![ins.rd] = outcome.result]
      /\ flags' = outcome.flags
      /\ Advance(4) /\ NoStore /\ GoesOn
      /\ UNCHANGED << sp, uart >>
  BY DEF ExecRrr
<1>2. ins.op \notin {"invalid", "CMPRR", "CMPRV", "IRET"}
  BY <1>1 DEF RrrOps, AddOps, ValueOps, ZeroFlagOps
<1>3. flags \in Flags
  BY DEF MachineOK
<1>4. Outcome(flags, outcome)
  BY <1>1, <1>2, <1>3, RegisterRead, RrrOutcome
<1> HIDE DEF outcome
<1>5. regs' \in [Registers -> Reg]
  BY <1>1, <1>2, <1>4, CurrentInstruction, RegisterWritten DEF Outcome
<1>6. KeepsCompare(flags, flags') /\ flags' \in Flags
  BY <1>1, <1>4 DEF Outcome, KeepsCompare
<1>7. pc' \in Word
  BY <1>1, AdvanceStep
<1>8. QED
  BY <1>1, <1>2, <1>5, <1>6, <1>7, NoStoreStep
     DEF Effect, CompareStep, GoesOn, MachineOK, RestOK

LEMMA TwoWords ==
  ASSUME NEW y \in Word, NEW x \in Word
  PROVE  y * WordSize + x \in Reg
<1>1. x \in 0..(WordSize - 1) /\ y \in 0..(WordSize - 1)
  BY DEF Word
<1>2. y * WordSize \in Nat /\ y * WordSize <= (WordSize - 1) * WordSize
  BY <1>1, Sizes
<1>3. (WordSize - 1) * WordSize + WordSize = RegSize
  BY Sizes
<1>4. QED
  BY <1>1, <1>2, <1>3, Sizes DEF Reg

LEMMA RvOutcome ==
  ASSUME program \in Programs, MachineOK, ins.op \in RvOps, ins.op # "CMPRV"
  PROVE  Outcome(flags, Rv(ins, regs[ins.rs2], pc, flags))
<1>1. ins.op # "invalid"
  BY DEF RvOps, OneWordRv, TwoWordRv
<1>2. /\ regs[ins.rs2] \in Reg /\ ins.imm \in Word /\ ins.high \in Word /\ flags \in Flags
      /\ pc \in Word
  BY <1>1, RegisterRead, CurrentInstruction DEF MachineOK
<1>3. CASE ins.op = "LEAPC"
  <2>1. (pc + ins.imm) % WordSize \in Reg
    <3> DEFINE x == ins.imm
    <3>1. x \in Int /\ pc \in Int
      BY <1>2, WordNumber
    <3> HIDE DEF x
    <3>2. pc + x \in Int
      BY <3>1
    <3>3. QED
      BY <3>2, ModReg, WordNumber DEF x
  <2>2. Rv(ins, regs[ins.rs2], pc, flags) = Plain(flags, (pc + ins.imm) % WordSize)
    <3>1. ins.op \notin OneWordRv /\ ins.op \notin TwoWordRv \ {"LEAPC"} /\ ins.op # "SETR64"
      BY <1>3 DEF OneWordRv
    <3>2. QED
      BY <1>3, <3>1, Zenon DEF Rv
  <2>3. QED
    BY <1>2, <2>1, <2>2, PlainOutcome, FlagsKeepCompare
<1>4. CASE ins.op = "SETR64"
  <2>1. ins.high * WordSize + ins.imm \in Reg
    BY <1>2, TwoWords
  <2>2. Rv(ins, regs[ins.rs2], pc, flags) = Plain(flags, ins.high * WordSize + ins.imm)
    <3>1. ins.op \notin OneWordRv /\ ins.op \notin TwoWordRv /\ ins.op # "LEAPC"
      BY <1>4 DEF OneWordRv, TwoWordRv
    <3>2. QED
      BY <1>4, <3>1, Zenon DEF Rv
  <2>3. QED
    BY <1>2, <2>1, <2>2, PlainOutcome, FlagsKeepCompare
<1>5. CASE ins.op \in OneWordRv
  <2>1. ins.op \notin {"LEAPC", "SETR64"} /\ ins.op \notin TwoWordRv
    BY <1>5 DEF OneWordRv, TwoWordRv
  <2>2. Rv(ins, regs[ins.rs2], pc, flags) = RvUnary(ins.op, regs[ins.rs2], flags)
    BY <1>5, <2>1, Zenon DEF Rv
  <2>3. QED
    BY <1>2, <1>5, <2>2, RvUnaryOutcome
<1>6. CASE ins.op \in TwoWordRv \ {"CMPRV", "LEAPC"}
  <2>1. ins.op \notin OneWordRv \cup {"LEAPC", "SETR64"}
    BY <1>6 DEF OneWordRv, TwoWordRv
  <2>2. Rv(ins, regs[ins.rs2], pc, flags)
          = RvImmediate(ins.op, regs[ins.rs2], ins.imm, flags)
    BY <1>6, <2>1, Zenon DEF Rv
  <2>3. QED
    BY <1>2, <1>6, <2>2, RvImmediateOutcome
<1>7. QED
  BY <1>3, <1>4, <1>5, <1>6 DEF RvOps

LEMMA RvGroupEffect ==
  ASSUME program \in Programs, MachineOK, RestOK, ExecRvGroup
  PROVE  Effect
<1> DEFINE outcome == Rv(ins, regs[ins.rs2], pc, flags)
<1>1. /\ ins.op \in RvOps
      /\ regs' = [regs EXCEPT ![ins.rs2] = outcome.result]
      /\ flags' = outcome.flags
      /\ Advance(RvBytes(ins.op)) /\ NoStore /\ GoesOn
      /\ UNCHANGED << sp, uart >>
  BY DEF ExecRvGroup
<1>2. ins.op \notin {"invalid", "CMPRR", "IRET"}
  BY <1>1 DEF RvOps, OneWordRv, TwoWordRv
<1>3. pc' \in Word
  BY <1>1, AdvanceStep DEF RvBytes
<1>4. /\ regs[ins.rs2] \in Reg /\ SignExtend(ins.imm, WordBits) \in Reg /\ flags \in Flags
      /\ ins.rs2 \in Registers
  BY <1>2, RegisterRead, CurrentInstruction DEF MachineOK
<1>5. outcome.result \in Reg /\ flags' \in Flags /\ CompareStep
  <2>1. CASE ins.op = "CMPRV"
    <3>1. ins.op \notin OneWordRv \cup {"LEAPC", "SETR64"} /\ ins.op \in TwoWordRv
      BY <2>1 DEF OneWordRv, TwoWordRv
    <3>2. outcome = RvImmediate(ins.op, regs[ins.rs2], ins.imm, flags)
      BY <3>1, Zenon DEF Rv
    <3>3. outcome = Plain(Compare(flags, regs[ins.rs2], SignExtend(ins.imm, WordBits)),
                          regs[ins.rs2])
      BY <2>1, <3>2, Zenon DEF RvImmediate
    <3> HIDE DEF outcome
    <3>4. /\ outcome.result = regs[ins.rs2]
          /\ outcome.flags = Compare(flags, regs[ins.rs2], SignExtend(ins.imm, WordBits))
      BY <3>3 DEF Plain
    <3>5. QED
      BY <1>1, <1>4, <2>1, <3>4, CompareFlags DEF CompareStep
  <2>2. CASE ins.op # "CMPRV"
    <3>1. Outcome(flags, outcome)
      BY <1>1, <2>2, RvOutcome
    <3> HIDE DEF outcome
    <3>2. outcome.result \in Reg /\ KeepsCompare(flags, flags') /\ flags' \in Flags
      BY <1>1, <3>1 DEF Outcome, KeepsCompare
    <3>3. QED
      BY <1>2, <2>2, <3>2 DEF CompareStep
  <2>3. QED
    BY <2>1, <2>2
<1> HIDE DEF outcome
<1>6. regs' \in [Registers -> Reg]
  BY <1>1, <1>4, <1>5, RegisterWritten
<1>7. QED
  BY <1>1, <1>3, <1>5, <1>6, NoStoreStep DEF Effect, GoesOn, MachineOK, RestOK

LEMMA JumpTargetInWord ==
  ASSUME program \in Programs, MachineOK, ins.op # "invalid"
  PROVE  JumpTarget \in Word /\ \A n \in {4, 8} : ReturnAddress(n) \in Word
<1> DEFINE x == ins.imm
<1>1. pc \in Int /\ x \in Int /\ x \in Word
  BY CurrentInstruction, WordNumber DEF MachineOK
<1> HIDE DEF x
<1>2. pc + x \in Int /\ \A n \in {4, 8} : pc + n \in Int
  BY <1>1
<1>3. QED
  BY <1>1, <1>2, ModReg DEF JumpTarget, ReturnAddress, x

LEMMA CallEffect ==
  ASSUME program \in Programs, MachineOK, RestOK, ExecCall \/ ExecCallRegister
  PROVE  Effect
<1>1. /\ ins.op \in {"CALL", "CALLREL", "CALLR"}
      /\ GoesOn /\ UNCHANGED << regs, flags, uart >>
  BY DEF ExecCall, ExecCallRegister
<1>2. ins.op \notin {"invalid", "CMPRR", "CMPRV", "IRET"}
  BY <1>1
<1>3. JumpTarget \in Word /\ regs[ins.rs2] % WordSize \in Word
  BY <1>2, JumpTargetInWord, RegisterRead
<1>4. \A n \in {4, 8} : ReturnAddress(n) \in Reg
  BY <1>2, JumpTargetInWord, WordNumber
<1>5. sp' \in Word /\ pc' \in Word /\ MemoryStep
  <2>1. CASE Push(ReturnAddress(8)) /\ pc' = JumpTarget
    BY <1>3, <1>4, <2>1, PushStep
  <2>2. CASE Push(ReturnAddress(4)) /\ pc' = regs[ins.rs2] % WordSize
    BY <1>3, <1>4, <2>2, PushStep
  <2>3. CASE Advance(8) /\ NoStore /\ sp' = sp
    BY <2>3, AdvanceStep, NoStoreStep DEF MachineOK
  <2>4. QED
    BY <2>1, <2>2, <2>3 DEF ExecCall, ExecCallRegister
<1>6. QED
  BY <1>1, <1>2, <1>5, FlagsKept DEF Effect, GoesOn, MachineOK, RestOK

LEMMA IretEffect ==
  ASSUME program \in Programs, MachineOK, RestOK, ExecIret
  PROVE  Effect
<1>1. /\ ins.op = "IRET" /\ Pop /\ pc' = Popped % WordSize /\ NoStore /\ GoesOn
      /\ UNCHANGED << regs, uart >>
  BY DEF ExecIret
<1>2. flags' \in Flags
  <2> DEFINE Saved(i) == Bit(Popped, WordBits + i) = 1
  <2>1. flags' = [zero |-> Saved(6), equal |-> Saved(5), carry |-> Saved(4),
                  overflow |-> Saved(3), sign |-> Saved(2), less |-> Saved(1),
                  ult |-> Saved(0)]
    BY DEF ExecIret
  <2>2. \A i : Saved(i) \in BOOLEAN
    BY Zenon
  <2> HIDE DEF Saved
  <2>3. QED
    BY <2>1, <2>2 DEF Flags
<1>3. QED
  BY <1>1, <1>2, PopStep, NoStoreStep DEF Effect, CompareStep, GoesOn, MachineOK, RestOK

LEMMA PushEffect ==
  ASSUME program \in Programs, MachineOK, RestOK, ExecPush
  PROVE  Effect
<1>1. /\ ins.op \in {"PUSH", "PUSHV", "PUSHV64"} /\ Push(Pushed) /\ GoesOn
      /\ Advance(IF ins.op = "PUSH" THEN 4 ELSE IF ins.op = "PUSHV" THEN 8 ELSE 12)
      /\ UNCHANGED << regs, flags, uart >>
  BY DEF ExecPush
<1>2. ins.op \notin {"invalid", "CMPRR", "CMPRV", "IRET"}
  BY <1>1
<1>3. Pushed \in Reg
  <2> DEFINE x == ins.imm
             y == ins.high
  <2>1. x \in Word /\ y \in Word /\ regs[ins.rs2] \in Reg
    BY <1>2, RegisterRead, CurrentInstruction
  <2>2. y * WordSize + x \in Reg
    <3> HIDE DEF x, y
    <3>1. QED
      BY <2>1, TwoWords
  <2>3. QED
    BY <2>1, <2>2, WordNumber DEF Pushed
<1>4. pc' \in Word
  BY <1>1, AdvanceStep
<1>5. QED
  BY <1>1, <1>2, <1>3, <1>4, PushStep, FlagsKept DEF Effect, GoesOn, MachineOK, RestOK

LEMMA ArithmeticEffect ==
  ASSUME program \in Programs, MachineOK, RestOK, ExecCopy \/ ExecAddi \/ ExecCmprr
  PROVE  Effect
<1>1. ins.op \in {"COPY", "ADDI", "CMPRR"} /\ NoStore /\ GoesOn /\ UNCHANGED << sp, uart >>
  BY DEF ExecCopy, ExecAddi, ExecCmprr
<1>2. ins.op \notin {"invalid", "CMPRV", "IRET"}
  BY <1>1
<1>3. pc' \in Word
  BY AdvanceStep DEF ExecCopy, ExecAddi, ExecCmprr
<1>4. /\ ins.rs1 \in Registers /\ ins.rs2 \in Registers /\ flags \in Flags
      /\ regs[ins.rs1] \in Reg /\ regs[ins.rs2] \in Reg
      /\ SignExtend(ins.imm, WordBits) \in Reg
  BY <1>2, CurrentInstruction, RegisterRead DEF MachineOK
<1>5. regs' \in [Registers -> Reg] /\ flags' \in Flags /\ CompareStep
  <2>1. CASE ExecCopy
    <3>1. /\ regs' = [regs EXCEPT ![ins.rs1] = regs[ins.rs2]]
          /\ flags' = flags /\ ins.op = "COPY"
      BY <2>1 DEF ExecCopy
    <3>2. QED
      BY <1>4, <3>1, RegisterWritten, FlagsKept
  <2>2. CASE ExecAddi
    <3> DEFINE sum == AddFlags(flags, regs[ins.rs2], SignExtend(ins.imm, WordBits), 0)
    <3>1. /\ regs' = [regs EXCEPT ![ins.rs1] = sum.result]
          /\ flags' = sum.flags /\ ins.op = "ADDI"
      BY <2>2 DEF ExecAddi
    <3>2. Outcome(flags, sum)
      <4>1. regs[ins.rs2] \in Int /\ SignExtend(ins.imm, WordBits) \in Int /\ 0 \in Int
        BY <1>4, RegNumber
      <4>2. QED
        BY <1>4, <4>1, AddFlagsOutcome
    <3> HIDE DEF sum
    <3>3. sum.result \in Reg /\ KeepsCompare(flags, flags') /\ flags' \in Flags
      BY <3>1, <3>2 DEF Outcome, KeepsCompare
    <3>4. QED
      BY <1>4, <3>1, <3>3, RegisterWritten DEF CompareStep
  <2>3. CASE ExecCmprr
    <3>1. /\ flags' = Compare(flags, regs[ins.rs1], regs[ins.rs2])
          /\ regs' = regs /\ ins.op = "CMPRR"
      BY <2>3 DEF ExecCmprr
    <3>2. flags' \in Flags
      BY <1>4, <3>1, CompareFlags
    <3>3. QED
      BY <3>1, <3>2 DEF CompareStep, MachineOK
  <2>4. QED
    BY <2>1, <2>2, <2>3
<1>6. QED
  BY <1>1, <1>3, <1>5, NoStoreStep DEF Effect, GoesOn, MachineOK, RestOK

LEMMA FlowEffect ==
  ASSUME program \in Programs, MachineOK, RestOK,
         ExecJump \/ ExecJumpRegister \/ ExecReturn \/ ExecReset
  PROVE  Effect
<1>1. /\ ins.op \in {"JMP", "JMPREL", "JMPR", "RET", "RESET"}
      /\ NoStore /\ GoesOn /\ UNCHANGED << regs, flags, uart >>
  BY DEF ExecJump, ExecJumpRegister, ExecReturn, ExecReset
<1>2. ins.op \notin {"invalid", "CMPRR", "CMPRV", "IRET"}
  BY <1>1
<1>3. pc' \in Word /\ sp' \in Word
  <2>1. CASE ExecJump
    BY <1>2, <2>1, JumpTargetInWord, AdvanceStep DEF ExecJump, MachineOK
  <2>2. CASE ExecJumpRegister
    BY <1>2, <2>2, RegisterRead DEF ExecJumpRegister, MachineOK
  <2>3. CASE ExecReturn
    BY <2>3, PopStep DEF ExecReturn
  <2>4. CASE ExecReset
    <3>1. WordBits \in Nat /\ 4 <= WordBits
      BY Sizes DEF WordBits
    <3>2. 4 \in Word
      BY <3>1, Sizes, PowerExceeds DEF Word, WordSize
    <3>3. QED
      BY <2>4, <3>2 DEF ExecReset, MachineOK
  <2>5. QED
    BY <2>1, <2>2, <2>3, <2>4
<1>4. QED
  BY <1>1, <1>2, <1>3, FlagsKept, NoStoreStep DEF Effect, GoesOn, MachineOK, RestOK

LEMMA StackPointerEffect ==
  ASSUME program \in Programs, MachineOK, RestOK, ExecPop \/ ExecGetsp \/ ExecMoveSp
  PROVE  Effect
<1>1. /\ ins.op \in {"POP", "GETSP", "SETSP", "ADDSP"}
      /\ NoStore /\ GoesOn /\ UNCHANGED << flags, uart >>
  BY DEF ExecPop, ExecGetsp, ExecMoveSp
<1>2. ins.op \notin {"invalid", "CMPRR", "CMPRV", "IRET"}
  BY <1>1
<1>3. pc' \in Word
  BY AdvanceStep DEF ExecPop, ExecGetsp, ExecMoveSp
<1>4. ins.rs2 \in Registers /\ regs[ins.rs2] % WordSize \in Word
  BY <1>2, CurrentInstruction, RegisterRead
<1>5. regs' \in [Registers -> Reg] /\ sp' \in Word
  <2>1. CASE ExecPop
    BY <1>4, <2>1, PopStep, RegisterWritten DEF ExecPop
  <2>2. CASE ExecGetsp
    BY <1>4, <2>2, WordNumber, RegisterWritten DEF ExecGetsp, MachineOK
  <2>3. CASE ExecMoveSp
    <3> DEFINE x == ins.imm
    <3>1. sp \in Int /\ x \in Int
      BY <1>2, CurrentInstruction, WordNumber DEF MachineOK
    <3> HIDE DEF x
    <3>2. sp + x \in Int
      BY <3>1
    <3>3. (sp + ins.imm) % WordSize \in Word
      BY <3>2, ModReg DEF x
    <3>4. QED
      BY <1>4, <2>3, <3>3 DEF ExecMoveSp, MachineOK
  <2>4. QED
    BY <2>1, <2>2, <2>3
<1>6. QED
  BY <1>1, <1>2, <1>3, <1>5, FlagsKept, NoStoreStep DEF Effect, GoesOn, MachineOK, RestOK

LEMMA PlainEffect ==
  ASSUME program \in Programs, MachineOK, RestOK, ExecReceive \/ ExecNothing
  PROVE  Effect
<1>1. /\ ins.op \in {"RXRB", "RXRNB", "SWR", "one word", "two words"}
      /\ NoStore /\ GoesOn /\ UNCHANGED << sp, uart >>
  BY DEF ExecReceive, ExecNothing
<1>2. ins.op \notin {"invalid", "CMPRR", "CMPRV", "IRET"}
  BY <1>1
<1>3. pc' \in Word
  BY AdvanceStep DEF ExecReceive, ExecNothing
<1>4. ins.rs2 \in Registers /\ 0 \in Reg /\ flags \in Flags
  BY <1>2, CurrentInstruction, SmallInReg DEF MachineOK
<1>5. regs' \in [Registers -> Reg]
  BY <1>4, RegisterWritten DEF ExecReceive, ExecNothing, MachineOK
<1>6. KeepsCompare(flags, flags') /\ flags' \in Flags
  <2>1. flags' \in {flags, [flags EXCEPT !.zero = TRUE]}
    BY DEF ExecReceive, ExecNothing
  <2>2. KeepsCompare(flags, flags')
    BY <1>4, <2>1, FlagsKeepCompare
  <2>3. QED
    BY <2>2 DEF KeepsCompare
<1>7. QED
  BY <1>1, <1>2, <1>3, <1>5, <1>6, NoStoreStep
     DEF Effect, CompareStep, GoesOn, MachineOK, RestOK

LEMMA StopEffect ==
  ASSUME program \in Programs, MachineOK, RestOK, ExecInvalid \/ ExecHalt \/ ExecTrap
  PROVE  Effect
<1>1. /\ ins.op \in {"invalid", "invalid rrr", "HALT", "TRAP"}
      /\ NoStore /\ UNCHANGED << regs, sp, flags, uart >>
  BY DEF ExecInvalid, ExecHalt, ExecTrap
<1>2. ins.op \notin {"CMPRR", "CMPRV", "IRET"}
  BY <1>1
<1>3. pc' \in Word
  BY AdvanceStep DEF ExecInvalid, ExecHalt, ExecTrap, MachineOK
<1>4. halted' \in BOOLEAN /\ stop' \in StopReasons \cup {"none"}
  BY DEF ExecInvalid, ExecHalt, ExecTrap, RestOK, StopReasons
<1>5. QED
  BY <1>1, <1>2, <1>3, <1>4, FlagsKept, NoStoreStep DEF Effect, MachineOK, RestOK

LEMMA ExecEffect ==
  ASSUME program \in Programs, MachineOK, RestOK, Exec
  PROVE  Effect
<1>1. CASE ExecCopy \/ ExecAddi \/ ExecCmprr
  BY <1>1, ArithmeticEffect
<1>2. CASE ExecRrr
  BY <1>2, RrrEffect
<1>3. CASE ExecRvGroup
  BY <1>3, RvGroupEffect
<1>4. CASE ExecInvalid \/ ExecHalt \/ ExecTrap
  BY <1>4, StopEffect
<1>5. CASE ExecJump \/ ExecJumpRegister \/ ExecReturn \/ ExecReset
  BY <1>5, FlowEffect
<1>6. CASE ExecCall \/ ExecCallRegister
  BY <1>6, CallEffect
<1>7. CASE ExecIret
  BY <1>7, IretEffect
<1>8. CASE ExecPush
  BY <1>8, PushEffect
<1>9. CASE ExecPop \/ ExecGetsp \/ ExecMoveSp
  BY <1>9, StackPointerEffect
<1>10. CASE ExecLoad
  BY <1>10, LoadEffect
<1>11. CASE ExecStore
  BY <1>11, StoreEffect
<1>12. CASE ExecTransmit
  BY <1>12, TransmitEffect
<1>13. CASE ExecReceive \/ ExecNothing
  BY <1>13, PlainEffect
<1>14. QED
  BY <1>1, <1>2, <1>3, <1>4, <1>5, <1>6, <1>7, <1>8, <1>9, <1>10, <1>11, <1>12, <1>13
     DEF Exec

-----------------------------------------------------------------------------
(* The inductive invariant: a frame that is remembered still holds its     *)
(* return address in memory, and the flags of comparison tell the numbers  *)
(* last compared.                                                          *)
FramesIntact ==
  \A f \in frames :
    f.at + 8 <= MemSize => \A i \in AllLanes : mem[f.at + i] = ByteOf(f.next, i)

FlagsTellCompared ==
  compared # << >> =>
    /\ flags.equal = (compared[1] = compared[2])
    /\ flags.less = (Signed(compared[1]) < Signed(compared[2]))
    /\ flags.ult = (compared[1] < compared[2])

IInv == program \in Programs /\ TypeOK /\ FramesIntact /\ FlagsTellCompared

LEMMA Invariants ==
  ASSUME IInv
  PROVE  MachineOK /\ RestOK
BY DEF IInv, TypeOK, MachineOK, RestOK, Output

LEMMA InitInvariant == Init => IInv
<1> SUFFICES ASSUME Init
             PROVE  IInv
  OBVIOUS
<1>1. program \in Programs /\ frames = {} /\ compared = << >> /\ count = 0
  BY DEF Init
<1>2. 0 \in Byte /\ 0 \in Reg /\ 0 \in Word
  BY Sizes DEF Byte, Reg, Word
<1>3. program.entry \in Word /\ \A a \in DOMAIN program.data : program.data[a] \in Byte
  BY <1>1, ProgramsAssumption
<1>4. mem \in [Addresses -> Byte]
  BY <1>2, <1>3 DEF Init
<1>5. regs \in [Registers -> Reg] /\ sp \in Word /\ pc \in Word /\ flags \in Flags
  BY <1>2, <1>3, MemoryBounds DEF Init, STACK_TOP, NoFlags, Flags
<1>6. last_write \in [addr : Word, lanes : SUBSET AllLanes, data : Reg]
  BY <1>2 DEF Init, NoWrite
<1>7. count \in 0..MaxInstructions
  BY <1>1, EmulatorAssumption
<1>8. uart \in Seq({"hex", "byte", "TEST", "newline"} \X Reg) /\ halted \in BOOLEAN
      /\ stop = "none" /\ result = "none"
  BY EmptySeq DEF Init
<1>9. TypeOK
  BY <1>1, <1>3, <1>4, <1>5, <1>6, <1>7, <1>8 DEF TypeOK
<1>10. QED
  BY <1>1, <1>9 DEF IInv, FramesIntact, FlagsTellCompared

(* Which action an instruction's code selects.                             *)
OtherOps ==
  {"COPY", "ADDI", "CMPRR", "invalid", "invalid rrr", "JMP", "JMPREL", "CALL", "CALLREL",
   "JMPR", "CALLR", "RET", "IRET", "PUSH", "PUSHV", "PUSHV64", "POP", "GETSP", "SETSP",
   "ADDSP", "RXRB", "RXRNB", "SWR", "one word", "two words", "RESET", "HALT", "TRAP"}

LEMMA ClassesDisjoint ==
  /\ RrrOps \cap RvOps = {}
  /\ (RrrOps \cup RvOps) \cap
       (DOMAIN Loads \cup DOMAIN Stores \cup Transmits \cup OtherOps) = {}
  /\ OtherOps \cap (DOMAIN Loads \cup DOMAIN Stores \cup Transmits) = {}
BY LoadNames, StoreNames
   DEF RrrOps, AddOps, ValueOps, ZeroFlagOps, RvOps, OneWordRv, TwoWordRv, Transmits, OtherOps

LEMMA OnlyAction ==
  ASSUME Exec
  PROVE  /\ ins.op \in RrrOps => ExecRrr
         /\ ins.op \in RvOps => ExecRvGroup
         /\ ins.op = "ADDI" => ExecAddi
         /\ ins.op \in {"JMP", "JMPREL"} => ExecJump
         /\ ins.op \in {"CALL", "CALLREL"} => ExecCall
         /\ ins.op = "CALLR" => ExecCallRegister
         /\ ins.op = "RET" => ExecReturn
<1> DEFINE Chosen == {"ADDI", "JMP", "JMPREL", "CALL", "CALLREL", "CALLR", "RET"}
<1>1. /\ ExecRrr => ins.op \in RrrOps
      /\ ExecRvGroup => ins.op \in RvOps
      /\ ExecAddi => ins.op = "ADDI"
      /\ ExecJump => ins.op \in {"JMP", "JMPREL"}
      /\ ExecCall => ins.op \in {"CALL", "CALLREL"}
      /\ ExecCallRegister => ins.op = "CALLR"
      /\ ExecReturn => ins.op = "RET"
  BY DEF ExecRrr, ExecRvGroup, ExecAddi, ExecJump, ExecCall, ExecCallRegister, ExecReturn
<1>2. ExecCopy \/ ExecCmprr \/ ExecInvalid \/ ExecJumpRegister \/ ExecIret \/ ExecPush
        => ins.op \in OtherOps \ Chosen
  BY DEF ExecCopy, ExecCmprr, ExecInvalid, ExecJumpRegister, ExecIret, ExecPush, OtherOps
<1>3. ExecPop \/ ExecGetsp \/ ExecMoveSp \/ ExecReceive \/ ExecNothing \/ ExecReset
        \/ ExecHalt \/ ExecTrap
        => ins.op \in OtherOps \ Chosen
  BY DEF ExecPop, ExecGetsp, ExecMoveSp, ExecReceive, ExecNothing, ExecReset, ExecHalt,
         ExecTrap, OtherOps
<1>4. ExecLoad \/ ExecStore \/ ExecTransmit
        => ins.op \in DOMAIN Loads \cup DOMAIN Stores \cup Transmits
  BY DEF ExecLoad, ExecStore, ExecTransmit, Transmits
<1>5. Chosen \subseteq OtherOps
  BY DEF OtherOps
<1>6. QED
  BY <1>1, <1>2, <1>3, <1>4, <1>5, ClassesDisjoint DEF Exec

(* A call that stores pushes the address it returns to.                    *)
LEMMA CallPushes ==
  ASSUME Exec, ins.op \in Calls, last_write' # NoWrite
  PROVE  Push((pc + IF ins.op = "CALLR" THEN 4 ELSE 8) % WordSize)
<1>1. ~NoStore
  BY DEF NoStore
<1>2. ExecCall \/ ExecCallRegister
  BY OnlyAction DEF Calls
<1>3. CASE ExecCall
  BY <1>1, <1>3 DEF ExecCall, ReturnAddress
<1>4. CASE ExecCallRegister
  BY <1>4 DEF ExecCallRegister, ReturnAddress
<1>5. QED
  BY <1>2, <1>3, <1>4

LEMMA StepFrames ==
  ASSUME IInv, Step
  PROVE  frames' \subseteq [at : Word, next : Word] /\ FramesIntact'
<1> DEFINE n == IF ins.op = "CALLR" THEN 4 ELSE 8
           next == (pc + n) % WordSize
<1>1. MachineOK /\ RestOK /\ program \in Programs /\ Exec
      /\ frames \subseteq [at : Word, next : Word]
  BY Invariants DEF IInv, TypeOK, Step
<1>2. Effect
  BY <1>1, ExecEffect
<1>3. sp' \in Word /\ WriteTold
  BY <1>1, <1>2, MemoryStepTold DEF Effect
<1>4. frames' = {f \in frames : FrameBytes(f) \cap BytesOf(last_write') = {}}
                  \cup IF ins.op \in Calls /\ last_write' # NoWrite
                       THEN {[at |-> sp', next |-> next]} ELSE {}
  BY DEF Step, Remember
<1>5. next \in Word
  BY <1>1, AdvanceInWord DEF MachineOK
<1>6. ASSUME NEW f \in frames', f.at + 8 <= MemSize, NEW i \in AllLanes
      PROVE  mem'[f.at + i] = ByteOf(f.next, i)
  <2>1. CASE f \in frames /\ FrameBytes(f) \cap BytesOf(last_write') = {}
    <3>1. f.at \in Nat
      BY <1>1, <2>1, WordNumber
    <3>2. f.at + i \in Addresses /\ f.at + i \in FrameBytes(f)
      BY <1>6, <3>1, MemoryBounds DEF AllLanes, Addresses, FrameBytes
    <3>3. f.at + i \notin BytesOf(last_write')
      BY <2>1, <3>2
    <3>4. mem'[f.at + i] = mem[f.at + i]
      BY <1>3, <3>2, <3>3, Zenon DEF WriteTold
    <3>5. QED
      BY <1>6, <2>1, <3>4 DEF IInv, FramesIntact
  <2>2. CASE ins.op \in Calls /\ last_write' # NoWrite /\ f = [at |-> sp', next |-> next]
    <3>1. Push(next)
      BY <1>1, <2>2, CallPushes
    <3>2. mem' = Stored(sp', next, 8)
      BY <1>6, <2>2, <3>1 DEF Push, Write64
    <3>3. sp' \in Nat
      BY <1>3, WordNumber
    <3>4. /\ sp' + i \in Addresses /\ sp' + i \in sp'..(sp' + 8 - 1)
          /\ (sp' + i) - sp' = i
      <4> DEFINE s == sp'
      <4>1. s \in Nat /\ s + 8 <= MemSize
        BY <1>6, <2>2, <3>3
      <4> HIDE DEF s
      <4>2. s + i \in Addresses /\ s + i \in s..(s + 8 - 1) /\ (s + i) - s = i
        BY <4>1, MemoryBounds DEF AllLanes, Addresses
      <4>3. QED
        BY <4>2 DEF s
    <3>5. mem'[sp' + i] = ByteOf(next, i)
      BY <3>2, <3>4 DEF Stored
    <3>6. QED
      BY <2>2, <3>5
  <2>3. QED
    BY <1>4, <1>6, <2>1, <2>2
<1>7. frames' \subseteq [at : Word, next : Word]
  BY <1>1, <1>3, <1>4, <1>5
<1>8. QED
  BY <1>6, <1>7 DEF FramesIntact

LEMMA StepCompared ==
  ASSUME IInv, Step
  PROVE  compared' \in {<< >>} \cup (Reg \X Reg) /\ FlagsTellCompared'
<1>1. MachineOK /\ RestOK /\ program \in Programs /\ Exec
      /\ compared \in {<< >>} \cup (Reg \X Reg) /\ FlagsTellCompared
  BY Invariants DEF IInv, TypeOK, Step
<1>2. CompareStep /\ flags \in Flags
  BY <1>1, ExecEffect DEF Effect, MachineOK
<1>3. compared' = CASE ins.op = "CMPRR" -> << regs[ins.rs1], regs[ins.rs2] >>
                    [] ins.op = "CMPRV" -> << regs[ins.rs2], SignExtend(ins.imm, WordBits) >>
                    [] ins.op = "IRET"  -> << >>
                    [] OTHER -> compared
  BY DEF Step, Remember
<1>4. ASSUME NEW a \in Reg, NEW b \in Reg, flags' = Compare(flags, a, b),
             compared' = << a, b >>
      PROVE  compared' \in {<< >>} \cup (Reg \X Reg) /\ FlagsTellCompared'
  <2>1. /\ flags'.equal = (a = b) /\ flags'.less = (Signed(a) < Signed(b))
        /\ flags'.ult = (a < b)
    BY <1>2, <1>4, CompareFlags
  <2>2. compared'[1] = a /\ compared'[2] = b
    BY <1>4
  <2>3. QED
    BY <1>4, <2>1, <2>2 DEF FlagsTellCompared
<1>5. CASE ins.op \in {"CMPRR", "CMPRV"}
  <2>1. regs[ins.rs1] \in Reg /\ regs[ins.rs2] \in Reg /\ SignExtend(ins.imm, WordBits) \in Reg
    BY <1>1, <1>5, RegisterRead
  <2>2. CASE ins.op = "CMPRR"
    <3>1. compared' = << regs[ins.rs1], regs[ins.rs2] >>
      BY <1>3, <2>2, Zenon
    <3>2. flags' = Compare(flags, regs[ins.rs1], regs[ins.rs2])
      BY <1>2, <2>2 DEF CompareStep
    <3>3. QED
      BY <1>4, <2>1, <3>1, <3>2
  <2>3. CASE ins.op = "CMPRV"
    <3>1. compared' = << regs[ins.rs2], SignExtend(ins.imm, WordBits) >>
      BY <1>3, <2>3, Zenon
    <3>2. flags' = Compare(flags, regs[ins.rs2], SignExtend(ins.imm, WordBits))
      BY <1>2, <2>3 DEF CompareStep
    <3>3. QED
      BY <1>4, <2>1, <3>1, <3>2
  <2>4. QED
    BY <1>5, <2>2, <2>3
<1>6. CASE ins.op = "IRET"
  <2>1. compared' = << >>
    BY <1>3, <1>6, Zenon
  <2>2. QED
    BY <2>1 DEF FlagsTellCompared
<1>7. CASE ins.op \notin {"CMPRR", "CMPRV", "IRET"}
  <2>1. compared' = compared
    BY <1>3, <1>7, Zenon
  <2>2. flags'.equal = flags.equal /\ flags'.less = flags.less /\ flags'.ult = flags.ult
    BY <1>2, <1>7 DEF CompareStep, KeepsCompare
  <2>3. QED
    BY <1>1, <2>1, <2>2 DEF FlagsTellCompared
<1>8. QED
  BY <1>5, <1>6, <1>7

LEMMA StepInvariant ==
  ASSUME IInv, Step
  PROVE  IInv'
<1>1. MachineOK /\ RestOK /\ program \in Programs /\ Exec /\ TypeOK
  BY Invariants DEF IInv, Step
<1>2. Effect
  BY <1>1, ExecEffect
<1>3. /\ mem' \in [Addresses -> Byte]
      /\ last_write' \in [addr : Word, lanes : SUBSET AllLanes, data : Reg]
  BY <1>1, <1>2, MemoryStepTold DEF Effect
<1>4. count' \in 0..MaxInstructions
  BY <1>1, EmulatorAssumption DEF Step, Running, Retired, TypeOK
<1>5. program' = program /\ result' = result
  BY DEF Step
<1>6. TypeOK'
  BY <1>1, <1>2, <1>3, <1>4, <1>5, StepFrames, StepCompared DEF TypeOK, Effect, Output
<1>7. QED
  BY <1>1, <1>5, <1>6, StepFrames, StepCompared DEF IInv

LEMMA NextInvariant == IInv /\ [Next]_vars => IInv'
<1> SUFFICES ASSUME IInv, [Next]_vars
             PROVE  IInv'
  OBVIOUS
<1>1. CASE Step
  BY <1>1, StepInvariant
<1>2. CASE LeaveMemory
  BY <1>2 DEF LeaveMemory, IInv, TypeOK, StopReasons, FramesIntact, FlagsTellCompared
<1>3. CASE Return
  BY <1>3 DEF Return, IInv, TypeOK, StopReasons, FramesIntact, FlagsTellCompared
<1>4. CASE UNCHANGED vars
  BY <1>4 DEF vars, IInv, TypeOK, FramesIntact, FlagsTellCompared
<1>5. QED
  BY <1>1, <1>2, <1>3, <1>4 DEF Next

THEOREM InvariantAlways == Spec => []IInv
BY InitInvariant, NextInvariant, PTL DEF Spec

(* A step that commits is an instruction's.                                *)
LEMMA CommitIsStep ==
  ASSUME IInv, [Next]_vars, Commits
  PROVE  /\ Step /\ MachineOK /\ RestOK /\ program \in Programs /\ Exec
<1>1. count \in Int
  BY DEF IInv, TypeOK
<1>2. count' # count
  BY <1>1 DEF Commits
<1>3. Step
  BY <1>2 DEF Next, LeaveMemory, Return, vars
<1>4. QED
  BY <1>3, Invariants DEF IInv, Step

-----------------------------------------------------------------------------
(***************************************************************************)
(* TypeCorrect: whatever instructions a program holds and however it jumps *)
(* among them, every register keeps a number of the register's width, the  *)
(* stack pointer and program counter a word, memory bytes (emulate.rs      *)
(* computes with wrapping operations throughout).                          *)
(***************************************************************************)
THEOREM TypeCorrect == Spec => []TypeOK
<1>1. IInv => TypeOK
  BY DEF IInv
<1>2. QED
  BY <1>1, InvariantAlways, PTL

(***************************************************************************)
(* TraceTellsWritesAlways: in every run the write an instruction reports   *)
(* in the trace accounts for all of memory's change, and an enabled lane   *)
(* inside memory holds the byte the reported data has there (write_u64 and *)
(* write_sub, which report an aligned doubleword and byte enables).        *)
(***************************************************************************)
THEOREM TraceTellsWritesAlways == Spec => TraceTellsWrites
<1>1. ASSUME IInv, [Next]_vars, Commits
      PROVE  WriteTold
  BY <1>1, CommitIsStep, ExecEffect, MemoryStepTold DEF Effect
<1>2. ASSUME IInv, [Next]_vars
      PROVE  [Commits => WriteTold]_vars
  BY <1>1, <1>2
<1>3. QED
  BY <1>2, InvariantAlways, PTL DEF Spec, TraceTellsWrites, WriteTold

(***************************************************************************)
(* CallsReturnAlways: a return at the frame of a call, if the frame lies   *)
(* in memory and nothing was written over it, goes to the instruction      *)
(* after that call (push and pop, emulate.rs: eight bytes each, the low    *)
(* word of them the address).                                              *)
(***************************************************************************)
THEOREM CallsReturnAlways == Spec => CallsReturn
<1>1. ASSUME IInv, [Next]_vars, NEW f \in frames, Commits, ins.op = "RET", f.at = sp,
             f.at + 8 <= MemSize
      PROVE  pc' = f.next
  <2>1. Exec
    BY <1>1, CommitIsStep
  <2>2. pc' = Popped % WordSize
    BY <1>1, <2>1, OnlyAction DEF ExecReturn
  <2>3. f.at \in Nat /\ f.next \in Word /\ f.next \in Nat
    BY <1>1, WordNumber DEF IInv, TypeOK
  <2>4. \A i \in AllLanes : mem[f.at + i] = ByteOf(f.next, i)
    BY <1>1 DEF IInv, FramesIntact
  <2>5. Popped = ReadSub(f.at, 8)
    BY <1>1, <2>3, MemoryBounds DEF Popped, Read64
  <2>6. ReadSub(f.at, 8) = f.next % ByteWeight(8)
    <3> DEFINE g == [i \in 0..(8 - 1) |->
                       IF f.at + i \in Addresses THEN mem[f.at + i] * ByteWeight(i) ELSE 0]
    <3>1. \A i \in 0..(8 - 1) : g[i] = ByteOf(f.next, i) * ByteWeight(i)
      <4>1. ASSUME NEW i \in 0..(8 - 1)
            PROVE  f.at + i \in Addresses /\ i \in AllLanes
        BY <1>1, <2>3, MemoryBounds DEF Addresses, AllLanes
      <4>2. QED
        BY <2>4, <4>1
    <3>2. ReadSub(f.at, 8) = SumFunctionOnSet(g, 0..(8 - 1))
      BY DEF ReadSub, SumFunction
    <3> HIDE DEF g
    <3>3. 8 \in Nat /\ f.next \in Int
      BY <2>3
    <3>4. QED
      BY <3>1, <3>2, <3>3, SumOfBytes, Zenon
  <2>7. f.next % RegSize = f.next /\ f.next % WordSize = f.next
    <3> DEFINE x == f.next
    <3>1. x \in Int /\ 0 <= x /\ x < WordSize /\ x < RegSize
      BY <2>3, Sizes DEF Word
    <3> HIDE DEF x
    <3>2. x % RegSize = x /\ x % WordSize = x
      BY <3>1, Sizes, ModNear
    <3>3. QED
      BY <3>2 DEF x
  <2>8. QED
    BY <2>2, <2>5, <2>6, <2>7, Weights
<1>2. ASSUME IInv, [Next]_vars
      PROVE  [\A f \in frames :
                Commits /\ ins.op = "RET" /\ f.at = sp /\ f.at + 8 <= MemSize
                  => pc' = f.next]_vars
  BY <1>1, <1>2
<1>3. QED
  BY <1>2, InvariantAlways, PTL DEF Spec, CallsReturn

-----------------------------------------------------------------------------
(* Branches.                                                               *)
Relational == {"LT", "LE", "GT", "GE", "ULT", "ULE", "UGT", "UGE", "E", "NE"}

LEMMA FlowRelation ==
  ASSUME FlagsTellCompared, flags \in Flags, compared \in Reg \X Reg, compared # << >>,
         NEW cond \in Relational
  PROVE  FlowCond(cond) <=> Relations[cond]
<1> DEFINE a == compared[1]
           b == compared[2]
           sa == Signed(a)
           sb == Signed(b)
<1>1. flags.equal \in BOOLEAN /\ flags.less \in BOOLEAN /\ flags.ult \in BOOLEAN
  BY DEF Flags
<1>2. flags.equal = (a = b) /\ flags.less = (sa < sb) /\ flags.ult = (a < b)
  BY Zenon DEF FlagsTellCompared
<1>3. a \in Reg /\ b \in Reg
  OBVIOUS
<1>4. /\ (sa <= sb) <=> (sa < sb \/ a = b)
      /\ (sa > sb) <=> (~(sa < sb) /\ a # b)
      /\ (sa >= sb) <=> ~(sa < sb)
      /\ (a <= b) <=> (a < b \/ a = b)
      /\ (a > b) <=> (~(a < b) /\ a # b)
      /\ (a >= b) <=> ~(a < b)
  <2>1. sa \in Int /\ sb \in Int /\ a \in Int /\ b \in Int /\ (sa = sb <=> a = b)
    BY <1>3, SignedOrder
  <2> HIDE DEF a, b, sa, sb
  <2>2. QED
    BY <2>1
<1>5. /\ Relations["LT"] = (sa < sb) /\ Relations["LE"] = (sa <= sb)
      /\ Relations["GT"] = (sa > sb) /\ Relations["GE"] = (sa >= sb)
      /\ Relations["ULT"] = (a < b) /\ Relations["ULE"] = (a <= b)
      /\ Relations["UGT"] = (a > b) /\ Relations["UGE"] = (a >= b)
      /\ Relations["E"] = (a = b) /\ Relations["NE"] = (a # b)
  BY DEF Relations
<1> HIDE DEF a, b, sa, sb
<1>6. CASE cond \in {"LT", "GE"}
  BY <1>1, <1>2, <1>4, <1>5, <1>6, Zenon DEF FlowCond
<1>7. CASE cond \in {"LE", "GT"}
  BY <1>1, <1>2, <1>4, <1>5, <1>7, Zenon DEF FlowCond, LessOrEqual
<1>8. CASE cond \in {"ULT", "UGE"}
  BY <1>1, <1>2, <1>4, <1>5, <1>8, Zenon DEF FlowCond
<1>9. CASE cond \in {"ULE", "UGT"}
  BY <1>1, <1>2, <1>4, <1>5, <1>9, Zenon DEF FlowCond
<1>10. CASE cond \in {"E", "NE"}
  BY <1>1, <1>2, <1>5, <1>10, Zenon DEF FlowCond
<1>11. QED
  BY <1>6, <1>7, <1>8, <1>9, <1>10 DEF Relational

(***************************************************************************)
(* BranchesFollowCompareAlways: a jump or relative jump of a relational    *)
(* kind goes where the integers compared last send it, whatever was        *)
(* executed in between, interrupt returns apart: no instruction but a      *)
(* comparison touches the flags these conditions read (cmp and flow_cond,  *)
(* emulate.rs), and the signed order is that of the numbers, not of a      *)
(* difference that can overflow.                                           *)
(***************************************************************************)
THEOREM BranchesFollowCompareAlways == Spec => BranchesFollowCompare
<1>1. ASSUME IInv, [Next]_vars, Commits, ins.op \in {"JMP", "JMPREL"}, compared # << >>,
             ins.cond \in Relational
      PROVE  pc' = IF Relations[ins.cond] THEN JumpTarget ELSE (pc + 8) % WordSize
  <2>1. Exec
    BY <1>1, CommitIsStep
  <2>2. ExecJump
    BY <1>1, <2>1, OnlyAction
  <2>3. FlowCond(ins.cond) <=> Relations[ins.cond]
    <3>1. FlagsTellCompared /\ flags \in Flags /\ compared \in Reg \X Reg
      BY <1>1 DEF IInv, TypeOK
    <3>2. QED
      BY <1>1, <3>1, FlowRelation
  <2>4. CASE FlowCond(ins.cond)
    BY <2>2, <2>3, <2>4, Zenon DEF ExecJump
  <2>5. CASE ~FlowCond(ins.cond)
    BY <2>2, <2>3, <2>5, Zenon DEF ExecJump, Advance
  <2>6. QED
    BY <2>4, <2>5
<1>2. ASSUME IInv, [Next]_vars
      PROVE  [Commits /\ ins.op \in {"JMP", "JMPREL"} /\ compared # << >> =>
               (ins.cond \in Relational =>
                  pc' = IF Relations[ins.cond] THEN JumpTarget
                        ELSE (pc + 8) % WordSize)]_vars
  BY <1>1, <1>2
<1>3. QED
  BY <1>2, InvariantAlways, PTL DEF Spec, BranchesFollowCompare, Relational

-----------------------------------------------------------------------------
(* Additions and subtractions.                                             *)
ArithmeticFlags(a, b, c) ==
  IF ins.op \in Additions THEN AddFlags(flags, a, b, c).flags
  ELSE SubFlags(flags, a, b, c).flags

LEMMA ArithmeticStep ==
  ASSUME program \in Programs, MachineOK, Exec, ins.op \in Additions \cup Subtractions
  PROVE  \E a \in Reg, b \in Reg, c \in {0, 1} :
           AddOperands = << a, b, c >> /\ flags' = ArithmeticFlags(a, b, c)
<1> DEFINE rs1 == regs[ins.rs1]
           rs2 == regs[ins.rs2]
           imm == ins.imm
           extended == SignExtend(imm, WordBits)
           carry == Number(flags.carry)
<1>1. ins.op # "invalid"
  BY DEF Additions, Subtractions
<1>2. rs1 \in Reg /\ rs2 \in Reg /\ imm \in Reg /\ extended \in Reg
  BY <1>1, RegisterRead, CurrentInstruction, WordNumber
<1>3. 0 \in {0, 1} /\ 1 \in Reg /\ carry \in {0, 1}
  BY SmallInReg DEF MachineOK, Flags
<1> HIDE DEF rs1, rs2, imm, extended, carry
<1>4. CASE ins.op \in AddOps
  <2>1. ins.op \in RrrOps /\ ins.op \notin ZeroFlagOps \cup ValueOps
    BY <1>4 DEF AddOps, RrrOps, ZeroFlagOps, ValueOps
  <2>2. flags' = Rrr(ins.op, rs1, rs2, flags).flags
    BY <2>1, OnlyAction DEF ExecRrr, rs1, rs2
  <2>3. \E c \in {0, 1} : AddOperands = << rs1, rs2, c >>
                            /\ flags' = ArithmeticFlags(rs1, rs2, c)
    <3>1. CASE ins.op \in {"ADDR", "SUBR"}
      <4>1. AddOperands = << rs1, rs2, 0 >>
        BY <3>1, Zenon DEF AddOperands, rs1, rs2
      <4>2. flags' = ArithmeticFlags(rs1, rs2, 0)
        BY <2>1, <2>2, <3>1, Zenon DEF Rrr, ArithmeticFlags, Additions
      <4>3. QED
        BY <1>3, <4>1, <4>2
    <3>2. CASE ins.op \in {"ADDC", "SUBC"}
      <4>1. AddOperands = << rs1, rs2, carry >>
        BY <3>2, Zenon DEF AddOperands, rs1, rs2, carry
      <4>2. flags' = ArithmeticFlags(rs1, rs2, carry)
        BY <2>1, <2>2, <3>2, Zenon DEF Rrr, ArithmeticFlags, Additions, carry
      <4>3. QED
        BY <1>3, <4>1, <4>2
    <3>3. QED
      BY <1>4, <3>1, <3>2 DEF AddOps
  <2>4. QED
    BY <1>2, <2>3
<1>5. CASE ins.op = "ADDI"
  <2>1. flags' = AddFlags(flags, rs2, extended, 0).flags
    BY <1>5, OnlyAction DEF ExecAddi, rs2, extended, imm
  <2>2. AddOperands = << rs2, extended, 0 >>
    BY <1>5, Zenon DEF AddOperands, rs2, extended, imm
  <2>3. flags' = ArithmeticFlags(rs2, extended, 0)
    BY <1>5, <2>1 DEF ArithmeticFlags, Additions
  <2>4. QED
    BY <1>2, <1>3, <2>2, <2>3
<1>6. CASE ins.op \in {"ADDV", "MINUSV"}
  <2>1. ins.op \notin OneWordRv \cup {"LEAPC", "SETR64"} /\ ins.op \in TwoWordRv
    BY <1>6 DEF OneWordRv, TwoWordRv
  <2>2. flags' = Rv(ins, rs2, pc, flags).flags
    BY <2>1, OnlyAction DEF ExecRvGroup, RvOps, rs2
  <2>3. flags' = RvImmediate(ins.op, rs2, imm, flags).flags
    BY <2>1, <2>2, Zenon DEF Rv, imm
  <2>4. flags' = ArithmeticFlags(rs2, imm, 0)
    BY <1>6, <2>3, Zenon DEF RvImmediate, ArithmeticFlags, Additions
  <2>5. AddOperands = << rs2, imm, 0 >>
    BY <1>6, Zenon DEF AddOperands, rs2, imm
  <2>6. QED
    BY <1>2, <1>3, <2>4, <2>5
<1>7. CASE ins.op \in {"INCR", "DECR"}
  <2>1. ins.op \notin TwoWordRv \cup {"LEAPC", "SETR64"} /\ ins.op \in OneWordRv
    BY <1>7 DEF OneWordRv, TwoWordRv
  <2>2. flags' = Rv(ins, rs2, pc, flags).flags
    BY <2>1, OnlyAction DEF ExecRvGroup, RvOps, rs2
  <2>3. flags' = RvUnary(ins.op, rs2, flags).flags
    BY <2>1, <2>2, Zenon DEF Rv
  <2>4. flags' = ArithmeticFlags(rs2, 1, 0)
    BY <1>7, <2>3, Zenon DEF RvUnary, ArithmeticFlags, Additions
  <2>5. AddOperands = << rs2, 1, 0 >>
    BY <1>7, Zenon DEF AddOperands, rs2
  <2>6. QED
    BY <1>2, <1>3, <2>4, <2>5
<1>8. QED
  BY <1>4, <1>5, <1>6, <1>7 DEF Additions, Subtractions, AddOps

(* What the flags of one addition, and of one subtraction, say.            *)
Tells(f, carry, exact) ==
  /\ f.overflow = (exact \notin Signeds)
  /\ f.carry = carry
  /\ f.zero = (exact % RegSize = 0)
  /\ f.sign = (exact % RegSize >= 2^(RegBits - 1))

LEMMA SumTells ==
  ASSUME flags \in Flags, NEW a \in Reg, NEW b \in Reg, NEW c \in {0, 1}
  PROVE  /\ Tells(AddFlags(flags, a, b, c).flags, a + b + c >= RegSize,
                  Signed(a) + Signed(b) + c)
         /\ Tells(SubFlags(flags, a, b, c).flags, a < b + c, Signed(a) - Signed(b) - c)
<1>1. Signeds = (-Half)..(Half - 1) /\ Half = 2^(RegBits - 1)
  BY DEF Signeds, Half
<1>2. ASSUME NEW res, NEW p, NEW q
      PROVE  LET f == [SetZS(flags, res) EXCEPT !.carry = p, !.overflow = q]
             IN  /\ f.overflow = q /\ f.carry = p /\ f.zero = (res = 0)
                 /\ f.sign = (SignBit(res) = 1)
  BY DEF SetZS, Flags
<1>3. Tells(AddFlags(flags, a, b, c).flags, a + b + c >= RegSize, Signed(a) + Signed(b) + c)
  <2> DEFINE res == (((a + b) % RegSize) + c) % RegSize
             exact == Signed(a) + Signed(b) + c
             p == CarryOut(a, b, c)
             q == SignBit(a) = SignBit(b) /\ SignBit(res) # SignBit(a)
             f == [SetZS(flags, res) EXCEPT !.carry = p, !.overflow = q]
             carry == a + b + c >= RegSize
  <2>1. /\ exact % RegSize = res
        /\ p <=> carry
        /\ q <=> exact \notin (-Half)..(Half - 1)
        /\ SignBit(res) = 1 <=> res >= Half
    <3>1. SumAgrees(a, b, c)
      BY AddNumbers
    <3>2. QED
      BY <3>1, Zenon DEF SumAgrees
  <2>2. /\ f.overflow = q /\ f.carry = p /\ f.zero = (res = 0)
        /\ f.sign = (SignBit(res) = 1)
    BY <1>2
  <2>3. AddFlags(flags, a, b, c).flags = f
    BY DEF AddFlags
  <2>4. p \in BOOLEAN /\ q \in BOOLEAN /\ carry \in BOOLEAN
    <3>1. q \in BOOLEAN /\ p \in BOOLEAN
      BY Zenon DEF CarryOut
    <3>2. carry \in BOOLEAN
      BY SMT
    <3>3. QED
      BY <3>1, <3>2
  <2> HIDE DEF res, exact, p, q, f, carry
  <2>5. f.overflow = (exact \notin Signeds)
    BY <1>1, <2>1, <2>2, <2>4, Zenon
  <2>6. f.carry = carry
    BY <2>1, <2>2, <2>4, Zenon
  <2>7. f.zero = (exact % RegSize = 0)
    BY <2>1, <2>2, Zenon
  <2>8. f.sign = (exact % RegSize >= 2^(RegBits - 1))
    <3>1. (res >= Half) \in BOOLEAN
      BY SMT
    <3>2. f.sign = (res >= Half)
      BY <2>1, <2>2, <3>1, Zenon
    <3>3. QED
      BY <1>1, <2>1, <3>2, Zenon
  <2>9. Tells(f, carry, exact)
    BY <2>5, <2>6, <2>7, <2>8, Zenon DEF Tells
  <2>10. QED
    BY <2>3, <2>9 DEF carry, exact
<1>4. Tells(SubFlags(flags, a, b, c).flags, a < b + c, Signed(a) - Signed(b) - c)
  <2> DEFINE s1 == (a - b) % RegSize
             res == (s1 - c) % RegSize
             exact == Signed(a) - Signed(b) - c
             p == a < b \/ s1 < c
             q == SignBit(a) # SignBit(b) /\ SignBit(res) # SignBit(a)
             f == [SetZS(flags, res) EXCEPT !.carry = p, !.overflow = q]
             carry == a < b + c
  <2>1. /\ exact % RegSize = res
        /\ p <=> carry
        /\ q <=> exact \notin (-Half)..(Half - 1)
        /\ SignBit(res) = 1 <=> res >= Half
    <3>1. DifferenceAgrees(a, b, c)
      BY SubNumbers
    <3>2. QED
      BY <3>1, Zenon DEF DifferenceAgrees
  <2>2. /\ f.overflow = q /\ f.carry = p /\ f.zero = (res = 0)
        /\ f.sign = (SignBit(res) = 1)
    BY <1>2
  <2>3. SubFlags(flags, a, b, c).flags = f
    BY DEF SubFlags
  <2>4. p \in BOOLEAN /\ q \in BOOLEAN /\ carry \in BOOLEAN
    <3>1. q \in BOOLEAN /\ p \in BOOLEAN
      BY Zenon
    <3>2. carry \in BOOLEAN
      BY SMT
    <3>3. QED
      BY <3>1, <3>2
  <2> HIDE DEF s1, res, exact, p, q, f, carry
  <2>5. f.overflow = (exact \notin Signeds)
    BY <1>1, <2>1, <2>2, <2>4, Zenon
  <2>6. f.carry = carry
    BY <2>1, <2>2, <2>4, Zenon
  <2>7. f.zero = (exact % RegSize = 0)
    BY <2>1, <2>2, Zenon
  <2>8. f.sign = (exact % RegSize >= 2^(RegBits - 1))
    <3>1. (res >= Half) \in BOOLEAN
      BY SMT
    <3>2. f.sign = (res >= Half)
      BY <2>1, <2>2, <3>1, Zenon
    <3>3. QED
      BY <1>1, <2>1, <3>2, Zenon
  <2>9. Tells(f, carry, exact)
    BY <2>5, <2>6, <2>7, <2>8, Zenon DEF Tells
  <2>10. QED
    BY <2>3, <2>9 DEF carry, exact
<1>5. QED
  BY <1>3, <1>4

ArithmeticTold ==
  LET args == AddOperands
      a == args[1]
      b == args[2]
      c == args[3]
      plus == ins.op \in Additions
      exact == IF plus THEN Signed(a) + Signed(b) + c ELSE Signed(a) - Signed(b) - c
  IN  /\ flags'.overflow = (exact \notin Signeds)
      /\ flags'.carry = IF plus THEN a + b + c >= RegSize ELSE a < b + c
      /\ flags'.zero = (exact % RegSize = 0)
      /\ flags'.sign = (exact % RegSize >= 2^(RegBits - 1))

(***************************************************************************)
(* FlagsTellArithmeticAlways: in registers of any width, carry, overflow,  *)
(* zero and sign after every addition and subtraction are those of the     *)
(* exact integer result, with a carry or borrow from before or without     *)
(* (add_flags and sub_flags, emulate.rs, which find the overflow by        *)
(* comparing three sign bits and the carry in two halves).                 *)
(***************************************************************************)
THEOREM FlagsTellArithmeticAlways == Spec => FlagsTellArithmetic
<1>1. ASSUME IInv, [Next]_vars, Commits, ins.op \in Additions \cup Subtractions
      PROVE  ArithmeticTold
  <2>1. program \in Programs /\ MachineOK /\ Exec /\ flags \in Flags
    BY <1>1, CommitIsStep DEF MachineOK
  <2>2. PICK a \in Reg, b \in Reg, c \in {0, 1} :
               AddOperands = << a, b, c >> /\ flags' = ArithmeticFlags(a, b, c)
    BY <1>1, <2>1, ArithmeticStep
  <2>3. AddOperands[1] = a /\ AddOperands[2] = b /\ AddOperands[3] = c
    BY <2>2
  <2>4. /\ Tells(AddFlags(flags, a, b, c).flags, a + b + c >= RegSize,
                 Signed(a) + Signed(b) + c)
        /\ Tells(SubFlags(flags, a, b, c).flags, a < b + c, Signed(a) - Signed(b) - c)
    BY <2>1, SumTells
  <2>5. CASE ins.op \in Additions
    <3>1. flags' = AddFlags(flags, a, b, c).flags
      BY <2>2, <2>5 DEF ArithmeticFlags
    <3>2. Tells(flags', a + b + c >= RegSize, Signed(a) + Signed(b) + c)
      BY <2>4, <3>1
    <3>3. QED
      BY <2>3, <2>5, <3>2, Zenon DEF ArithmeticTold, Tells
  <2>6. CASE ins.op \notin Additions
    <3>1. flags' = SubFlags(flags, a, b, c).flags
      BY <2>2, <2>6 DEF ArithmeticFlags
    <3>2. Tells(flags', a < b + c, Signed(a) - Signed(b) - c)
      BY <2>4, <3>1
    <3>3. QED
      BY <2>3, <2>6, <3>2, Zenon DEF ArithmeticTold, Tells
  <2>7. QED
    BY <2>5, <2>6
<1>2. ASSUME IInv, [Next]_vars
      PROVE  [Commits /\ ins.op \in Additions \cup Subtractions => ArithmeticTold]_vars
  BY <1>1, <1>2
<1>3. QED
  BY <1>2, InvariantAlways, PTL DEF Spec, FlagsTellArithmetic, ArithmeticTold
================================================================================
