------------------------------ MODULE MachineWords ------------------------------
(***************************************************************************)
(* The numbers of the machine emulate.rs models: a register has 8 bytes, a *)
(* word (addresses, immediates) has 4.  Registers are natural numbers, as  *)
(* the u64 values of the code are; Signed reads one as the i64 with the    *)
(* same bits.  A byte has 8 bits in the code.                              *)
(***************************************************************************)
EXTENDS Integers, FiniteSets, FiniteSetsExt

CONSTANT ByteBits

ASSUME MachineWordsAssumption ==
  /\ ByteBits \in Nat \ {0}
  /\ \E k \in 0..ByteBits : ByteBits = 2^k

WordBits == 4 * ByteBits
RegBits == 8 * ByteBits
ByteSize == 2^ByteBits
WordSize == 2^WordBits
RegSize == 2^RegBits

Byte == 0..(ByteSize - 1)
Word == 0..(WordSize - 1)
Reg == 0..(RegSize - 1)

Number(p) == IF p THEN 1 ELSE 0

Bit(x, i) == (x \div 2^i) % 2

BitIndices == 0..(RegBits - 1)
FromBits(bit(_)) == SumFunction([i \in BitIndices |-> bit(i) * 2^i])

(* The weight of the i-th byte of a number, and that byte.                 *)
ByteWeight(i) == 2^(ByteBits * i)
ByteOf(val, i) == (val \div ByteWeight(i)) % ByteSize

BitAnd(a, b) == FromBits(LAMBDA i : Bit(a, i) * Bit(b, i))
BitOr(a, b) == FromBits(LAMBDA i : Number(Bit(a, i) + Bit(b, i) > 0))
BitXor(a, b) == FromBits(LAMBDA i : (Bit(a, i) + Bit(b, i)) % 2)
BitNot(a) == RegSize - 1 - a
WithBit(a, i, v) == a + (v - Bit(a, i)) * 2^i

SignBit(x) == Bit(x, RegBits - 1)
SignedOf(x, bits) == IF x >= 2^(bits - 1) THEN x - 2^bits ELSE x
Signed(x) == SignedOf(x, RegBits)
SignExtend(x, bits) == SignedOf(x % 2^bits, bits) % RegSize

ShiftLeft(a, n) == (a % 2^(RegBits - n)) * 2^n
ShiftRight(a, n) == a \div 2^n
ShiftArithmetic(a, n) == (Signed(a) \div 2^n) % RegSize
RotateLeft(a, n) ==
  LET k == n % RegBits IN ShiftLeft(a, k) + ShiftRight(a, RegBits - k)
RotateRight(a, n) == RotateLeft(a, RegBits - (n % RegBits))

(* Division that rounds towards zero, and its remainder.                   *)
Magnitude(x) == IF x < 0 THEN -x ELSE x
Quotient(a, b) ==
  LET q == Magnitude(a) \div Magnitude(b) IN IF (a < 0) = (b < 0) THEN q ELSE -q
Remainder(a, b) == a - b * Quotient(a, b)

Ones(a) == {i \in BitIndices : Bit(a, i) = 1}
LeadingZeros(a) == IF a = 0 THEN RegBits ELSE RegBits - 1 - Max(Ones(a))
TrailingZeros(a) == IF a = 0 THEN RegBits ELSE Min(Ones(a))
ReverseBits(a) == FromBits(LAMBDA i : Bit(a, RegBits - 1 - i))
SwapBytes(a) ==
  FromBits(LAMBDA i : Bit(a, (7 - (i \div ByteBits)) * ByteBits + (i % ByteBits)))

(* x & !7 and the like.                                                    *)
AlignedTo(x, n) == x - (x % n)

-----------------------------------------------------------------------------
(* The seven condition flags, each as sticky as its producers leave it.    *)
Flags == [zero : BOOLEAN, sign : BOOLEAN, carry : BOOLEAN, overflow : BOOLEAN,
          equal : BOOLEAN, less : BOOLEAN, ult : BOOLEAN]

NoFlags == [zero |-> FALSE, sign |-> FALSE, carry |-> FALSE, overflow |-> FALSE,
            equal |-> FALSE, less |-> FALSE, ult |-> FALSE]

(* set_zs                                                                  *)
SetZS(flags, res) == [flags EXCEPT !.zero = (res = 0), !.sign = (SignBit(res) = 1)]

(* add_flags: two additions that each may carry, the overflow from signs.  *)
(* Mutated form: the carry of the second addition is lost.                 *)
OneCarry(a, b, carry_in) == a + b >= RegSize

CarryOut(a, b, carry_in) ==
  a + b >= RegSize \/ ((a + b) % RegSize) + carry_in >= RegSize

AddFlags(flags, a, b, carry_in) ==
  LET res == (((a + b) % RegSize) + carry_in) % RegSize
  IN  [result |-> res,
       flags  |-> [SetZS(flags, res) EXCEPT
                     !.carry = CarryOut(a, b, carry_in),
                     !.overflow = SignBit(a) = SignBit(b) /\ SignBit(res) # SignBit(a)]]

(* sub_flags: carry is the borrow.                                         *)
SubFlags(flags, a, b, borrow_in) ==
  LET s1 == (a - b) % RegSize
      res == (s1 - borrow_in) % RegSize
  IN  [result |-> res,
       flags  |-> [SetZS(flags, res) EXCEPT
                     !.carry = a < b \/ s1 < borrow_in,
                     !.overflow = SignBit(a) # SignBit(b) /\ SignBit(res) # SignBit(a)]]

(* cmp: equal, less, ult and sign, but not zero.                           *)
Compare(flags, a, b) ==
  [flags EXCEPT !.equal = (a = b), !.less = (Signed(a) < Signed(b)), !.ult = (a < b),
                !.sign = (SignBit((a - b) % RegSize) = 1)]
================================================================================
