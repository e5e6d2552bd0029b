---------------------------------- MODULE Alu -----------------------------------
(***************************************************************************)
(* What the register instructions of emulate.rs compute: the three-register*)
(* block (exec_rrr) and the register-immediate block (exec_rv_group).  An  *)
(* outcome is the value written to the destination and the flags after it; *)
(* an instruction that writes nothing gives back the value it found.       *)
(***************************************************************************)
EXTENDS MachineWords

AddOps == {"ADDR", "SUBR", "ADDC", "SUBC"}
ValueOps ==
  {"MULR", "MULUR", "MULHR", "MULHUR", "DIVR", "DIVUR", "MODR", "MODUR",
   "CMPEQR", "CMPNER", "CMPLTR", "CMPLER", "CMPGTR", "CMPGER", "CMPULTR",
   "CMPULER", "CMPUGTR", "CMPUGER", "MINR", "MAXR", "MINUR", "MAXUR",
   "BSETRR", "BCLRRR", "BTGLRR", "BTSTRR"}
ZeroFlagOps ==
  {"ANDR", "ORR", "XORR", "SHLR", "SHRR", "SARR", "ROLR", "RORR"}
RrrOps == AddOps \cup ValueOps \cup ZeroFlagOps

AllOnes == RegSize - 1
SmallerOf(p, a, b) == IF p THEN a ELSE b

(* Instructions that touch no flag.                                        *)
RrrValue(op, a, b) ==
  LET sa == Signed(a)
      sb == Signed(b)
      sh == b % RegBits
  IN CASE op = "MULR"    -> (sa * sb) % RegSize
       [] op = "MULUR"   -> (a * b) % RegSize
       [] op = "MULHR"   -> ((sa * sb) \div RegSize) % RegSize
       [] op = "MULHUR"  -> (a * b) \div RegSize
       [] op = "DIVR"    -> IF b = 0 THEN AllOnes ELSE Quotient(sa, sb) % RegSize
       [] op = "DIVUR"   -> IF b = 0 THEN AllOnes ELSE a \div b
       [] op = "MODR"    -> IF b = 0 THEN a ELSE Remainder(sa, sb) % RegSize
       [] op = "MODUR"   -> IF b = 0 THEN a ELSE a % b
       [] op = "CMPEQR"  -> Number(a = b)
       [] op = "CMPNER"  -> Number(a # b)
       [] op = "CMPLTR"  -> Number(sa < sb)
       [] op = "CMPLER"  -> Number(sa <= sb)
       [] op = "CMPGTR"  -> Number(sa > sb)
       [] op = "CMPGER"  -> Number(sa >= sb)
       [] op = "CMPULTR" -> Number(a < b)
       [] op = "CMPULER" -> Number(a <= b)
       [] op = "CMPUGTR" -> Number(a > b)
       [] op = "CMPUGER" -> Number(a >= b)
       [] op = "MINR"    -> SmallerOf(sa <= sb, a, b)
       [] op = "MAXR"    -> SmallerOf(sa <= sb, b, a)
       [] op = "MINUR"   -> SmallerOf(a <= b, a, b)
       [] op = "MAXUR"   -> SmallerOf(a <= b, b, a)
       [] op = "BSETRR"  -> WithBit(a, sh, 1)
       [] op = "BCLRRR"  -> WithBit(a, sh, 0)
       [] op = "BTGLRR"  -> WithBit(a, sh, 1 - Bit(a, sh))
       [] op = "BTSTRR"  -> Bit(a, sh)

(* Instructions that set zero and no other flag.                           *)
RrrLogic(op, a, b) ==
  LET sh == b % RegBits
  IN CASE op = "ANDR" -> BitAnd(a, b)
       [] op = "ORR"  -> BitOr(a, b)
       [] op = "XORR" -> BitXor(a, b)
       [] op = "SHLR" -> ShiftLeft(a, sh)
       [] op = "SHRR" -> ShiftRight(a, sh)
       [] op = "SARR" -> ShiftArithmetic(a, sh)
       [] op = "ROLR" -> RotateLeft(a, sh)
       [] op = "RORR" -> RotateRight(a, sh)

Plain(flags, res) == [result |-> res, flags |-> flags]
Zero(flags, res) == [result |-> res, flags |-> [flags EXCEPT !.zero = (res = 0)]]
ZeroSign(flags, res) == [result |-> res, flags |-> SetZS(flags, res)]

(* exec_rrr                                                                *)
Rrr(op, a, b, flags) ==
  LET carry == Number(flags.carry)
  IN CASE op = "ADDR" -> AddFlags(flags, a, b, 0)
       [] op = "SUBR" -> SubFlags(flags, a, b, 0)
       [] op = "ADDC" -> AddFlags(flags, a, b, carry)
       [] op = "SUBC" -> SubFlags(flags, a, b, carry)
       [] op \in ZeroFlagOps -> Zero(flags, RrrLogic(op, a, b))
       [] op \in ValueOps -> Plain(flags, RrrValue(op, a, b))

-----------------------------------------------------------------------------
(* The register-immediate block.  Two words where there is an immediate.   *)
OneWordRv ==
  {"INCR", "DECR", "SETFR", "NEGR", "ABSR", "SEXTB", "SHLR1", "SHRR1", "SHLAR",
   "SHRAR", "SEXTH", "ZEXTB", "ZEXTH", "BSWAP", "NOTR", "POPCNT", "CLZ", "CTZ",
   "BITREV", "SEXTW", "ZEXTW", "ROLR1", "RORR1", "ROLCR", "RORCR"}
TwoWordRv ==
  {"SETR", "ADDV", "MINUSV", "CMPRV", "ANDV", "ORV", "XORV", "SHLV", "SHRV",
   "SHRAV", "LEAPC", "BSET", "BCLR", "BTGL", "BTST", "BEXTR", "BDEP", "MULV",
   "DIVV", "MODV", "ROLV", "RORV"}
RvOps == OneWordRv \cup TwoWordRv \cup {"SETR64"}

RvBytes(op) == IF op = "SETR64" THEN 12 ELSE IF op \in TwoWordRv THEN 8 ELSE 4

(* zero, equal, carry and overflow in the four top bits.                   *)
FlagsRegister(flags) ==
  Number(flags.zero) * 2^(RegBits - 1) + Number(flags.equal) * 2^(RegBits - 2)
    + Number(flags.carry) * 2^(RegBits - 3) + Number(flags.overflow) * 2^(RegBits - 4)

(* The bit field of the low word an immediate names: start and length.     *)
FieldStart(imm) == imm % WordBits
FieldLength(imm) == (imm \div ByteSize) % WordBits

BitsExtracted(rs, imm) ==
  ((rs % WordSize) \div 2^FieldStart(imm)) % 2^FieldLength(imm)

BitsDeposited(rs, imm) ==
  LET start == FieldStart(imm)
      Deposited(i) == IF i >= WordBits THEN 0
                      ELSE IF i \in start..(start + FieldLength(imm) - 1)
                           THEN Bit(rs, i - start) ELSE Bit(rs, i)
  IN  FromBits(Deposited)

(* Instructions without an immediate.                                      *)
RvUnary(op, rs, flags) ==
  CASE op = "INCR"   -> AddFlags(flags, rs, 1, 0)
    [] op = "DECR"   -> SubFlags(flags, rs, 1, 0)
    [] op = "SETFR"  -> Plain(flags, FlagsRegister(flags))
    [] op = "NEGR"   -> Zero(flags, (-rs) % RegSize)
    [] op = "ABSR"   -> Zero([flags EXCEPT !.overflow = FALSE], Magnitude(Signed(rs)))
    [] op = "NOTR"   -> Zero(flags, BitNot(rs))
    [] op = "SEXTB"  -> ZeroSign(flags, SignExtend(rs, ByteBits))
    [] op = "SEXTH"  -> ZeroSign(flags, SignExtend(rs, 2 * ByteBits))
    [] op = "SEXTW"  -> Plain(flags, SignExtend(rs, WordBits))
    [] op = "ZEXTB"  -> Zero(flags, rs % ByteSize)
    [] op = "ZEXTH"  -> Zero(flags, rs % ByteWeight(2))
    [] op = "ZEXTW"  -> Plain(flags, rs % WordSize)
    [] op \in {"SHLR1", "SHLAR"} -> Plain(flags, ShiftLeft(rs, 1))
    [] op = "SHRR1"  -> Plain(flags, ShiftRight(rs, 1))
    [] op = "SHRAR"  -> Plain(flags, ShiftArithmetic(rs, 1))
    [] op = "ROLR1"  -> Plain(flags, RotateLeft(rs, 1))
    [] op = "RORR1"  -> Plain(flags, RotateRight(rs, 1))
    [] op = "ROLCR"  -> Plain([flags EXCEPT !.carry = (SignBit(rs) = 1)],
                              ShiftLeft(rs, 1) + Number(flags.carry))
    [] op = "RORCR"  -> Plain([flags EXCEPT !.carry = (rs % 2 = 1)],
                              ShiftRight(rs, 1) + Number(flags.carry) * 2^(RegBits - 1))
    [] op = "BSWAP"  -> Plain(flags, SwapBytes(rs))
    [] op = "BITREV" -> Plain(flags, ReverseBits(rs))
    [] op = "POPCNT" -> Plain(flags, Cardinality(Ones(rs)))
    [] op = "CLZ"    -> Plain(flags, LeadingZeros(rs))
    [] op = "CTZ"    -> Plain(flags, TrailingZeros(rs))

(* Division by a zero immediate sets overflow; MODV then keeps the value.  *)
Divided(flags, rs, d) ==
  IF d = 0 THEN Plain([flags EXCEPT !.overflow = TRUE], AllOnes)
  ELSE Plain(flags, Quotient(Signed(rs), d) % RegSize)
Reduced(flags, rs, d) ==
  IF d = 0 THEN Plain([flags EXCEPT !.overflow = TRUE], rs)
  ELSE Plain(flags, Remainder(Signed(rs), d) % RegSize)

(* Instructions with an immediate word; logic and addition take it         *)
(* unsigned, the rest signed.                                              *)
RvImmediate(op, rs, imm, flags) ==
  LET extended == SignExtend(imm, WordBits)
      d == Signed(extended)
      sh == imm % RegBits
  IN CASE op = "SETR"   -> Plain(flags, extended)
       [] op = "ADDV"   -> AddFlags(flags, rs, imm, 0)
       [] op = "MINUSV" -> SubFlags(flags, rs, imm, 0)
       [] op = "CMPRV"  -> Plain(Compare(flags, rs, extended), rs)
       [] op = "ANDV"   -> Zero(flags, BitAnd(rs, imm))
       [] op = "ORV"    -> Zero(flags, BitOr(rs, imm))
       [] op = "XORV"   -> Zero(flags, BitXor(rs, imm))
       [] op = "SHLV"   -> Zero(flags, ShiftLeft(rs, sh))
       [] op = "SHRV"   -> Zero(flags, ShiftRight(rs, sh))
       [] op = "SHRAV"  -> Zero(flags, ShiftArithmetic(rs, sh))
       [] op = "ROLV"   -> Plain(flags, RotateLeft(rs, sh))
       [] op = "RORV"   -> Plain(flags, RotateRight(rs, sh))
       [] op = "BSET"   -> Plain(flags, WithBit(rs, sh, 1))
       [] op = "BCLR"   -> Plain(flags, WithBit(rs, sh, 0))
       [] op = "BTGL"   -> Plain(flags, WithBit(rs, sh, 1 - Bit(rs, sh)))
       [] op = "BTST"   -> Plain([flags EXCEPT !.zero = (Bit(rs, sh) = 0)], rs)
       [] op = "BEXTR"  -> Plain(flags, BitsExtracted(rs, imm))
       [] op = "BDEP"   -> Plain(flags, BitsDeposited(rs, imm))
       [] op = "MULV"   -> Plain(flags, (Signed(rs) * d) % RegSize)
       [] op = "DIVV"   -> Divided(flags, rs, d)
       [] op = "MODV"   -> Reduced(flags, rs, d)

(* exec_rv_group; LEAPC and SETR64 take the program counter and two words. *)
Rv(ins, rs, pc, flags) ==
  CASE ins.op = "LEAPC"  -> Plain(flags, (pc + ins.imm) % WordSize)
    [] ins.op = "SETR64" -> Plain(flags, ins.high * WordSize + ins.imm)
    [] ins.op \in OneWordRv -> RvUnary(ins.op, rs, flags)
    [] ins.op \in TwoWordRv \ {"LEAPC"} -> RvImmediate(ins.op, rs, ins.imm, flags)
================================================================================
