-------------------------------- MODULE Emulator --------------------------------
(***************************************************************************)
(* The reference machine of emulate.rs: fetch, decode and commit one whole *)
(* instruction at a time until it halts, traps, meets a word that is no    *)
(* instruction, leaves memory or has retired MaxInstructions.              *)
(*                                                                         *)
(* An instruction is a record, at the address of its first word.  Programs *)
(* are taken not to write over their code; a word that is not the first of *)
(* an instruction, an immediate or data, is taken to be no instruction, as *)
(* is the case of every number below 256.                                  *)
(***************************************************************************)
EXTENDS Alu, Sequences

CONSTANTS
  MemSize,          \* bytes of memory
  MaxInstructions,  \* the instruction cap
  Programs          \* [entry, code, data]

Addresses == 0..(MemSize - 1)
STACK_TOP == MemSize
Registers == 0..15

Instruction ==
  [op : STRING, rd : Registers, rs1 : Registers, rs2 : Registers,
   imm : Word, high : Word, cond : STRING]

ASSUME EmulatorAssumption ==
  /\ MemSize \in Nat /\ MemSize > 0 /\ MemSize % 8 = 0 /\ MemSize < WordSize
  /\ MaxInstructions \in Nat \ {0}

(* What a loaded image can hold: words in its immediates, bytes in memory. *)
ASSUME ProgramsAssumption ==
  \A p \in Programs :
    /\ p.entry \in Word
    /\ \A a \in DOMAIN p.code : p.code[a] \in Instruction
    /\ \A a \in DOMAIN p.data : p.data[a] \in Byte

VARIABLES
  program,     \* what was loaded: chosen once
  regs, sp, pc, flags, mem, uart, halted, stop,
  last_write,  \* the write of the last instruction, for the trace
  count,       \* instructions retired
  result,      \* why the run ended, once it has
  frames,      \* return addresses pushed and not written over (history)
  compared     \* what the last comparison compared (history)

vars == << program, regs, sp, pc, flags, mem, uart, halted, stop, last_write,
           count, result, frames, compared >>

NoWrite == [addr |-> 0, lanes |-> {}, data |-> 0]

Init ==
  /\ program \in Programs
  /\ regs = [r \in Registers |-> 0]
  /\ sp = STACK_TOP
  /\ pc = program.entry
  /\ flags = NoFlags
  /\ mem = [a \in Addresses |-> IF a \in DOMAIN program.data THEN program.data[a] ELSE 0]
  /\ uart = << >>
  /\ halted = FALSE
  /\ stop = "none"
  /\ last_write = NoWrite
  /\ count = 0
  /\ result = "none"
  /\ frames = {}
  /\ compared = << >>

Running == ~halted /\ count < MaxInstructions /\ stop = "none"

NoInstruction == [op |-> "invalid"]
ins == IF pc \in DOMAIN program.code THEN program.code[pc] ELSE NoInstruction

-----------------------------------------------------------------------------
(* Memory: reads outside it give zeros, writes outside it are dropped.     *)
ReadSub(addr, n) ==
  SumFunction([i \in 0..(n - 1) |->
                 IF addr + i \in Addresses THEN mem[addr + i] * ByteWeight(i) ELSE 0])
Read64(addr) == IF addr + 8 > MemSize THEN 0 ELSE ReadSub(addr, 8)

Stored(addr, val, n) ==
  [a \in Addresses |-> IF a \in addr..(addr + n - 1) THEN ByteOf(val, a - addr) ELSE mem[a]]

AllLanes == 0..7

Write64(addr, val) ==
  /\ mem' = IF addr + 8 <= MemSize THEN Stored(addr, val, 8) ELSE mem
  /\ last_write' = [addr |-> addr, lanes |-> AllLanes, data |-> val]

DoublewordIn(m, addr) ==
  IF addr + 8 > MemSize THEN 0
  ELSE SumFunction([i \in AllLanes |-> m[addr + i] * ByteWeight(i)])

(* Mutated form: the byte enables are not moved to the lane of the address.*)
LowLanes(addr, n) == 0..(n - 1)

LanesOf(addr, n) == {lane \in AllLanes : lane - (addr % 8) \in 0..(n - 1)}

WriteSub(addr, val, n) ==
  /\ mem' = Stored(addr, val, n)
  /\ last_write' = [addr  |-> AlignedTo(addr, 8),
                    lanes |-> LanesOf(addr, n),
                    data  |-> DoublewordIn(mem', AlignedTo(addr, 8))]

NoStore == mem' = mem /\ last_write' = NoWrite

Advance(n) == pc' = (pc + n) % WordSize
GoesOn == UNCHANGED << halted, stop >>

-----------------------------------------------------------------------------
(* COPY, ADDI, CMPRR: decoded in step itself.                              *)
ExecCopy ==
  /\ ins.op = "COPY"
  /\ regs' = [regs EXCEPT ![ins.rs1] = regs[ins.rs2]]
  /\ Advance(4) /\ NoStore /\ GoesOn
  /\ UNCHANGED << sp, flags, uart >>

ExecAddi ==
  /\ ins.op = "ADDI"
  /\ LET sum == AddFlags(flags, regs[ins.rs2], SignExtend(ins.imm, WordBits), 0)
     IN  /\ regs' = [regs EXCEPT ![ins.rs1] = sum.result]
         /\ flags' = sum.flags
  /\ Advance(8) /\ NoStore /\ GoesOn
  /\ UNCHANGED << sp, uart >>

ExecCmprr ==
  /\ ins.op = "CMPRR"
  /\ flags' = Compare(flags, regs[ins.rs1], regs[ins.rs2])
  /\ Advance(4) /\ NoStore /\ GoesOn
  /\ UNCHANGED << regs, sp, uart >>

ExecRrr ==
  /\ ins.op \in RrrOps
  /\ LET outcome == Rrr(ins.op, regs[ins.rs1], regs[ins.rs2], flags)
     IN  /\ regs' = [regs EXCEPT ![ins.rd] = outcome.result]
         /\ flags' = outcome.flags
  /\ Advance(4) /\ NoStore /\ GoesOn
  /\ UNCHANGED << sp, uart >>

ExecRvGroup ==
  /\ ins.op \in RvOps
  /\ LET outcome == Rv(ins, regs[ins.rs2], pc, flags)
     IN  /\ regs' = [regs EXCEPT ![ins.rs2] = outcome.result]
         /\ flags' = outcome.flags
  /\ Advance(RvBytes(ins.op)) /\ NoStore /\ GoesOn
  /\ UNCHANGED << sp, uart >>

(* A word outside every opcode class, or an unused code of a class, stops  *)
(* the machine; unused codes of the three-register class first move on.    *)
ExecInvalid ==
  /\ ins.op \in {"invalid", "invalid rrr"}
  /\ stop' = "InvalidOpcode"
  /\ IF ins.op = "invalid rrr" THEN Advance(4) ELSE pc' = pc
  /\ NoStore
  /\ UNCHANGED << regs, sp, flags, uart, halted >>

-----------------------------------------------------------------------------
(* Mutated form: LE without the equal flag.                                *)
OnlyLess == flags.less

LessOrEqual == flags.less \/ flags.equal

(* flow_cond.                                                              *)
FlowCond(cond) ==
  CASE cond = "always" -> TRUE
    [] cond = "Z"   -> flags.zero      [] cond = "NZ"  -> ~flags.zero
    [] cond = "E"   -> flags.equal     [] cond = "NE"  -> ~flags.equal
    [] cond = "C"   -> flags.carry     [] cond = "NC"  -> ~flags.carry
    [] cond = "O"   -> flags.overflow  [] cond = "NO"  -> ~flags.overflow
    [] cond = "S"   -> flags.sign      [] cond = "NS"  -> ~flags.sign
    [] cond = "LT"  -> flags.less      [] cond = "GE"  -> ~flags.less
    [] cond = "LE"  -> LessOrEqual
    [] cond = "GT"  -> ~flags.less /\ ~flags.equal
    [] cond = "ULT" -> flags.ult       [] cond = "UGE" -> ~flags.ult
    [] cond = "ULE" -> flags.ult \/ flags.equal
    [] cond = "UGT" -> ~flags.ult /\ ~flags.equal
    [] cond = "unused" -> FALSE

Relative == ins.op \in {"JMPREL", "CALLREL"}

(* Mutated form: the sum is not cut to a word.                             *)
UnwrappedTarget == IF Relative THEN pc + ins.imm ELSE ins.imm

JumpTarget == IF Relative THEN (pc + ins.imm) % WordSize ELSE ins.imm

Push(val) ==
  /\ sp' = (sp - 8) % WordSize
  /\ Write64(sp', val)

Popped == Read64(sp)
Pop == sp' = (sp + 8) % WordSize

ExecJump ==
  /\ ins.op \in {"JMP", "JMPREL"}
  /\ IF FlowCond(ins.cond) THEN pc' = JumpTarget ELSE Advance(8)
  /\ NoStore /\ GoesOn
  /\ UNCHANGED << regs, sp, flags, uart >>

(* Mutated form: a call returns to its own target word.                    *)
AfterOpcode(n) == (pc + n - 4) % WordSize

ReturnAddress(n) == (pc + n) % WordSize

ExecCall ==
  /\ ins.op \in {"CALL", "CALLREL"}
  /\ IF FlowCond(ins.cond)
     THEN Push(ReturnAddress(8)) /\ pc' = JumpTarget
     ELSE Advance(8) /\ NoStore /\ sp' = sp
  /\ GoesOn
  /\ UNCHANGED << regs, flags, uart >>

ExecJumpRegister ==
  /\ ins.op = "JMPR"
  /\ pc' = regs[ins.rs2] % WordSize
  /\ NoStore /\ GoesOn
  /\ UNCHANGED << regs, sp, flags, uart >>

ExecCallRegister ==
  /\ ins.op = "CALLR"
  /\ Push(ReturnAddress(4))
  /\ pc' = regs[ins.rs2] % WordSize
  /\ GoesOn
  /\ UNCHANGED << regs, flags, uart >>

ExecReturn ==
  /\ ins.op = "RET"
  /\ Pop
  /\ pc' = Popped % WordSize
  /\ NoStore /\ GoesOn
  /\ UNCHANGED << regs, flags, uart >>

(* The saved context: the program counter in the low word, seven flags     *)
(* above it.                                                               *)
ExecIret ==
  /\ ins.op = "IRET"
  /\ Pop
  /\ pc' = Popped % WordSize
  /\ LET Saved(i) == Bit(Popped, WordBits + i) = 1
     IN  flags' = [zero |-> Saved(6), equal |-> Saved(5), carry |-> Saved(4),
                   overflow |-> Saved(3), sign |-> Saved(2), less |-> Saved(1),
                   ult |-> Saved(0)]
  /\ NoStore /\ GoesOn
  /\ UNCHANGED << regs, uart >>

-----------------------------------------------------------------------------
Pushed == IF ins.op = "PUSH" THEN regs[ins.rs2]
          ELSE IF ins.op = "PUSHV" THEN ins.imm ELSE ins.high * WordSize + ins.imm

ExecPush ==
  /\ ins.op \in {"PUSH", "PUSHV", "PUSHV64"}
  /\ Push(Pushed)
  /\ Advance(IF ins.op = "PUSH" THEN 4 ELSE IF ins.op = "PUSHV" THEN 8 ELSE 12)
  /\ GoesOn
  /\ UNCHANGED << regs, flags, uart >>

ExecPop ==
  /\ ins.op = "POP"
  /\ regs' = [regs EXCEPT ![ins.rs2] = Popped]
  /\ Pop /\ Advance(4) /\ NoStore /\ GoesOn
  /\ UNCHANGED << flags, uart >>

ExecGetsp ==
  /\ ins.op = "GETSP"
  /\ regs' = [regs EXCEPT ![ins.rs2] = sp]
  /\ Advance(4) /\ NoStore /\ GoesOn
  /\ UNCHANGED << sp, flags, uart >>

ExecMoveSp ==
  /\ ins.op \in {"SETSP", "ADDSP"}
  /\ IF ins.op = "SETSP"
     THEN sp' = regs[ins.rs2] % WordSize /\ Advance(4)
     ELSE sp' = (sp + ins.imm) % WordSize /\ Advance(8)
  /\ NoStore /\ GoesOn
  /\ UNCHANGED << regs, flags, uart >>

-----------------------------------------------------------------------------
(* Loads and stores: how many bytes, aligned to what, addressed how.       *)
Access(bytes, align, mode) == [bytes |-> bytes, align |-> align, mode |-> mode]

Loads ==
  [MEMREADRR |-> Access(8, 8, "register"), MEMREADR  |-> Access(8, 8, "immediate"),
   MEMGET8   |-> Access(1, 1, "register"), MEMGET16  |-> Access(2, 2, "register"),
   MEMGET32  |-> Access(4, 1, "register"), MEMGET64  |-> Access(8, 8, "register"),
   LDIDX64   |-> Access(8, 1, "indexed"),  LDIDX64R  |-> Access(8, 1, "two registers"),
   LDIDX64A  |-> Access(8, 8, "indexed"),  LDIDX32   |-> Access(4, 4, "indexed"),
   LDIDX16   |-> Access(2, 2, "indexed"),  LDIDX8    |-> Access(1, 1, "indexed"),
   LDIDX16_S |-> Access(2, 2, "indexed"),  LDIDX8_S  |-> Access(1, 1, "indexed")]

Stores ==
  [MEMSET64RR |-> Access(8, 8, "register"), MEMSETR |-> Access(8, 8, "immediate"),
   MEMSET8    |-> Access(1, 1, "register"), MEMSET16 |-> Access(2, 2, "register"),
   MEMSET32   |-> Access(4, 4, "register"), MEMSET64 |-> Access(8, 8, "register"),
   STIDX64    |-> Access(8, 1, "indexed"),  STIDX64R |-> Access(8, 8, "two registers"),
   STIDX64A   |-> Access(8, 8, "indexed"),  STIDX32  |-> Access(4, 4, "indexed"),
   STIDX16    |-> Access(2, 2, "indexed"),  STIDX8   |-> Access(1, 1, "indexed")]

AddressOf(access) ==
  LET base == regs[ins.rs2]
      at == CASE access.mode = "register"      -> base
              [] access.mode = "immediate"     -> ins.imm
              [] access.mode = "indexed"       -> base + ins.imm
              [] access.mode = "two registers" -> base + regs[ins.imm % 16]
  IN  AlignedTo(at % WordSize, access.align)

AccessBytes(access) == IF access.mode = "register" THEN 4 ELSE 8

(* The operand that is not part of the address.                            *)
Operand(access) == IF access.mode = "immediate" THEN ins.rs2 ELSE ins.rs1

ExecLoad ==
  /\ ins.op \in DOMAIN Loads
  /\ LET access == Loads[ins.op]
         addr == AddressOf(access)
         read == IF access.bytes = 8 THEN Read64(addr) ELSE ReadSub(addr, access.bytes)
         extended == IF ins.op \in {"LDIDX8_S", "LDIDX16_S"}
                     THEN SignExtend(read, access.bytes * ByteBits) ELSE read
     IN  /\ regs' = [regs EXCEPT ![Operand(access)] = extended]
         /\ Advance(AccessBytes(access))
  /\ NoStore /\ GoesOn
  /\ UNCHANGED << sp, flags, uart >>

ExecStore ==
  /\ ins.op \in DOMAIN Stores
  /\ LET access == Stores[ins.op]
         addr == AddressOf(access)
         val == regs[Operand(access)]
     IN  /\ IF access.bytes = 8 THEN Write64(addr, val) ELSE WriteSub(addr, val, access.bytes)
         /\ Advance(AccessBytes(access))
  /\ GoesOn
  /\ UNCHANGED << regs, sp, flags, uart >>

-----------------------------------------------------------------------------
(* What goes out on the UART: a register as hex, a byte, a fixed text.     *)
Hex(val) == << << "hex", val >> >>
Bytes(text) == [i \in 1..Len(text) |-> << "byte", text[i] >>]
Text(t) == << << t, 0 >> >>

(* tx_string: up to a zero byte or the end of memory.                      *)
StringAt(addr) ==
  IF addr >= MemSize THEN << >>
  ELSE LET end == Min({a \in addr..MemSize : a = MemSize \/ mem[a] = 0})
       IN  [i \in 1..(end - addr) |-> mem[addr + i - 1]]

Transmitted ==
  LET addr == regs[ins.rs2] % WordSize
  IN CASE ins.op = "TXR"        -> Hex(regs[ins.rs2])
       [] ins.op = "TXMEMR"     -> Hex(Read64(AlignedTo(addr, 8)))
       [] ins.op = "TXCHARMEMR" -> Bytes(<< ReadSub(addr, 1) >>)
       [] ins.op = "TXSTRMEMR"  -> Bytes(StringAt(addr))
       [] ins.op = "TXMEM"      -> Hex(Read64(AlignedTo(ins.imm, 8)))
       [] ins.op = "TXSTRMEM"   -> Bytes(StringAt(ins.imm))
       [] ins.op = "TESTMSG"    -> Text("TEST")
       [] ins.op = "NEWLINE"    -> Text("newline")

ExecTransmit ==
  /\ ins.op \in {"TXR", "TXMEMR", "TXCHARMEMR", "TXSTRMEMR", "TXMEM", "TXSTRMEM",
                 "TESTMSG", "NEWLINE"}
  /\ uart' = uart \o Transmitted
  /\ Advance(IF ins.op \in {"TXMEM", "TXSTRMEM"} THEN 8 ELSE 4)
  /\ NoStore /\ GoesOn
  /\ UNCHANGED << regs, sp, flags >>

(* RXRB, RXRNB and SWR: no input is modelled; RXRNB says so in zero.       *)
ExecReceive ==
  /\ ins.op \in {"RXRB", "RXRNB", "SWR"}
  /\ regs' = [regs EXCEPT ![ins.rs2] = 0]
  /\ flags' = IF ins.op = "RXRNB" THEN [flags EXCEPT !.zero = TRUE] ELSE flags
  /\ Advance(4) /\ NoStore /\ GoesOn
  /\ UNCHANGED << sp, uart >>

(* LCD, LEDs, delays, NOP and INTSETRR do nothing but take their words.    *)
ExecNothing ==
  /\ ins.op \in {"one word", "two words"}
  /\ Advance(IF ins.op = "one word" THEN 4 ELSE 8)
  /\ NoStore /\ GoesOn
  /\ UNCHANGED << regs, sp, flags, uart >>

(* RESET goes to address 4.                                                *)
ExecReset ==
  /\ ins.op = "RESET"
  /\ pc' = 4
  /\ NoStore /\ GoesOn
  /\ UNCHANGED << regs, sp, flags, uart >>

ExecHalt ==
  /\ ins.op = "HALT"
  /\ halted' = TRUE
  /\ NoStore
  /\ UNCHANGED << regs, sp, pc, flags, uart, stop >>

ExecTrap ==
  /\ ins.op = "TRAP"
  /\ stop' = "Trap"
  /\ NoStore
  /\ UNCHANGED << regs, sp, pc, flags, uart, halted >>

-----------------------------------------------------------------------------
(* What the properties remember of an instruction.                         *)
BytesOf(write) == {write.addr + lane : lane \in write.lanes}
FrameBytes(frame) == frame.at..(frame.at + 7)
Calls == {"CALL", "CALLREL", "CALLR"}

Remember ==
  /\ frames' = {f \in frames : FrameBytes(f) \cap BytesOf(last_write') = {}}
                 \cup IF ins.op \in Calls /\ last_write' # NoWrite
                      THEN {[at |-> sp',
                             next |-> (pc + IF ins.op = "CALLR" THEN 4 ELSE 8) % WordSize]}
                      ELSE {}
  /\ compared' = CASE ins.op = "CMPRR" -> << regs[ins.rs1], regs[ins.rs2] >>
                   [] ins.op = "CMPRV" -> << regs[ins.rs2], SignExtend(ins.imm, WordBits) >>
                   [] ins.op = "IRET"  -> << >>
                   [] OTHER -> compared

(* Mutated form: instructions are not counted.                             *)
Uncounted == count

Retired == count + 1

Exec ==
  \/ ExecCopy \/ ExecAddi \/ ExecCmprr \/ ExecRrr \/ ExecRvGroup \/ ExecInvalid
  \/ ExecJump \/ ExecCall \/ ExecJumpRegister \/ ExecCallRegister \/ ExecReturn
  \/ ExecIret \/ ExecPush \/ ExecPop \/ ExecGetsp \/ ExecMoveSp
  \/ ExecLoad \/ ExecStore \/ ExecTransmit \/ ExecReceive \/ ExecNothing
  \/ ExecReset \/ ExecHalt \/ ExecTrap

Step ==
  /\ Running
  /\ pc + 4 <= MemSize
  /\ Exec
  /\ count' = Retired
  /\ Remember
  /\ UNCHANGED << program, result >>

LeaveMemory ==
  /\ Running
  /\ pc + 4 > MemSize
  /\ stop' = "PcOutOfRange"
  /\ UNCHANGED << program, regs, sp, pc, flags, mem, uart, halted, last_write,
                  count, result, frames, compared >>

(* The end of run: a stop reason comes before a halt, a halt before the    *)
(* cap.                                                                    *)
Return ==
  /\ ~Running
  /\ result = "none"
  /\ result' = IF stop # "none" THEN stop ELSE IF halted THEN "Halt" ELSE "InstructionCap"
  /\ UNCHANGED << program, regs, sp, pc, flags, mem, uart, halted, stop, last_write,
                  count, frames, compared >>

Next == Step \/ LeaveMemory \/ Return

Spec == Init /\ [][Next]_vars
FairSpec == Spec /\ WF_vars(Next)

StopReasons == {"InvalidOpcode", "Trap", "PcOutOfRange"}

TypeOK ==
  /\ program.entry \in Word
  /\ regs \in [Registers -> Reg]
  /\ sp \in Word
  /\ pc \in Word
  /\ flags \in Flags
  /\ mem \in [Addresses -> Byte]
  /\ uart \in Seq({"hex", "byte", "TEST", "newline"} \X Reg)
  /\ halted \in BOOLEAN
  /\ stop \in StopReasons \cup {"none"}
  /\ last_write \in [addr : Word, lanes : SUBSET AllLanes, data : Reg]
  /\ count \in 0..MaxInstructions
  /\ result \in StopReasons \cup {"none", "Halt", "InstructionCap"}
  /\ frames \subseteq [at : Word, next : Word]
  /\ compared \in {<< >>} \cup (Reg \X Reg)

-----------------------------------------------------------------------------
(* An instruction commits in this step.                                    *)
Commits == count' = count + 1

(* Two's complement integers a register can hold.                          *)
Signeds == -(2^(RegBits - 1))..(2^(RegBits - 1) - 1)

AddOperands ==
  CASE ins.op \in {"ADDR", "SUBR"} -> << regs[ins.rs1], regs[ins.rs2], 0 >>
    [] ins.op \in {"ADDC", "SUBC"} -> << regs[ins.rs1], regs[ins.rs2], Number(flags.carry) >>
    [] ins.op = "ADDI" -> << regs[ins.rs2], SignExtend(ins.imm, WordBits), 0 >>
    [] ins.op \in {"ADDV", "MINUSV"} -> << regs[ins.rs2], ins.imm, 0 >>
    [] ins.op \in {"INCR", "DECR"} -> << regs[ins.rs2], 1, 0 >>

Additions == {"ADDR", "ADDC", "ADDI", "ADDV", "INCR"}
Subtractions == {"SUBR", "SUBC", "MINUSV", "DECR"}

(***************************************************************************)
(* FlagsTellArithmetic: after every addition and subtraction, with or      *)
(* without a carry from the one before, carry says whether the unsigned    *)
(* numbers left the register's range, overflow whether the signed ones     *)
(* did, and zero and sign describe the sum of integers modulo its size.    *)
(* The code finds overflow by comparing three sign bits and the carry by   *)
(* two overflowing operations (emulate.rs:215, 230).                       *)
(***************************************************************************)
FlagsTellArithmetic ==
  [][Commits /\ ins.op \in Additions \cup Subtractions =>
       LET args == AddOperands
           a == args[1]
           b == args[2]
           c == args[3]
           plus == ins.op \in Additions
           exact == IF plus THEN Signed(a) + Signed(b) + c ELSE Signed(a) - Signed(b) - c
       IN  /\ flags'.overflow = (exact \notin Signeds)
           /\ flags'.carry = IF plus THEN a + b + c >= RegSize ELSE a < b + c
           /\ flags'.zero = (exact % RegSize = 0)
           /\ flags'.sign = (exact % RegSize >= 2^(RegBits - 1))]_vars

Relations ==
  [LT  |-> Signed(compared[1]) < Signed(compared[2]),
   LE  |-> Signed(compared[1]) <= Signed(compared[2]),
   GT  |-> Signed(compared[1]) > Signed(compared[2]),
   GE  |-> Signed(compared[1]) >= Signed(compared[2]),
   ULT |-> compared[1] < compared[2],
   ULE |-> compared[1] <= compared[2],
   UGT |-> compared[1] > compared[2],
   UGE |-> compared[1] >= compared[2],
   E   |-> compared[1] = compared[2],
   NE  |-> compared[1] # compared[2]]

(***************************************************************************)
(* BranchesFollowCompare: a conditional jump of the relational kinds goes  *)
(* where the last comparison sends it, signed or unsigned, whatever was    *)
(* executed between the two: the flags it reads are sticky                 *)
(* ("set only by CMPRR / CMPRV", emulate.rs:82, 84, 86) and agree with the *)
(* integers that were compared, although a subtraction of them overflows.  *)
(***************************************************************************)
BranchesFollowCompare ==
  [][Commits /\ ins.op \in {"JMP", "JMPREL"} /\ compared # << >> =>
       (ins.cond \in {"LT", "LE", "GT", "GE", "ULT", "ULE", "UGT", "UGE", "E", "NE"} =>
          pc' = IF Relations[ins.cond] THEN JumpTarget ELSE (pc + 8) % WordSize)]_vars

(***************************************************************************)
(* CallsReturn: RET at the stack pointer a call left goes to the           *)
(* instruction after that call, if the frame lies in memory and nothing    *)
(* was written over it, however many calls, pushes and stores of other     *)
(* places happened between.                                                *)
(***************************************************************************)
CallsReturn ==
  [][\A f \in frames :
       Commits /\ ins.op = "RET" /\ f.at = sp /\ f.at + 8 <= MemSize => pc' = f.next]_vars

(***************************************************************************)
(* TraceTellsWrites: the trace of an instruction accounts for memory: each *)
(* byte that changed lies in an enabled lane of the write it reports, and  *)
(* each enabled lane inside memory holds the reported data.                *)
(***************************************************************************)
TraceTellsWrites ==
  [][Commits =>
       LET written == BytesOf(last_write')
       IN  /\ \A a \in Addresses : mem'[a] # mem[a] => a \in written
           /\ written \subseteq Addresses =>
                \A a \in written : mem'[a] = ByteOf(last_write'.data, a - last_write'.addr)]_vars

(***************************************************************************)
(* RunsEnd: every program's run ends, a program that never halts by the    *)
(* instruction cap.                                                        *)
(***************************************************************************)
RunsEnd == <>(result # "none")
================================================================================
