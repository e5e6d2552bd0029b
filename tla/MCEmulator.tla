------------------------------ MODULE MCEmulator -------------------------------
(* Programs for a machine with 16-bit registers and 8-bit words: every     *)
(* register instruction on the operands where signs, carries and shifts    *)
(* change, every jump after a comparison, calls, stacks that run out,      *)
(* loads and stores of every width, output, and the ways to stop.          *)
EXTENDS Emulator, TLC

I(op, rd, rs1, rs2, imm, high, cond) ==
  [op |-> op, rd |-> rd, rs1 |-> rs1, rs2 |-> rs2, imm |-> imm, high |-> high, cond |-> cond]

R3(op, rd, rs1, rs2) == I(op, rd, rs1, rs2, 0, 0, "always")
R2(op, rs1, rs2) == I(op, 0, rs1, rs2, 0, 0, "always")
RI(op, rs2, imm) == I(op, 0, 0, rs2, imm, 0, "always")
RRI(op, rs1, rs2, imm) == I(op, 0, rs1, rs2, imm, 0, "always")
Op(op) == I(op, 0, 0, 0, 0, 0, "always")
Flow(op, cond, imm) == I(op, 0, 0, 0, imm, 0, cond)
Set(r, x) == I("SETR64", 0, 0, r, x % WordSize, x \div WordSize, "always")
Halt == Op("HALT")

(* Where the entry is, and how many bytes an instruction takes.            *)
MCEntry == 32
Size(i) ==
  CASE i.op \in {"SETR64", "PUSHV64"} -> 12
    [] i.op \in TwoWordRv \cup {"ADDI", "JMP", "JMPREL", "CALL", "CALLREL", "PUSHV",
         "ADDSP", "TXMEM", "TXSTRMEM", "two words", "MEMREADR", "MEMSETR", "LDIDX64",
         "LDIDX64R", "LDIDX64A", "LDIDX32", "LDIDX16", "LDIDX8", "LDIDX16_S", "LDIDX8_S",
         "STIDX64", "STIDX64R", "STIDX64A", "STIDX32", "STIDX16", "STIDX8"} -> 8
    [] OTHER -> 4

PlaceOf(list) ==
  LET f[n \in 1..(Len(list) + 1)] == IF n = 1 THEN MCEntry ELSE f[n - 1] + Size(list[n - 1])
  IN  f

MCData == (80 :> 1) @@ (81 :> 3) @@ (82 :> 2) @@ (88 :> 2) @@ (89 :> 1)

P(list) ==
  LET place == PlaceOf(list)
      at == {place[i] : i \in 1..Len(list)}
  IN  [entry |-> MCEntry,
       code  |-> [a \in at |-> list[CHOOSE i \in 1..Len(list) : place[i] = a]],
       data  |-> MCData]

Lowest == 2^(RegBits - 1)
Operands == {0, 1, Lowest - 1, Lowest, RegSize - 1, 37}
Pairs == Operands \X Operands
Immediates == {0, 1, 11, 127, 128, 255}

RrrPrograms ==
  {P(<< Set(1, p[1]), Set(2, p[2]), R3(op, 3, 1, 2), Halt >>) :
     op \in RrrOps \ {"MULUR", "MULHUR"}, p \in Pairs}
  \cup {P(<< Set(1, p[1]), Set(2, p[2]), R3(op, 3, 1, 2), Halt >>) :
          op \in {"MULUR", "MULHUR"}, p \in Pairs \ {<< RegSize - 1, RegSize - 1 >>}}

(* An addition whose carry feeds the next operation.                       *)
CarryPrograms ==
  {P(<< Set(1, p[1]), Set(2, p[2]), R3(first, 3, 1, 2), R3(op, 4, 2, 1), Halt >>) :
     first \in {"ADDR", "SUBR"}, op \in {"ADDC", "SUBC"}, p \in Pairs}

RvPrograms ==
  {P(<< Set(1, a), RI(op, 1, imm), RI("SETFR", 1, 0), Halt >>) :
     op \in TwoWordRv, a \in Operands, imm \in Immediates}
  \cup {P(<< Set(1, a), Set(2, b), R3("ADDR", 2, 1, 2), RI(op, 1, 0), Halt >>) :
          op \in OneWordRv, a \in Operands, b \in {0, RegSize - 1}}
  \cup {P(<< Set(1, a), RRI("ADDI", 2, 1, imm), R2("COPY", 3, 2), Halt >>) :
          a \in Operands, imm \in Immediates}

Conditions == {"always", "Z", "NZ", "E", "NE", "C", "NC", "O", "NO", "S", "NS", "LT", "LE",
               "GT", "GE", "ULT", "ULE", "UGT", "UGE", "unused"}

(* Between the comparison and the jump, an instruction that changes other  *)
(* flags.                                                                  *)
JumpPrograms ==
  {P(<< Set(1, p[1]), Set(2, p[2]), R2("CMPRR", 1, 2), RI("INCR", 1, 0),
        Flow("JMP", cond, 80), Halt >>) : cond \in Conditions, p \in Pairs}
  \cup {P(<< Set(1, a), RI("CMPRV", 1, imm), R3("XORR", 2, 1, 1),
             Flow("JMPREL", cond, WordSize - 8), Halt >>) :
          cond \in {"LE", "GT", "ULT", "UGE", "NE"}, a \in Operands, imm \in Immediates}

(* Calls: nested, conditional, indirect, around pushes, without end, on a  *)
(* stack that starts at address 8, over a frame that was written over, and *)
(* a return with nothing on the stack.                                     *)
CallPrograms ==
  { P(<< Flow("CALL", "always", 44), Halt, Flow("CALLREL", "always", 12), Op("RET"),
         RI("PUSHV", 0, 9), RI("POP", 1, 0), Op("RET") >>),
    P(<< Set(1, 52), RI("CALLR", 1, 0), Halt, Op("one word"), RI("PUSH", 1, 0),
         Flow("CALL", "Z", 32), Flow("CALL", "NZ", 76), Halt, Op("RET") >>),
    P(<< RI("SETR", 1, 8), RI("SETSP", 1, 0), Flow("CALL", "always", 48) >>),
    P(<< Flow("CALL", "always", 48), Op("two words"),
         RI("GETSP", 2, 0), Set(3, 32), R2("MEMSET8", 3, 2), Op("RET") >>),
    P(<< Op("RET") >>),
    P(<< RI("PUSHV", 0, 48), Op("IRET"), Halt >>),
    P(<< I("PUSHV64", 0, 0, 0, 48, 127, "always"), Op("IRET"), Flow("JMP", "LE", 60), Halt >>),
    P(<< RI("ADDSP", 0, WordSize - 12), Set(1, 517), RI("PUSH", 1, 0), RI("POP", 2, 0),
         RI("TXR", 2, 0), Halt >>),
    P(<< RI("SETR", 1, 40), RI("JMPR", 1, 0) >>) }

(* Every load and store, at an address that is aligned, unaligned, at the  *)
(* end of memory and outside it.                                           *)
Places == {80, 83, MemSize - 5, MemSize + 3}

MemoryPrograms ==
  {P(<< Set(1, a), RI("SETR", 3, 2), RRI(op, 2, 1, imm), RI("TXR", 2, 0), Halt >>) :
     op \in DOMAIN Loads, a \in Places, imm \in {0, 83}}
  \cup {P(<< Set(1, a), Set(2, 27181), RI("SETR", 3, 2), RRI(op, 2, 1, imm), Halt >>) :
          op \in DOMAIN Stores, a \in Places, imm \in {3, 83}}

OutputPrograms ==
  {P(<< RI("SETR", 1, 80), RI(op, 1, 80), Op("NEWLINE"), Halt >>) :
     op \in {"TXR", "TXMEMR", "TXCHARMEMR", "TXSTRMEMR", "TXMEM", "TXSTRMEM", "TESTMSG",
             "RXRB", "RXRNB", "SWR", "one word", "two words", "RESET", "TRAP",
             "invalid rrr"}}
  \cup {P(<< Set(1, MemSize - 1), R2("MEMSET8", 1, 1), RI("TXSTRMEMR", 1, 0),
             Flow("JMP", "always", MemSize - 2) >>),
        P(<< Op("one word"), Flow("JMP", "always", 32) >>)}

MCPrograms ==
  RrrPrograms \cup CarryPrograms \cup RvPrograms \cup JumpPrograms \cup CallPrograms
    \cup MemoryPrograms \cup OutputPrograms
================================================================================
