------------------------------ MODULE MCAssembler ------------------------------
(* Small instances of the assembler: every source of up to MaxLines lines  *)
(* over AnyLine, and _start followed by up to MaxSectionLines lines over   *)
(* SectionLine, those that interact through sections, names and the entry. *)
EXTENDS AssemblerRefinement, SequencesExt

CONSTANTS MaxLines, MaxSectionLines

MCNames == {"loop", "LOOP", "#buf"}
MCUpper == [n \in MCNames |-> IF n = "loop" THEN "LOOP" ELSE n]
MCMnemonics == {"NOP", "SETR", "SETR64", "JMP", "BOGUS"}
MCVariables == [op \in MCMnemonics \ {"BOGUS"} |->
                  CASE op = "NOP" -> 0 [] op = "SETR64" -> 2 [] OTHER -> 1]

Literal(wide) == [kind |-> "literal", wide |-> wide]
Name(n) == [kind |-> "name", name |-> n]
Instruction(op, operands) ==
  [kind |-> "instruction", op |-> op, registers_ok |-> TRUE, operands |-> operands]
Bare(kind) == [kind |-> kind]
Label(n) == [kind |-> "label", name |-> n]
Data(named, words) == [kind |-> "data", named |-> named, name |-> "#buf",
                       valid |-> TRUE, words |-> words]
Comm(size) == [kind |-> "comm", complete |-> TRUE, name |-> "LOOP", size |-> size]

SectionLine ==
  { Bare(".data"), Bare(".text"), Bare("start"), Label("loop"),
    Instruction("JMP", << Name("LOOP") >>), Data(TRUE, 3), Comm(4) }

AnyLine ==
  SectionLine \cup
  { Bare("comment"), Bare("glued"), Label("LOOP"), Comm(0), Data(FALSE, 2), Data(TRUE, 0),
    [Comm(4) EXCEPT !.complete = FALSE],
    [Data(TRUE, 2) EXCEPT !.valid = FALSE],
    Instruction("NOP", << >>),
    Instruction("NOP", << Literal(FALSE) >>),
    Instruction("BOGUS", << >>),
    Instruction("JMP", << >>),
    Instruction("JMP", << Name("#buf") >>),
    Instruction("JMP", << Literal(TRUE) >>),
    Instruction("SETR", << Literal(TRUE) >>),
    Instruction("SETR", << Literal(FALSE) >>),
    Instruction("SETR64", << Name("loop") >>),
    Instruction("SETR64", << Name("loop"), Literal(TRUE) >>),
    [Instruction("NOP", << >>) EXCEPT !.registers_ok = FALSE] }

MCPrograms ==
  BoundedSeq(AnyLine, MaxLines) \cup
  {<< Bare("start") >> \o lines : lines \in BoundedSeq(SectionLine, MaxSectionLines)}
================================================================================
