------------------------------- MODULE Assembler -------------------------------
(***************************************************************************)
(* The two-pass assembler of klausscc: get_pass1, get_labels,              *)
(* find_duplicate_label, get_pass2 and the two ways its result becomes a   *)
(* memory image, create_bin_string (the .kbt sent to the board) and        *)
(* build_flat_code + build_ddr_image (what the emulator runs).             *)
(*                                                                         *)
(* One action per iteration of each loop.  Pass 1 assigns every line an    *)
(* address from the sizes it EXPECTS; pass 2 computes the words; the .kbt  *)
(* is a plain concatenation of those words and never looks at an address   *)
(* again.  What the program does on the board hangs on the two agreeing.   *)
(***************************************************************************)
EXTENDS SourceLines, FiniteSets

CONSTANT Programs      \* the sources, as sequences of lines after pass 0

ASSUME ProgramsAssumption == Programs \subseteq Seq(Line)

VARIABLES
  pass0,            \* the source lines
  phase,            \* which loop is running
  next,             \* the index the running loop looks at
  program_counter,  \* byte address given to the next pass 1 line
  in_data_section,  \* the last section directive was a data one
  data_pass0,       \* lines deferred to the end of the program
  pass1,            \* the placed lines
  labels,           \* the pass 1 lines that define a name, by position
  pass2,            \* the placed lines with their words
  errors,           \* messages of type Error so far
  output,           \* the words of the image being built
  entry,            \* build_flat_code's entry while it loops
  outcome           \* what the run produced

vars == << pass0, phase, next, program_counter, in_data_section, data_pass0,
           pass1, labels, pass2, errors, output, entry, outcome >>

Phases == {"pass1", "deferred", "labels", "pass2", "output", "kbt", "flat", "done"}

HEAP_HEADER_WORDS == 4
HeaderBytes == HEAP_HEADER_WORDS * 8

(* An emitted 32-bit word, known by the line it comes from and its place   *)
(* in that line; address is the value a name operand resolved to.          *)
Word == [line : Nat, part : Nat, address : Nat]
OwnWord(n, k) == [line |-> n, part |-> k, address |-> 0]
Padding == OwnWord(0, 0)

DeferredLine == [line : Line, line_counter : Nat]
Pass1Line == [line : Line, line_counter : Nat, program_counter : Nat,
              line_type : LineTypes]
Pass2Line == [line : Line, line_counter : Nat, program_counter : Nat,
              line_type : LineTypes, opcode : Seq(Word)]

NoEntry == 0      \* no address is below HeaderBytes
Pending == [kind |-> "pending"]
Rejected == [kind |-> "rejected"]
Image == [kind : {"kbt", "flat"}, words : Seq(Word), heap_start : Nat, entry : Nat]

(* Mutated form: rounding the wrong way.                                   *)
AlignDown(n) == 8 * (n \div 8)

AlignUp(n) == 8 * ((n + 7) \div 8)

-----------------------------------------------------------------------------
Init ==
  /\ pass0 \in Programs
  /\ phase = "pass1"
  /\ next = 1
  /\ program_counter = HeaderBytes
  /\ in_data_section = FALSE
  /\ data_pass0 = << >>
  /\ pass1 = << >>
  /\ labels = {}
  /\ pass2 = << >>
  /\ errors = 0
  /\ output = << >>
  /\ entry = NoEntry
  /\ outcome = Pending

-----------------------------------------------------------------------------
(* Pass 1.                                                                 *)

Placed(line, n) == [line |-> line, line_counter |-> n,
                    program_counter |-> program_counter,
                    line_type |-> LineType(line)]

DataErrors(line) ==
  IF LineType(line) = "Data" /\ ~line.valid THEN 1 ELSE 0

(* is_valid_line strips the comment first; the line type was taken with it.*)
LineErrors(line) ==
  IF LineType(line) = "Error" /\ line.kind # "glued" THEN 1 ELSE 0

(* .comm leaves nothing where it stands, in whatever section.              *)
DeferComm ==
  /\ phase = "pass1"
  /\ next <= Len(pass0)
  /\ pass0[next].kind = "comm"
  /\ data_pass0' = data_pass0 \o
       [i \in 1..Len(CommItems(pass0[next])) |->
          [line |-> CommItems(pass0[next])[i], line_counter |-> next]]
  /\ next' = next + 1
  /\ UNCHANGED << pass0, phase, program_counter, in_data_section, pass1, labels,
                  pass2, errors, output, entry, outcome >>

(* Mutated form: the labels of a data section stay behind.                 *)
MovesDataOnly(line) == in_data_section /\ LineType(line) = "Data"

MovesToEnd(line) == in_data_section /\ LineType(line) \in {"Label", "Data"}

(* Mutated form: the deferred line is placed where it stands as well.      *)
DeferAndPlace ==
  /\ phase = "pass1"
  /\ next <= Len(pass0)
  /\ pass0[next].kind # "comm"
  /\ MovesToEnd(pass0[next])
  /\ data_pass0' = Append(data_pass0, [line |-> pass0[next], line_counter |-> next])
  /\ pass1' = Append(pass1, Placed(pass0[next], next))
  /\ program_counter' = program_counter + 4 * WordCount(pass0[next])
  /\ next' = next + 1
  /\ UNCHANGED << pass0, phase, in_data_section, labels, pass2, errors, output,
                  entry, outcome >>

DeferToDataSection ==
  /\ phase = "pass1"
  /\ next <= Len(pass0)
  /\ pass0[next].kind # "comm"
  /\ MovesToEnd(pass0[next])
  /\ data_pass0' = Append(data_pass0, [line |-> pass0[next], line_counter |-> next])
  /\ next' = next + 1
  /\ UNCHANGED << pass0, phase, program_counter, in_data_section, pass1, labels,
                  pass2, errors, output, entry, outcome >>

(* Mutated form: the size is taken before a wide SETR becomes SETR64.      *)
KeepLineSizedFirst ==
  /\ phase = "pass1"
  /\ next <= Len(pass0)
  /\ pass0[next].kind # "comm"
  /\ ~MovesToEnd(pass0[next])
  /\ LET line == UpgradeSetr(pass0[next])
     IN  /\ pass1' = Append(pass1, Placed(line, next))
         /\ program_counter' = program_counter + 4 * WordCount(pass0[next])
         /\ errors' = errors + LineErrors(line) + DataErrors(line)
  /\ in_data_section' = CASE pass0[next].kind = ".text" -> FALSE
                          [] pass0[next].kind = ".data" -> TRUE
                          [] OTHER                      -> in_data_section
  /\ next' = next + 1
  /\ UNCHANGED << pass0, phase, data_pass0, labels, pass2, output, entry, outcome >>

KeepLine ==
  /\ phase = "pass1"
  /\ next <= Len(pass0)
  /\ pass0[next].kind # "comm"
  /\ ~MovesToEnd(pass0[next])
  /\ LET line == UpgradeSetr(pass0[next])
     IN  /\ pass1' = Append(pass1, Placed(line, next))
         /\ program_counter' = program_counter + 4 * WordCount(line)
         /\ errors' = errors + LineErrors(line) + DataErrors(line)
  /\ in_data_section' = CASE pass0[next].kind = ".text" -> FALSE
                          [] pass0[next].kind = ".data" -> TRUE
                          [] OTHER                      -> in_data_section
  /\ next' = next + 1
  /\ UNCHANGED << pass0, phase, data_pass0, labels, pass2, output, entry, outcome >>

EndOfSource ==
  /\ phase = "pass1"
  /\ next > Len(pass0)
  /\ phase' = "deferred"
  /\ next' = 1
  /\ UNCHANGED << pass0, program_counter, in_data_section, data_pass0, pass1,
                  labels, pass2, errors, output, entry, outcome >>

PlaceDeferred ==
  /\ phase = "deferred"
  /\ next <= Len(data_pass0)
  /\ LET line == data_pass0[next].line
     IN  /\ pass1' = Append(pass1, Placed(line, data_pass0[next].line_counter))
         /\ program_counter' = program_counter + 4 * WordCount(line)
         /\ errors' = errors + DataErrors(line)
  /\ next' = next + 1
  /\ UNCHANGED << pass0, phase, in_data_section, data_pass0, labels, pass2,
                  output, entry, outcome >>

EndOfDeferred ==
  /\ phase = "deferred"
  /\ next > Len(data_pass0)
  /\ phase' = "labels"
  /\ UNCHANGED << pass0, next, program_counter, in_data_section, data_pass0,
                  pass1, labels, pass2, errors, output, entry, outcome >>

-----------------------------------------------------------------------------
(* Names.  The first definition in pass 1 order is the one a look-up finds.*)

Definitions(lines) == {j \in DOMAIN lines : DefinesName(lines[j].line)}

Matches(lines, found, name) == {j \in found : SameName(lines[j].line.name, name)}

ReturnLabelValue(lines, found, name) ==
  lines[CHOOSE j \in Matches(lines, found, name) :
          \A k \in Matches(lines, found, name) : j <= k].program_counter

(* Mutated form: only names spelled alike are taken for the same.          *)
DuplicatesBySpelling(lines, found) ==
  {j \in found : \E k \in found :
     /\ lines[k].line.name = lines[j].line.name
     /\ lines[k].program_counter # lines[j].program_counter}

(* A repeated name is an error only where its address differs.             *)
Duplicates(lines, found) ==
  {j \in found : ReturnLabelValue(lines, found, lines[j].line.name)
                   # lines[j].program_counter}

CollectLabels ==
  /\ phase = "labels"
  /\ labels' = Definitions(pass1)
  /\ errors' = errors + Cardinality(Duplicates(pass1, Definitions(pass1)))
  /\ phase' = "pass2"
  /\ next' = 1
  /\ UNCHANGED << pass0, program_counter, in_data_section, data_pass0, pass1,
                  pass2, output, entry, outcome >>

-----------------------------------------------------------------------------
(* Pass 2.                                                                 *)

(* convert_argument: an unknown name, like a literal out of range, is only *)
(* a Warning and the word becomes 00000000.                                *)
ConvertArgument(operand, n, k) ==
  [line |-> n, part |-> k,
   address |-> IF operand.kind = "name" /\ Matches(pass1, labels, operand.name) # {}
               THEN ReturnLabelValue(pass1, labels, operand.name)
               ELSE 0]

(* add_arguments: one 64-bit literal gives both words of a two-variable    *)
(* opcode; otherwise a word per operand, surplus operands being a Warning. *)
ArgumentCount(line) ==
  LET wanted == Variables[line.op]
      given  == Len(line.operands)
  IN  IF wanted \notin {1, 2} THEN 0
      ELSE IF wanted = 2 /\ given = 1 /\ line.operands[1].kind = "literal" THEN 2
      ELSE IF given < wanted THEN given ELSE wanted

AddArguments(line, n) ==
  [k \in 1..ArgumentCount(line) |->
     IF k \in DOMAIN line.operands
     THEN ConvertArgument(line.operands[k], n, k)
     ELSE OwnWord(n, k)]

InstructionWords(line, n) == << OwnWord(n, 0) >> \o AddArguments(line, n)

EmittedWords(p) ==
  CASE p.line_type = "Opcode" -> InstructionWords(p.line, p.line_counter)
    [] p.line_type = "Data"   -> [k \in 1..DataWords(p.line) |->
                                    OwnWord(p.line_counter, k)]
    [] OTHER                  -> << >>

InstructionErrors(p) ==
  IF p.line_type # "Opcode"
  THEN 0
  ELSE (IF p.line.registers_ok THEN 0 ELSE 1)
         + (IF ArgumentCount(p.line) = Variables[p.line.op] THEN 0 ELSE 1)

Pass2Type(p) ==
  IF p.line_type = "Opcode" /\ ~p.line.registers_ok THEN "Error" ELSE p.line_type

EmitLine ==
  /\ phase = "pass2"
  /\ next <= Len(pass1)
  /\ pass2' = Append(pass2,
       [line            |-> pass1[next].line,
        line_counter    |-> pass1[next].line_counter,
        program_counter |-> pass1[next].program_counter,
        line_type       |-> Pass2Type(pass1[next]),
        opcode          |-> EmittedWords(pass1[next])])
  /\ errors' = errors + InstructionErrors(pass1[next])
  /\ next' = next + 1
  /\ UNCHANGED << pass0, phase, program_counter, in_data_section, data_pass0,
                  pass1, labels, output, entry, outcome >>

EndOfPass2 ==
  /\ phase = "pass2"
  /\ next > Len(pass1)
  /\ phase' = "output"
  /\ next' = 1
  /\ UNCHANGED << pass0, program_counter, in_data_section, data_pass0, pass1,
                  labels, pass2, errors, output, entry, outcome >>

-----------------------------------------------------------------------------
(* Output: -e picks the emulator's flat image, otherwise the .kbt.         *)

RejectErrors ==
  /\ phase = "output"
  /\ errors > 0
  /\ outcome' = Rejected
  /\ phase' = "done"
  /\ UNCHANGED << pass0, next, program_counter, in_data_section, data_pass0,
                  pass1, labels, pass2, errors, output, entry >>

ChooseImage ==
  /\ phase = "output"
  /\ errors = 0
  /\ phase' \in {"kbt", "flat"}
  /\ UNCHANGED << pass0, next, program_counter, in_data_section, data_pass0,
                  pass1, labels, pass2, errors, output, entry, outcome >>

(* create_bin_string's loop.                                               *)
PushOpcode ==
  /\ phase = "kbt"
  /\ next <= Len(pass2)
  /\ output' = output \o pass2[next].opcode
  /\ next' = next + 1
  /\ UNCHANGED << pass0, phase, program_counter, in_data_section, data_pass0,
                  pass1, labels, pass2, errors, entry, outcome >>

StartLines == {j \in DOMAIN pass2 : pass2[j].line_type = "Start"}

HeapStart == AlignUp(HeaderBytes + 4 * Len(output))

(* The rest of create_bin_string: the heap_start word is patched in and    *)
(* the entry address appended, unless the source has none or several.      *)
SealKbt ==
  /\ phase = "kbt"
  /\ next > Len(pass2)
  /\ \E j \in StartLines :
       /\ StartLines = {j}
       /\ outcome' = [kind |-> "kbt", words |-> output, heap_start |-> HeapStart,
                      entry |-> pass2[j].program_counter]
  /\ phase' = "done"
  /\ UNCHANGED << pass0, next, program_counter, in_data_section, data_pass0,
                  pass1, labels, pass2, errors, output, entry >>

(* Mutated form: a second _start goes unnoticed.                           *)
RejectKbtWithoutStart ==
  /\ phase = "kbt"
  /\ next > Len(pass2)
  /\ StartLines = {}
  /\ errors' = errors + 1
  /\ outcome' = Rejected
  /\ phase' = "done"
  /\ UNCHANGED << pass0, next, program_counter, in_data_section, data_pass0,
                  pass1, labels, pass2, output, entry >>

RejectKbt ==
  /\ phase = "kbt"
  /\ next > Len(pass2)
  /\ ~\E j \in StartLines : StartLines = {j}
  /\ errors' = errors + 1
  /\ outcome' = Rejected
  /\ phase' = "done"
  /\ UNCHANGED << pass0, next, program_counter, in_data_section, data_pass0,
                  pass1, labels, pass2, output, entry >>

(* Mutated form: the first _start wins.                                    *)
NoteFirstStart ==
  /\ phase = "flat"
  /\ next <= Len(pass2)
  /\ pass2[next].line_type = "Start"
  /\ entry' = IF entry = NoEntry THEN pass2[next].program_counter ELSE entry
  /\ next' = next + 1
  /\ UNCHANGED << pass0, phase, program_counter, in_data_section, data_pass0,
                  pass1, labels, pass2, errors, output, outcome >>

(* build_flat_code's loop: the last _start wins, every other line's words  *)
(* go to the line's address, growing the image with zeros when needed.     *)
NoteStart ==
  /\ phase = "flat"
  /\ next <= Len(pass2)
  /\ pass2[next].line_type = "Start"
  /\ entry' = pass2[next].program_counter
  /\ next' = next + 1
  /\ UNCHANGED << pass0, phase, program_counter, in_data_section, data_pass0,
                  pass1, labels, pass2, errors, output, outcome >>

WriteAt(image, offset, words) ==
  LET end == offset + Len(words)
  IN  [p \in 1..(IF end > Len(image) THEN end ELSE Len(image)) |->
         IF p \in (offset + 1)..end THEN words[p - offset]
         ELSE IF p <= Len(image) THEN image[p] ELSE Padding]

PlaceOpcode ==
  /\ phase = "flat"
  /\ next <= Len(pass2)
  /\ pass2[next].line_type # "Start"
  /\ output' = IF pass2[next].opcode = << >>
               THEN output
               ELSE WriteAt(output, (pass2[next].program_counter - HeaderBytes) \div 4,
                            pass2[next].opcode)
  /\ next' = next + 1
  /\ UNCHANGED << pass0, phase, program_counter, in_data_section, data_pass0,
                  pass1, labels, pass2, errors, entry, outcome >>

(* build_ddr_image pads the program up to heap_start.                      *)
SealFlat ==
  /\ phase = "flat"
  /\ next > Len(pass2)
  /\ entry # NoEntry
  /\ outcome' = [kind |-> "flat",
                 words |-> IF Len(output) % 2 = 0 THEN output
                           ELSE Append(output, Padding),
                 heap_start |-> HeapStart,
                 entry |-> entry]
  /\ phase' = "done"
  /\ UNCHANGED << pass0, next, program_counter, in_data_section, data_pass0,
                  pass1, labels, pass2, errors, output, entry >>

RejectFlat ==
  /\ phase = "flat"
  /\ next > Len(pass2)
  /\ entry = NoEntry
  /\ errors' = errors + 1
  /\ outcome' = Rejected
  /\ phase' = "done"
  /\ UNCHANGED << pass0, next, program_counter, in_data_section, data_pass0,
                  pass1, labels, pass2, output, entry >>

-----------------------------------------------------------------------------
Pass1Step == DeferComm \/ DeferToDataSection \/ KeepLine \/ EndOfSource
               \/ PlaceDeferred \/ EndOfDeferred

Pass2Step == CollectLabels \/ EmitLine \/ EndOfPass2

OutputStep == RejectErrors \/ ChooseImage \/ PushOpcode \/ SealKbt \/ RejectKbt
                \/ NoteStart \/ PlaceOpcode \/ SealFlat \/ RejectFlat

Next == Pass1Step \/ Pass2Step \/ OutputStep

Spec == Init /\ [][Next]_vars

(* The assembler is one thread that runs to completion.                    *)
FairSpec == Spec /\ WF_vars(Next)
-----------------------------------------------------------------------------
(* Properties.                                                             *)

(* Every variable holds what its Rust counterpart may hold.                *)
TypeOK ==
  /\ pass0 \in Seq(Line)
  /\ phase \in Phases
  /\ next \in Nat \ {0}
  /\ program_counter \in Nat /\ program_counter >= HeaderBytes
  /\ in_data_section \in BOOLEAN
  /\ data_pass0 \in Seq(DeferredLine)
  /\ pass1 \in Seq(Pass1Line)
  /\ labels \subseteq DOMAIN pass1
  /\ pass2 \in Seq(Pass2Line)
  /\ errors \in Nat
  /\ output \in Seq(Word)
  /\ entry \in Nat
  /\ outcome \in {Pending, Rejected} \cup Image

(* The word at position p of an image sits at this board address.          *)
AddressOf(p) == HeaderBytes + 4 * (p - 1)

(* The words of line q are in the image, each at its assigned address.     *)
SitsAtItsAddress(q, image) ==
  /\ q.program_counter + 4 * Len(q.opcode) <= HeaderBytes + 4 * Len(image)
  /\ \A k \in 1..Len(q.opcode), p \in 1..Len(image) :
       AddressOf(p) = q.program_counter + 4 * (k - 1) => image[p] = q.opcode[k]

(* Words the running output loop has already written.                      *)
Written ==
  CASE phase \in {"kbt", "flat"} -> 1..(next - 1)
    [] phase = "done" /\ outcome \in Image -> DOMAIN pass2
    [] OTHER -> {}

(* The concatenated .kbt, and the flat image, hold every emitted word at   *)
(* the address pass 1 gave its line - although create_bin_string never     *)
(* looks at an address and pass 2 recomputes every size on its own.        *)
ImagePlacement == \A j \in Written : SitsAtItsAddress(pass2[j], output)

(* An accepted program's references all carry the address of EVERY         *)
(* definition of the name, though look-ups stop at the first one.  Names   *)
(* are taken as the code takes them: without regard to case, and a second  *)
(* definition at the same address is none.  The manual promises more, see  *)
(* OneLabelRuleHolds.                                                      *)
ReferencesAgree ==
  outcome \in Image =>
    \A i \in DOMAIN pass2, j \in labels :
      \A k \in 2..Len(pass2[i].opcode) :
        LET operands == pass2[i].line.operands
        IN  (/\ pass2[i].line_type = "Opcode"
             /\ k - 1 \in DOMAIN operands
             /\ operands[k - 1].kind = "name"
             /\ SameName(operands[k - 1].name, pass1[j].line.name))
            => pass2[i].opcode[k].address = pass1[j].program_counter

(* The heap starts at the first 8-byte boundary above what pass 1 laid     *)
(* out, and not on top of it: create_bin_string and build_ddr_image derive *)
(* it from the words they emitted, not from program_counter.               *)
HeapAboveProgram ==
  outcome \in Image =>
    /\ outcome.heap_start % 8 = 0
    /\ outcome.heap_start >= program_counter
    /\ outcome.heap_start < program_counter + 8

(* Source line s stands in a data section.                                 *)
InDataSection(s) ==
  \E d \in 1..(s - 1) :
    /\ pass0[d].kind = ".data"
    /\ \A t \in (d + 1)..(s - 1) : pass0[t].kind # ".text"

Occupies(s) ==
  \/ WordCount(UpgradeSetr(pass0[s])) > 0
  \/ pass0[s].kind = "comm"

(* Line t is the first to occupy memory after s, in the same section.      *)
NextItem(s, t) ==
  /\ s < t
  /\ Occupies(t)
  /\ \A u \in (s + 1)..(t - 1) : ~Occupies(u)
  /\ \A u \in (s + 1)..t : pass0[u].kind \notin {".text", ".data"}
  /\ pass0[t].kind # "comm"

LaidOut == phase \in Phases \ {"pass1", "deferred"}

(* Moving data to the end never separates a label from the data it names,  *)
(* nor a label or _start from the instruction it marks: both get the same  *)
(* address.  In a data section this holds for data only (an instruction    *)
(* there stays in place while its label moves).                            *)
LabelOwnsNextItem ==
  LaidOut =>
    \A s, t \in DOMAIN pass0 :
      (/\ NextItem(s, t)
       /\ \/ pass0[s].kind = "label"
          \/ pass0[s].kind = "start" /\ LineType(pass0[t]) = "Opcode"
       /\ InDataSection(s) /\ pass0[s].kind = "label" => pass0[t].kind = "data")
      => \A i, j \in DOMAIN pass1 :
           (pass1[i].line_counter = s /\ pass1[j].line_counter = t)
             => pass1[i].program_counter = pass1[j].program_counter

ItemsOf(s) == {j \in DOMAIN pass1 : pass1[j].line_counter = s}

(* Deferral loses no line, doubles none, and moves a line only backwards   *)
(* past lines that were not deferred.                                      *)
LinesSurviveDeferral ==
  LaidOut =>
    /\ \A s \in DOMAIN pass0 :
         Cardinality(ItemsOf(s)) =
           IF pass0[s].kind = "comm" THEN Len(CommItems(pass0[s])) ELSE 1
    /\ \A i, j \in DOMAIN pass1 :
         (i < j /\ pass1[i].line_counter > pass1[j].line_counter)
           => LET late == pass0[pass1[j].line_counter].kind
                  early == pass0[pass1[i].line_counter].kind
              IN  /\ late \in {"comm", "label", "data"}
                  /\ late # "comm" => InDataSection(pass1[j].line_counter)
                  /\ early # "comm"
                  /\ early \in {"label", "data"} =>
                       ~InDataSection(pass1[i].line_counter)

(* Every source leads to an image or a rejection, whatever its mistakes.   *)
EveryRunEnds == <>(phase = "done" /\ outcome # Pending)

-----------------------------------------------------------------------------
(* Claims of doc/klauss_isa_reference.md that the code does not keep.      *)

(* "Label names are case-sensitive" (line 204): a reference that is given  *)
(* an address is spelled like a definition.                                *)
LabelNamesAreCaseSensitive ==
  outcome \in Image =>
    \A i \in DOMAIN pass2 : \A k \in 2..Len(pass2[i].opcode) :
      LET operands == pass2[i].line.operands
      IN  (/\ pass2[i].line_type = "Opcode"
           /\ k - 1 \in DOMAIN operands
           /\ operands[k - 1].kind = "name"
           /\ pass2[i].opcode[k].address # 0)
          => \E j \in labels : pass1[j].line.name = operands[k - 1].name

(* "Duplicate label names produce an error" (line 207): the labels of an   *)
(* accepted program differ, even those that would have the same address.   *)
DuplicateLabelsAreErrors ==
  outcome \in Image =>
    \A i, j \in {l \in labels : pass1[l].line.kind = "label"} :
      pass1[i].line.name = pass1[j].line.name => i = j

(* "Label names are case-sensitive" or "Duplicate label names produce an   *)
(* error" (doc/klauss_isa_reference.md:204, 207): an accepted program keeps*)
(* one of the two rules at least.  Weaker than either, so that a program   *)
(* which violates it breaks both.                                          *)
OneLabelRuleHolds == LabelNamesAreCaseSensitive \/ DuplicateLabelsAreErrors

(* "Everything after `//` is ignored": no line of an accepted program is   *)
(* dropped because of how its comment is written.                          *)
CommentsAreIgnored ==
  outcome \in Image => \A i \in DOMAIN pass2 : pass2[i].line_type # "Error"
================================================================================
