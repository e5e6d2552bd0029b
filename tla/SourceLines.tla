------------------------------ MODULE SourceLines ------------------------------
(***************************************************************************)
(* The lines of a klausscc assembly source after include, comment and      *)
(* macro processing (pass 0), and the rules both passes apply to a line:   *)
(* its class (line_type), the number of 32-bit words it occupies, the      *)
(* SETR -> SETR64 rewrite and the look-up of a name.                       *)
(*                                                                         *)
(* A line is abstracted to what these rules tell apart.  Text, hex digits  *)
(* and register numbers are left out; a literal is either in the range the *)
(* code accepts for one word or "wide".                                    *)
(***************************************************************************)
EXTENDS Integers, Sequences

CONSTANTS
  Names,      \* label names (without colon) and data names (with #) as spelled
  Upper,      \* Upper[name] is the upper-case spelling compared by look-ups
  Mnemonics,  \* first words that are neither a label, data nor a directive
  Variables   \* the opcode table: the number of variables of each opcode

ASSUME SpellingAssumption == Upper \in [Names -> Names]

ASSUME OpcodeTableAssumption ==
  /\ DOMAIN Variables \subseteq Mnemonics
  /\ \A op \in DOMAIN Variables : Variables[op] \in Nat
  /\ {"SETR", "SETR64"} \subseteq Mnemonics

-----------------------------------------------------------------------------
(* A literal operand is wide when it is outside i32::MIN..0xFFFFFFFF.      *)
Operand == [kind : {"literal"}, wide : BOOLEAN]
             \cup [kind : {"name"}, name : Names]

(* Registers are folded into one bit: the right number of valid ones.      *)
InstructionLine == [kind : {"instruction"}, op : Mnemonics,
                    registers_ok : BOOLEAN, operands : Seq(Operand)]

LabelLine == [kind : {"label"}, name : Names]

(* `#NAME ...` when named, `.word` / `.space` otherwise; "valid" says that *)
(* data_as_bytes understands it and "words" how many words it then gives.  *)
DataLine == [kind : {"data"}, named : BOOLEAN, name : Names,
             valid : BOOLEAN, words : Nat]

(* `.comm` / `.lcomm NAME SIZE`; incomplete when NAME or SIZE is missing.  *)
CommLine == [kind : {"comm"}, complete : BOOLEAN, name : Names, size : Nat]

(* `.text`; `.data`, `.rodata` or `.bss`; `_start`; blank, comment or      *)
(* .global; and a line such as `NOP//comment` or `loop://comment`, whose   *)
(* first word runs into its comment.                                       *)
BareLine == [kind : {".text", ".data", "start", "comment", "glued"}]

Line == InstructionLine \cup LabelLine \cup DataLine \cup CommLine \cup BareLine

LineTypes == {"Label", "Data", "Opcode", "Start", "Comment", "Error"}

LineType(line) ==
  CASE line.kind = "label" -> "Label"
    [] line.kind = "data"  -> "Data"
    [] line.kind = "start" -> "Start"
    [] line.kind = "instruction" ->
         IF line.op \in DOMAIN Variables THEN "Opcode" ELSE "Error"
    [] line.kind = "glued" -> "Error"
    [] OTHER -> "Comment"

(* upgrade_setr_to_setr64: only the first operand is looked at.            *)
UpgradeSetr(line) ==
  IF /\ line.kind = "instruction"
     /\ line.op = "SETR"
     /\ line.operands # << >>
     /\ line.operands[1].kind = "literal"
     /\ line.operands[1].wide
  THEN [line EXCEPT !.op = "SETR64"]
  ELSE line

(* Mutated form: a size of -1 for data that cannot be parsed.              *)
DataWordsOrMinusOne(line) == IF line.valid THEN line.words ELSE -1

(* Data that data_as_bytes rejects counts, and emits, nothing.             *)
DataWords(line) == IF line.valid THEN line.words ELSE 0

(* The words pass 1 reserves for a line.                                   *)
WordCount(line) ==
  CASE LineType(line) = "Opcode" -> Variables[line.op] + 1
    [] LineType(line) = "Data"   -> DataWords(line)
    [] OTHER                     -> 0

(* The items a .comm directive leaves in the data section: its label and,  *)
(* when SIZE > 0, a .space rounded up to 64-bit words.                     *)
CommItems(line) ==
  IF ~line.complete
  THEN << >>
  ELSE << [kind |-> "label", name |-> line.name] >>
         \o IF line.size = 0
            THEN << >>
            ELSE << [kind |-> "data", named |-> FALSE, name |-> line.name,
                     valid |-> TRUE, words |-> 2 * ((line.size + 7) \div 8)] >>

(* Lines that get_labels turns into a label.                               *)
DefinesName(line) ==
  \/ line.kind = "label"
  \/ line.kind = "data" /\ line.named

SameName(a, b) == Upper[a] = Upper[b]
================================================================================
