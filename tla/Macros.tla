--------------------------------- MODULE Macros ---------------------------------
(***************************************************************************)
(* The opcode table and the macros it defines: parse_vh_file of opcodes.rs *)
(* reads the table, expand_embedded_macros of macros.rs rewrites the items *)
(* of macros that call macros, and expand_macros replaces the macro calls  *)
(* of a program.  An item, or a line that calls a macro, is a sequence of  *)
(* words.  Warnings are left out.                                          *)
(***************************************************************************)
EXTENDS SourceReader

CONSTANTS
  MacroName,    \* the words that start with "$"
  Placeholder,  \* the words with a "%" in them
  NumberOf,     \* the number after the "%", 0 when it is not a valid one
  OpcodeName,   \* what an opcode line may define
  MaxPasses     \* how often the macros are gone through at most (10)

ASSUME MacrosAssumption ==
  /\ MacroName \cap Placeholder = {}
  /\ MacroName \cup Placeholder \subseteq Word
  /\ NumberOf \in [Placeholder -> Nat]
  /\ MaxPasses \in Nat
  /\ "" \notin OpcodeName

VARIABLES
  table,      \* the lines of the opcode file, an opcode or a macro each
  opcodes,    \* the names of the opcodes read
  macros,     \* the macros read, in time with their items rewritten
  pass,       \* how often they have been gone through
  changed,    \* whether anything was rewritten the last time
  pass0       \* the lines of the program with the macro calls replaced

programVars == << files, stack, opened_files, lines, next_line, commentVars >>
macroVars == << table, opcodes, macros, pass, changed, pass0 >>

(* A line of the table: the opcode it defines, or the words of a macro,    *)
(* its name first.                                                         *)
TableLine ==
  { line \in [opcode : OpcodeName \cup {""}, words : Seq(Token)] :
      line.opcode = "" => line.words # << >> /\ line.words[1] \in MacroName }

Item == Seq(Token \ {"/"})
Macro == [name : MacroName, items : Seq(Item)]

MacrosInit ==
  /\ opcodes = << >>
  /\ macros = << >>
  /\ pass = 0
  /\ changed = TRUE
  /\ pass0 = << >>

-----------------------------------------------------------------------------
(* macro_from_string: after the name, "/" ends an item; an item that is    *)
(* still empty when the line ends is dropped, one before a "/" is kept.    *)
ItemsOf(words) ==
  LET read[i \in 0..Len(words)] ==
        IF i = 0 THEN [done |-> << >>, item |-> << >>]
        ELSE IF words[i] = "/"
        THEN [done |-> Append(read[i - 1].done, read[i - 1].item), item |-> << >>]
        ELSE [read[i - 1] EXCEPT !.item = Append(@, words[i])]
      last == read[Len(words)]
  IN  IF last.item = << >> THEN last.done ELSE Append(last.done, last.item)

macro_from_string(words) == [name |-> Head(words), items |-> ItemsOf(Tail(words))]

Named(list, name) == { i \in DOMAIN list : list[i].name = name }
Defined(list, words) == words # << >> /\ Named(list, words[1]) # {}

(* The first definition of a name is the one that counts for another macro.*)
return_macro(list, words) ==
  LET found == Named(list, words[1]) IN list[CHOOSE i \in found : \A j \in found : i <= j]

(* An item with the words of its call in the places of its placeholders;   *)
(* a placeholder without a valid number, or without a word for it, is left *)
(* out after an Error.                                                     *)
Argument(word, call) ==
  IF word \notin Placeholder THEN << word >>
  ELSE IF NumberOf[word] \in 1..(Len(call) - 1) THEN << call[NumberOf[word] + 1] >>
  ELSE << >>

(* Mutated form: the first word of a call, its name, is argument 1.        *)
NameCounted(item, call) ==
  FlattenSeq([i \in DOMAIN item |-> Argument(item[i], << call[1] >> \o call)])

Replaced(item, call) == FlattenSeq([i \in DOMAIN item |-> Argument(item[i], call)])

ArgumentErrors(item, call) ==
  { IF NumberOf[item[i]] = 0 THEN "invalid argument" ELSE "missing argument" :
      i \in { j \in DOMAIN item : Argument(item[j], call) = << >> } }

(* What all of these items, called so, leave as Errors.                    *)
ErrorsIn(items, call) == UNION { ArgumentErrors(items[i], call) : i \in DOMAIN items }

-----------------------------------------------------------------------------
(* main() gives up when the opcode file is missing or has no line at all;  *)
(* with lines of which none defines anything it goes on.                   *)
EmptyTable ==
  /\ phase = "table"
  /\ table = << >>
  /\ phase' = "failed"
  /\ errors' = errors \cup {"no table"}
  /\ UNCHANGED << programVars, macroVars >>

LinesRead == Len(opcodes) + Len(macros)

(* A second definition is an Error and is kept all the same.               *)
ReadOpcode ==
  /\ phase = "table"
  /\ LinesRead < Len(table)
  /\ LET name == table[LinesRead + 1].opcode IN
     /\ name # ""
     /\ opcodes' = Append(opcodes, name)
     /\ errors' = errors \cup IF name \in ToSet(opcodes) THEN {"duplicate opcode"} ELSE {}
  /\ UNCHANGED << phase, programVars, table, macros, pass, changed, pass0 >>

ReadMacro ==
  /\ phase = "table"
  /\ LinesRead < Len(table)
  /\ table[LinesRead + 1].opcode = ""
  /\ LET words == table[LinesRead + 1].words IN
     /\ macros' = Append(macros, macro_from_string(words))
     /\ errors' = errors \cup IF Defined(macros, words) THEN {"duplicate macro"} ELSE {}
  /\ UNCHANGED << phase, programVars, table, opcodes, pass, changed, pass0 >>

TableRead ==
  /\ phase = "table"
  /\ LinesRead = Len(table)
  /\ phase' = "embedded"
  /\ UNCHANGED << errors, programVars, macroVars >>

-----------------------------------------------------------------------------
(* One pass: every item that calls a macro is replaced by the items of that*)
(* macro as they were when the pass began.                                 *)
Called(call) == return_macro(macros, call).items

Embedded(item) ==
  IF Defined(macros, item)
  THEN LET items == Called(item) IN [k \in DOMAIN items |-> Replaced(items[k], item)]
  ELSE << item >>

Calls == { call \in UNION { ToSet(macros[i].items) : i \in DOMAIN macros } : Defined(macros, call) }

(* strip_prefix(' ') of an item of which nothing is left gives None, and   *)
(* its unwrap() panics.                                                    *)
Unwrapped(call) ==
  \E item \in ToSet(Called(call)) : item # << >> /\ Replaced(item, call) = << >>

(* Mutated form: only passes that make the macros longer are counted.      *)
LongerCounted == IF \E call \in Calls : Len(Called(call)) > 1 THEN pass + 1 ELSE pass

NextPass == pass + 1

EmbedMacros ==
  /\ phase = "embedded"
  /\ pass < MaxPasses
  /\ changed
  /\ errors' = errors \cup UNION { ErrorsIn(Called(call), call) : call \in Calls }
  /\ changed' = (Calls # {})
  /\ IF \E call \in Calls : Unwrapped(call)
     THEN /\ phase' = "panicked"
          /\ UNCHANGED << macros, pass >>
     ELSE /\ macros' = [i \in DOMAIN macros |-> [macros[i] EXCEPT
               !.items = FlattenSeq([k \in DOMAIN @ |-> Embedded(@[k])])]]
          /\ pass' = NextPass
          /\ UNCHANGED phase
  /\ UNCHANGED << programVars, table, opcodes, pass0 >>

(* The program is read next.                                               *)
EmbeddingEnds ==
  /\ phase = "embedded"
  /\ pass = MaxPasses \/ ~changed
  /\ errors' = errors \cup IF changed THEN {"too many passes"} ELSE {}
  /\ phase' = "reading"
  /\ UNCHANGED << programVars, macroVars >>

-----------------------------------------------------------------------------
(* return_macro_items_replace: all definitions of the name are expanded.   *)
(* The comment put behind every line of an expansion is left out.          *)
IsCall(text) == text # << >> /\ text[1] \in MacroName

Definitions(name) ==
  FlattenSeq([i \in DOMAIN macros |-> IF macros[i].name = name THEN macros[i].items ELSE << >>])

Expansion(call) ==
  LET items == Definitions(call[1]) IN [k \in DOMAIN items |-> Replaced(items[k], call)]

ExpandLine ==
  /\ phase = "macros"
  /\ next_line <= Len(new_lines)
  /\ LET line == new_lines[next_line]
         call == line.text
         texts == IF IsCall(call) /\ Defined(macros, call) THEN Expansion(call) ELSE << call >>
     IN  /\ pass0' = pass0 \o [k \in DOMAIN texts |-> [line EXCEPT !.text = texts[k]]]
         /\ errors' = errors \cup
              IF ~IsCall(call) THEN {}
              ELSE IF Defined(macros, call) THEN ErrorsIn(Definitions(call[1]), call)
              ELSE {"macro not found"}
  /\ next_line' = next_line + 1
  /\ UNCHANGED << phase, files, stack, opened_files, lines, commentVars,
                  table, opcodes, macros, pass, changed >>

ExpansionEnds ==
  /\ phase = "macros"
  /\ next_line > Len(new_lines)
  /\ phase' = "done"
  /\ UNCHANGED << errors, programVars, macroVars >>

(* The kinds of Error the table, and macros, may leave.                    *)
TableErrors == {"no table", "duplicate opcode", "duplicate macro"}
MacroErrors == {"too many passes", "invalid argument", "missing argument", "macro not found"}

MacroTypeOK ==
  /\ table \in Seq(TableLine)
  /\ opcodes \in Seq(OpcodeName)
  /\ macros \in Seq(Macro)
  /\ Len(opcodes) + Len(macros) <= Len(table)
  /\ pass \in 0..MaxPasses
  /\ changed \in BOOLEAN
  /\ pass0 \in Seq(InputData)
================================================================================
