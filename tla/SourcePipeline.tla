---------------------------- MODULE SourcePipeline -----------------------------
(***************************************************************************)
(* From the opcode file and the source files to the lines the assembler    *)
(* works on, in the order of main(): the table, the macros within macros,  *)
(* the source with its includes, its block comments, its macro calls.  One *)
(* thread does it all; a table without lines and a source that cannot be   *)
(* opened end it at once, any other Error only counts in the end.          *)
(***************************************************************************)
EXTENDS Macros

CONSTANT Inputs   \* the opcode files with source files considered, a sequence of sets

ASSUME InputsAssumption ==
  \A i \in DOMAIN Inputs : \A input \in Inputs[i] :
    /\ input.table \in Seq(TableLine)
    /\ DOMAIN input.files \subseteq FileName
    /\ \A f \in DOMAIN input.files : input.files[f] \in Seq(Line)

vars == << phase, errors, programVars, macroVars >>

Init ==
  /\ \E i \in DOMAIN Inputs : \E input \in Inputs[i] : table = input.table /\ files = input.files
  /\ phase = "table"
  /\ errors = {}
  /\ ReaderInit
  /\ MacrosInit

Table == EmptyTable \/ ReadOpcode \/ ReadMacro \/ TableRead
Embedding == EmbedMacros \/ EmbeddingEnds
Source == Reading /\ UNCHANGED macroVars
Comments == (RemoveComments \/ EndComments) /\ UNCHANGED macroVars
Expanding == ExpandLine \/ ExpansionEnds

Next == Table \/ Embedding \/ Source \/ Comments \/ Expanding

Spec == Init /\ [][Next]_vars /\ WF_vars(Next)

TypeOK ==
  /\ phase \in {"table", "embedded", "reading", "comments", "macros", "done", "failed", "panicked"}
  /\ errors \subseteq ReadErrors \cup TableErrors \cup MacroErrors \cup {"comment"}
  /\ ReaderTypeOK
  /\ MacroTypeOK

(***************************************************************************)
(* NeverPanics: "Unwrap is safe here due to prior check with is_some()"    *)
(* (macros.rs:81, of the loop that puts the items of an embedded macro     *)
(* together): whatever the opcode file says, klausscc ends with messages.  *)
(***************************************************************************)
NeverPanics == phase # "panicked"

(***************************************************************************)
(* SourceEnds: every opcode file and source, those whose macros or includes*)
(* go round in circles and those with lines that are no text too, are dealt*)
(* with in the end.  One kind is excepted: reading a directory, given as   *)
(* the source or included by it, fails line after line without an end.  It *)
(* says that the passes come to an end, not how long the items grow.       *)
(***************************************************************************)
ReadsDirectory == phase = "reading" /\ stack # << >> /\ ~AtEnd /\ NextLine.fails = "always"

SourceEnds == <>(phase \in {"done", "failed", "panicked"} \/ ReadsDirectory)
================================================================================
