------------------------------ MODULE SourceReader -----------------------------
(***************************************************************************)
(* How a source becomes a list of lines: read_file_to_vector of files.rs,  *)
(* which calls itself for !include, and remove_block_comments.             *)
(*                                                                         *)
(* A line is a sequence of tokens.  "/" and "*" are characters of their    *)
(* own; every other token is a word, a stretch of text without them.       *)
(* Reading a line may fail: once for a line that is not UTF-8, always for  *)
(* a directory, which can be opened like a file.                           *)
(***************************************************************************)
EXTENDS Integers, Sequences, FiniteSets, SequencesExt

CONSTANTS
  Word,        \* what lines consist of, besides "/" and "*"
  FileName,    \* the files a source may name
  MainFile     \* the one given on the command line

ASSUME SourceReaderAssumption ==
  /\ IsFiniteSet(FileName)
  /\ MainFile \in FileName
  /\ "" \notin FileName
  /\ Word \cap {"/", "*", "newline"} = {}

VARIABLES
  files,         \* the files there are: a function from names to lines
  phase,         \* what is being done
  stack,         \* the calls of read_file_to_vector in progress
  opened_files,  \* the names it keeps to find recursive includes
  errors,        \* the kinds of Error pushed so far
  lines,         \* the lines it returned in the end
  next_line,     \* the next of them for the loop that goes over them
  in_comment,    \* state of remove_block_comments
  new_lines      \* what it has produced

readerVars == << files, stack, opened_files, lines >>
commentVars == << in_comment, new_lines >>

Token == Word \cup {"/", "*"}
Line == [include : BOOLEAN, name : FileName \cup {""}, text : Seq(Token),
         fails : {"no", "once", "always"}]
InputData == [text : Seq(Token), file_name : FileName, line_counter : Nat]
Frame == [name : FileName, line_number : Nat, lines : Seq(InputData)]

Opened(name) == [name |-> name, line_number |-> 0, lines |-> << >>]

ReaderInit ==
  /\ stack = << >>
  /\ opened_files = << >>
  /\ lines = << >>
  /\ next_line = 1
  /\ in_comment = FALSE
  /\ new_lines = << >>

-----------------------------------------------------------------------------
(* Mutated form: a file may be included while it is being read.            *)
Exists(name) == name \in DOMAIN files

(* The file is opened first, then looked up among the open ones.           *)
CanOpen(name) == name \in DOMAIN files /\ name \notin ToSet(opened_files)

WhyNot(name) == IF name \in DOMAIN files THEN "recursive" ELSE "no file"

Top == Last(stack)
NextLine == files[Top.name][Top.line_number + 1]
AtEnd == Top.line_number = Len(files[Top.name])
Advanced == [Top EXCEPT !.line_number = @ + 1]

(* The number of a line: only those that could be read are counted.        *)
Counted(name, n) == Cardinality({ i \in 1..n : files[name][i].fails = "no" })

(* The call at the top of the stack returns Some(result).                  *)
ReturnSome(frames, result) ==
  IF Len(frames) = 1
  THEN stack' = << >> /\ lines' = result /\ phase' = "comments"
  ELSE LET callers == Front(frames)
       IN  /\ stack' = Append(Front(callers), [Last(callers) EXCEPT !.lines = @ \o result])
           /\ UNCHANGED << lines, phase >>

(* It returns None: main() gives up, an including file returns what it has.*)
ReturnNone(frames) ==
  IF Len(frames) = 1
  THEN stack' = << >> /\ lines' = lines /\ phase' = "failed"
  ELSE ReturnSome(Front(frames), Last(Front(frames)).lines)

OpenMain ==
  /\ phase = "reading"
  /\ stack = << >>
  /\ IF MainFile \in DOMAIN files
     THEN /\ stack' = << Opened(MainFile) >>
          /\ opened_files' = << MainFile >>
          /\ UNCHANGED << phase, errors >>
     ELSE /\ phase' = "failed"
          /\ errors' = errors \cup {"no file"}
          /\ UNCHANGED << stack, opened_files >>
  /\ UNCHANGED << files, lines, next_line, commentVars >>

ReadText ==
  /\ phase = "reading"
  /\ stack # << >>
  /\ ~AtEnd
  /\ NextLine.fails = "no"
  /\ ~NextLine.include
  /\ stack' = Append(Front(stack), [Advanced EXCEPT !.lines = Append(@,
       [text |-> NextLine.text, file_name |-> Top.name,
        line_counter |-> Counted(Top.name, Top.line_number + 1)])])
  /\ UNCHANGED << files, phase, opened_files, errors, lines, next_line, commentVars >>

(* An Error, and the loop goes on: after the line that is no text, or with *)
(* the same failure for ever.                                              *)
LineFails ==
  /\ phase = "reading"
  /\ stack # << >>
  /\ ~AtEnd
  /\ NextLine.fails # "no"
  /\ stack' = IF NextLine.fails = "once" THEN Append(Front(stack), Advanced) ELSE stack
  /\ errors' = errors \cup {"line"}
  /\ UNCHANGED << files, phase, opened_files, lines, next_line, commentVars >>

ReadInclude ==
  /\ phase = "reading"
  /\ stack # << >>
  /\ ~AtEnd
  /\ NextLine.fails = "no"
  /\ NextLine.include
  /\ NextLine.name # ""
  /\ CanOpen(NextLine.name)
  /\ stack' = Front(stack) \o << Advanced, Opened(NextLine.name) >>
  /\ opened_files' = Append(opened_files, NextLine.name)
  /\ UNCHANGED << files, phase, errors, lines, next_line, commentVars >>

(* The included file's None ends this file too; its own name stays among   *)
(* the opened ones.                                                        *)
IncludeFails ==
  /\ phase = "reading"
  /\ stack # << >>
  /\ ~AtEnd
  /\ NextLine.fails = "no"
  /\ NextLine.include
  /\ NextLine.name # ""
  /\ ~CanOpen(NextLine.name)
  /\ errors' = errors \cup {WhyNot(NextLine.name), "include"}
  /\ ReturnSome(stack, Top.lines)
  /\ UNCHANGED << files, opened_files, next_line, commentVars >>

IncludeWithoutName ==
  /\ phase = "reading"
  /\ stack # << >>
  /\ ~AtEnd
  /\ NextLine.fails = "no"
  /\ NextLine.include
  /\ NextLine.name = ""
  /\ errors' = errors \cup {"no name"} \cup IF Len(stack) > 1 THEN {"include"} ELSE {}
  /\ ReturnNone(stack)
  /\ UNCHANGED << files, opened_files, next_line, commentVars >>

(* Mutated form: the name of a file that has been read is kept.            *)
NamesKept == opened_files

NamesAfterFile == Front(opened_files)

EndOfFile ==
  /\ phase = "reading"
  /\ stack # << >>
  /\ AtEnd
  /\ opened_files' = NamesAfterFile
  /\ ReturnSome(stack, Top.lines)
  /\ UNCHANGED << files, errors, next_line, commentVars >>

Reading ==
  \/ OpenMain \/ ReadText \/ LineFails \/ ReadInclude \/ IncludeFails
  \/ IncludeWithoutName \/ EndOfFile

-----------------------------------------------------------------------------
(* One character.  in_char remembers a "/" outside and a "*" inside a      *)
(* comment, and is left as it is when a comment begins or ends.            *)
AfterSlash(state) ==
  [state EXCEPT !.in_comment = TRUE, !.out = IF @ = << >> THEN @ ELSE Front(@)]

(* Mutated form: the "/" that opened the comment stays in the line.        *)
SlashKept(state) == [state EXCEPT !.in_comment = TRUE]

Comment(state) == AfterSlash(state)

Scanned(state, token) ==
  IF state.in_comment
  THEN IF token = "/" /\ state.in_char THEN [state EXCEPT !.in_comment = FALSE]
       ELSE [state EXCEPT !.in_char = (token = "*")]
  ELSE IF token = "*" /\ state.in_char THEN Comment(state)
  ELSE [state EXCEPT !.in_char = (token = "/"), !.out = Append(@, token)]

ScannedLine(text, inside) ==
  LET scan[i \in 0..Len(text)] ==
        IF i = 0 THEN [in_comment |-> inside, in_char |-> FALSE, out |-> << >>]
                 ELSE Scanned(scan[i - 1], text[i])
  IN  scan[Len(text)]

(* A comment does not reach from one file into another; one that is open   *)
(* when the last line has been read is not reported.                       *)
RemoveComments ==
  /\ phase = "comments"
  /\ next_line <= Len(lines)
  /\ LET line == lines[next_line]
         other_file == next_line = 1 \/ lines[next_line - 1].file_name # line.file_name
         scanned == ScannedLine(line.text, in_comment /\ ~other_file)
     IN  /\ errors' = errors \cup IF other_file /\ in_comment THEN {"comment"} ELSE {}
         /\ in_comment' = scanned.in_comment
         /\ new_lines' = Append(new_lines, [line EXCEPT !.text = scanned.out])
  /\ next_line' = next_line + 1
  /\ UNCHANGED << files, phase, stack, opened_files, lines >>

EndComments ==
  /\ phase = "comments"
  /\ next_line > Len(lines)
  /\ phase' = "macros"
  /\ next_line' = 1
  /\ UNCHANGED << files, stack, opened_files, errors, lines, commentVars >>

(* The kinds of Error reading may leave.                                   *)
ReadErrors == {"no file", "recursive", "no name", "include", "line"}

ReaderTypeOK ==
  /\ DOMAIN files \subseteq FileName
  /\ \A f \in DOMAIN files : files[f] \in Seq(Line)
  /\ stack \in Seq(Frame)
  /\ Len(stack) <= Cardinality(FileName)
  /\ opened_files \in Seq(FileName)
  /\ lines \in Seq(InputData)
  /\ next_line \in 1..(Len(lines) + 1)
  /\ in_comment \in BOOLEAN
  /\ new_lines \in Seq(InputData)
================================================================================
