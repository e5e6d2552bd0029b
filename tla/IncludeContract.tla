----------------------------- MODULE IncludeContract ----------------------------
(***************************************************************************)
(* What reading a source with its includes promises, said of the files     *)
(* alone: the lines that a tree of includes stands for, without a stack or *)
(* a list of open files.                                                   *)
(***************************************************************************)
EXTENDS SourcePipeline

(* What one line of a file stands for, when inner says it of the files that*)
(* may be included there.  ok says that it can be read and that there is   *)
(* such a file.                                                            *)
Piece(inner, fs, name, i) ==
  LET line == fs[name][i] IN
  IF line.fails # "no" THEN [ok |-> FALSE, lines |-> << >>]
  ELSE IF ~line.include
  THEN [ok |-> TRUE,
        lines |-> << [text |-> line.text, file_name |-> name, line_counter |-> i] >>]
  ELSE IF line.name \in DOMAIN inner THEN inner[line.name]
  ELSE [ok |-> FALSE, lines |-> << >>]

Whole(inner, fs, name) ==
  LET pieces == [i \in 1..Len(fs[name]) |-> Piece(inner, fs, name, i)]
  IN  [ok |-> \A i \in DOMAIN pieces : pieces[i].ok,
       lines |-> FlattenSeq([i \in DOMAIN pieces |-> pieces[i].lines])]

(* The files that may be included below some others are all but these:     *)
(* Inclusion(fs)[above][name] is what such a file stands for there.        *)
Inclusion(fs) ==
  LET inclusion[above \in SUBSET DOMAIN fs] ==
        [name \in DOMAIN fs \ above |-> Whole(inclusion[above \cup {name}], fs, name)]
  IN  inclusion

MainInclusion ==
  IF MainFile \in DOMAIN files THEN Inclusion(files)[{}][MainFile]
  ELSE [ok |-> FALSE, lines |-> << >>]

(***************************************************************************)
(* IncludesInPlace: a source whose includes are all right is read without  *)
(* an Error, also when a file is included twice, and gives exactly the     *)
(* lines of its files, each in the place of its include and with its own   *)
(* file name and number; any include that is not, and any line that cannot *)
(* be read, leaves an Error, so no line is ever lost in silence.           *)
(***************************************************************************)
IncludesInPlace ==
  (phase \in {"comments", "macros", "done"} \/ (phase = "failed" /\ "no table" \notin errors)) =>
    /\ errors \cap ReadErrors = {} <=> MainInclusion.ok
    /\ MainInclusion.ok => lines = MainInclusion.lines
================================================================================
