----------------------------- MODULE SourceContract ----------------------------
(***************************************************************************)
(* What becomes of the lines that were read, said of the lines and the     *)
(* table alone: the text that is left without comments, the expansion of a *)
(* macro call from the top down.  None of it has a flag or a pass.         *)
(***************************************************************************)
EXTENDS IncludeContract

-----------------------------------------------------------------------------
(* The lines of one file from the first to the one before another file     *)
(* begins, as a text with the ends of its lines.                           *)
BeginsFile(i) == i = 1 \/ lines[i - 1].file_name # lines[i].file_name

Stretches ==
  { stretch \in [first : DOMAIN lines, last : DOMAIN lines] :
      /\ stretch.first <= stretch.last
      /\ \A i \in stretch.first..stretch.last : BeginsFile(i) <=> i = stretch.first
      /\ stretch.last < Len(lines) => BeginsFile(stretch.last + 1) }

TextOf(data, first, last) ==
  FlattenSeq([i \in 1..(last - first + 1) |-> Append(data[first + i - 1].text, "newline")])

(* The reference for comments: from "/*" to the next "*/" after it, only   *)
(* the ends of lines are kept.  open says that there is no such "*/".  The *)
(* manual promises more, see CommentsNest.                                 *)
OpensAt(text, i) == i + 1 <= Len(text) /\ text[i] = "/" /\ text[i + 1] = "*"
ClosedAt(text, i) == i + 1 <= Len(text) /\ text[i] = "*" /\ text[i + 1] = "/"
Closings(text, i) == { j \in (i + 2)..Len(text) : ClosedAt(text, j) }
Ends(text, i, j) ==
  FlattenSeq([k \in 1..(j - i + 1) |->
    IF text[i + k - 1] = "newline" THEN << "newline" >> ELSE << >>])

(* What there is of a text from each of its positions on.                  *)
Uncommented(text) ==
  LET from[i \in 1..(Len(text) + 1)] ==
        IF i > Len(text) THEN [kept |-> << >>, open |-> FALSE]
        ELSE IF ~OpensAt(text, i)
        THEN [from[i + 1] EXCEPT !.kept = << text[i] >> \o @]
        ELSE IF Closings(text, i) = {}
        THEN [kept |-> Ends(text, i, Len(text)), open |-> TRUE]
        ELSE LET j == CHOOSE j \in Closings(text, i) : \A k \in Closings(text, i) : j <= k
             IN  [from[j + 2] EXCEPT !.kept = Ends(text, i, j) \o @]
  IN  from

(* Comments that touch: "/*/" is taken for a whole comment, and a "*" right*)
(* after "*/" opens one.                                                   *)
Touching(text) ==
  \E i \in 2..(Len(text) - 1) :
    \/ text[i] = "*" /\ text[i - 1] = "/" /\ text[i + 1] = "/"
    \/ text[i] = "/" /\ text[i - 1] = "*" /\ text[i + 1] = "*"

(***************************************************************************)
(* CommentsRemoved: of every stretch of lines of one file there remains    *)
(* what stands outside comments, on the lines it stood on and with their   *)
(* numbers, however the comments spread over lines; a comment that is open *)
(* where another file begins is an Error and hides nothing of that file.   *)
(* Provided no two delimiters touch.  A comment ends at the first "*/", as *)
(* in the code; that the manual says otherwise is a finding (CommentsNest).*)
(***************************************************************************)
CommentsRemoved ==
  LET Before(s) == TextOf(lines, s.first, s.last)
      After(s) == TextOf(new_lines, s.first, s.last)
      plain == { s \in Stretches : ~Touching(Before(s)) }
  IN  phase \in {"macros", "done"} =>
        /\ DOMAIN new_lines = DOMAIN lines
        /\ \A i \in DOMAIN lines : new_lines[i] = [lines[i] EXCEPT !.text = new_lines[i].text]
        /\ \A s \in plain : After(s) = Uncommented(Before(s))[1].kept
        /\ plain = Stretches =>
             ("comment" \in errors <=>
                \E s \in plain : s.last < Len(lines) /\ Uncommented(Before(s))[1].open)

(* How many comments are open in front of a character when every "/*"      *)
(* opens another one, and what stands outside all of them.                 *)
NestedLevel(text) ==
  LET level[i \in 1..(Len(text) + 1)] ==
        IF i = 1 THEN 0
        ELSE level[i - 1] + (IF OpensAt(text, i - 1) THEN 1 ELSE 0)
               - (IF i > 2 /\ ClosedAt(text, i - 2) /\ level[i - 1] > 0 THEN 1 ELSE 0)
  IN  level

OutsideNested(text) ==
  LET Kept(i) == text[i] = "newline" \/ (NestedLevel(text)[i] = 0 /\ ~OpensAt(text, i))
  IN  FlattenSeq([i \in DOMAIN text |-> IF Kept(i) THEN << text[i] >> ELSE << >>])

(***************************************************************************)
(* CommentsNest: "Block comments can be nested" (klauss_isa_reference.md,  *)
(* line 235): of a text in which every comment is closed, those within     *)
(* comments too, only what stands outside the outermost ones is left.      *)
(***************************************************************************)
CommentsNest ==
  phase \in {"macros", "done"} => \A s \in Stretches :
    LET text == TextOf(lines, s.first, s.last)
    IN  ~Touching(text) /\ NestedLevel(text)[Len(text) + 1] = 0
          => TextOf(new_lines, s.first, s.last) = OutsideNested(text)

-----------------------------------------------------------------------------
(* A table without duplicates gives each of its macros a list of items.    *)
MacroLines == { i \in DOMAIN table : table[i].opcode = "" }
TableNames == { table[i].words[1] : i \in MacroLines }
TableItems(name) ==
  ItemsOf(Tail(table[CHOOSE i \in MacroLines : table[i].words[1] = name].words))

CallsMacro(words) == words # << >> /\ words[1] \in TableNames
CallsOf(name) == { words \in ToSet(TableItems(name)) : CallsMacro(words) }

(* No macro calls itself through others: each can be given a height above  *)
(* those of the macros it calls.                                           *)
Heights ==
  { height \in [TableNames -> 0..(Cardinality(TableNames) - 1)] :
      \A name \in TableNames : \A call \in CallsOf(name) : height[call[1]] < height[name] }
Acyclic == Heights # {}

(* They nest no deeper than the passes can follow, which double the depth  *)
(* they resolve; the last pass only finds nothing left to do.              *)
Shallow ==
  MaxPasses > 0 /\ \E height \in Heights : \A name \in TableNames : height[name] < 2^(MaxPasses - 1)

(* A word for which the call has no argument keeps its place, so that the  *)
(* words after it keep theirs.                                             *)
Substituted(item, call) ==
  [i \in DOMAIN item |-> IF Argument(item[i], call) = << >> THEN item[i] ELSE Argument(item[i], call)[1]]

(* The reference for macros reads the table as it stands and expands a call*)
(* from the top down: its own words first, then the macros its items call. *)
(* Without circles there are no more calls within one another than macros. *)
(* fits says that every placeholder on the way had its word.               *)
TopDown ==
  LET deep[depth \in 0..Cardinality(TableNames)] ==
        [call \in Seq(Token) |->
          IF depth = 0 \/ ~CallsMacro(call) THEN [fits |-> TRUE, texts |-> << call >>]
          ELSE LET items == TableItems(call[1])
                   inner == [k \in DOMAIN items |-> deep[depth - 1][Substituted(items[k], call)]]
               IN  [fits |-> ErrorsIn(items, call) = {} /\ \A k \in DOMAIN inner : inner[k].fits,
                    texts |-> FlattenSeq([k \in DOMAIN inner |-> inner[k].texts])]]
  IN  deep[Cardinality(TableNames)]

ProgramCalls == { new_lines[i].text : i \in { j \in DOMAIN new_lines : IsCall(new_lines[j].text) } }
TableCalls == UNION { CallsOf(name) : name \in TableNames }

(* A call hands no macro to another: which macro an item calls is then     *)
(* known from the table.                                                   *)
HandsNoMacro(call) == \A i \in 2..Len(call) : call[i] \notin MacroName

(***************************************************************************)
(* MacrosFullyExpanded: for an opcode file without duplicate names, one    *)
(* that leaves no Error has every call of the program replaced by its whole*)
(* expansion, macros called by macros included, on the lines it stood on;  *)
(* macros that call themselves through others never pass without an Error; *)
(* and a program gets no Error if every macro it calls is defined, every   *)
(* call has the words its expansion needs, and macros nest no deeper than  *)
(* the passes can follow.  Calls that have macro names as words are left   *)
(* out: the program's are not expanded, and those of the table may end     *)
(* although the macros form a circle.                                      *)
(***************************************************************************)
MacrosFullyExpanded ==
  LET Expanded(text) == IF IsCall(text) THEN TopDown[text].texts ELSE << text >>
      expected == FlattenSeq([i \in DOMAIN new_lines |->
        LET texts == Expanded(new_lines[i].text)
        IN  [k \in DOMAIN texts |-> [new_lines[i] EXCEPT !.text = texts[k]]]])
  IN  (/\ phase = "done"
       /\ errors \cap TableErrors = {}
       /\ \A call \in ProgramCalls \cup TableCalls : HandsNoMacro(call))
      => /\ errors \cap MacroErrors = {} => Acyclic /\ pass0 = expected
         /\ (/\ Shallow
             /\ \A call \in TableCalls : TopDown[call].fits
             /\ \A call \in ProgramCalls : CallsMacro(call) /\ TopDown[call].fits)
            => errors \cap MacroErrors = {}
================================================================================
