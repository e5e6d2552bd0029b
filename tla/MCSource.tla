-------------------------------- MODULE MCSource --------------------------------
(* Small opcode files and sources: trees of includes, comments spread over *)
(* lines and files, and tables of three macros that call one another.      *)
EXTENDS SourceContract

MCFileName == {"main", "a", "b"}
MCMacroName == {"$A", "$B", "$C"}
MCPlaceholder == {"%1", "%2", "%x"}
MCNumberOf == [p \in MCPlaceholder |-> CASE p = "%1" -> 1 [] p = "%2" -> 2 [] p = "%x" -> 0]
MCWord == MCMacroName \cup MCPlaceholder \cup {"x", "y"}
MCOpcodeName == {"NOP"}

Text(text) == [include |-> FALSE, name |-> "", text |-> text, fails |-> "no"]
Include(name) == [include |-> TRUE, name |-> name, text |-> << >>, fails |-> "no"]
Garbled == [Text(<< >>) EXCEPT !.fails = "once"]
Directory == << [Text(<< >>) EXCEPT !.fails = "always"] >>
Opcode(name) == [opcode |-> name, words |-> << >>]
Defining(words) == [opcode |-> "", words |-> words]

(* All sequences of at most n members of S.                                *)
UpTo(S, n) == UNION { [1..k -> S] : k \in 0..n }

Simple == << Opcode("NOP") >>

(* Includes: files that are missing, include one another or are included   *)
(* twice.                                                                  *)
X == Text(<< "x" >>)
Contents(S, n) == { << body >> : body \in UpTo(S, n) } \cup { << >> }
FilesOf(main, a, b) ==
  [ name \in ({"main"} \cap {n \in MCFileName : main # << >>})
          \cup ({"a"} \cap {n \in MCFileName : a # << >>})
          \cup ({"b"} \cap {n \in MCFileName : b # << >>})
    |-> CASE name = "main" -> main[1] [] name = "a" -> a[1] [] name = "b" -> b[1] ]

IncludeTrees ==
  { [table |-> Simple, files |-> FilesOf(main, a, b)] :
      main \in Contents({X, Include("a"), Include("b"), Include("")}, 2),
      a \in Contents({X, Include("b"), Include("main"), Include("")}, 2),
      b \in Contents({X, Include("a"), Include("b")}, 1) }

(* Lines that are no text, in the source and in what it includes, and a    *)
(* directory in the place of either.                                       *)
UnreadableTrees ==
  { [table |-> Simple, files |-> FilesOf(main, a, << << X >> >>)] :
      main \in { << Directory >> } \cup Contents({X, Garbled, Include("a")}, 3),
      a \in { << Directory >> } \cup Contents({X, Garbled, Include("b")}, 2) }

(* Comments: in one line, over two or three, and over two files.           *)
Chars == {"/", "*", "x"}
Lines(texts) == [i \in DOMAIN texts |-> Text(texts[i])]
OneFile(texts) == [table |-> Simple, files |-> ("main" :> Lines(texts))]

InOneLine == { OneFile(<< t >>) : t \in UpTo(Chars, 5) }
InTwoLines == { OneFile(<< t, u >>) : t \in UpTo(Chars, 3), u \in UpTo(Chars, 3) }
InThreeLines ==
  { OneFile(<< t, u, v >>) : t \in UpTo(Chars, 2), u \in UpTo(Chars, 2), v \in UpTo(Chars, 2) }
InTwoFiles ==
  { [table |-> Simple,
     files |-> ("main" :> << Text(t), Include("a"), Text(v) >> @@ "a" :> << Text(u) >>)] :
      t \in UpTo(Chars, 2), u \in UpTo(Chars, 2), v \in UpTo(Chars, 2) }

(* The manual's own example: a comment within a comment.                   *)
CommentInComment ==
  { OneFile(<< << "/", "*", "x", "/", "*", "y", "*", "/", "x", "*", "/" >> >>) }

(* Macros: $A calls $B, which calls $C, with more and fewer words than they*)
(* need; in both orders, called from the program with none to two words.   *)
Joined(items) == FoldLeft(LAMBDA words, item : words \o << "/" >> \o item, items[1], Tail(items))
Body(items) == IF items = << >> THEN << >> ELSE Joined(items)

DefinitionsOfA == UpTo({<< "$B", "x" >>, << "$C", "%2", "%1" >>, << "x", "%1" >>}, 2)
DefinitionsOfB == UpTo({<< "y", "%1" >>, << "$C", "%1" >>, << "x", "%x" >>}, 2)
DefinitionsOfC == {<< << "x" >> >>, << << "y", "%1" >>, << "x", "%2" >> >>, << << "%2" >> >>}

Table3(a, b, c) == << Defining(<< "$A" >> \o Body(a)), Defining(<< "$B" >> \o Body(b)),
                     Defining(<< "$C" >> \o Body(c)) >>
Programs == { << << "$A" >> >>, << << "$A", "x" >> >>,
              << << "$A", "x", "y" >>, << "y" >> >>, << << "$B", "y" >>, << "$C", "x", "y" >> >> }

MacroTables(Order(_)) ==
  { [table |-> Order(Table3(a, b, c)), files |-> ("main" :> Lines(p))] :
      a \in DefinitionsOfA, b \in DefinitionsOfB, c \in DefinitionsOfC, p \in Programs }

(* Macros in circles, defined twice, called though undefined, given macro  *)
(* names as words, with empty items; opcodes defined twice; an opcode file *)
(* without a line.                                                         *)
OddTables ==
  { << >>,
    << Opcode("NOP"), Opcode("NOP"), Defining(<< "$A", "x", "/", "/", "y" >>) >>,
    << Defining(<< "$A", "$A" >>) >>,
    << Defining(<< "$A", "x", "/", "$A" >>) >>,
    << Defining(<< "$A", "$B", "%1" >>), Defining(<< "$B", "$A", "%1" >>) >>,
    << Defining(<< "$A", "$B" >>), Defining(<< "$B", "$C" >>), Defining(<< "$C", "y", "/", "$B" >>) >>,
    << Defining(<< "$A", "x" >>), Defining(<< "$B", "$A" >>), Defining(<< "$A", "y" >>) >>,
    << Defining(<< "$C", "$A", "$A" >>), Defining(<< "$A", "$B", "%1" >>), Defining(<< "$B", "%1", "x" >>) >>,
    << Defining(<< "$A", "$C", "x" >>) >> }

OddInputs ==
  { [table |-> t, files |-> ("main" :> Lines(p))] :
      t \in OddTables, p \in Programs \cup { << << "$A", "/", "*", "x", "*", "/", "y" >> >> } }

AsWritten(t) == t
MCInputs ==
  << IncludeTrees, UnreadableTrees, InOneLine, InTwoLines, InThreeLines, InTwoFiles, CommentInComment,
     MacroTables(AsWritten), MacroTables(Reverse), OddInputs >>
================================================================================
