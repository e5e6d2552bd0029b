--------------------------- MODULE Assembler_proofs ---------------------------
(***************************************************************************)
(* Proofs about the assembler, for every opcode table, every set of names  *)
(* and every set of sources.                                               *)
(***************************************************************************)
EXTENDS Assembler, SequenceTheorems, SumTheorems

-----------------------------------------------------------------------------
(* Lines: what the rules both passes apply return.                         *)

(* The kind of a line tells which set of lines it belongs to.              *)
LEMMA KindOfLine ==
  ASSUME NEW line \in Line
  PROVE  /\ line.kind = "instruction" => line \in InstructionLine
         /\ line.kind = "data" => line \in DataLine
         /\ line.kind = "comm" => line \in CommLine
         /\ line.kind = "label" => line \in LabelLine
BY DEF Line, InstructionLine, DataLine, CommLine, LabelLine, BareLine

LEMMA LineTypeType ==
  ASSUME NEW line \in Line
  PROVE  /\ LineType(line) \in LineTypes
         /\ LineType(line) = "Opcode" =>
              line \in InstructionLine /\ line.op \in DOMAIN Variables
         /\ LineType(line) = "Data" => line \in DataLine
BY KindOfLine DEF LineType, LineTypes

LEMMA UpgradeSetrType ==
  ASSUME NEW line \in Line
  PROVE  UpgradeSetr(line) \in Line
<1>1. CASE UpgradeSetr(line) = line
  BY <1>1
<1>2. CASE UpgradeSetr(line) # line
  <2>1. line \in InstructionLine /\ UpgradeSetr(line) = [line EXCEPT !.op = "SETR64"]
    BY <1>2, KindOfLine DEF UpgradeSetr
  <2>2. [line EXCEPT !.op = "SETR64"] \in InstructionLine
    BY <2>1, OpcodeTableAssumption DEF InstructionLine
  <2>3. QED
    BY <2>1, <2>2 DEF Line
<1>3. QED
  BY <1>1, <1>2

LEMMA WordCountType ==
  ASSUME NEW line \in Line
  PROVE  /\ WordCount(line) \in Nat
         /\ LineType(line) = "Data" => DataWords(line) \in Nat
<1>1. LineType(line) = "Data" => DataWords(line) \in Nat
  BY LineTypeType DEF DataWords, DataLine
<1>2. LineType(line) = "Opcode" => Variables[line.op] + 1 \in Nat
  BY LineTypeType, OpcodeTableAssumption
<1>3. QED
  BY <1>1, <1>2 DEF WordCount

(* .comm leaves at most its label and its space, both proper lines.        *)
LEMMA CommItemsType ==
  ASSUME NEW line \in Line, line.kind = "comm"
  PROVE  /\ CommItems(line) \in Seq(Line)
         /\ \A i \in 1..Len(CommItems(line)) : CommItems(line)[i] \in Line
<1> DEFINE label == [kind |-> "label", name |-> line.name]
           space == [kind |-> "data", named |-> FALSE, name |-> line.name,
                     valid |-> TRUE, words |-> 2 * ((line.size + 7) \div 8)]
<1>1. line \in CommLine /\ line.name \in Names /\ line.size \in Nat
  BY KindOfLine DEF CommLine
<1>2. (line.size + 7) \div 8 \in Nat
  <2>1. \A n \in Nat : n \div 8 \in Nat
    OBVIOUS
  <2>2. QED
    BY <1>1, <2>1
<1>3. label \in Line
  BY <1>1 DEF Line, LabelLine
<1>4. space \in Line
  BY <1>1, <1>2 DEF Line, DataLine
<1>5. << label >> \in Seq(Line) /\ << space >> \in Seq(Line) /\ << >> \in Seq(Line)
  BY <1>3, <1>4
<1>6. CommItems(line) \in Seq(Line)
  BY <1>5 DEF CommItems
<1>7. QED
  BY <1>6, ElementOfSeq

-----------------------------------------------------------------------------
(* Names: the look-up finds a definition, and finds the first one.         *)

LEMMA FirstDefinition ==
  ASSUME NEW lines \in Seq(Pass1Line), NEW found \in SUBSET DOMAIN lines, NEW name,
         Matches(lines, found, name) # {}
  PROVE  \E j \in Matches(lines, found, name) :
           ReturnLabelValue(lines, found, name) = lines[j].program_counter
<1>1. Matches(lines, found, name) \subseteq Nat
  BY DEF Matches
<1>2. PICK j \in Matches(lines, found, name) :
             \A k \in Matches(lines, found, name) : j <= k
  BY <1>1, LeastOf
<1>3. QED
  BY <1>2 DEF ReturnLabelValue

LEMMA LookUpType ==
  ASSUME NEW lines \in Seq(Pass1Line), NEW found \in SUBSET DOMAIN lines, NEW name,
         Matches(lines, found, name) # {}
  PROVE  ReturnLabelValue(lines, found, name) \in Nat
<1>1. PICK j \in Matches(lines, found, name) :
             ReturnLabelValue(lines, found, name) = lines[j].program_counter
  BY FirstDefinition
<1>2. j \in DOMAIN lines
  BY DEF Matches
<1>3. lines[j] \in Pass1Line
  BY <1>2, ElementOfSeq
<1>4. QED
  BY <1>1, <1>3 DEF Pass1Line

(* Spelling does not matter to a look-up.                                  *)
LEMMA LookUpOfSameName ==
  ASSUME NEW lines, NEW found, NEW a, NEW b, SameName(a, b)
  PROVE  /\ Matches(lines, found, a) = Matches(lines, found, b)
         /\ ReturnLabelValue(lines, found, a) = ReturnLabelValue(lines, found, b)
<1>1. Matches(lines, found, a) = Matches(lines, found, b)
  BY DEF Matches, SameName
<1>2. QED
  BY <1>1 DEF ReturnLabelValue

LEMMA DuplicatesAreCounted ==
  ASSUME NEW lines \in Seq(Pass1Line), NEW found \in SUBSET DOMAIN lines
  PROVE  /\ Cardinality(Duplicates(lines, found)) \in Nat
         /\ Cardinality(Duplicates(lines, found)) = 0 => Duplicates(lines, found) = {}
<1>1. IsFiniteSet(1..Len(lines))
  BY FS_Interval
<1>2. Duplicates(lines, found) \subseteq 1..Len(lines)
  BY DEF Duplicates
<1>3. IsFiniteSet(Duplicates(lines, found))
  BY <1>1, <1>2, FS_Subset
<1>4. QED
  BY <1>3, FS_CardinalityType, FS_EmptySet

-----------------------------------------------------------------------------
(* The strengthening.  Pass 1 leaves no gap and no overlap: each line      *)
(* starts where the one before it ends, by the sizes pass 1 expects; pass 2 *)
(* copies the addresses and, unless it reports an error, emits exactly     *)
(* those sizes; the image has always grown to the end of the last line     *)
(* written.                                                                *)

LineEnd(lines, j) ==
  IF j = 0 THEN HeaderBytes
  ELSE lines[j].program_counter + 4 * WordCount(lines[j].line)

Classified == \A j \in DOMAIN pass1 : pass1[j].line_type = LineType(pass1[j].line)

Contiguous ==
  /\ \A j \in DOMAIN pass1 : pass1[j].program_counter = LineEnd(pass1, j - 1)
  /\ program_counter = LineEnd(pass1, Len(pass1))

AfterLabels == phase \in {"pass2", "output", "kbt", "flat", "done"}
AfterPass2  == phase \in {"output", "kbt", "flat", "done"}

NamesChecked ==
  AfterLabels =>
    /\ labels = Definitions(pass1)
    /\ errors = 0 => Duplicates(pass1, labels) = {}

Progress ==
  /\ phase \in {"pass1", "deferred", "labels"} => pass2 = << >>
  /\ phase = "pass2" => Len(pass2) = next - 1 /\ next <= Len(pass1) + 1
  /\ AfterPass2 => Len(pass2) = Len(pass1)
  /\ phase \notin {"kbt", "flat", "done"} => output = << >>
  /\ phase # "done" => outcome = Pending
  /\ phase = "output" => next = 1
  /\ phase \in {"kbt", "flat"} => errors = 0 /\ next <= Len(pass2) + 1

(* A line's words after pass 2, and that no error means the expected size. *)
Emitted(j) ==
  /\ pass2[j].line = pass1[j].line
  /\ pass2[j].program_counter = pass1[j].program_counter
  /\ pass2[j].line_type = Pass2Type(pass1[j])
  /\ pass2[j].opcode = EmittedWords(pass1[j])
  /\ errors = 0 => Len(pass2[j].opcode) = WordCount(pass1[j].line)

EmissionFollowsLayout == \A j \in DOMAIN pass2 : Emitted(j)

OutputReachesLineEnd ==
  /\ phase \in {"kbt", "flat"} => HeaderBytes + 4 * Len(output) = LineEnd(pass1, next - 1)
  /\ outcome \in Image =>
       errors = 0 /\ HeaderBytes + 4 * Len(output) = LineEnd(pass1, Len(pass2))

IInv ==
  /\ TypeOK
  /\ Classified
  /\ Contiguous
  /\ NamesChecked
  /\ Progress
  /\ EmissionFollowsLayout
  /\ OutputReachesLineEnd
  /\ ImagePlacement
  /\ outcome \in Image => outcome.heap_start = HeapStart

-----------------------------------------------------------------------------
(* Words: types and lengths of what pass 2 emits for a line.               *)

LEMMA TabulatedSeq ==
  ASSUME NEW S, NEW n \in Nat, NEW f \in [1..n -> S]
  PROVE  f \in Seq(S) /\ Len(f) = n
<1>1. f \in Seq(S)
  BY SeqDef
<1>2. DOMAIN f = 1..Len(f) /\ Len(f) \in Nat
  BY <1>1, LenProperties
<1>3. DOMAIN f = 1..n
  OBVIOUS
<1>4. QED
  BY <1>1, <1>2, <1>3

LEMMA OwnWordType ==
  ASSUME NEW n \in Nat, NEW k \in Nat
  PROVE  OwnWord(n, k) \in Word
BY DEF OwnWord, Word

LEMMA ConvertArgumentType ==
  ASSUME TypeOK, NEW operand, NEW n \in Nat, NEW k \in Nat
  PROVE  ConvertArgument(operand, n, k) \in Word
<1>1. CASE operand.kind = "name" /\ Matches(pass1, labels, operand.name) # {}
  <2>1. ReturnLabelValue(pass1, labels, operand.name) \in Nat
    BY <1>1, LookUpType DEF TypeOK
  <2>2. QED
    BY <1>1, <2>1 DEF ConvertArgument, Word
<1>2. CASE ~(operand.kind = "name" /\ Matches(pass1, labels, operand.name) # {})
  BY <1>2 DEF ConvertArgument, Word
<1>3. QED
  BY <1>1, <1>2

LEMMA ArgumentCountType ==
  ASSUME NEW line \in InstructionLine, line.op \in DOMAIN Variables
  PROVE  ArgumentCount(line) \in Nat
<1>1. Variables[line.op] \in Nat
  BY OpcodeTableAssumption
<1>2. Len(line.operands) \in Nat
  BY DEF InstructionLine
<1>3. QED
  BY <1>1, <1>2 DEF ArgumentCount

LEMMA AddArgumentsType ==
  ASSUME TypeOK, NEW n \in Nat,
         NEW line \in InstructionLine, line.op \in DOMAIN Variables
  PROVE  /\ AddArguments(line, n) \in Seq(Word)
         /\ Len(AddArguments(line, n)) = ArgumentCount(line)
<1>1. ArgumentCount(line) \in Nat
  BY ArgumentCountType
<1>2. ASSUME NEW k \in 1..ArgumentCount(line)
      PROVE  (IF k \in DOMAIN line.operands
              THEN ConvertArgument(line.operands[k], n, k)
              ELSE OwnWord(n, k)) \in Word
  <2>1. k \in Nat
    BY <1>1
  <2>2. QED
    BY <2>1, ConvertArgumentType, OwnWordType
<1>3. AddArguments(line, n) \in [1..ArgumentCount(line) -> Word]
  BY <1>2 DEF AddArguments
<1>4. QED
  BY <1>1, <1>3, TabulatedSeq

LEMMA InstructionWordsType ==
  ASSUME TypeOK, NEW n \in Nat,
         NEW line \in InstructionLine, line.op \in DOMAIN Variables
  PROVE  /\ InstructionWords(line, n) \in Seq(Word)
         /\ Len(InstructionWords(line, n)) = ArgumentCount(line) + 1
         /\ \A k \in 1..ArgumentCount(line) :
              InstructionWords(line, n)[k + 1] = AddArguments(line, n)[k]
<1> DEFINE first == << OwnWord(n, 0) >>
           rest  == AddArguments(line, n)
<1>1. first \in Seq(Word) /\ Len(first) = 1
  BY OwnWordType
<1>2. rest \in Seq(Word) /\ Len(rest) = ArgumentCount(line)
  BY AddArgumentsType
<1>3. ArgumentCount(line) \in Nat
  BY ArgumentCountType
<1>4. /\ first \o rest \in Seq(Word)
      /\ Len(first \o rest) = Len(first) + Len(rest)
      /\ \A i \in 1..Len(first) + Len(rest) :
           (first \o rest)[i] = IF i <= Len(first) THEN first[i] ELSE rest[i - Len(first)]
  <2> HIDE DEF first, rest
  <2>1. QED
    BY <1>1, <1>2, ConcatProperties
<1>5. QED
  <2> HIDE DEF first, rest
  <2>1. InstructionWords(line, n) = first \o rest
    BY DEF InstructionWords, first, rest
  <2>2. ASSUME NEW k \in 1..ArgumentCount(line)
        PROVE  (first \o rest)[k + 1] = rest[k]
    <3>1. k + 1 \in 1..Len(first) + Len(rest) /\ ~(k + 1 <= Len(first))
      BY <1>1, <1>2, <1>3
    <3>2. k + 1 - Len(first) = k
      BY <1>1, <1>3
    <3>3. QED
      BY <1>4, <3>1, <3>2
  <2>3. QED
    BY <1>1, <1>2, <1>3, <1>4, <2>1, <2>2 DEF rest

(* What pass 2 emits has the size pass 1 reserved, or pass 2 reports an    *)
(* error for the line.                                                     *)
LEMMA EmittedWordsType ==
  ASSUME TypeOK, NEW p \in Pass1Line, p.line_type = LineType(p.line)
  PROVE  /\ EmittedWords(p) \in Seq(Word)
         /\ InstructionErrors(p) \in Nat
         /\ InstructionErrors(p) = 0 => Len(EmittedWords(p)) = WordCount(p.line)
<1>1. p.line \in Line /\ p.line_counter \in Nat
  BY DEF Pass1Line
<1>2. CASE p.line_type = "Opcode"
  <2>1. p.line \in InstructionLine /\ p.line.op \in DOMAIN Variables
    BY <1>1, <1>2, LineTypeType
  <2>2. EmittedWords(p) = InstructionWords(p.line, p.line_counter)
    BY <1>2 DEF EmittedWords
  <2>3. InstructionErrors(p) = (IF p.line.registers_ok THEN 0 ELSE 1)
          + (IF ArgumentCount(p.line) = Variables[p.line.op] THEN 0 ELSE 1)
    BY <1>2 DEF InstructionErrors
  <2>4. WordCount(p.line) = Variables[p.line.op] + 1
    BY <1>2 DEF WordCount
  <2>5. QED
    BY <1>1, <2>1, <2>2, <2>3, <2>4, InstructionWordsType
<1>3. CASE p.line_type = "Data"
  <2>1. DataWords(p.line) \in Nat
    BY <1>1, <1>3, WordCountType
  <2>2. EmittedWords(p) = [k \in 1..DataWords(p.line) |-> OwnWord(p.line_counter, k)]
    BY <1>3 DEF EmittedWords
  <2>3. EmittedWords(p) \in [1..DataWords(p.line) -> Word]
    BY <1>1, <2>1, <2>2, OwnWordType
  <2>4. WordCount(p.line) = DataWords(p.line) /\ InstructionErrors(p) = 0
    BY <1>3 DEF WordCount, InstructionErrors
  <2>5. QED
    BY <2>1, <2>3, <2>4, TabulatedSeq
<1>4. CASE p.line_type \notin {"Opcode", "Data"}
  <2>1. EmittedWords(p) = << >> /\ InstructionErrors(p) = 0 /\ WordCount(p.line) = 0
    BY <1>4 DEF EmittedWords, InstructionErrors, WordCount
  <2>2. QED
    BY <2>1
<1>5. QED
  BY <1>2, <1>3, <1>4

-----------------------------------------------------------------------------
(* The initial state.                                                      *)

LEMMA NothingIsAnImageYet == Pending \notin Image /\ Rejected \notin Image
BY DEF Pending, Rejected, Image

LEMMA InitEstablishesIInv == Init => IInv
<1> SUFFICES ASSUME Init PROVE IInv
  OBVIOUS
<1> USE DEF Init, HeaderBytes, HEAP_HEADER_WORDS
<1>1. TypeOK
  <2>1. pass0 \in Seq(Line)
    BY ProgramsAssumption
  <2>2. /\ data_pass0 \in Seq(DeferredLine) /\ pass1 \in Seq(Pass1Line)
        /\ pass2 \in Seq(Pass2Line) /\ output \in Seq(Word)
    OBVIOUS
  <2>3. phase \in Phases /\ next \in Nat \ {0} /\ labels \subseteq DOMAIN pass1
    BY DEF Phases
  <2>4. in_data_section \in BOOLEAN
    BY Zenon
  <2>5. program_counter \in Nat /\ program_counter >= HeaderBytes /\ entry \in Nat
        /\ errors \in Nat
    BY DEF NoEntry
  <2>6. QED
    BY <2>1, <2>2, <2>3, <2>4, <2>5, Zenon DEF TypeOK
<1>2. Classified /\ Contiguous
  BY DEF Classified, Contiguous, LineEnd
<1>3. NamesChecked /\ Progress
  BY DEF NamesChecked, AfterLabels, Progress, AfterPass2
<1>4. EmissionFollowsLayout
  BY DEF EmissionFollowsLayout
<1>5. OutputReachesLineEnd /\ (outcome \in Image => outcome.heap_start = HeapStart)
  BY NothingIsAnImageYet DEF OutputReachesLineEnd
<1>6. ImagePlacement
  BY DEF ImagePlacement, Written
<1>7. QED
  BY <1>1, <1>2, <1>3, <1>4, <1>5, <1>6 DEF IInv

-----------------------------------------------------------------------------
(* Pass 1.                                                                 *)

LEMMA Appended ==
  ASSUME NEW S, NEW seq \in Seq(S), NEW x \in S
  PROVE  /\ Append(seq, x) \in Seq(S)
         /\ Len(Append(seq, x)) = Len(seq) + 1
         /\ DOMAIN Append(seq, x) = 1..(Len(seq) + 1)
         /\ \A j \in 1..Len(seq) : Append(seq, x)[j] = seq[j]
         /\ Append(seq, x)[Len(seq) + 1] = x
OBVIOUS

(* Placing one more line at program_counter keeps pass 1 contiguous.       *)
LEMMA PlacedNext ==
  ASSUME TypeOK, Classified, Contiguous, NEW line \in Line, NEW n \in Nat,
         pass1' = Append(pass1, Placed(line, n)),
         program_counter' = program_counter + 4 * WordCount(line)
  PROVE  /\ pass1' \in Seq(Pass1Line)
         /\ DOMAIN pass1 \subseteq DOMAIN pass1'
         /\ program_counter' \in Nat /\ program_counter' >= HeaderBytes
         /\ Classified'
         /\ Contiguous'
<1> DEFINE p == Placed(line, n)
<1>1. /\ p \in Pass1Line
      /\ p.line = line
      /\ p.line_type = LineType(line)
      /\ p.program_counter = program_counter
  BY LineTypeType DEF Placed, Pass1Line, TypeOK
<1>2. pass1 \in Seq(Pass1Line) /\ Len(pass1) \in Nat /\ DOMAIN pass1 = 1..Len(pass1)
  BY LenProperties DEF TypeOK
<1>3. /\ pass1' \in Seq(Pass1Line)
      /\ Len(pass1') = Len(pass1) + 1
      /\ DOMAIN pass1' = 1..(Len(pass1) + 1)
      /\ \A j \in 1..Len(pass1) : pass1'[j] = pass1[j]
      /\ pass1'[Len(pass1) + 1] = p
  <2> HIDE DEF p
  <2>1. pass1' = Append(pass1, p)
    BY DEF p
  <2>2. QED
    BY <1>1, <1>2, <2>1, Appended
<1>4. WordCount(line) \in Nat
  BY WordCountType
<1>5. program_counter' \in Nat /\ program_counter' >= HeaderBytes
  BY <1>4 DEF TypeOK, HeaderBytes, HEAP_HEADER_WORDS
<1>6. Classified'
  BY <1>1, <1>2, <1>3 DEF Classified
<1>7. \A j \in 0..Len(pass1) : LineEnd(pass1', j) = LineEnd(pass1, j)
  BY <1>3 DEF LineEnd
<1>8. LineEnd(pass1', Len(pass1')) = program_counter'
  <2>1. Len(pass1') # 0 /\ pass1'[Len(pass1')] = p
    BY <1>2, <1>3
  <2>2. QED
    BY <1>1, <2>1 DEF LineEnd
<1>9. \A j \in DOMAIN pass1' : pass1'[j].program_counter = LineEnd(pass1', j - 1)
  <2> SUFFICES ASSUME NEW j \in DOMAIN pass1'
               PROVE  pass1'[j].program_counter = LineEnd(pass1', j - 1)
    OBVIOUS
  <2>0. j \in 1..(Len(pass1) + 1) /\ j - 1 \in 0..Len(pass1)
    BY <1>2, <1>3
  <2>1. CASE j \in 1..Len(pass1)
    BY <1>2, <1>3, <1>7, <2>0, <2>1 DEF Contiguous
  <2>2. CASE j = Len(pass1) + 1
    <3>1. j - 1 = Len(pass1)
      BY <1>2, <2>2
    <3>2. LineEnd(pass1', j - 1) = LineEnd(pass1, Len(pass1))
      BY <1>7, <2>0, <3>1
    <3>3. QED
      BY <1>1, <1>3, <2>2, <3>2 DEF Contiguous
  <2>3. QED
    BY <1>2, <2>0, <2>1, <2>2
<1>10. QED
  BY <1>2, <1>3, <1>5, <1>6, <1>8, <1>9 DEF Contiguous

(* While pass 1 runs, only the layout can be disturbed.                    *)
LEMMA WhilePass1Runs ==
  ASSUME IInv, phase \in {"pass1", "deferred"},
         phase' \in {"pass1", "deferred", "labels"},
         TypeOK', Classified', Contiguous',
         UNCHANGED << pass2, labels, output, outcome >>
  PROVE  IInv'
<1>1. pass2' = << >> /\ output' = << >> /\ outcome' = Pending
  BY DEF IInv, Progress
<1>2. outcome' \notin Image
  BY <1>1, NothingIsAnImageYet
<1>3. NamesChecked' /\ Progress'
  BY <1>1 DEF NamesChecked, AfterLabels, Progress, AfterPass2
<1>4. EmissionFollowsLayout'
  BY <1>1 DEF EmissionFollowsLayout
<1>5. OutputReachesLineEnd' /\ (outcome \in Image => outcome.heap_start = HeapStart)'
  BY <1>2 DEF OutputReachesLineEnd
<1>6. ImagePlacement'
  BY DEF ImagePlacement, Written
<1>7. QED
  BY <1>3, <1>4, <1>5, <1>6 DEF IInv

LEMMA DeferCommKeepsIInv == IInv /\ DeferComm => IInv'
<1> SUFFICES ASSUME IInv, DeferComm PROVE IInv'
  OBVIOUS
<1> DEFINE items == CommItems(pass0[next])
           moved == [i \in 1..Len(items) |-> [line |-> items[i], line_counter |-> next]]
<1>1. TypeOK /\ Classified /\ Contiguous
  BY DEF IInv
<1>2. pass0[next] \in Line
  BY <1>1, ElementOfSeq DEF DeferComm, TypeOK
<1>3. items \in Seq(Line) /\ Len(items) \in Nat /\ \A i \in 1..Len(items) : items[i] \in Line
  BY <1>2, CommItemsType DEF DeferComm
<1>4. moved \in Seq(DeferredLine)
  <2> HIDE DEF items
  <2>1. moved \in [1..Len(items) -> DeferredLine]
    BY <1>1, <1>3 DEF TypeOK, DeferredLine
  <2>2. QED
    BY <1>3, <2>1, TabulatedSeq
<1>5. data_pass0' \in Seq(DeferredLine)
  <2> HIDE DEF moved
  <2>1. data_pass0' = data_pass0 \o moved
    BY DEF DeferComm, moved
  <2>2. QED
    BY <1>1, <1>4, <2>1, ConcatProperties DEF TypeOK
<1>6. TypeOK'
  <2>1. UNCHANGED << pass0, phase, program_counter, in_data_section, pass1, labels,
                     pass2, errors, output, entry, outcome >>
        /\ next' = next + 1
    BY DEF DeferComm
  <2>2. next' \in Nat \ {0}
    BY <1>1, <2>1 DEF TypeOK
  <2>3. QED
    BY <1>1, <1>5, <2>1, <2>2, Zenon DEF TypeOK
<1>7. Classified' /\ Contiguous'
  BY <1>1 DEF DeferComm, Classified, Contiguous
<1>8. QED
  BY <1>6, <1>7, WhilePass1Runs DEF DeferComm

LEMMA DeferToDataSectionKeepsIInv == IInv /\ DeferToDataSection => IInv'
<1> SUFFICES ASSUME IInv, DeferToDataSection PROVE IInv'
  OBVIOUS
<1> DEFINE item == [line |-> pass0[next], line_counter |-> next]
<1>1. TypeOK /\ Classified /\ Contiguous
  BY DEF IInv
<1>2. item \in DeferredLine
  BY <1>1, ElementOfSeq DEF DeferToDataSection, TypeOK, DeferredLine
<1>3. data_pass0' \in Seq(DeferredLine)
  BY <1>1, <1>2, Appended DEF DeferToDataSection, TypeOK
<1>4. TypeOK'
  <2>1. UNCHANGED << pass0, phase, program_counter, in_data_section, pass1, labels,
                     pass2, errors, output, entry, outcome >>
        /\ next' = next + 1
    BY DEF DeferToDataSection
  <2>2. next' \in Nat \ {0}
    BY <1>1, <2>1 DEF TypeOK
  <2>3. QED
    BY <1>1, <1>3, <2>1, <2>2, Zenon DEF TypeOK
<1>5. Classified' /\ Contiguous'
  BY <1>1 DEF DeferToDataSection, Classified, Contiguous
<1>6. QED
  BY <1>4, <1>5, WhilePass1Runs DEF DeferToDataSection

LEMMA KeepLineKeepsIInv == IInv /\ KeepLine => IInv'
<1> SUFFICES ASSUME IInv, KeepLine PROVE IInv'
  OBVIOUS
<1> DEFINE line == UpgradeSetr(pass0[next])
<1>1. TypeOK /\ Classified /\ Contiguous
  BY DEF IInv
<1>2. line \in Line /\ next \in Nat
  BY <1>1, ElementOfSeq, UpgradeSetrType DEF KeepLine, TypeOK
<1>3. /\ pass1' = Append(pass1, Placed(line, next))
      /\ program_counter' = program_counter + 4 * WordCount(line)
      /\ errors' = errors + LineErrors(line) + DataErrors(line)
      /\ next' = next + 1
      /\ UNCHANGED << pass0, phase, data_pass0, labels, pass2, output, entry, outcome >>
  BY DEF KeepLine
<1>4. /\ pass1' \in Seq(Pass1Line)
      /\ DOMAIN pass1 \subseteq DOMAIN pass1'
      /\ program_counter' \in Nat /\ program_counter' >= HeaderBytes
      /\ Classified'
      /\ Contiguous'
  <2> HIDE DEF line
  <2>1. QED
    BY <1>1, <1>2, <1>3, PlacedNext
<1>5. TypeOK'
  <2>1. next' \in Nat \ {0} /\ errors' \in Nat
    BY <1>1, <1>3 DEF TypeOK, LineErrors, DataErrors
  <2>2. in_data_section' \in BOOLEAN
    <3>1. in_data_section' = FALSE \/ in_data_section' = TRUE
            \/ in_data_section' = in_data_section
      BY DEF KeepLine
    <3>2. QED
      BY <1>1, <3>1, Zenon DEF TypeOK
  <2>3. labels' \subseteq DOMAIN pass1'
    BY <1>1, <1>3, <1>4 DEF TypeOK
  <2>4. QED
    BY <1>1, <1>3, <1>4, <2>1, <2>2, <2>3, Zenon DEF TypeOK
<1>6. QED
  BY <1>3, <1>4, <1>5, WhilePass1Runs DEF KeepLine

LEMMA PlaceDeferredKeepsIInv == IInv /\ PlaceDeferred => IInv'
<1> SUFFICES ASSUME IInv, PlaceDeferred PROVE IInv'
  OBVIOUS
<1> DEFINE line == data_pass0[next].line
           n    == data_pass0[next].line_counter
<1>1. TypeOK /\ Classified /\ Contiguous
  BY DEF IInv
<1>2. data_pass0[next] \in DeferredLine
  BY <1>1, ElementOfSeq DEF PlaceDeferred, TypeOK
<1>3. line \in Line /\ n \in Nat
  BY <1>2 DEF DeferredLine
<1>4. /\ pass1' = Append(pass1, Placed(line, n))
      /\ program_counter' = program_counter + 4 * WordCount(line)
      /\ errors' = errors + DataErrors(line)
      /\ next' = next + 1
      /\ UNCHANGED << pass0, phase, in_data_section, data_pass0, labels, pass2,
                      output, entry, outcome >>
  BY DEF PlaceDeferred
<1>5. /\ pass1' \in Seq(Pass1Line)
      /\ DOMAIN pass1 \subseteq DOMAIN pass1'
      /\ program_counter' \in Nat /\ program_counter' >= HeaderBytes
      /\ Classified'
      /\ Contiguous'
  <2> HIDE DEF line, n
  <2>1. QED
    BY <1>1, <1>3, <1>4, PlacedNext
<1>6. TypeOK'
  <2>1. next' \in Nat \ {0} /\ errors' \in Nat
    BY <1>1, <1>4 DEF TypeOK, DataErrors
  <2>2. labels' \subseteq DOMAIN pass1'
    BY <1>1, <1>4, <1>5 DEF TypeOK
  <2>3. QED
    BY <1>1, <1>4, <1>5, <2>1, <2>2, Zenon DEF TypeOK
<1>7. QED
  BY <1>4, <1>5, <1>6, WhilePass1Runs DEF PlaceDeferred

LEMMA EndOfLoopKeepsIInv == IInv /\ (EndOfSource \/ EndOfDeferred) => IInv'
<1> SUFFICES ASSUME IInv, EndOfSource \/ EndOfDeferred PROVE IInv'
  OBVIOUS
<1>1. TypeOK /\ Classified /\ Contiguous
  BY DEF IInv
<1>2. /\ UNCHANGED << pass0, program_counter, in_data_section, data_pass0, pass1,
                      labels, pass2, errors, output, entry, outcome >>
      /\ phase' \in {"deferred", "labels"}
      /\ next' \in {1, next}
  BY DEF EndOfSource, EndOfDeferred
<1>3. TypeOK'
  <2>1. phase' \in Phases /\ next' \in Nat \ {0}
    BY <1>1, <1>2 DEF TypeOK, Phases
  <2>2. QED
    BY <1>1, <1>2, <2>1, Zenon DEF TypeOK
<1>4. Classified' /\ Contiguous'
  BY <1>1, <1>2 DEF Classified, Contiguous
<1>5. QED
  BY <1>2, <1>3, <1>4, WhilePass1Runs DEF EndOfSource, EndOfDeferred

-----------------------------------------------------------------------------
(* Names and pass 2.                                                       *)

LEMMA CollectLabelsKeepsIInv == IInv /\ CollectLabels => IInv'
<1> SUFFICES ASSUME IInv, CollectLabels PROVE IInv'
  OBVIOUS
<1>1. TypeOK /\ Classified /\ Contiguous /\ Progress
  BY DEF IInv
<1>2. /\ UNCHANGED << pass0, program_counter, in_data_section, data_pass0, pass1,
                      pass2, output, entry, outcome >>
      /\ labels' = Definitions(pass1)
      /\ errors' = errors + Cardinality(Duplicates(pass1, Definitions(pass1)))
      /\ phase' = "pass2" /\ next' = 1
  BY DEF CollectLabels
<1>3. pass1 \in Seq(Pass1Line) /\ Definitions(pass1) \in SUBSET DOMAIN pass1
  BY <1>1 DEF TypeOK, Definitions
<1>4. /\ Cardinality(Duplicates(pass1, Definitions(pass1))) \in Nat
      /\ Cardinality(Duplicates(pass1, Definitions(pass1))) = 0 =>
           Duplicates(pass1, Definitions(pass1)) = {}
  BY <1>3, DuplicatesAreCounted
<1>5. errors' \in Nat /\ (errors' = 0 => Duplicates(pass1, Definitions(pass1)) = {})
  <2>1. errors \in Nat
    BY <1>1 DEF TypeOK
  <2>2. QED
    BY <1>2, <1>4, <2>1
<1>6. TypeOK'
  <2>1. phase' \in Phases /\ next' \in Nat \ {0} /\ labels' \subseteq DOMAIN pass1'
    BY <1>2, <1>3 DEF Phases
  <2>2. QED
    BY <1>1, <1>2, <1>5, <2>1, Zenon DEF TypeOK
<1>7. Classified' /\ Contiguous'
  BY <1>1, <1>2 DEF Classified, Contiguous
<1>8. NamesChecked'
  BY <1>2, <1>5 DEF NamesChecked, AfterLabels
<1>9. pass2' = << >> /\ output' = << >> /\ outcome' = Pending
  BY <1>1, <1>2 DEF Progress, CollectLabels
<1>10. Progress'
  <2>1. Len(pass1') \in Nat
    BY <1>2, <1>3
  <2>2. QED
    BY <1>2, <1>9, <2>1 DEF Progress, AfterPass2
<1>11. EmissionFollowsLayout'
  BY <1>9 DEF EmissionFollowsLayout
<1>12. OutputReachesLineEnd' /\ (outcome \in Image => outcome.heap_start = HeapStart)'
  BY <1>2, <1>9, NothingIsAnImageYet DEF OutputReachesLineEnd
<1>13. ImagePlacement'
  BY <1>2 DEF ImagePlacement, Written
<1>14. QED
  BY <1>6, <1>7, <1>8, <1>10, <1>11, <1>12, <1>13 DEF IInv

LEMMA EmitLineKeepsIInv == IInv /\ EmitLine => IInv'
<1> SUFFICES ASSUME IInv, EmitLine PROVE IInv'
  OBVIOUS
<1> DEFINE p == pass1[next]
           q == [line            |-> p.line,
                 line_counter    |-> p.line_counter,
                 program_counter |-> p.program_counter,
                 line_type       |-> Pass2Type(p),
                 opcode          |-> EmittedWords(p)]
<1>1. TypeOK /\ Classified /\ Contiguous /\ NamesChecked /\ Progress
        /\ EmissionFollowsLayout
  BY DEF IInv
<1>2. /\ UNCHANGED << pass0, phase, program_counter, in_data_section, data_pass0,
                      pass1, labels, output, entry, outcome >>
      /\ phase = "pass2" /\ next <= Len(pass1)
      /\ pass2' = Append(pass2, q)
      /\ errors' = errors + InstructionErrors(p)
      /\ next' = next + 1
  BY DEF EmitLine
<1>3. /\ next \in DOMAIN pass1 /\ p \in Pass1Line /\ p.line_type = LineType(p.line)
      /\ Len(pass1) \in Nat /\ next \in Nat
  BY <1>1, <1>2, ElementOfSeq DEF TypeOK, Classified
<1>4. /\ EmittedWords(p) \in Seq(Word)
      /\ InstructionErrors(p) \in Nat
      /\ InstructionErrors(p) = 0 => Len(EmittedWords(p)) = WordCount(p.line)
  <2> HIDE DEF p
  <2>1. QED
    BY <1>1, <1>3, EmittedWordsType
<1>5. q \in Pass2Line
  <2>1. Pass2Type(p) \in LineTypes
    BY <1>3 DEF Pass2Type, Pass1Line, LineTypes
  <2>2. QED
    BY <1>3, <1>4, <2>1 DEF Pass1Line, Pass2Line
<1>6. /\ pass2' \in Seq(Pass2Line)
      /\ Len(pass2') = next
      /\ DOMAIN pass2' = 1..next
      /\ \A j \in 1..(next - 1) : pass2'[j] = pass2[j]
      /\ pass2'[next] = q
  <2> HIDE DEF q
  <2>1. pass2 \in Seq(Pass2Line) /\ Len(pass2) = next - 1 /\ Len(pass2) + 1 = next
    BY <1>1, <1>2, <1>3 DEF TypeOK, Progress
  <2>2. QED
    BY <1>2, <1>5, <2>1, Appended
<1>7. errors' \in Nat /\ errors \in Nat /\ (errors' = 0 => errors = 0 /\ InstructionErrors(p) = 0)
  <2>1. errors \in Nat
    BY <1>1 DEF TypeOK
  <2>2. \A e, i \in Nat : e + i \in Nat /\ (e + i = 0 => e = 0 /\ i = 0)
    OBVIOUS
  <2>3. errors' = errors + InstructionErrors(p) /\ InstructionErrors(p) \in Nat
    BY <1>2, <1>4
  <2>4. QED
    BY <2>1, <2>2, <2>3, Zenon
<1>8. TypeOK'
  <2>1. next' \in Nat \ {0}
    BY <1>2, <1>3
  <2>2. QED
    BY <1>1, <1>2, <1>6, <1>7, <2>1, Zenon DEF TypeOK
<1>9. Classified' /\ Contiguous'
  BY <1>1, <1>2 DEF Classified, Contiguous
<1>10. NamesChecked'
  BY <1>1, <1>2, <1>7 DEF NamesChecked, AfterLabels
<1>11. outcome' = Pending /\ output' = << >>
  BY <1>1, <1>2 DEF Progress
<1>12. Progress'
  BY <1>2, <1>3, <1>6, <1>11 DEF Progress, AfterPass2
<1>13. EmissionFollowsLayout'
  <2>1. ASSUME NEW j \in DOMAIN pass2'
        PROVE  /\ pass2'[j].line = pass1[j].line
               /\ pass2'[j].program_counter = pass1[j].program_counter
               /\ pass2'[j].line_type = Pass2Type(pass1[j])
               /\ pass2'[j].opcode = EmittedWords(pass1[j])
               /\ errors' = 0 => Len(pass2'[j].opcode) = WordCount(pass1[j].line)
    <3>1. CASE j = next
      BY <1>4, <1>6, <1>7, <3>1
    <3>2. CASE j # next
      <4>1. j \in 1..(next - 1) /\ j \in DOMAIN pass2
        <5>1. pass2 \in Seq(Pass2Line) /\ Len(pass2) = next - 1
          BY <1>1, <1>2 DEF TypeOK, Progress
        <5>2. DOMAIN pass2 = 1..(next - 1)
          BY <5>1
        <5>3. j \in 1..(next - 1)
          BY <1>3, <1>6, <3>2
        <5>4. QED
          BY <5>2, <5>3
      <4>2. Emitted(j)
        BY <1>1, <4>1 DEF EmissionFollowsLayout
      <4>3. QED
        BY <1>6, <1>7, <4>1, <4>2 DEF Emitted
    <3>3. QED
      BY <3>1, <3>2
  <2>2. ASSUME NEW j \in DOMAIN pass2' PROVE Emitted(j)'
    <3>1. EmittedWords(pass1[j])' = EmittedWords(pass1[j])
      BY <1>2 DEF EmittedWords, InstructionWords, AddArguments, ConvertArgument
    <3>2. QED
      BY <1>2, <2>1, <3>1 DEF Emitted
  <2>3. QED
    BY <2>2 DEF EmissionFollowsLayout
<1>14. OutputReachesLineEnd' /\ (outcome \in Image => outcome.heap_start = HeapStart)'
  BY <1>2, <1>11, NothingIsAnImageYet DEF OutputReachesLineEnd
<1>15. ImagePlacement'
  BY <1>2 DEF ImagePlacement, Written
<1>16. QED
  BY <1>8, <1>9, <1>10, <1>12, <1>13, <1>14, <1>15 DEF IInv

-----------------------------------------------------------------------------
(* Output.                                                                 *)

(* Once pass 2 has ended, nothing it built changes any more.               *)
LEMMA LayoutStays ==
  ASSUME IInv, UNCHANGED << pass1, pass2, labels, program_counter >>,
         AfterLabels, errors' = 0 => errors = 0
  PROVE  Classified' /\ Contiguous' /\ NamesChecked' /\ EmissionFollowsLayout'
<1>1. Classified' /\ Contiguous'
  BY DEF IInv, Classified, Contiguous
<1>2. NamesChecked'
  BY DEF IInv, NamesChecked
<1>3. ASSUME NEW j \in DOMAIN pass2' PROVE Emitted(j)'
  <2>1. Emitted(j)
    BY <1>3 DEF IInv, EmissionFollowsLayout
  <2>2. EmittedWords(pass1[j])' = EmittedWords(pass1[j])
    BY DEF EmittedWords, InstructionWords, AddArguments, ConvertArgument
  <2>3. QED
    BY <2>1, <2>2 DEF Emitted
<1>4. QED
  BY <1>1, <1>2, <1>3 DEF EmissionFollowsLayout

LEMMA EndOfPass2KeepsIInv == IInv /\ EndOfPass2 => IInv'
<1> SUFFICES ASSUME IInv, EndOfPass2 PROVE IInv'
  OBVIOUS
<1>1. TypeOK /\ Progress
  BY DEF IInv
<1>2. /\ UNCHANGED << pass0, program_counter, in_data_section, data_pass0, pass1,
                      labels, pass2, errors, output, entry, outcome >>
      /\ phase = "pass2" /\ next > Len(pass1) /\ phase' = "output" /\ next' = 1
  BY DEF EndOfPass2
<1>3. TypeOK'
  <2>1. phase' \in Phases /\ next' \in Nat \ {0}
    BY <1>2 DEF Phases
  <2>2. QED
    BY <1>1, <1>2, <2>1, Zenon DEF TypeOK
<1>4. Classified' /\ Contiguous' /\ NamesChecked' /\ EmissionFollowsLayout'
  BY <1>2, LayoutStays DEF AfterLabels
<1>5. outcome' = Pending /\ output' = << >>
  BY <1>1, <1>2 DEF Progress
<1>6. Progress'
  <2>1. Len(pass2) = Len(pass1)
    <3>1. Len(pass2) = next - 1 /\ next <= Len(pass1) + 1
      BY <1>1, <1>2 DEF Progress
    <3>2. next \in Nat /\ Len(pass1) \in Nat
      BY <1>1 DEF TypeOK
    <3>3. QED
      BY <1>2, <3>1, <3>2
  <2>2. QED
    BY <1>2, <1>5, <2>1 DEF Progress, AfterPass2
<1>7. OutputReachesLineEnd' /\ (outcome \in Image => outcome.heap_start = HeapStart)'
  BY <1>2, <1>5, NothingIsAnImageYet DEF OutputReachesLineEnd
<1>8. ImagePlacement'
  BY <1>2 DEF ImagePlacement, Written
<1>9. QED
  BY <1>3, <1>4, <1>6, <1>7, <1>8 DEF IInv

LEMMA ChooseImageKeepsIInv == IInv /\ ChooseImage => IInv'
<1> SUFFICES ASSUME IInv, ChooseImage PROVE IInv'
  OBVIOUS
<1>1. TypeOK /\ Progress
  BY DEF IInv
<1>2. /\ UNCHANGED << pass0, next, program_counter, in_data_section, data_pass0,
                      pass1, labels, pass2, errors, output, entry, outcome >>
      /\ phase = "output" /\ errors = 0 /\ phase' \in {"kbt", "flat"}
  BY DEF ChooseImage
<1>3. TypeOK'
  <2>1. phase' \in Phases
    BY <1>2 DEF Phases
  <2>2. QED
    BY <1>1, <1>2, <2>1, Zenon DEF TypeOK
<1>4. Classified' /\ Contiguous' /\ NamesChecked' /\ EmissionFollowsLayout'
  BY <1>2, LayoutStays DEF AfterLabels
<1>5. next' = 1 /\ output' = << >> /\ outcome' = Pending
  BY <1>1, <1>2 DEF Progress
<1>6. Progress'
  <2>1. Len(pass2) = Len(pass1) /\ Len(pass2) \in Nat
    BY <1>1, <1>2 DEF Progress, AfterPass2, TypeOK
  <2>2. QED
    BY <1>2, <1>5, <2>1 DEF Progress, AfterPass2
<1>7. OutputReachesLineEnd'
  BY <1>2, <1>5, NothingIsAnImageYet
     DEF OutputReachesLineEnd, LineEnd, HeaderBytes, HEAP_HEADER_WORDS
<1>8. ImagePlacement'
  BY <1>2, <1>5 DEF ImagePlacement, Written
<1>9. QED
  BY <1>3, <1>4, <1>5, <1>6, <1>7, <1>8, NothingIsAnImageYet DEF IInv

(* Every way the output ends with no image.                                *)
LEMMA RejectKeepsIInv == IInv /\ (RejectErrors \/ RejectKbt \/ RejectFlat) => IInv'
<1> SUFFICES ASSUME IInv, RejectErrors \/ RejectKbt \/ RejectFlat PROVE IInv'
  OBVIOUS
<1>1. TypeOK /\ Progress
  BY DEF IInv
<1>2. /\ UNCHANGED << pass0, next, program_counter, in_data_section, data_pass0,
                      pass1, labels, pass2, output, entry >>
      /\ phase \in {"output", "kbt", "flat"} /\ phase' = "done"
      /\ outcome' = Rejected
      /\ errors' \in {errors, errors + 1}
  BY DEF RejectErrors, RejectKbt, RejectFlat
<1>3. errors' \in Nat /\ (errors' = 0 => errors = 0)
  BY <1>1, <1>2 DEF TypeOK
<1>4. TypeOK'
  <2>1. phase' \in Phases
    BY <1>2 DEF Phases
  <2>2. QED
    BY <1>1, <1>2, <1>3, <2>1, Zenon DEF TypeOK
<1>5. Classified' /\ Contiguous' /\ NamesChecked' /\ EmissionFollowsLayout'
  BY <1>2, <1>3, LayoutStays DEF AfterLabels
<1>6. Progress'
  BY <1>1, <1>2 DEF Progress, AfterPass2
<1>7. OutputReachesLineEnd' /\ (outcome \in Image => outcome.heap_start = HeapStart)'
  BY <1>2, NothingIsAnImageYet DEF OutputReachesLineEnd
<1>8. ImagePlacement'
  BY <1>2, NothingIsAnImageYet DEF ImagePlacement, Written
<1>9. QED
  BY <1>4, <1>5, <1>6, <1>7, <1>8 DEF IInv

(* Arithmetic of addresses.                                                *)
LEMMA NextAddress ==
  ASSUME NEW n \in Nat, NEW p \in Nat, NEW k \in Nat,
         AddressOf(p) = HeaderBytes + 4 * n + 4 * (k - 1)
  PROVE  p = n + k
BY DEF AddressOf, HeaderBytes, HEAP_HEADER_WORDS

LEMMA EarlierAddress ==
  ASSUME NEW n \in Nat, NEW p \in Nat, NEW a \in Nat, NEW len \in Nat,
         NEW k \in 1..len,
         a + 4 * len <= HeaderBytes + 4 * n,
         AddressOf(p) = a + 4 * (k - 1)
  PROVE  p <= n
BY DEF AddressOf, HeaderBytes, HEAP_HEADER_WORDS

LEMMA LongerImage ==
  ASSUME NEW a \in Nat, NEW l \in Nat, NEW m \in Nat, NEW n \in Nat, NEW m2,
         m2 = m + n,
         a + 4 * l <= HeaderBytes + 4 * m
  PROVE  a + 4 * l <= HeaderBytes + 4 * m2
BY DEF HeaderBytes, HEAP_HEADER_WORDS

(* The words the running output loop looks at.                             *)
Current == pass2[next].opcode

LEMMA CurrentLine ==
  ASSUME IInv, phase \in {"kbt", "flat"}, next <= Len(pass2)
  PROVE  /\ next \in DOMAIN pass2 /\ next \in DOMAIN pass1
         /\ pass2[next] \in Pass2Line /\ Current \in Seq(Word) /\ Len(Current) \in Nat
         /\ pass2[next].program_counter = HeaderBytes + 4 * Len(output)
         /\ LineEnd(pass1, next) = HeaderBytes + 4 * Len(output) + 4 * Len(Current)
         /\ Emitted(next)
<1>1. TypeOK /\ Progress /\ Contiguous /\ EmissionFollowsLayout /\ OutputReachesLineEnd
  BY DEF IInv
<1>2. next \in DOMAIN pass2 /\ next \in DOMAIN pass1
  BY <1>1 DEF TypeOK, Progress, AfterPass2
<1>3. pass2[next] \in Pass2Line
  BY <1>1, <1>2, ElementOfSeq DEF TypeOK
<1>4. Current \in Seq(Word) /\ Len(Current) \in Nat
  BY <1>3 DEF Pass2Line, Current
<1>5. Emitted(next) /\ errors = 0
  BY <1>1, <1>2 DEF EmissionFollowsLayout, Progress
<1>6. /\ pass2[next].program_counter = pass1[next].program_counter
      /\ Len(Current) = WordCount(pass1[next].line)
  BY <1>5 DEF Emitted, Current
<1>7. pass1[next].program_counter = HeaderBytes + 4 * Len(output)
  BY <1>1, <1>2 DEF Contiguous, OutputReachesLineEnd
<1>8. LineEnd(pass1, next) = pass1[next].program_counter + 4 * WordCount(pass1[next].line)
  BY <1>1, <1>2 DEF LineEnd, TypeOK
<1>9. QED
  BY <1>2, <1>3, <1>4, <1>5, <1>6, <1>7, <1>8

(* Appending the current line's words to the image.                        *)
LEMMA OutputGrows ==
  ASSUME IInv, phase \in {"kbt", "flat"}, next <= Len(pass2),
         UNCHANGED << pass0, phase, program_counter, in_data_section, data_pass0,
                      pass1, labels, pass2, errors, outcome >>,
         next' = next + 1,
         entry' \in Nat,
         output' \in Seq(Word),
         Len(output') = Len(output) + Len(Current),
         \A p \in 1..Len(output) : output'[p] = output[p],
         \A k \in 1..Len(Current) : output'[Len(output) + k] = Current[k]
  PROVE  IInv'
<1>1. TypeOK /\ Progress /\ ImagePlacement /\ OutputReachesLineEnd
  BY DEF IInv
<1>2. /\ next \in DOMAIN pass2 /\ next \in DOMAIN pass1
      /\ pass2[next] \in Pass2Line /\ Current \in Seq(Word) /\ Len(Current) \in Nat
      /\ pass2[next].program_counter = HeaderBytes + 4 * Len(output)
      /\ LineEnd(pass1, next) = HeaderBytes + 4 * Len(output) + 4 * Len(Current)
  BY CurrentLine
<1>3. next \in Nat \ {0} /\ Len(output) \in Nat /\ Len(pass2) \in Nat
  BY <1>1 DEF TypeOK
<1>4. outcome' = Pending
  BY <1>1 DEF Progress
<1>5. TypeOK'
  <2>1. next' \in Nat \ {0}
    BY <1>3
  <2>2. QED
    BY <1>1, <2>1, Zenon DEF TypeOK
<1>6. Classified' /\ Contiguous' /\ NamesChecked' /\ EmissionFollowsLayout'
  BY LayoutStays DEF AfterLabels
<1>7. Progress'
  <2>1. next' <= Len(pass2) + 1
    BY <1>3
  <2>2. QED
    BY <1>1, <1>4, <2>1 DEF Progress, AfterPass2
<1>8. OutputReachesLineEnd'
  <2>1. HeaderBytes + 4 * Len(output') = LineEnd(pass1, next)
    BY <1>2, <1>3 DEF HeaderBytes, HEAP_HEADER_WORDS
  <2>2. next' - 1 = next
    BY <1>3
  <2>3. QED
    BY <1>4, <2>1, <2>2, NothingIsAnImageYet DEF OutputReachesLineEnd
<1>9. ImagePlacement'
  <2>1. SitsAtItsAddress(pass2[next], output')
    <3>1. pass2[next].program_counter + 4 * Len(Current) <= HeaderBytes + 4 * Len(output')
      BY <1>2, <1>3 DEF HeaderBytes, HEAP_HEADER_WORDS
    <3>2. ASSUME NEW k \in 1..Len(Current), NEW p \in 1..Len(output'),
                 AddressOf(p) = pass2[next].program_counter + 4 * (k - 1)
          PROVE  output'[p] = Current[k]
      <4>1. p \in Nat /\ k \in Nat
        BY <1>2, <1>3, <3>2
      <4>2. AddressOf(p) = HeaderBytes + 4 * Len(output) + 4 * (k - 1)
        BY <1>2, <3>2
      <4>3. p = Len(output) + k
        BY <1>3, <4>1, <4>2, NextAddress
      <4>4. QED
        BY <4>3
    <3>3. QED
      BY <3>1, <3>2 DEF SitsAtItsAddress, Current
  <2>2. ASSUME NEW j \in 1..(next - 1) PROVE SitsAtItsAddress(pass2[j], output')
    <3>1. SitsAtItsAddress(pass2[j], output)
      BY <1>1, <2>2 DEF ImagePlacement, Written
    <3>2. pass2[j] \in Pass2Line
      BY <1>1, <1>2, <1>3, <2>2, ElementOfSeq DEF TypeOK
    <3>3. pass2[j].program_counter \in Nat /\ Len(pass2[j].opcode) \in Nat
      BY <3>2 DEF Pass2Line
    <3>4. pass2[j].program_counter + 4 * Len(pass2[j].opcode)
            <= HeaderBytes + 4 * Len(output')
      <4>1. pass2[j].program_counter + 4 * Len(pass2[j].opcode)
              <= HeaderBytes + 4 * Len(output)
        BY <3>1 DEF SitsAtItsAddress
      <4>2. QED
        BY <1>2, <1>3, <3>3, <4>1, LongerImage
    <3>5. ASSUME NEW k \in 1..Len(pass2[j].opcode), NEW p \in 1..Len(output'),
                 AddressOf(p) = pass2[j].program_counter + 4 * (k - 1)
          PROVE  output'[p] = pass2[j].opcode[k]
      <4>1. p \in Nat /\ p >= 1
        BY <1>2, <1>3, <3>5
      <4>2. pass2[j].program_counter + 4 * Len(pass2[j].opcode)
              <= HeaderBytes + 4 * Len(output)
        BY <3>1 DEF SitsAtItsAddress
      <4>3. p <= Len(output)
        BY <1>3, <3>3, <3>5, <4>1, <4>2, EarlierAddress
      <4>4. p \in 1..Len(output)
        BY <1>3, <4>1, <4>3
      <4>5. QED
        BY <3>1, <3>5, <4>4 DEF SitsAtItsAddress
    <3>6. QED
      BY <3>4, <3>5 DEF SitsAtItsAddress
  <2>3. Written' = 1..next
    <3>1. phase' \in {"kbt", "flat"} /\ next' - 1 = next
      BY <1>3
    <3>2. QED
      BY <3>1 DEF Written
  <2>4. ASSUME NEW j \in Written' PROVE SitsAtItsAddress(pass2[j], output')
    <3>1. j = next \/ j \in 1..(next - 1)
      BY <1>3, <2>3
    <3>2. QED
      BY <2>1, <2>2, <3>1
  <2>5. QED
    BY <2>4 DEF ImagePlacement, SitsAtItsAddress, AddressOf
<1>10. QED
  BY <1>4, <1>5, <1>6, <1>7, <1>8, <1>9, NothingIsAnImageYet DEF IInv

LEMMA PushOpcodeKeepsIInv == IInv /\ PushOpcode => IInv'
<1> SUFFICES ASSUME IInv, PushOpcode PROVE IInv'
  OBVIOUS
<1>1. /\ phase = "kbt" /\ next <= Len(pass2) /\ next' = next + 1
      /\ output' = output \o Current
      /\ UNCHANGED << pass0, phase, program_counter, in_data_section, data_pass0,
                      pass1, labels, pass2, errors, entry, outcome >>
  BY DEF PushOpcode, Current
<1>2. output \in Seq(Word) /\ entry \in Nat
  BY DEF IInv, TypeOK
<1>3. Current \in Seq(Word)
  BY <1>1, CurrentLine
<1>4. /\ output' \in Seq(Word)
      /\ Len(output') = Len(output) + Len(Current)
      /\ \A i \in 1..Len(output) + Len(Current) :
           output'[i] = IF i <= Len(output) THEN output[i] ELSE Current[i - Len(output)]
  <2>1. output \o Current \in Seq(Word)
    BY <1>2, <1>3, ConcatProperties
  <2>2. /\ Len(output \o Current) = Len(output) + Len(Current)
        /\ \A i \in 1..Len(output) + Len(Current) :
             (output \o Current)[i] =
               IF i <= Len(output) THEN output[i] ELSE Current[i - Len(output)]
    BY <1>2, <1>3, ConcatProperties
  <2>3. QED
    BY <1>1, <2>1, <2>2
<1>5. \A p \in 1..Len(output) : output'[p] = output[p]
  BY <1>2, <1>3, <1>4
<1>6. ASSUME NEW k \in 1..Len(Current) PROVE output'[Len(output) + k] = Current[k]
  <2>1. Len(output) \in Nat /\ Len(Current) \in Nat
    BY <1>2, <1>3
  <2>2. /\ Len(output) + k \in 1..Len(output) + Len(Current)
        /\ ~(Len(output) + k <= Len(output))
        /\ Len(output) + k - Len(output) = k
    BY <2>1
  <2>3. QED
    BY <1>4, <2>2
<1>7. QED
  BY <1>1, <1>2, <1>4, <1>5, <1>6, OutputGrows

(* build_flat_code skips a _start line: pass 2 gave it no words.           *)
LEMMA NoteStartKeepsIInv == IInv /\ NoteStart => IInv'
<1> SUFFICES ASSUME IInv, NoteStart PROVE IInv'
  OBVIOUS
<1>1. /\ phase = "flat" /\ next <= Len(pass2) /\ next' = next + 1
      /\ pass2[next].line_type = "Start"
      /\ entry' = pass2[next].program_counter
      /\ UNCHANGED << pass0, phase, program_counter, in_data_section, data_pass0,
                      pass1, labels, pass2, errors, output, outcome >>
  BY DEF NoteStart
<1>2. /\ output \in Seq(Word) /\ Len(output) \in Nat
  BY DEF IInv, TypeOK
<1>3. Emitted(next) /\ pass2[next] \in Pass2Line
  BY <1>1, CurrentLine
<1>4. Current = << >>
  BY <1>1, <1>3 DEF Emitted, Pass2Type, EmittedWords, Current
<1>5. Len(Current) = 0
  BY <1>4
<1>6. entry' \in Nat
  BY <1>1, <1>3 DEF Pass2Line
<1>7. /\ Len(output') = Len(output) + Len(Current)
      /\ output' \in Seq(Word)
      /\ \A p \in 1..Len(output) : output'[p] = output[p]
      /\ \A k \in 1..Len(Current) : output'[Len(output) + k] = Current[k]
  BY <1>1, <1>2, <1>5
<1>8. QED
  BY <1>1, <1>6, <1>7, OutputGrows

(* Writing at the end of the image appends to it.                          *)
LEMMA WriteAtTheEnd ==
  ASSUME NEW image \in Seq(Word), NEW words \in Seq(Word)
  PROVE  LET result == WriteAt(image, Len(image), words)
         IN  /\ result \in Seq(Word)
             /\ Len(result) = Len(image) + Len(words)
             /\ \A p \in 1..Len(image) : result[p] = image[p]
             /\ \A k \in 1..Len(words) : result[Len(image) + k] = words[k]
<1> DEFINE n == Len(image)
           m == Len(words)
           result == WriteAt(image, n, words)
<1>1. n \in Nat /\ m \in Nat
  OBVIOUS
<1>2. \A p \in 1..n : image[p] \in Word
  BY ElementOfSeq
<1>3. \A k \in 1..m : words[k] \in Word
  BY ElementOfSeq
<1> HIDE DEF n, m
<1>4. result = [p \in 1..(n + m) |->
                  IF p \in (n + 1)..(n + m) THEN words[p - n]
                  ELSE IF p <= n THEN image[p] ELSE Padding]
  <2>1. (IF n + m > n THEN n + m ELSE n) = n + m
    BY <1>1
  <2>2. QED
    BY <2>1 DEF WriteAt, n, m
<1> HIDE DEF result
<1>5. ASSUME NEW p \in 1..(n + m)
      PROVE  (IF p \in (n + 1)..(n + m) THEN words[p - n]
              ELSE IF p <= n THEN image[p] ELSE Padding) \in Word
  <2>1. CASE p \in (n + 1)..(n + m)
    <3>1. p - n \in 1..m
      BY <1>1, <2>1
    <3>2. QED
      BY <1>3, <2>1, <3>1
  <2>2. CASE ~(p \in (n + 1)..(n + m))
    <3>1. p \in 1..n /\ p <= n
      BY <1>1, <2>2
    <3>2. QED
      BY <1>2, <2>2, <3>1
  <2>3. QED
    BY <2>1, <2>2
<1>6. result \in [1..(n + m) -> Word]
  BY <1>4, <1>5
<1>7. n + m \in Nat
  BY <1>1
<1>8. result \in Seq(Word) /\ Len(result) = n + m
  BY <1>6, <1>7, TabulatedSeq
<1>9. ASSUME NEW p \in 1..n PROVE result[p] = image[p]
  <2>1. p \in 1..(n + m) /\ ~(p \in (n + 1)..(n + m)) /\ p <= n
    BY <1>1
  <2>2. QED
    BY <1>4, <2>1
<1>10. ASSUME NEW k \in 1..m PROVE result[n + k] = words[k]
  <2>1. n + k \in 1..(n + m) /\ n + k \in (n + 1)..(n + m) /\ (n + k) - n = k
    BY <1>1
  <2>2. QED
    BY <1>4, <2>1
<1>11. QED
  BY <1>8, <1>9, <1>10 DEF n, m, result

LEMMA OffsetOfAddress ==
  ASSUME NEW n \in Nat, NEW a, a = HeaderBytes + 4 * n
  PROVE  (a - HeaderBytes) \div 4 = n
BY DEF HeaderBytes, HEAP_HEADER_WORDS

(* build_flat_code writes at addresses; the address is always the end of   *)
(* what it has written, so it builds the same image as create_bin_string.  *)
LEMMA PlaceOpcodeKeepsIInv == IInv /\ PlaceOpcode => IInv'
<1> SUFFICES ASSUME IInv, PlaceOpcode PROVE IInv'
  OBVIOUS
<1>1. /\ phase = "flat" /\ next <= Len(pass2) /\ next' = next + 1
      /\ output' = IF Current = << >>
                   THEN output
                   ELSE WriteAt(output,
                          (pass2[next].program_counter - HeaderBytes) \div 4, Current)
      /\ UNCHANGED << pass0, phase, program_counter, in_data_section, data_pass0,
                      pass1, labels, pass2, errors, entry, outcome >>
  BY DEF PlaceOpcode, Current
<1>2. output \in Seq(Word) /\ Len(output) \in Nat /\ entry \in Nat
  BY DEF IInv, TypeOK
<1>3. /\ Current \in Seq(Word)
      /\ pass2[next].program_counter = HeaderBytes + 4 * Len(output)
  BY <1>1, CurrentLine
<1>4. (pass2[next].program_counter - HeaderBytes) \div 4 = Len(output)
  BY <1>2, <1>3, OffsetOfAddress
<1>5. /\ output' \in Seq(Word)
      /\ Len(output') = Len(output) + Len(Current)
      /\ \A p \in 1..Len(output) : output'[p] = output[p]
      /\ \A k \in 1..Len(Current) : output'[Len(output) + k] = Current[k]
  <2>1. CASE Current = << >>
    <3>1. output' = output /\ Len(Current) = 0
      BY <1>1, <2>1
    <3>2. QED
      BY <1>2, <3>1
  <2>2. CASE Current # << >>
    <3>1. output' = WriteAt(output, Len(output), Current)
      BY <1>1, <1>4, <2>2
    <3>2. QED
      BY <1>2, <1>3, <3>1, WriteAtTheEnd
  <2>3. QED
    BY <2>1, <2>2
<1>6. QED
  BY <1>1, <1>2, <1>5, OutputGrows

LEMMA HeapStartType ==
  ASSUME TypeOK
  PROVE  HeapStart \in Nat
<1>1. Len(output) \in Nat
  BY DEF TypeOK
<1>2. \A n \in Nat : 8 * ((HeaderBytes + 4 * n + 7) \div 8) \in Nat
  BY DEF HeaderBytes, HEAP_HEADER_WORDS
<1>3. QED
  BY <1>1, <1>2 DEF HeapStart, AlignUp

(* Finishing an image whose loop has written every line.                   *)
LEMMA SealedImage ==
  ASSUME IInv, phase \in {"kbt", "flat"}, next > Len(pass2),
         UNCHANGED << pass0, next, program_counter, in_data_section, data_pass0,
                      pass1, labels, pass2, errors, output, entry >>,
         phase' = "done",
         outcome' \in Image,
         outcome'.heap_start = HeapStart
  PROVE  IInv'
<1>1. TypeOK /\ Progress /\ ImagePlacement /\ OutputReachesLineEnd
  BY DEF IInv
<1>2. next = Len(pass2) + 1 /\ Len(pass2) \in Nat
  BY <1>1 DEF Progress, TypeOK
<1>3. TypeOK'
  <2>1. phase' \in Phases
    BY DEF Phases
  <2>2. QED
    BY <1>1, <2>1, Zenon DEF TypeOK
<1>4. Classified' /\ Contiguous' /\ NamesChecked' /\ EmissionFollowsLayout'
  BY LayoutStays DEF AfterLabels
<1>5. Progress'
  BY <1>1 DEF Progress, AfterPass2
<1>6. OutputReachesLineEnd'
  <2>1. next - 1 = Len(pass2)
    BY <1>2
  <2>2. errors = 0 /\ HeaderBytes + 4 * Len(output) = LineEnd(pass1, Len(pass2))
    BY <1>1, <2>1 DEF OutputReachesLineEnd, Progress
  <2>3. QED
    BY <2>2 DEF OutputReachesLineEnd
<1>7. ImagePlacement'
  <2>1. Written = 1..Len(pass2)
    BY <1>2 DEF Written
  <2>2. Written' = 1..Len(pass2)
    BY <1>2 DEF Written
  <2>3. QED
    BY <1>1, <2>1, <2>2 DEF ImagePlacement, SitsAtItsAddress, AddressOf
<1>8. HeapStart' = HeapStart
  BY DEF HeapStart
<1>9. QED
  BY <1>3, <1>4, <1>5, <1>6, <1>7, <1>8 DEF IInv

LEMMA SealKbtKeepsIInv == IInv /\ SealKbt => IInv'
<1> SUFFICES ASSUME IInv, SealKbt PROVE IInv'
  OBVIOUS
<1>1. TypeOK
  BY DEF IInv
<1>2. PICK j \in StartLines :
        outcome' = [kind |-> "kbt", words |-> output, heap_start |-> HeapStart,
                    entry |-> pass2[j].program_counter]
  BY DEF SealKbt
<1>3. pass2[j].program_counter \in Nat
  <2>1. pass2[j] \in Pass2Line
    BY <1>1, ElementOfSeq DEF StartLines, TypeOK
  <2>2. QED
    BY <2>1 DEF Pass2Line
<1>4. outcome' \in Image /\ outcome'.heap_start = HeapStart
  BY <1>1, <1>2, <1>3, HeapStartType DEF Image, TypeOK
<1>5. QED
  BY <1>4, SealedImage DEF SealKbt

LEMMA SealFlatKeepsIInv == IInv /\ SealFlat => IInv'
<1> SUFFICES ASSUME IInv, SealFlat PROVE IInv'
  OBVIOUS
<1>1. TypeOK
  BY DEF IInv
<1>2. output \in Seq(Word) /\ entry \in Nat
  BY <1>1 DEF TypeOK
<1>3. Padding \in Word
  BY OwnWordType DEF Padding
<1>4. Append(output, Padding) \in Seq(Word)
  BY <1>2, <1>3
<1>5. (IF Len(output) % 2 = 0 THEN output ELSE Append(output, Padding)) \in Seq(Word)
  BY <1>2, <1>4
<1>6. HeapStart \in Nat
  BY <1>1, HeapStartType
<1>7. outcome' = [kind |-> "flat",
                  words |-> IF Len(output) % 2 = 0 THEN output
                            ELSE Append(output, Padding),
                  heap_start |-> HeapStart,
                  entry |-> entry]
  BY DEF SealFlat
<1>8. outcome' \in Image /\ outcome'.heap_start = HeapStart
  BY <1>2, <1>5, <1>6, <1>7 DEF Image
<1>9. QED
  BY <1>8, SealedImage DEF SealFlat

-----------------------------------------------------------------------------
(* The invariant is inductive.                                             *)

LEMMA StutterKeepsIInv == IInv /\ UNCHANGED vars => IInv'
<1> SUFFICES ASSUME IInv, UNCHANGED vars PROVE IInv'
  OBVIOUS
<1>1. UNCHANGED << pass0, phase, next, program_counter, in_data_section, data_pass0,
                   pass1, labels, pass2, errors, output, entry, outcome >>
  BY DEF vars
<1>2. TypeOK'
  BY <1>1, Zenon DEF IInv, TypeOK
<1>3. Classified' /\ Contiguous' /\ NamesChecked' /\ EmissionFollowsLayout'
  <2>1. Classified' /\ Contiguous' /\ NamesChecked'
    BY <1>1 DEF IInv, Classified, Contiguous, NamesChecked, AfterLabels
  <2>2. ASSUME NEW j \in DOMAIN pass2' PROVE Emitted(j)'
    <3>1. Emitted(j)
      BY <1>1, <2>2 DEF IInv, EmissionFollowsLayout
    <3>2. EmittedWords(pass1[j])' = EmittedWords(pass1[j])
      BY <1>1 DEF EmittedWords, InstructionWords, AddArguments, ConvertArgument
    <3>3. QED
      BY <1>1, <3>1, <3>2 DEF Emitted
  <2>3. QED
    BY <2>1, <2>2 DEF EmissionFollowsLayout
<1>4. Progress'
  BY <1>1 DEF IInv, Progress, AfterPass2
<1>5. OutputReachesLineEnd'
  BY <1>1 DEF IInv, OutputReachesLineEnd
<1>6. ImagePlacement'
  <2>1. Written' = Written
    BY <1>1 DEF Written
  <2>2. QED
    BY <1>1, <2>1 DEF IInv, ImagePlacement, SitsAtItsAddress, AddressOf
<1>7. (outcome \in Image => outcome.heap_start = HeapStart)'
  BY <1>1 DEF IInv, HeapStart
<1>8. QED
  BY <1>2, <1>3, <1>4, <1>5, <1>6, <1>7 DEF IInv

LEMMA NextKeepsIInv == IInv /\ [Next]_vars => IInv'
<1>1. IInv /\ Pass1Step => IInv'
  BY DeferCommKeepsIInv, DeferToDataSectionKeepsIInv, KeepLineKeepsIInv,
     PlaceDeferredKeepsIInv, EndOfLoopKeepsIInv DEF Pass1Step
<1>2. IInv /\ Pass2Step => IInv'
  BY CollectLabelsKeepsIInv, EmitLineKeepsIInv, EndOfPass2KeepsIInv DEF Pass2Step
<1>3. IInv /\ OutputStep => IInv'
  BY RejectKeepsIInv, ChooseImageKeepsIInv, PushOpcodeKeepsIInv, SealKbtKeepsIInv,
     NoteStartKeepsIInv, PlaceOpcodeKeepsIInv, SealFlatKeepsIInv DEF OutputStep
<1>4. QED
  BY <1>1, <1>2, <1>3, StutterKeepsIInv DEF Next

(* The strengthened invariant holds in every reachable state.              *)
THEOREM StrengthenedInvariant == Spec => []IInv
<1>1. Init => IInv
  BY InitEstablishesIInv
<1>2. IInv /\ [Next]_vars => IInv'
  BY NextKeepsIInv
<1>3. QED
  BY <1>1, <1>2, PTL DEF Spec

-----------------------------------------------------------------------------
(* What follows from it.                                                   *)

(* Every reachable state of the assembler, for every set of programs and   *)
(* every opcode table, is well typed: in particular no address falls below *)
(* the heap header and every emitted word is a word.                       *)
THEOREM TypeCorrect == Spec => []TypeOK
<1>1. IInv => TypeOK
  BY DEF IInv
<1>2. QED
  BY <1>1, StrengthenedInvariant, PTL

(* create_bin_string's plain concatenation, and build_flat_code's writes   *)
(* at addresses, put every word that pass 2 emitted where pass 1 said.     *)
THEOREM WordsSitAtTheirAddresses == Spec => []ImagePlacement
<1>1. IInv => ImagePlacement
  BY DEF IInv
<1>2. QED
  BY <1>1, StrengthenedInvariant, PTL

LEMMA AlignUpBounds ==
  ASSUME NEW n \in Nat
  PROVE  AlignUp(n) % 8 = 0 /\ AlignUp(n) >= n /\ AlignUp(n) < n + 8
BY DEF AlignUp

LEMMA HeapStartFollowsProgram == IInv => HeapAboveProgram
<1> SUFFICES ASSUME IInv, outcome \in Image
             PROVE  /\ outcome.heap_start % 8 = 0
                    /\ outcome.heap_start >= program_counter
                    /\ outcome.heap_start < program_counter + 8
  BY DEF HeapAboveProgram
<1>1. TypeOK /\ Progress /\ Contiguous /\ OutputReachesLineEnd
      /\ outcome.heap_start = HeapStart
  BY DEF IInv
<1>2. phase = "done"
  BY <1>1, NothingIsAnImageYet DEF Progress
<1>3. Len(pass2) = Len(pass1)
  BY <1>1, <1>2 DEF Progress, AfterPass2
<1>4. program_counter = HeaderBytes + 4 * Len(output)
  BY <1>1, <1>3 DEF Contiguous, OutputReachesLineEnd
<1>5. outcome.heap_start = AlignUp(program_counter)
  BY <1>1, <1>4 DEF HeapStart
<1>6. program_counter \in Nat
  BY <1>1 DEF TypeOK
<1>7. QED
  BY <1>5, <1>6, AlignUpBounds

(* The heap_start that create_bin_string and build_ddr_image compute from  *)
(* the words they emitted is the first 8-byte boundary above the last      *)
(* address that pass 1 handed out.                                         *)
THEOREM HeapStartsAboveProgram == Spec => []HeapAboveProgram
<1>1. IInv => HeapAboveProgram
  BY HeapStartFollowsProgram
<1>2. QED
  BY <1>1, StrengthenedInvariant, PTL

(* An operand word of an accepted program.                                 *)
LEMMA OperandWord ==
  ASSUME IInv, NEW i \in DOMAIN pass2, pass2[i].line_type = "Opcode",
         NEW k \in 2..Len(pass2[i].opcode), k - 1 \in DOMAIN pass2[i].line.operands,
         errors = 0, i \in DOMAIN pass1
  PROVE  pass2[i].opcode[k] = ConvertArgument(pass2[i].line.operands[k - 1],
                                              pass1[i].line_counter, k - 1)
<1> DEFINE line == pass1[i].line
           n == pass1[i].line_counter
<1>1. TypeOK /\ Emitted(i) /\ pass1[i].line_type = LineType(line)
  BY DEF IInv, EmissionFollowsLayout, Classified
<1>2. pass1[i] \in Pass1Line
  BY <1>1, ElementOfSeq DEF TypeOK
<1>3. line \in Line /\ n \in Nat
  BY <1>2 DEF Pass1Line
<1>4. pass1[i].line_type = "Opcode"
  BY <1>1 DEF Emitted, Pass2Type
<1>5. line \in InstructionLine /\ line.op \in DOMAIN Variables
  BY <1>1, <1>3, <1>4, LineTypeType
<1>6. pass2[i].opcode = InstructionWords(line, n) /\ pass2[i].line = line
  BY <1>1, <1>4 DEF Emitted, EmittedWords
<1> HIDE DEF line, n
<1>7. /\ Len(InstructionWords(line, n)) = ArgumentCount(line) + 1
      /\ \A m \in 1..ArgumentCount(line) :
           InstructionWords(line, n)[m + 1] = AddArguments(line, n)[m]
  BY <1>1, <1>3, <1>5, InstructionWordsType
<1>8. ArgumentCount(line) \in Nat
  BY <1>5, ArgumentCountType
<1>9. k - 1 \in 1..ArgumentCount(line) /\ (k - 1) + 1 = k
  BY <1>6, <1>7, <1>8
<1>10. InstructionWords(line, n)[k] = AddArguments(line, n)[k - 1]
  BY <1>7, <1>9
<1>11. AddArguments(line, n)[k - 1] = ConvertArgument(line.operands[k - 1], n, k - 1)
  BY <1>6, <1>9 DEF AddArguments
<1>12. QED
  BY <1>6, <1>10, <1>11 DEF n

LEMMA AcceptedReferencesAgree == IInv => ReferencesAgree
<1> SUFFICES ASSUME IInv, outcome \in Image,
                    NEW i \in DOMAIN pass2, NEW j \in labels,
                    NEW k \in 2..Len(pass2[i].opcode),
                    pass2[i].line_type = "Opcode",
                    k - 1 \in DOMAIN pass2[i].line.operands,
                    pass2[i].line.operands[k - 1].kind = "name",
                    SameName(pass2[i].line.operands[k - 1].name, pass1[j].line.name)
             PROVE  pass2[i].opcode[k].address = pass1[j].program_counter
  BY DEF ReferencesAgree
<1> DEFINE operand == pass2[i].line.operands[k - 1]
<1>1. TypeOK /\ Progress /\ NamesChecked /\ OutputReachesLineEnd
  BY DEF IInv
<1>2. phase = "done" /\ errors = 0
  BY <1>1, NothingIsAnImageYet DEF Progress, OutputReachesLineEnd
<1>3. i \in DOMAIN pass1
  BY <1>1, <1>2 DEF Progress, AfterPass2, TypeOK
<1>4. pass2[i].opcode[k] = ConvertArgument(operand, pass1[i].line_counter, k - 1)
  BY <1>2, <1>3, OperandWord
<1>5. j \in Matches(pass1, labels, operand.name)
  BY DEF Matches, SameName
<1>6. pass2[i].opcode[k].address = ReturnLabelValue(pass1, labels, operand.name)
  BY <1>4, <1>5 DEF ConvertArgument
<1>7. ReturnLabelValue(pass1, labels, operand.name)
        = ReturnLabelValue(pass1, labels, pass1[j].line.name)
  BY LookUpOfSameName
<1>8. Duplicates(pass1, labels) = {}
  BY <1>1, <1>2 DEF NamesChecked, AfterLabels
<1>9. ReturnLabelValue(pass1, labels, pass1[j].line.name) = pass1[j].program_counter
  BY <1>8 DEF Duplicates
<1>10. QED
  BY <1>6, <1>7, <1>9

(* However a name is spelled and however often it is defined, every        *)
(* reference in an image carries the address of every definition: what     *)
(* find_duplicate_label lets through is harmless.                          *)
THEOREM ReferencesAgreeAlways == Spec => []ReferencesAgree
<1>1. IInv => ReferencesAgree
  BY AcceptedReferencesAgree
<1>2. QED
  BY <1>1, StrengthenedInvariant, PTL

-----------------------------------------------------------------------------
(* Where the lines of the source go.  Pass 1 keeps some lines in place and *)
(* defers the others.  What it has placed is first the kept lines, in      *)
(* source order, and then a copy of the deferred ones, in source order;    *)
(* the items of one deferred line are next to each other.                  *)

(* InDataSection, of any source.                                           *)
InSection(src, s) ==
  \E d \in 1..(s - 1) :
    /\ src[d].kind = ".data"
    /\ \A t \in (d + 1)..(s - 1) : src[t].kind # ".text"

Keeps(src, s) ==
  src[s].kind # "comm" /\ ~(InSection(src, s) /\ LineType(src[s]) \in {"Label", "Data"})

ItemCount(src, s) == IF src[s].kind = "comm" THEN Len(CommItems(src[s])) ELSE 1

(* The first n of lines are what pass 1 keeps of source lines 1 to m.      *)
KeptInOrder(src, lines, n, m) ==
  /\ \A i \in 1..n :
       /\ lines[i].line_counter \in 1..m
       /\ Keeps(src, lines[i].line_counter)
       /\ lines[i].line = UpgradeSetr(src[lines[i].line_counter])
  /\ \A i, j \in 1..n : i < j => lines[i].line_counter < lines[j].line_counter
  /\ \A s \in 1..m : Keeps(src, s) => \E i \in 1..n : lines[i].line_counter = s

(* Entries first + 1 to last of items, and no others, come from line s.    *)
Stretch(items, s, first, last) ==
  \A d \in 1..Len(items) : items[d].line_counter = s <=> first < d /\ d <= last

(* items is what pass 1 defers of source lines 1 to m.                     *)
DeferredInOrder(src, items, m) ==
  /\ \A d \in 1..Len(items) :
       /\ items[d].line_counter \in 1..m
       /\ ~Keeps(src, items[d].line_counter)
       /\ src[items[d].line_counter].kind # "comm"
            => items[d].line = src[items[d].line_counter]
  /\ \A c, d \in 1..Len(items) : c < d => items[c].line_counter <= items[d].line_counter
  /\ \A s \in 1..m :
       ~Keeps(src, s) => \E first \in 0..Len(items) :
                           /\ first + ItemCount(src, s) <= Len(items)
                           /\ Stretch(items, s, first, first + ItemCount(src, s))

(* What follows the first n of lines is copied from items, in its order.   *)
Copied(lines, n, items) ==
  \A i \in (n + 1)..Len(lines) :
    /\ i - n \in 1..Len(items)
    /\ lines[i].line_counter = items[i - n].line_counter
    /\ lines[i].line = items[i - n].line

LayoutSoFar ==
  /\ next <= Len(pass0) + 1
  /\ in_data_section <=> InSection(pass0, next)
  /\ KeptInOrder(pass0, pass1, Len(pass1), next - 1)
  /\ DeferredInOrder(pass0, data_pass0, next - 1)

LayoutBehind(n) ==
  /\ KeptInOrder(pass0, pass1, n, Len(pass0))
  /\ DeferredInOrder(pass0, data_pass0, Len(pass0))
  /\ Copied(pass1, n, data_pass0)
  /\ phase = "deferred" => Len(pass1) = n + (next - 1) /\ next <= Len(data_pass0) + 1
  /\ phase # "deferred" => Len(pass1) = n + Len(data_pass0)

Layout ==
  /\ phase = "pass1" => LayoutSoFar
  /\ phase # "pass1" => \E n \in 0..Len(pass1) : LayoutBehind(n)

(* A section directive is in force from the next line on.                  *)
LEMMA SectionOfNext ==
  ASSUME NEW src, NEW m \in Nat \ {0}
  PROVE  InSection(src, m + 1) <=>
           (src[m].kind = ".data" \/ (src[m].kind # ".text" /\ InSection(src, m)))
<1>1. ASSUME InSection(src, m + 1), src[m].kind # ".data"
      PROVE  src[m].kind # ".text" /\ InSection(src, m)
  <2>1. PICK d \in 1..m : /\ src[d].kind = ".data"
                          /\ \A t \in (d + 1)..m : src[t].kind # ".text"
    BY <1>1 DEF InSection
  <2>2. d \in 1..(m - 1) /\ m \in (d + 1)..m
    BY <1>1, <2>1
  <2>3. \A t \in (d + 1)..(m - 1) : t \in (d + 1)..m
    BY <2>2
  <2>4. QED
    BY <2>1, <2>2, <2>3 DEF InSection
<1>2. ASSUME src[m].kind = ".data" PROVE InSection(src, m + 1)
  <2>1. m \in 1..((m + 1) - 1) /\ (m + 1)..((m + 1) - 1) = {}
    OBVIOUS
  <2>2. QED
    BY <1>2, <2>1 DEF InSection
<1>3. ASSUME src[m].kind # ".text", InSection(src, m) PROVE InSection(src, m + 1)
  <2>1. PICK d \in 1..(m - 1) : /\ src[d].kind = ".data"
                                /\ \A t \in (d + 1)..(m - 1) : src[t].kind # ".text"
    BY <1>3 DEF InSection
  <2>2. d \in 1..((m + 1) - 1)
    OBVIOUS
  <2>3. \A t \in (d + 1)..((m + 1) - 1) : t = m \/ t \in (d + 1)..(m - 1)
    OBVIOUS
  <2>4. QED
    BY <1>3, <2>1, <2>2, <2>3 DEF InSection
<1>4. QED
  BY <1>1, <1>2, <1>3

(* A line that is deferred leaves the kept ones as they were.              *)
LEMMA NothingKept ==
  ASSUME NEW src, NEW lines, NEW n \in Nat, NEW m \in Nat \ {0},
         KeptInOrder(src, lines, n, m - 1), ~Keeps(src, m)
  PROVE  KeptInOrder(src, lines, n, m)
<1>1. \A s \in 1..m : s = m \/ s \in 1..(m - 1)
  OBVIOUS
<1>2. \A s \in 1..(m - 1) : s \in 1..m
  OBVIOUS
<1>3. QED
  BY <1>1, <1>2 DEF KeptInOrder

LEMMA KeptNext ==
  ASSUME NEW src, NEW lines \in Seq(Pass1Line), NEW x \in Pass1Line, NEW m \in Nat \ {0},
         KeptInOrder(src, lines, Len(lines), m - 1), Keeps(src, m),
         x.line_counter = m, x.line = UpgradeSetr(src[m])
  PROVE  KeptInOrder(src, Append(lines, x), Len(lines) + 1, m)
<1> DEFINE n == Len(lines)
           longer == Append(lines, x)
<1>1. /\ n \in Nat
      /\ \A i \in 1..n : longer[i] = lines[i]
      /\ longer[n + 1] = x
  BY Appended, LenProperties
<1> HIDE DEF n, longer
<1>2. /\ \A i \in 1..n : /\ lines[i].line_counter \in 1..(m - 1)
                         /\ Keeps(src, lines[i].line_counter)
                         /\ lines[i].line = UpgradeSetr(src[lines[i].line_counter])
      /\ \A i, j \in 1..n : i < j => lines[i].line_counter < lines[j].line_counter
      /\ \A s \in 1..(m - 1) : Keeps(src, s) => \E i \in 1..n : lines[i].line_counter = s
  BY DEF KeptInOrder, n
<1>3. ASSUME NEW i \in 1..(n + 1)
      PROVE  /\ longer[i].line_counter \in 1..m
             /\ Keeps(src, longer[i].line_counter)
             /\ longer[i].line = UpgradeSetr(src[longer[i].line_counter])
  <2>1. CASE i = n + 1
    BY <1>1, <2>1
  <2>2. CASE i \in 1..n
    <3>1. lines[i].line_counter \in 1..m
      BY <1>2, <2>2
    <3>2. QED
      BY <1>1, <1>2, <2>2, <3>1
  <2>3. QED
    BY <1>1, <2>1, <2>2
<1>4. ASSUME NEW i \in 1..(n + 1), NEW j \in 1..(n + 1), i < j
      PROVE  longer[i].line_counter < longer[j].line_counter
  <2>1. i \in 1..n
    BY <1>1, <1>4
  <2>2. CASE j = n + 1
    BY <1>1, <1>2, <2>1, <2>2
  <2>3. CASE j \in 1..n
    BY <1>1, <1>2, <1>4, <2>1, <2>3
  <2>4. QED
    BY <1>1, <2>2, <2>3
<1>5. ASSUME NEW s \in 1..m, Keeps(src, s)
      PROVE  \E i \in 1..(n + 1) : longer[i].line_counter = s
  <2>1. CASE s = m
    <3>1. n + 1 \in 1..(n + 1)
      BY <1>1
    <3>2. QED
      BY <1>1, <2>1, <3>1
  <2>2. CASE s \in 1..(m - 1)
    <3>1. PICK i \in 1..n : lines[i].line_counter = s
      BY <1>2, <1>5, <2>2
    <3>2. i \in 1..(n + 1)
      BY <1>1
    <3>3. QED
      BY <1>1, <3>1, <3>2
  <2>3. QED
    BY <2>1, <2>2
<1>6. QED
  BY <1>3, <1>4, <1>5 DEF KeptInOrder, n, longer

(* A line that is kept leaves the deferred ones as they were.              *)
LEMMA NothingDeferred ==
  ASSUME NEW src, NEW items, NEW m \in Nat \ {0},
         DeferredInOrder(src, items, m - 1), Keeps(src, m)
  PROVE  DeferredInOrder(src, items, m)
<1>1. \A s \in 1..m : s = m \/ s \in 1..(m - 1)
  OBVIOUS
<1>2. \A s \in 1..(m - 1) : s \in 1..m
  OBVIOUS
<1>3. QED
  BY <1>1, <1>2 DEF DeferredInOrder

LEMMA DeferredNext ==
  ASSUME NEW src, NEW items \in Seq(DeferredLine), NEW moved \in Seq(DeferredLine),
         NEW m \in Nat \ {0}, DeferredInOrder(src, items, m - 1), ~Keeps(src, m),
         Len(moved) = ItemCount(src, m), \A s \in 1..m : ItemCount(src, s) \in Nat,
         \A d \in 1..Len(moved) :
           /\ moved[d].line_counter = m
           /\ src[m].kind # "comm" => moved[d].line = src[m]
  PROVE  DeferredInOrder(src, items \o moved, m)
<1> DEFINE n == Len(items)
           k == Len(moved)
           longer == items \o moved
<1>1. /\ n \in Nat /\ k \in Nat /\ Len(longer) = n + k
      /\ \A d \in 1..n : longer[d] = items[d]
      /\ \A d \in 1..(n + k) : d > n => longer[d] = moved[d - n]
  <2>1. n \in Nat /\ k \in Nat /\ Len(longer) = n + k
    BY ConcatProperties, LenProperties
  <2>2. \A d \in 1..n : longer[d] = items[d]
    BY <2>1, ConcatProperties
  <2>3. \A d \in 1..(n + k) : d > n => longer[d] = moved[d - n]
    BY <2>1, ConcatProperties
  <2>4. QED
    BY <2>1, <2>2, <2>3
<1> HIDE DEF n, k, longer
<1>2. \A d \in 1..(n + k) : d \in 1..n \/ (d > n /\ d - n \in 1..k)
  BY <1>1
<1>3. /\ \A d \in 1..n :
           /\ items[d].line_counter \in 1..(m - 1)
           /\ ~Keeps(src, items[d].line_counter)
           /\ src[items[d].line_counter].kind # "comm"
                => items[d].line = src[items[d].line_counter]
      /\ \A c, d \in 1..n : c < d => items[c].line_counter <= items[d].line_counter
      /\ \A s \in 1..(m - 1) :
           ~Keeps(src, s) => \E first \in 0..n :
                               /\ first + ItemCount(src, s) <= n
                               /\ Stretch(items, s, first, first + ItemCount(src, s))
  BY DEF DeferredInOrder, n
<1>4. \A d \in 1..n : longer[d].line_counter \in 1..(m - 1)
                        /\ longer[d].line_counter = items[d].line_counter
  BY <1>1, <1>3
<1>5. \A d \in 1..(n + k) : d > n =>
        longer[d].line_counter = m /\ (src[m].kind # "comm" => longer[d].line = src[m])
  BY <1>1, <1>2 DEF k
<1>6. ASSUME NEW d \in 1..(n + k)
      PROVE  /\ longer[d].line_counter \in 1..m
             /\ ~Keeps(src, longer[d].line_counter)
             /\ src[longer[d].line_counter].kind # "comm"
                  => longer[d].line = src[longer[d].line_counter]
  <2>1. CASE d \in 1..n
    <3>1. items[d].line_counter \in 1..m
      BY <1>3, <2>1
    <3>2. QED
      BY <1>1, <1>3, <2>1, <3>1
  <2>2. CASE d > n
    BY <1>5, <2>2
  <2>3. QED
    BY <1>2, <2>1, <2>2
<1>7. ASSUME NEW c \in 1..(n + k), NEW d \in 1..(n + k), c < d
      PROVE  longer[c].line_counter <= longer[d].line_counter
  <2>1. CASE d \in 1..n
    <3>1. c \in 1..n
      BY <1>1, <1>7, <2>1
    <3>2. QED
      BY <1>3, <1>4, <1>7, <2>1, <3>1
  <2>2. CASE d > n
    <3>1. longer[c].line_counter \in 1..m
      BY <1>6
    <3>2. QED
      BY <1>5, <2>2, <3>1
  <2>3. QED
    BY <1>2, <2>1, <2>2
<1>8. ASSUME NEW s \in 1..m, ~Keeps(src, s)
      PROVE  \E first \in 0..(n + k) :
               /\ first + ItemCount(src, s) <= n + k
               /\ Stretch(longer, s, first, first + ItemCount(src, s))
  <2>1. CASE s = m
    <3>1. n \in 0..(n + k) /\ n + ItemCount(src, s) <= n + k
      BY <1>1, <2>1 DEF k
    <3>2. \A d \in 1..(n + k) : longer[d].line_counter = m <=> n < d /\ d <= n + k
      <4>1. \A d \in 1..n : longer[d].line_counter # m /\ ~(n < d)
        BY <1>1, <1>4
      <4>2. QED
        BY <1>2, <1>5, <4>1
    <3>3. Stretch(longer, s, n, n + ItemCount(src, s))
      BY <1>1, <2>1, <3>2 DEF Stretch, k
    <3>4. QED
      BY <3>1, <3>3
  <2>2. CASE s \in 1..(m - 1)
    <3>1. PICK first \in 0..n : /\ first + ItemCount(src, s) <= n
                                /\ Stretch(items, s, first, first + ItemCount(src, s))
      BY <1>3, <1>8, <2>2
    <3> DEFINE last == first + ItemCount(src, s)
    <3>2. last \in Nat /\ last <= n
      BY <1>1, <3>1
    <3> HIDE DEF last
    <3>3. ASSUME NEW d \in 1..(n + k)
          PROVE  longer[d].line_counter = s <=> first < d /\ d <= last
      <4>1. CASE d \in 1..n
        <5>1. items[d].line_counter = s <=> first < d /\ d <= last
          BY <3>1, <4>1 DEF Stretch, n, last
        <5>2. QED
          BY <1>4, <4>1, <5>1
      <4>2. CASE d > n
        <5>1. longer[d].line_counter # s
          BY <1>5, <2>2, <4>2
        <5>2. ~(d <= last)
          BY <1>1, <3>2, <4>2
        <5>3. QED
          BY <5>1, <5>2
      <4>3. QED
        BY <1>2, <4>1, <4>2
    <3>4. Stretch(longer, s, first, last)
      BY <1>1, <3>3 DEF Stretch
    <3>5. first \in 0..(n + k) /\ last <= n + k
      BY <1>1, <3>1, <3>2 DEF last
    <3>6. QED
      BY <3>4, <3>5 DEF last
  <2>3. QED
    BY <2>1, <2>2
<1>9. QED
  BY <1>1, <1>6, <1>7, <1>8 DEF DeferredInOrder, longer

LEMMA CopiedNext ==
  ASSUME NEW src, NEW lines \in Seq(Pass1Line), NEW x \in Pass1Line, NEW n \in 0..Len(lines),
         NEW m, KeptInOrder(src, lines, n, m),
         NEW items \in Seq(DeferredLine), Copied(lines, n, items),
         NEW d \in 1..Len(items), Len(lines) = n + (d - 1),
         x.line_counter = items[d].line_counter, x.line = items[d].line
  PROVE  /\ KeptInOrder(src, Append(lines, x), n, m)
         /\ Copied(Append(lines, x), n, items)
<1> DEFINE longer == Append(lines, x)
<1>1. /\ Len(lines) \in Nat
      /\ Len(longer) = Len(lines) + 1
      /\ \A i \in 1..Len(lines) : longer[i] = lines[i]
      /\ longer[Len(lines) + 1] = x
  BY Appended, LenProperties
<1> HIDE DEF longer
<1>2. \A i \in 1..n : longer[i] = lines[i]
  BY <1>1
<1>3. KeptInOrder(src, longer, n, m)
  BY <1>2 DEF KeptInOrder
<1>4. ASSUME NEW i \in (n + 1)..Len(longer)
      PROVE  /\ i - n \in 1..Len(items)
             /\ longer[i].line_counter = items[i - n].line_counter
             /\ longer[i].line = items[i - n].line
  <2>1. CASE i = Len(lines) + 1
    <3>1. i - n = d
      BY <1>1, <2>1
    <3>2. QED
      BY <1>1, <2>1, <3>1
  <2>2. CASE i \in (n + 1)..Len(lines)
    <3>1. i \in 1..Len(lines)
      BY <1>1, <2>2
    <3>2. QED
      BY <1>1, <2>2, <3>1 DEF Copied
  <2>3. QED
    BY <1>1, <2>1, <2>2
<1>5. QED
  BY <1>3, <1>4 DEF Copied, longer

LEMMA ItemCountType ==
  ASSUME NEW src \in Seq(Line), NEW s \in 1..Len(src)
  PROVE  ItemCount(src, s) \in Nat
<1>1. src[s] \in Line
  BY ElementOfSeq
<1>2. src[s].kind = "comm" => Len(CommItems(src[s])) \in Nat
  BY <1>1, CommItemsType, LenProperties
<1>3. QED
  BY <1>2 DEF ItemCount

LEMMA InitEstablishesLayout == Init => Layout
<1> SUFFICES ASSUME Init PROVE Layout
  OBVIOUS
<1>1. pass0 \in Seq(Line) /\ Len(pass0) \in Nat
  BY ProgramsAssumption, LenProperties DEF Init
<1>2. phase = "pass1" /\ next = 1 /\ in_data_section = FALSE
      /\ pass1 = << >> /\ data_pass0 = << >>
  BY DEF Init
<1>3. ~InSection(pass0, next)
  BY <1>2 DEF InSection
<1>4. KeptInOrder(pass0, pass1, Len(pass1), next - 1)
  BY <1>2 DEF KeptInOrder
<1>5. DeferredInOrder(pass0, data_pass0, next - 1)
  BY <1>2 DEF DeferredInOrder
<1>6. LayoutSoFar
  BY <1>1, <1>2, <1>3, <1>4, <1>5 DEF LayoutSoFar
<1>7. QED
  BY <1>2, <1>6 DEF Layout

(* What is known while pass 1 reads line next.                             *)
LEMMA ReadingLine ==
  ASSUME IInv, Layout, phase = "pass1", next <= Len(pass0)
  PROVE  /\ pass0 \in Seq(Line) /\ pass0[next] \in Line
         /\ next \in Nat \ {0} /\ next \in 1..Len(pass0)
         /\ pass1 \in Seq(Pass1Line) /\ data_pass0 \in Seq(DeferredLine)
         /\ \A s \in 1..next : ItemCount(pass0, s) \in Nat
         /\ in_data_section <=> InSection(pass0, next)
         /\ KeptInOrder(pass0, pass1, Len(pass1), next - 1)
         /\ DeferredInOrder(pass0, data_pass0, next - 1)
         /\ pass0[next].kind # "comm" => (MovesToEnd(pass0[next]) <=> ~Keeps(pass0, next))
<1>1. /\ pass0 \in Seq(Line) /\ next \in Nat \ {0}
      /\ pass1 \in Seq(Pass1Line) /\ data_pass0 \in Seq(DeferredLine)
  BY DEF IInv, TypeOK
<1>2. next \in 1..Len(pass0) /\ pass0[next] \in Line
  BY <1>1, ElementOfSeq, LenProperties
<1>3. \A s \in 1..next : ItemCount(pass0, s) \in Nat
  BY <1>1, <1>2, ItemCountType
<1>4. LayoutSoFar
  BY DEF Layout
<1>5. pass0[next].kind # "comm" => (MovesToEnd(pass0[next]) <=> ~Keeps(pass0, next))
  BY <1>4, Zenon DEF LayoutSoFar, MovesToEnd, Keeps
<1>6. QED
  BY <1>1, <1>2, <1>3, <1>4, <1>5 DEF LayoutSoFar

(* The section a line that is no section directive leaves in force.        *)
LEMMA SectionUnchanged ==
  ASSUME IInv, Layout, phase = "pass1", next <= Len(pass0),
         pass0[next].kind \notin {".text", ".data"}, pass0' = pass0,
         next' = next + 1, in_data_section' = in_data_section
  PROVE  in_data_section' <=> InSection(pass0', next')
<1>1. next \in Nat \ {0} /\ (in_data_section <=> InSection(pass0, next))
  BY ReadingLine
<1>2. InSection(pass0, next + 1) <=> InSection(pass0, next)
  BY <1>1, SectionOfNext
<1>3. QED
  BY <1>1, <1>2

LEMMA DeferCommKeepsLayout == IInv /\ Layout /\ DeferComm => Layout'
<1> SUFFICES ASSUME IInv, Layout, DeferComm PROVE Layout'
  OBVIOUS
<1> DEFINE items == CommItems(pass0[next])
           moved == [i \in 1..Len(items) |-> [line |-> items[i], line_counter |-> next]]
<1>1. /\ phase = "pass1" /\ next <= Len(pass0) /\ pass0[next].kind = "comm"
      /\ next' = next + 1
      /\ UNCHANGED << pass0, phase, in_data_section, pass1 >>
  BY DEF DeferComm
<1>2. data_pass0' = data_pass0 \o moved
  BY DEF DeferComm
<1>3. /\ pass0[next] \in Line /\ next \in Nat \ {0} /\ next \in 1..Len(pass0)
      /\ pass1 \in Seq(Pass1Line) /\ data_pass0 \in Seq(DeferredLine)
      /\ \A s \in 1..next : ItemCount(pass0, s) \in Nat
      /\ KeptInOrder(pass0, pass1, Len(pass1), next - 1)
      /\ DeferredInOrder(pass0, data_pass0, next - 1)
  BY <1>1, ReadingLine
<1>4. ~Keeps(pass0, next)
  BY <1>1 DEF Keeps
<1>5. items \in Seq(Line) /\ Len(items) \in Nat /\ \A i \in 1..Len(items) : items[i] \in Line
  BY <1>1, <1>3, CommItemsType
<1>6. /\ moved \in Seq(DeferredLine)
      /\ Len(moved) = Len(items)
      /\ \A d \in 1..Len(moved) : moved[d].line_counter = next
  <2> HIDE DEF items
  <2>1. moved \in [1..Len(items) -> DeferredLine]
    BY <1>3, <1>5 DEF DeferredLine
  <2>2. QED
    BY <1>5, <2>1, TabulatedSeq
<1> HIDE DEF moved
<1>7. Len(moved) = ItemCount(pass0, next)
  BY <1>1, <1>6 DEF ItemCount
<1>8. DeferredInOrder(pass0, data_pass0 \o moved, next)
  BY <1>1, <1>3, <1>4, <1>6, <1>7, DeferredNext
<1>9. KeptInOrder(pass0, pass1, Len(pass1), next)
  BY <1>3, <1>4, NothingKept, LenProperties
<1>10. next' - 1 = next /\ next' <= Len(pass0) + 1
  BY <1>1, <1>3
<1>11. in_data_section' <=> InSection(pass0', next')
  BY <1>1, SectionUnchanged
<1>12. LayoutSoFar'
  BY <1>1, <1>2, <1>8, <1>9, <1>10, <1>11 DEF LayoutSoFar
<1>13. QED
  BY <1>1, <1>12 DEF Layout

LEMMA DeferToDataSectionKeepsLayout == IInv /\ Layout /\ DeferToDataSection => Layout'
<1> SUFFICES ASSUME IInv, Layout, DeferToDataSection PROVE Layout'
  OBVIOUS
<1> DEFINE item == [line |-> pass0[next], line_counter |-> next]
<1>1. /\ phase = "pass1" /\ next <= Len(pass0) /\ pass0[next].kind # "comm"
      /\ MovesToEnd(pass0[next])
      /\ next' = next + 1
      /\ UNCHANGED << pass0, phase, in_data_section, pass1 >>
  BY DEF DeferToDataSection
<1>2. data_pass0' = Append(data_pass0, item)
  BY DEF DeferToDataSection
<1>3. /\ pass0[next] \in Line /\ next \in Nat \ {0} /\ next \in 1..Len(pass0)
      /\ pass1 \in Seq(Pass1Line) /\ data_pass0 \in Seq(DeferredLine)
      /\ \A s \in 1..next : ItemCount(pass0, s) \in Nat
      /\ KeptInOrder(pass0, pass1, Len(pass1), next - 1)
      /\ DeferredInOrder(pass0, data_pass0, next - 1)
      /\ ~Keeps(pass0, next)
  BY <1>1, ReadingLine
<1>4. LineType(pass0[next]) \in {"Label", "Data"}
  BY <1>1 DEF MovesToEnd
<1>5. pass0[next].kind \in {"label", "data"}
  BY <1>4 DEF LineType
<1>6. item \in DeferredLine /\ item.line_counter = next /\ item.line = pass0[next]
  BY <1>3 DEF DeferredLine
<1> HIDE DEF item
<1>7. /\ << item >> \in Seq(DeferredLine) /\ Len(<< item >>) = 1
      /\ \A d \in 1..1 : << item >>[d] = item
  BY <1>6
<1>8. data_pass0' = data_pass0 \o << item >>
  BY <1>2, <1>3, <1>6, AppendIsConcat
<1>9. Len(<< item >>) = ItemCount(pass0, next)
  BY <1>1, <1>7 DEF ItemCount
<1>10. DeferredInOrder(pass0, data_pass0 \o << item >>, next)
  <2>1. \A d \in 1..Len(<< item >>) :
          /\ << item >>[d].line_counter = next
          /\ pass0[next].kind # "comm" => << item >>[d].line = pass0[next]
    BY <1>6, <1>7
  <2>2. QED
    BY <1>3, <1>7, <1>9, <2>1, DeferredNext
<1>11. KeptInOrder(pass0, pass1, Len(pass1), next)
  BY <1>3, NothingKept, LenProperties
<1>12. next' - 1 = next /\ next' <= Len(pass0) + 1
  BY <1>1, <1>3
<1>13. in_data_section' <=> InSection(pass0', next')
  BY <1>1, <1>5, SectionUnchanged
<1>14. LayoutSoFar'
  BY <1>1, <1>8, <1>10, <1>11, <1>12, <1>13 DEF LayoutSoFar
<1>15. QED
  BY <1>1, <1>14 DEF Layout

LEMMA KeepLineKeepsLayout == IInv /\ Layout /\ KeepLine => Layout'
<1> SUFFICES ASSUME IInv, Layout, KeepLine PROVE Layout'
  OBVIOUS
<1> DEFINE line == UpgradeSetr(pass0[next])
           p    == Placed(line, next)
<1>1. /\ phase = "pass1" /\ next <= Len(pass0) /\ pass0[next].kind # "comm"
      /\ ~MovesToEnd(pass0[next])
      /\ pass1' = Append(pass1, p)
      /\ next' = next + 1
      /\ UNCHANGED << pass0, phase, data_pass0 >>
  BY DEF KeepLine
<1>2. /\ pass0[next] \in Line /\ next \in Nat \ {0} /\ next \in 1..Len(pass0)
      /\ pass1 \in Seq(Pass1Line) /\ data_pass0 \in Seq(DeferredLine)
      /\ in_data_section <=> InSection(pass0, next)
      /\ KeptInOrder(pass0, pass1, Len(pass1), next - 1)
      /\ DeferredInOrder(pass0, data_pass0, next - 1)
      /\ Keeps(pass0, next)
  BY <1>1, ReadingLine
<1>3. p \in Pass1Line /\ p.line_counter = next /\ p.line = line
  <2>1. line \in Line /\ LineType(line) \in LineTypes
    BY <1>2, UpgradeSetrType, LineTypeType
  <2>2. program_counter \in Nat
    BY DEF IInv, TypeOK
  <2> HIDE DEF line
  <2>3. QED
    BY <1>2, <2>1, <2>2 DEF Placed, Pass1Line
<1> HIDE DEF p
<1>4. KeptInOrder(pass0, Append(pass1, p), Len(pass1) + 1, next)
  BY <1>2, <1>3, KeptNext
<1>5. Len(pass1') = Len(pass1) + 1
  BY <1>1, <1>2, <1>3, Appended
<1>6. DeferredInOrder(pass0, data_pass0, next)
  BY <1>2, NothingDeferred
<1>7. next' - 1 = next /\ next' <= Len(pass0) + 1
  BY <1>1, <1>2
<1>8. in_data_section' <=> InSection(pass0', next')
  <2>1. CASE pass0[next].kind \notin {".text", ".data"}
    <3>1. in_data_section' = in_data_section
      BY <2>1 DEF KeepLine
    <3>2. QED
      BY <1>1, <2>1, <3>1, SectionUnchanged
  <2>2. CASE pass0[next].kind = ".text"
    <3>1. ~in_data_section'
      BY <2>2 DEF KeepLine
    <3>2. ~InSection(pass0, next + 1)
      BY <1>2, <2>2, SectionOfNext
    <3>3. QED
      BY <1>1, <3>1, <3>2
  <2>3. CASE pass0[next].kind = ".data"
    <3>1. in_data_section'
      BY <2>3 DEF KeepLine
    <3>2. InSection(pass0, next + 1)
      BY <1>2, <2>3, SectionOfNext
    <3>3. QED
      BY <1>1, <3>1, <3>2
  <2>4. QED
    BY <2>1, <2>2, <2>3
<1>9. LayoutSoFar'
  BY <1>1, <1>4, <1>5, <1>6, <1>7, <1>8 DEF LayoutSoFar
<1>10. QED
  BY <1>1, <1>9 DEF Layout

LEMMA EndOfSourceKeepsLayout == IInv /\ Layout /\ EndOfSource => Layout'
<1> SUFFICES ASSUME IInv, Layout, EndOfSource PROVE Layout'
  OBVIOUS
<1>1. /\ phase = "pass1" /\ next > Len(pass0)
      /\ phase' = "deferred" /\ next' = 1
      /\ UNCHANGED << pass0, data_pass0, pass1 >>
  BY DEF EndOfSource
<1>2. LayoutSoFar
  BY <1>1 DEF Layout
<1>3. next \in Nat /\ Len(pass0) \in Nat /\ Len(pass1) \in Nat /\ Len(data_pass0) \in Nat
  BY LenProperties DEF IInv, TypeOK
<1>4. next - 1 = Len(pass0)
  BY <1>1, <1>2, <1>3 DEF LayoutSoFar
<1>5. Copied(pass1, Len(pass1), data_pass0)
  BY <1>3 DEF Copied
<1>6. LayoutBehind(Len(pass1))'
  <2>1. KeptInOrder(pass0, pass1, Len(pass1), Len(pass0))
        /\ DeferredInOrder(pass0, data_pass0, Len(pass0))
    BY <1>2, <1>4 DEF LayoutSoFar
  <2>2. Len(pass1) = Len(pass1) + (1 - 1) /\ 1 <= Len(data_pass0) + 1
    BY <1>3
  <2>3. QED
    BY <1>1, <1>5, <2>1, <2>2 DEF LayoutBehind
<1>7. Len(pass1)' \in 0..Len(pass1)'
  BY <1>1, <1>3
<1>8. QED
  BY <1>1, <1>6, <1>7 DEF Layout

LEMMA PlaceDeferredKeepsLayout == IInv /\ Layout /\ PlaceDeferred => Layout'
<1> SUFFICES ASSUME IInv, Layout, PlaceDeferred PROVE Layout'
  OBVIOUS
<1> DEFINE p == Placed(data_pass0[next].line, data_pass0[next].line_counter)
<1>1. /\ phase = "deferred" /\ next <= Len(data_pass0)
      /\ pass1' = Append(pass1, p)
      /\ next' = next + 1
      /\ UNCHANGED << pass0, phase, data_pass0 >>
  BY DEF PlaceDeferred
<1>2. /\ next \in Nat \ {0} /\ program_counter \in Nat
      /\ pass1 \in Seq(Pass1Line) /\ data_pass0 \in Seq(DeferredLine)
  BY DEF IInv, TypeOK
<1>3. next \in 1..Len(data_pass0) /\ data_pass0[next] \in DeferredLine
  BY <1>1, <1>2, ElementOfSeq, LenProperties
<1>4. /\ p \in Pass1Line
      /\ p.line_counter = data_pass0[next].line_counter
      /\ p.line = data_pass0[next].line
  <2>1. /\ data_pass0[next].line \in Line
        /\ data_pass0[next].line_counter \in Nat
        /\ LineType(data_pass0[next].line) \in LineTypes
    BY <1>3, LineTypeType DEF DeferredLine
  <2>2. QED
    BY <1>2, <2>1 DEF Placed, Pass1Line
<1> HIDE DEF p
<1>5. PICK n \in 0..Len(pass1) : LayoutBehind(n)
  BY <1>1 DEF Layout
<1>6. /\ KeptInOrder(pass0, pass1, n, Len(pass0))
      /\ DeferredInOrder(pass0, data_pass0, Len(pass0))
      /\ Copied(pass1, n, data_pass0)
      /\ Len(pass1) = n + (next - 1)
  BY <1>1, <1>5 DEF LayoutBehind
<1>7. KeptInOrder(pass0, Append(pass1, p), n, Len(pass0))
      /\ Copied(Append(pass1, p), n, data_pass0)
  BY <1>2, <1>3, <1>4, <1>6, CopiedNext
<1>8. Len(pass1') = Len(pass1) + 1 /\ Len(pass1) \in Nat
  BY <1>1, <1>2, <1>4, Appended, LenProperties
<1>9. Len(pass1') = n + (next' - 1) /\ next' <= Len(data_pass0) + 1 /\ n \in 0..Len(pass1')
  BY <1>1, <1>2, <1>3, <1>6, <1>8
<1>10. LayoutBehind(n)'
  BY <1>1, <1>6, <1>7, <1>9 DEF LayoutBehind
<1>11. QED
  BY <1>1, <1>9, <1>10 DEF Layout

LEMMA EndOfDeferredKeepsLayout == IInv /\ Layout /\ EndOfDeferred => Layout'
<1> SUFFICES ASSUME IInv, Layout, EndOfDeferred PROVE Layout'
  OBVIOUS
<1>1. /\ phase = "deferred" /\ next > Len(data_pass0)
      /\ phase' = "labels"
      /\ UNCHANGED << pass0, data_pass0, pass1 >>
  BY DEF EndOfDeferred
<1>2. PICK n \in 0..Len(pass1) : LayoutBehind(n)
  BY <1>1 DEF Layout
<1>3. next \in Nat /\ Len(data_pass0) \in Nat
  BY LenProperties DEF IInv, TypeOK
<1>4. Len(pass1) = n + Len(data_pass0)
  <2>1. Len(pass1) = n + (next - 1) /\ next <= Len(data_pass0) + 1
    BY <1>1, <1>2 DEF LayoutBehind
  <2>2. QED
    BY <1>1, <1>3, <2>1
<1>5. LayoutBehind(n)'
  BY <1>1, <1>2, <1>4 DEF LayoutBehind
<1>6. QED
  BY <1>1, <1>5 DEF Layout

LaterStep ==
  \/ Pass2Step \/ OutputStep
  \/ UNCHANGED vars

LEMMA LaterStepKeepsLayout == IInv /\ Layout /\ LaterStep => Layout'
<1> SUFFICES ASSUME IInv, Layout, LaterStep PROVE Layout'
  OBVIOUS
<1>1. CASE UNCHANGED vars
  BY <1>1 DEF vars, Layout, LayoutSoFar, LayoutBehind
<1>2. CASE Pass2Step \/ OutputStep
  <2>1. /\ phase \notin {"pass1", "deferred"} /\ phase' \notin {"pass1", "deferred"}
        /\ UNCHANGED << pass0, data_pass0, pass1 >>
    <3>1. CASE CollectLabels \/ EmitLine \/ EndOfPass2
      BY <3>1 DEF CollectLabels, EmitLine, EndOfPass2
    <3>2. CASE RejectErrors \/ ChooseImage \/ PushOpcode
      BY <3>2 DEF RejectErrors, ChooseImage, PushOpcode
    <3>3. CASE SealKbt \/ RejectKbt \/ NoteStart
      BY <3>3 DEF SealKbt, RejectKbt, NoteStart
    <3>4. CASE PlaceOpcode \/ SealFlat \/ RejectFlat
      BY <3>4 DEF PlaceOpcode, SealFlat, RejectFlat
    <3>5. QED
      BY <1>2, <3>1, <3>2, <3>3, <3>4 DEF Pass2Step, OutputStep
  <2>2. PICK n \in 0..Len(pass1) : LayoutBehind(n)
    BY <2>1 DEF Layout
  <2>3. LayoutBehind(n)'
    BY <2>1, <2>2 DEF LayoutBehind
  <2>4. QED
    BY <2>1, <2>3 DEF Layout
<1>3. QED
  BY <1>1, <1>2 DEF LaterStep

LEMMA NextKeepsLayout == IInv /\ Layout /\ [Next]_vars => Layout'
BY DeferCommKeepsLayout, DeferToDataSectionKeepsLayout, KeepLineKeepsLayout,
   EndOfSourceKeepsLayout, PlaceDeferredKeepsLayout, EndOfDeferredKeepsLayout,
   LaterStepKeepsLayout
   DEF Next, Pass1Step, LaterStep

(* What pass 1 has placed is the kept lines and then the deferred ones.    *)
THEOREM LayoutAlways == Spec => []Layout
<1>1. Init => IInv /\ Layout
  BY InitEstablishesIInv, InitEstablishesLayout
<1>2. IInv /\ Layout /\ [Next]_vars => (IInv /\ Layout)'
  BY NextKeepsIInv, NextKeepsLayout
<1>3. QED
  BY <1>1, <1>2, PTL DEF Spec

-----------------------------------------------------------------------------
(* LinesSurviveDeferral.                                                   *)

(* What the layout is once pass 1 is over.                                 *)
LEMMA LayoutOnceLaidOut ==
  ASSUME IInv, Layout, LaidOut
  PROVE  \E n \in 0..Len(pass1) :
           /\ KeptInOrder(pass0, pass1, n, Len(pass0))
           /\ DeferredInOrder(pass0, data_pass0, Len(pass0))
           /\ Copied(pass1, n, data_pass0)
           /\ Len(pass1) = n + Len(data_pass0)
<1>1. phase \notin {"pass1", "deferred"}
  BY DEF LaidOut
<1>2. QED
  BY <1>1 DEF Layout, LayoutBehind

LEMMA ItemsOfKeptLine ==
  ASSUME NEW n \in 0..Len(pass1), NEW m \in Nat, pass1 \in Seq(Pass1Line),
         data_pass0 \in Seq(DeferredLine),
         KeptInOrder(pass0, pass1, n, m), DeferredInOrder(pass0, data_pass0, m),
         Copied(pass1, n, data_pass0), NEW s \in 1..m, Keeps(pass0, s)
  PROVE  \E i \in 1..n : ItemsOf(s) = {i}
<1>1. PICK i \in 1..n : pass1[i].line_counter = s
  BY DEF KeptInOrder
<1>2. Len(pass1) \in Nat /\ DOMAIN pass1 = 1..Len(pass1) /\ i \in DOMAIN pass1
  BY LenProperties
<1>3. ASSUME NEW j \in DOMAIN pass1, pass1[j].line_counter = s PROVE j = i
  <2>1. CASE j \in 1..n
    <3>1. \A a, b \in 1..n : a < b => pass1[a].line_counter < pass1[b].line_counter
      BY DEF KeptInOrder
    <3>2. ~(s < s)
      OBVIOUS
    <3>3. ~(i < j) /\ ~(j < i)
      BY <1>1, <1>3, <2>1, <3>1, <3>2
    <3>4. QED
      BY <2>1, <3>3
  <2>2. CASE j \in (n + 1)..Len(pass1)
    <3>1. j - n \in 1..Len(data_pass0) /\ data_pass0[j - n].line_counter = s
      BY <1>3, <2>2 DEF Copied
    <3>2. QED
      BY <3>1 DEF DeferredInOrder
  <2>3. QED
    BY <1>2, <2>1, <2>2
<1>4. ItemsOf(s) = {i}
  BY <1>1, <1>2, <1>3 DEF ItemsOf
<1>5. QED
  BY <1>4

LEMMA ItemsOfDeferredLine ==
  ASSUME NEW n \in 0..Len(pass1), NEW m \in Nat, pass1 \in Seq(Pass1Line),
         data_pass0 \in Seq(DeferredLine), Len(pass1) = n + Len(data_pass0),
         KeptInOrder(pass0, pass1, n, m), DeferredInOrder(pass0, data_pass0, m),
         Copied(pass1, n, data_pass0), NEW s \in 1..m, ~Keeps(pass0, s),
         ItemCount(pass0, s) \in Nat
  PROVE  \E first \in Nat : ItemsOf(s) = (n + first + 1)..(n + first + ItemCount(pass0, s))
<1> DEFINE count == ItemCount(pass0, s)
<1>1. PICK first \in 0..Len(data_pass0) :
             /\ first + count <= Len(data_pass0)
             /\ Stretch(data_pass0, s, first, first + count)
  BY DEF DeferredInOrder
<1>2. /\ Len(data_pass0) \in Nat /\ DOMAIN pass1 = 1..(n + Len(data_pass0))
      /\ count \in Nat /\ n \in Nat /\ first \in Nat
  BY LenProperties
<1> HIDE DEF count
<1>3. \A d \in 1..Len(data_pass0) :
        data_pass0[d].line_counter = s <=> first < d /\ d <= first + count
  BY <1>1 DEF Stretch
<1>4. ASSUME NEW j \in ItemsOf(s) PROVE j \in (n + first + 1)..(n + first + count)
  <2>1. j \in 1..(n + Len(data_pass0)) /\ pass1[j].line_counter = s
    BY <1>2 DEF ItemsOf
  <2>2. j \notin 1..n
    BY <2>1 DEF KeptInOrder
  <2>3. j \in (n + 1)..Len(pass1)
    BY <1>2, <2>1, <2>2
  <2>4. j - n \in 1..Len(data_pass0) /\ data_pass0[j - n].line_counter = s
    BY <2>1, <2>3 DEF Copied
  <2>5. first < j - n /\ j - n <= first + count
    BY <1>3, <2>4
  <2>6. QED
    BY <1>2, <2>1, <2>5
<1>5. ASSUME NEW j \in (n + first + 1)..(n + first + count) PROVE j \in ItemsOf(s)
  <2>1. j \in (n + 1)..Len(pass1) /\ j \in DOMAIN pass1 /\ first < j - n /\ j - n <= first + count
    BY <1>1, <1>2
  <2>2. j - n \in 1..Len(data_pass0)
        /\ pass1[j].line_counter = data_pass0[j - n].line_counter
    BY <2>1 DEF Copied
  <2>3. QED
    BY <1>3, <2>1, <2>2 DEF ItemsOf
<1>6. ItemsOf(s) = (n + first + 1)..(n + first + count)
  BY <1>4, <1>5
<1>7. QED
  BY <1>2, <1>6 DEF count

LEMMA LaidOutLinesSurvive == IInv /\ Layout => LinesSurviveDeferral
<1> SUFFICES ASSUME IInv, Layout, LaidOut
             PROVE  LinesSurviveDeferral
  BY DEF LinesSurviveDeferral
<1> DEFINE m == Len(pass0)
<1>1. /\ pass0 \in Seq(Line) /\ m \in Nat /\ DOMAIN pass0 = 1..m
      /\ pass1 \in Seq(Pass1Line) /\ Len(pass1) \in Nat /\ DOMAIN pass1 = 1..Len(pass1)
      /\ data_pass0 \in Seq(DeferredLine) /\ Len(data_pass0) \in Nat
  BY LenProperties DEF IInv, TypeOK
<1>2. PICK n \in 0..Len(pass1) :
             /\ KeptInOrder(pass0, pass1, n, m)
             /\ DeferredInOrder(pass0, data_pass0, m)
             /\ Copied(pass1, n, data_pass0)
             /\ Len(pass1) = n + Len(data_pass0)
  BY LayoutOnceLaidOut
<1> HIDE DEF m
<1>3. ASSUME NEW s \in DOMAIN pass0
      PROVE  Cardinality(ItemsOf(s)) = ItemCount(pass0, s)
  <2>1. s \in 1..m /\ ItemCount(pass0, s) \in Nat
    BY <1>1, <1>3, ItemCountType DEF m
  <2>2. CASE Keeps(pass0, s)
    <3>1. PICK i \in 1..n : ItemsOf(s) = {i}
      BY <1>1, <1>2, <2>1, <2>2, ItemsOfKeptLine
    <3>2. ItemCount(pass0, s) = 1
      BY <2>2 DEF Keeps, ItemCount
    <3>3. QED
      BY <3>1, <3>2, FS_Singleton
  <2>3. CASE ~Keeps(pass0, s)
    <3> DEFINE count == ItemCount(pass0, s)
    <3>1. PICK first \in Nat : ItemsOf(s) = (n + first + 1)..(n + first + count)
      BY <1>1, <1>2, <2>1, <2>3, ItemsOfDeferredLine
    <3> HIDE DEF count
    <3>2. count \in Nat /\ n \in Nat
      BY <1>1, <2>1 DEF count
    <3> DEFINE a == n + first + 1
               b == n + first + count
    <3>3. a \in Int /\ b \in Int /\ (a > b <=> count = 0) /\ b - a + 1 = count
      BY <3>2
    <3>4. Cardinality(ItemsOf(s)) = IF a > b THEN 0 ELSE b - a + 1
      <4> HIDE DEF a, b
      <4>1. ItemsOf(s) = a..b
        BY <3>1 DEF a, b
      <4>2. QED
        BY <3>3, <4>1, FS_Interval
    <3>5. QED
      BY <3>3, <3>4 DEF count
  <2>4. QED
    BY <2>2, <2>3
<1>4. \A j \in 1..n : /\ pass1[j].line_counter \in 1..m
                      /\ Keeps(pass0, pass1[j].line_counter)
  BY <1>2 DEF KeptInOrder
<1>5. ASSUME NEW j \in (n + 1)..Len(pass1)
      PROVE  /\ j - n \in 1..Len(data_pass0)
             /\ pass1[j].line_counter = data_pass0[j - n].line_counter
             /\ pass1[j].line_counter \in 1..m
             /\ ~Keeps(pass0, pass1[j].line_counter)
  BY <1>2, <1>5 DEF Copied, DeferredInOrder
<1>6. ASSUME NEW i \in DOMAIN pass1, NEW j \in DOMAIN pass1, i < j,
             pass1[i].line_counter > pass1[j].line_counter
      PROVE  i \in 1..n /\ j \in (n + 1)..Len(pass1)
  <2>1. ~(i \in 1..n /\ j \in 1..n)
    <3>1. ASSUME i \in 1..n, j \in 1..n PROVE FALSE
      <4>1. pass1[i].line_counter < pass1[j].line_counter
        BY <1>2, <1>6, <3>1 DEF KeptInOrder
      <4>2. pass1[i].line_counter \in Nat /\ pass1[j].line_counter \in Nat
        BY <1>1, <1>4, <3>1
      <4>3. QED
        BY <1>6, <4>1, <4>2
    <3>2. QED
      BY <3>1
  <2>2. ~(i \in (n + 1)..Len(pass1))
    <3>1. ASSUME i \in (n + 1)..Len(pass1) PROVE FALSE
      <4>1. j \in (n + 1)..Len(pass1)
        BY <1>1, <1>6, <3>1
      <4>2. i - n < j - n /\ i - n \in 1..Len(data_pass0) /\ j - n \in 1..Len(data_pass0)
        BY <1>1, <1>5, <1>6, <3>1, <4>1
      <4>3. data_pass0[i - n].line_counter <= data_pass0[j - n].line_counter
        BY <1>2, <4>2 DEF DeferredInOrder
      <4>4. pass1[i].line_counter <= pass1[j].line_counter
        BY <1>5, <3>1, <4>1, <4>3
      <4>5. pass1[i].line_counter \in Nat /\ pass1[j].line_counter \in Nat
        BY <1>1, <1>5, <3>1, <4>1
      <4>6. QED
        BY <1>6, <4>4, <4>5
    <3>2. QED
      BY <3>1
  <2>3. QED
    BY <1>1, <2>1, <2>2
<1>7. ASSUME NEW s \in 1..m, ~Keeps(pass0, s)
      PROVE  /\ pass0[s].kind \in {"comm", "label", "data"}
             /\ pass0[s].kind # "comm" => InDataSection(s)
  <2>1. pass0[s].kind = "comm" \/ (InSection(pass0, s) /\ LineType(pass0[s]) \in {"Label", "Data"})
    BY <1>7 DEF Keeps
  <2>2. LineType(pass0[s]) \in {"Label", "Data"} => pass0[s].kind \in {"label", "data"}
    BY DEF LineType
  <2>3. InSection(pass0, s) => InDataSection(s)
    BY DEF InSection, InDataSection
  <2>4. QED
    BY <2>1, <2>2, <2>3
<1>8. ASSUME NEW s \in 1..m, Keeps(pass0, s)
      PROVE  /\ pass0[s].kind # "comm"
             /\ pass0[s].kind \in {"label", "data"} => ~InDataSection(s)
  <2>1. pass0[s].kind \in {"label", "data"} => LineType(pass0[s]) \in {"Label", "Data"}
    BY DEF LineType
  <2>2. InDataSection(s) => InSection(pass0, s)
    BY DEF InSection, InDataSection
  <2>3. QED
    BY <1>8, <2>1, <2>2 DEF Keeps
<1>9. \A s \in DOMAIN pass0 :
        Cardinality(ItemsOf(s)) =
          IF pass0[s].kind = "comm" THEN Len(CommItems(pass0[s])) ELSE 1
  BY <1>3 DEF ItemCount
<1>10. ASSUME NEW i \in DOMAIN pass1, NEW j \in DOMAIN pass1, i < j,
              pass1[i].line_counter > pass1[j].line_counter
       PROVE  /\ pass0[pass1[j].line_counter].kind \in {"comm", "label", "data"}
              /\ pass0[pass1[j].line_counter].kind # "comm"
                   => InDataSection(pass1[j].line_counter)
              /\ pass0[pass1[i].line_counter].kind # "comm"
              /\ pass0[pass1[i].line_counter].kind \in {"label", "data"}
                   => ~InDataSection(pass1[i].line_counter)
  <2>1. i \in 1..n /\ j \in (n + 1)..Len(pass1)
    BY <1>6, <1>10
  <2>2. pass1[i].line_counter \in 1..m /\ Keeps(pass0, pass1[i].line_counter)
    BY <1>4, <2>1
  <2>3. pass1[j].line_counter \in 1..m /\ ~Keeps(pass0, pass1[j].line_counter)
    BY <1>5, <2>1
  <2>4. QED
    BY <1>7, <1>8, <2>2, <2>3
<1>11. QED
  BY <1>9, <1>10, Zenon DEF LinesSurviveDeferral

(* Deferral loses no source line and doubles none, and moves only what it  *)
(* defers past what it keeps, in programs of any length.                   *)
THEOREM LinesSurviveDeferralAlways == Spec => []LinesSurviveDeferral
BY StrengthenedInvariant, LayoutAlways, LaidOutLinesSurvive, PTL

-----------------------------------------------------------------------------
(* LabelOwnsNextItem.                                                      *)

(* Lines that occupy nothing do not move the address on.                   *)
LEMMA FlatStretch ==
  ASSUME IInv, NEW i \in 1..Len(pass1), NEW j \in i..Len(pass1),
         \A k \in i..(j - 1) : WordCount(pass1[k].line) = 0
  PROVE  pass1[i].program_counter = pass1[j].program_counter
<1> DEFINE N == {k \in Nat : i + k \in i..j =>
                   pass1[i + k].program_counter = pass1[i].program_counter}
<1>1. pass1 \in Seq(Pass1Line) /\ Len(pass1) \in Nat /\ DOMAIN pass1 = 1..Len(pass1)
  BY LenProperties DEF IInv, TypeOK
<1>2. \A k \in i..(j - 1) : pass1[k + 1].program_counter = pass1[k].program_counter
  <2>1. ASSUME NEW k \in i..(j - 1)
        PROVE  pass1[k + 1].program_counter = pass1[k].program_counter
    <3>1. k \in 1..Len(pass1) /\ k + 1 \in 1..Len(pass1) /\ k # 0 /\ (k + 1) - 1 = k
      BY <1>1
    <3>2. pass1[k + 1].program_counter = LineEnd(pass1, k)
      BY <1>1, <3>1 DEF IInv, Contiguous
    <3>3. pass1[k] \in Pass1Line
      BY <1>1, <3>1, ElementOfSeq
    <3>4. pass1[k].program_counter \in Nat
      BY <3>3 DEF Pass1Line
    <3>5. QED
      BY <2>1, <3>1, <3>2, <3>4 DEF LineEnd
  <2>2. QED
    BY <2>1
<1>3. 0 \in N
  BY <1>1
<1>4. ASSUME NEW k \in Nat, k \in N PROVE k + 1 \in N
  <2>1. SUFFICES ASSUME i + (k + 1) \in i..j
                 PROVE  pass1[i + (k + 1)].program_counter = pass1[i].program_counter
    BY <1>4
  <2>2. i + k \in i..(j - 1) /\ i + k \in i..j /\ (i + k) + 1 = i + (k + 1)
    BY <1>1, <2>1
  <2>3. QED
    BY <1>2, <1>4, <2>2
<1>5. \A k \in Nat : k \in N
  <2> HIDE DEF N
  <2>1. QED
    BY <1>3, <1>4, NumberInduction
<1>6. j - i \in Nat /\ i + (j - i) = j /\ j \in i..j
  BY <1>1
<1>7. QED
  BY <1>5, <1>6

(* A label and _start occupy nothing; a line that is deferred is no SETR.  *)
LEMMA LineSizes ==
  ASSUME NEW line \in Line
  PROVE  /\ line.kind \in {"label", "start", "comment", ".text", ".data"}
              => WordCount(line) = 0
         /\ line.kind # "instruction" => UpgradeSetr(line) = line
         /\ LineType(line) \in {"Label", "Data"} => line.kind \in {"label", "data"}
         /\ line.kind \in {"label", "data"} => LineType(line) \in {"Label", "Data"}
         /\ LineType(line) = "Opcode" => line.kind = "instruction"
BY DEF WordCount, UpgradeSetr, LineType

LEMMA OccupiesNothing ==
  ASSUME NEW s, pass0[s] \in Line, ~Occupies(s)
  PROVE  WordCount(UpgradeSetr(pass0[s])) = 0 /\ pass0[s].kind # "comm"
<1>1. UpgradeSetr(pass0[s]) \in Line
  BY UpgradeSetrType
<1>2. WordCount(UpgradeSetr(pass0[s])) \in Nat
  BY <1>1, WordCountType
<1>3. QED
  BY <1>2 DEF Occupies

(* Without a section directive in between, both lines are in one section.  *)
LEMMA SameSection ==
  ASSUME NEW src, NEW s \in Nat, NEW t \in Nat, s < t,
         \A u \in s..(t - 1) : src[u].kind \notin {".text", ".data"}
  PROVE  InSection(src, s) <=> InSection(src, t)
<1>1. ASSUME InSection(src, s) PROVE InSection(src, t)
  <2>1. PICK d \in 1..(s - 1) : /\ src[d].kind = ".data"
                                /\ \A u \in (d + 1)..(s - 1) : src[u].kind # ".text"
    BY <1>1 DEF InSection
  <2>2. d \in 1..(t - 1) /\ \A u \in (d + 1)..(t - 1) : u \in (d + 1)..(s - 1) \/ u \in s..(t - 1)
    OBVIOUS
  <2>3. QED
    BY <2>1, <2>2 DEF InSection
<1>2. ASSUME InSection(src, t) PROVE InSection(src, s)
  <2>1. PICK d \in 1..(t - 1) : /\ src[d].kind = ".data"
                                /\ \A u \in (d + 1)..(t - 1) : src[u].kind # ".text"
    BY <1>2 DEF InSection
  <2>2. d \notin s..(t - 1)
    BY <2>1
  <2>3. d \in 1..(s - 1) /\ \A u \in (d + 1)..(s - 1) : u \in (d + 1)..(t - 1)
    BY <2>2
  <2>4. QED
    BY <2>1, <2>3 DEF InSection
<1>3. QED
  BY <1>1, <1>2

(* What LabelOwnsNextItem asks about: a label or _start and its item.      *)
Owns(s, t) ==
  /\ NextItem(s, t)
  /\ \/ pass0[s].kind = "label"
     \/ pass0[s].kind = "start" /\ LineType(pass0[t]) = "Opcode"
  /\ InDataSection(s) /\ pass0[s].kind = "label" => pass0[t].kind = "data"

(* A label is deferred exactly when its item is.                           *)
LEMMA OwnerGoesWithItem ==
  ASSUME pass0 \in Seq(Line), NEW s \in 1..Len(pass0), NEW t \in 1..Len(pass0), Owns(s, t)
  PROVE  /\ s < t
         /\ Keeps(pass0, s) <=> Keeps(pass0, t)
         /\ WordCount(pass0[s]) = 0 /\ UpgradeSetr(pass0[s]) = pass0[s]
         /\ pass0[s].kind # "comm" /\ pass0[t].kind # "comm"
         /\ \A u \in (s + 1)..(t - 1) :
              WordCount(UpgradeSetr(pass0[u])) = 0 /\ pass0[u].kind # "comm"
<1>1. pass0[s] \in Line /\ pass0[t] \in Line /\ Len(pass0) \in Nat
  BY ElementOfSeq, LenProperties
<1>2. /\ s < t
      /\ Occupies(t)
      /\ pass0[t].kind # "comm"
      /\ \A u \in (s + 1)..(t - 1) : ~Occupies(u)
      /\ \A u \in (s + 1)..t : pass0[u].kind \notin {".text", ".data"}
  BY DEF Owns, NextItem
<1>3. pass0[s].kind \in {"label", "start"}
  BY DEF Owns
<1>4. InSection(pass0, s) <=> InSection(pass0, t)
  <2>1. \A u \in s..(t - 1) : u = s \/ u \in (s + 1)..t
    OBVIOUS
  <2>2. \A u \in s..(t - 1) : pass0[u].kind \notin {".text", ".data"}
    BY <1>2, <1>3, <2>1
  <2>3. s \in Nat /\ t \in Nat
    BY <1>1
  <2>4. QED
    BY <1>2, <2>2, <2>3, SameSection
<1>5. WordCount(pass0[s]) = 0 /\ UpgradeSetr(pass0[s]) = pass0[s]
  BY <1>1, <1>3, LineSizes
<1>6. pass0[t].kind # "label"
  <2>1. ASSUME pass0[t].kind = "label" PROVE FALSE
    <3>1. UpgradeSetr(pass0[t]) = pass0[t] /\ WordCount(pass0[t]) = 0
      BY <1>1, <2>1, LineSizes
    <3>2. QED
      BY <1>2, <2>1, <3>1 DEF Occupies
  <2>2. QED
    BY <2>1
<1>7. InDataSection(s) <=> InSection(pass0, s)
  BY DEF InDataSection, InSection
<1>8. Keeps(pass0, s) <=> Keeps(pass0, t)
  <2>1. CASE pass0[s].kind = "label"
    <3>1. Keeps(pass0, s) <=> ~InSection(pass0, s)
      BY <1>1, <2>1, LineSizes DEF Keeps
    <3>2. CASE InSection(pass0, s)
      <4>1. pass0[t].kind = "data"
        BY <1>7, <2>1, <3>2 DEF Owns
      <4>2. ~Keeps(pass0, t)
        BY <1>1, <1>4, <3>2, <4>1, LineSizes DEF Keeps
      <4>3. QED
        BY <3>1, <3>2, <4>2
    <3>3. CASE ~InSection(pass0, s)
      BY <1>2, <1>4, <3>1, <3>3 DEF Keeps
    <3>4. QED
      BY <3>2, <3>3
  <2>2. CASE pass0[s].kind = "start" /\ LineType(pass0[t]) = "Opcode"
    <3>1. LineType(pass0[s]) \notin {"Label", "Data"}
      BY <1>1, <2>2, LineSizes
    <3>2. QED
      BY <1>2, <1>3, <2>2, <3>1 DEF Keeps
  <2>3. QED
    BY <2>1, <2>2 DEF Owns
<1>9. ASSUME NEW u \in (s + 1)..(t - 1)
      PROVE  WordCount(UpgradeSetr(pass0[u])) = 0 /\ pass0[u].kind # "comm"
  <2>1. pass0[u] \in Line
    <3>1. u \in 1..Len(pass0)
      BY <1>1
    <3>2. QED
      BY <3>1, ElementOfSeq
  <2>2. QED
    BY <1>2, <2>1, OccupiesNothing
<1>10. QED
  BY <1>2, <1>3, <1>5, <1>8, <1>9

LEMMA KeptOwnerIsAdjacent ==
  ASSUME IInv, NEW n \in 0..Len(pass1), KeptInOrder(pass0, pass1, n, Len(pass0)),
         NEW s \in 1..Len(pass0), NEW t \in 1..Len(pass0), Owns(s, t),
         NEW i \in 1..n, NEW j \in 1..n,
         pass1[i].line_counter = s, pass1[j].line_counter = t
  PROVE  pass1[i].program_counter = pass1[j].program_counter
<1>1. pass0 \in Seq(Line) /\ Len(pass0) \in Nat /\ Len(pass1) \in Nat
  BY LenProperties DEF IInv, TypeOK
<1>2. /\ s < t
      /\ WordCount(pass0[s]) = 0 /\ UpgradeSetr(pass0[s]) = pass0[s]
      /\ \A u \in (s + 1)..(t - 1) : WordCount(UpgradeSetr(pass0[u])) = 0
  BY <1>1, OwnerGoesWithItem
<1>3. \A a, b \in 1..n : a < b => pass1[a].line_counter < pass1[b].line_counter
  BY DEF KeptInOrder
<1>4. i < j
  <2>1. ~(j < i) /\ i # j
    BY <1>2, <1>3
  <2>2. QED
    BY <2>1
<1>5. ASSUME NEW k \in i..(j - 1) PROVE WordCount(pass1[k].line) = 0
  <2>1. k \in 1..n /\ k < j /\ (k = i \/ i < k)
    BY <1>1, <1>5
  <2>2. /\ pass1[k].line_counter \in 1..Len(pass0)
        /\ pass1[k].line = UpgradeSetr(pass0[pass1[k].line_counter])
    BY <2>1 DEF KeptInOrder
  <2>3. CASE k = i
    BY <1>2, <2>2, <2>3
  <2>4. CASE i < k
    <3>1. s < pass1[k].line_counter /\ pass1[k].line_counter < t
      BY <1>3, <2>1, <2>4
    <3>2. pass1[k].line_counter \in (s + 1)..(t - 1)
      BY <1>1, <2>2, <3>1
    <3>3. QED
      BY <1>2, <2>2, <3>2
  <2>5. QED
    BY <2>1, <2>3, <2>4
<1>6. i \in 1..Len(pass1) /\ j \in i..Len(pass1)
  BY <1>1, <1>4
<1>7. QED
  BY <1>5, <1>6, FlatStretch

LEMMA DeferredOwnerIsAdjacent ==
  ASSUME IInv, NEW n \in 0..Len(pass1), Copied(pass1, n, data_pass0),
         DeferredInOrder(pass0, data_pass0, Len(pass0)),
         NEW s \in 1..Len(pass0), NEW t \in 1..Len(pass0), Owns(s, t), ~Keeps(pass0, t),
         NEW i \in (n + 1)..Len(pass1), NEW j \in (n + 1)..Len(pass1),
         pass1[i].line_counter = s, pass1[j].line_counter = t
  PROVE  pass1[i].program_counter = pass1[j].program_counter
<1> DEFINE items == data_pass0
           source(d) == items[d].line_counter
<1>1. /\ pass0 \in Seq(Line) /\ Len(pass0) \in Nat /\ Len(pass1) \in Nat
      /\ Len(items) \in Nat
  BY LenProperties DEF IInv, TypeOK
<1>2. /\ s < t
      /\ WordCount(pass0[s]) = 0
      /\ pass0[s].kind # "comm" /\ pass0[t].kind # "comm"
      /\ \A u \in (s + 1)..(t - 1) :
           WordCount(UpgradeSetr(pass0[u])) = 0 /\ pass0[u].kind # "comm"
  BY <1>1, OwnerGoesWithItem
<1>3. \A k \in (n + 1)..Len(pass1) :
        /\ k - n \in 1..Len(items)
        /\ pass1[k].line_counter = source(k - n)
        /\ pass1[k].line = items[k - n].line
  BY DEF Copied
<1>4. \A d \in 1..Len(items) :
        /\ source(d) \in 1..Len(pass0)
        /\ ~Keeps(pass0, source(d))
        /\ pass0[source(d)].kind # "comm" => items[d].line = pass0[source(d)]
  BY DEF DeferredInOrder
<1>5. \A c, d \in 1..Len(items) : c < d => source(c) <= source(d)
  BY DEF DeferredInOrder
<1>6. \A c, d \in 1..Len(items) : source(c) = t /\ source(d) = t => c = d
  <2>1. ItemCount(pass0, t) = 1
    BY <1>2 DEF ItemCount
  <2>2. PICK first \in 0..Len(items) : Stretch(items, t, first, first + 1)
    BY <2>1 DEF DeferredInOrder
  <2>3. \A d \in 1..Len(items) : source(d) = t => first < d /\ d <= first + 1
    BY <2>2 DEF Stretch
  <2>4. \A d \in 1..Len(items) : source(d) = t => d = first + 1
    BY <1>1, <2>3
  <2>5. QED
    BY <2>4
<1> DEFINE c == i - n
           d == j - n
<1>7. c \in 1..Len(items) /\ d \in 1..Len(items) /\ source(c) = s /\ source(d) = t
  BY <1>3
<1>8. i < j
  <2>1. ~(d < c) /\ c # d
    <3>1. s \in Nat /\ t \in Nat /\ s < t
      BY <1>1, <1>2
    <3>2. c \in Nat /\ d \in Nat
      BY <1>1, <1>7
    <3>3. d < c => source(d) <= source(c)
      BY <1>5, <1>7
    <3> HIDE DEF source, c, d
    <3>4. ~(d < c)
      BY <1>7, <3>1, <3>3
    <3>5. c # d
      BY <1>7, <3>1
    <3>6. QED
      BY <3>4, <3>5
  <2>2. QED
    BY <1>1, <2>1
<1>9. ASSUME NEW k \in i..(j - 1) PROVE WordCount(pass1[k].line) = 0
  <2> DEFINE e == k - n
  <2>1. k \in (n + 1)..Len(pass1) /\ c <= e /\ e < d
    BY <1>1, <1>9
  <2>2. e \in 1..Len(items) /\ pass1[k].line = items[e].line
    BY <1>3, <2>1
  <2> HIDE DEF c, d, e, source, items
  <2>3. s <= source(e) /\ source(e) <= t
    <3>1. c = e \/ c < e
      BY <1>7, <2>1, <2>2
    <3>2. QED
      BY <1>5, <1>7, <2>1, <2>2, <3>1
  <2>4. source(e) # t
    <3>1. e # d
      BY <1>7, <2>1, <2>2
    <3>2. QED
      BY <1>6, <1>7, <2>2, <3>1
  <2>5. source(e) \in 1..Len(pass0) /\ ~Keeps(pass0, source(e))
    BY <1>4, <2>2
  <2>6. source(e) = s \/ source(e) \in (s + 1)..(t - 1)
    BY <1>1, <2>3, <2>4, <2>5
  <2>7. pass0[source(e)].kind # "comm" /\ pass1[k].line = pass0[source(e)]
    BY <1>2, <1>4, <2>2, <2>6
  <2>8. UpgradeSetr(pass0[source(e)]) = pass0[source(e)]
    <3>1. pass0[source(e)] \in Line
      BY <1>1, <2>5, ElementOfSeq
    <3>2. pass0[source(e)].kind \in {"label", "data"}
      BY <2>5, <2>7, <3>1, LineSizes DEF Keeps
    <3>3. QED
      BY <3>1, <3>2, LineSizes
  <2>9. QED
    BY <1>2, <2>6, <2>7, <2>8
<1>10. i \in 1..Len(pass1) /\ j \in i..Len(pass1)
  BY <1>1, <1>8
<1>11. QED
  BY <1>9, <1>10, FlatStretch

LEMMA LaidOutLabelsOwnTheirItem == IInv /\ Layout => LabelOwnsNextItem
<1> SUFFICES ASSUME IInv, Layout, LaidOut,
                    NEW s \in DOMAIN pass0, NEW t \in DOMAIN pass0, Owns(s, t),
                    NEW i \in DOMAIN pass1, NEW j \in DOMAIN pass1,
                    pass1[i].line_counter = s, pass1[j].line_counter = t
             PROVE  pass1[i].program_counter = pass1[j].program_counter
  BY DEF LabelOwnsNextItem, Owns
<1>1. /\ pass0 \in Seq(Line) /\ DOMAIN pass0 = 1..Len(pass0)
      /\ pass1 \in Seq(Pass1Line) /\ Len(pass1) \in Nat /\ DOMAIN pass1 = 1..Len(pass1)
  BY LenProperties DEF IInv, TypeOK
<1>2. s \in 1..Len(pass0) /\ t \in 1..Len(pass0)
  BY <1>1
<1>3. PICK n \in 0..Len(pass1) :
             /\ KeptInOrder(pass0, pass1, n, Len(pass0))
             /\ DeferredInOrder(pass0, data_pass0, Len(pass0))
             /\ Copied(pass1, n, data_pass0)
  BY LayoutOnceLaidOut
<1>4. \A k \in 1..n : Keeps(pass0, pass1[k].line_counter)
  BY <1>3 DEF KeptInOrder
<1>5. \A k \in (n + 1)..Len(pass1) : ~Keeps(pass0, pass1[k].line_counter)
  BY <1>3 DEF Copied, DeferredInOrder
<1>6. \A k \in DOMAIN pass1 : k \in 1..n \/ k \in (n + 1)..Len(pass1)
  BY <1>1
<1>7. CASE Keeps(pass0, s)
  <2>1. Keeps(pass0, t)
    BY <1>1, <1>2, <1>7, OwnerGoesWithItem
  <2>2. i \in 1..n /\ j \in 1..n
    BY <1>5, <1>6, <1>7, <2>1
  <2>3. QED
    BY <1>2, <1>3, <2>2, KeptOwnerIsAdjacent
<1>8. CASE ~Keeps(pass0, s)
  <2>1. ~Keeps(pass0, t)
    BY <1>1, <1>2, <1>8, OwnerGoesWithItem
  <2>2. i \in (n + 1)..Len(pass1) /\ j \in (n + 1)..Len(pass1)
    BY <1>4, <1>6, <1>8, <2>1
  <2>3. QED
    BY <1>2, <1>3, <2>1, <2>2, DeferredOwnerIsAdjacent
<1>9. QED
  BY <1>7, <1>8

(* A label shares the address of what it names wherever deferral takes the *)
(* two, and _start that of the instruction it marks.                       *)
THEOREM LabelOwnsNextItemAlways == Spec => []LabelOwnsNextItem
BY StrengthenedInvariant, LayoutAlways, LaidOutLabelsOwnTheirItem, PTL
================================================================================
