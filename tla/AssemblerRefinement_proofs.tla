----------------------- MODULE AssemblerRefinement_proofs -----------------------
(***************************************************************************)
(* The assembler implements AssemblerContract, for every set of sources.   *)
(*                                                                         *)
(* The argument, in order: a second strengthening (Accounted) says what    *)
(* the passes have counted so far; once pass 1 is over, what it placed is  *)
(* what the contract promises, line for line and in the contract's order   *)
(* (PlacedAsPromised), so that the running sum of sizes pass 1 keeps is    *)
(* the contract's sum over a set (AddressesAddUp); look-ups find the       *)
(* contract's address of a name; errors are reported exactly where the     *)
(* contract finds one; the image is the contract's, word for word.         *)
(***************************************************************************)
EXTENDS Assembler_proofs, AssemblerRefinement

-----------------------------------------------------------------------------
(* The strengthening, continued: which item of a .comm each deferred line  *)
(* is, what the error count counts, and the entry the flat image will get. *)

(* The first line deferred for a .comm is its label, the second its space. *)
CommPart(items, d) ==
  IF d > 1 /\ items[d - 1].line_counter = items[d].line_counter THEN 2 ELSE 1

IsCommItem(comm, items, d) ==
  /\ CommPart(items, d) <= Len(CommItems(comm))
  /\ items[d].line = CommItems(comm)[CommPart(items, d)]

CommsInOrder(src, items) ==
  \A d \in 1..Len(items) :
    src[items[d].line_counter].kind = "comm" =>
      IsCommItem(src[items[d].line_counter], items, d)

PlacementErrors(line) == LineErrors(line) + DataErrors(line)

ErrorsAreCounted ==
  phase # "done" =>
    (errors = 0 <=> /\ \A j \in DOMAIN pass1 : PlacementErrors(pass1[j].line) = 0
                    /\ AfterLabels => Duplicates(pass1, labels) = {}
                    /\ \A j \in DOMAIN pass2 : InstructionErrors(pass1[j]) = 0)

(* The last _start so far, if there was one.                               *)
EntryIsLastStart ==
  /\ phase \notin {"flat", "done"} => entry = NoEntry
  /\ phase = "flat" =>
       \/ /\ entry = NoEntry
          /\ \A j \in 1..(next - 1) : pass2[j].line_type # "Start"
       \/ \E j \in 1..(next - 1) :
            /\ pass2[j].line_type = "Start"
            /\ entry = pass2[j].program_counter
            /\ \A k \in (j + 1)..(next - 1) : pass2[k].line_type # "Start"

Accounted ==
  /\ CommsInOrder(pass0, data_pass0)
  /\ ErrorsAreCounted
  /\ EntryIsLastStart

(* What .comm leaves behind: a label that has no size, and words.          *)
LEMMA CommItemsAre ==
  ASSUME NEW line \in Line, line.kind = "comm"
  PROVE  /\ Len(CommItems(line)) \in {0, 1, 2} /\ Len(CommItems(line)) <= 2
         /\ line.complete <=> Len(CommItems(line)) >= 1
         /\ line.complete => (Len(CommItems(line)) = 2 <=> line.size > 0)
         /\ Len(CommItems(line)) >= 1 =>
              /\ CommItems(line)[1].kind = "label"
              /\ CommItems(line)[1].name = line.name
         /\ Len(CommItems(line)) = 2 =>
              /\ CommItems(line)[2].kind = "data"
              /\ CommItems(line)[2].named = FALSE
              /\ CommItems(line)[2].valid = TRUE
              /\ CommItems(line)[2].words = 2 * ((line.size + 7) \div 8)
<1>1. line \in CommLine
  BY KindOfLine
<1> DEFINE label == [kind |-> "label", name |-> line.name]
           space == [kind |-> "data", named |-> FALSE, name |-> line.name,
                     valid |-> TRUE, words |-> 2 * ((line.size + 7) \div 8)]
<1>2. CommItems(line) = IF ~line.complete THEN << >>
                        ELSE << label >> \o IF line.size = 0 THEN << >> ELSE << space >>
  BY DEF CommItems
<1>3. line.size \in Nat /\ line.complete \in BOOLEAN
  BY <1>1 DEF CommLine
<1> HIDE DEF label, space
<1>4. CASE ~line.complete
  BY <1>2, <1>4
<1>5. CASE line.complete /\ line.size = 0
  <2>1. CommItems(line) = << label >>
    BY <1>2, <1>5
  <2>2. QED
    BY <1>3, <1>5, <2>1 DEF label
<1>6. CASE line.complete /\ line.size > 0
  <2>1. CommItems(line) = << label >> \o << space >>
    BY <1>2, <1>6
  <2>2. << label >> \in Seq({label, space}) /\ << space >> \in Seq({label, space})
    OBVIOUS
  <2>3. /\ Len(CommItems(line)) = 2
        /\ CommItems(line)[1] = label /\ CommItems(line)[2] = space
    BY <2>1, <2>2
  <2>4. QED
    BY <1>3, <1>6, <2>3 DEF label, space
<1>7. ~line.complete \/ (line.complete /\ line.size = 0) \/ (line.complete /\ line.size > 0)
  BY <1>3
<1>8. QED
  BY <1>4, <1>5, <1>6, <1>7, Zenon

LEMMA CommsAppended ==
  ASSUME NEW src, NEW items \in Seq(DeferredLine), NEW moved \in Seq(DeferredLine),
         NEW m \in Nat, CommsInOrder(src, items),
         \A d \in 1..Len(items) : items[d].line_counter # m,
         \A d \in 1..Len(moved) : moved[d].line_counter = m,
         src[m].kind = "comm" =>
           /\ Len(moved) = Len(CommItems(src[m])) /\ Len(moved) <= 2
           /\ \A d \in 1..Len(moved) : moved[d].line = CommItems(src[m])[d]
  PROVE  CommsInOrder(src, items \o moved)
<1> DEFINE n == Len(items)
           k == Len(moved)
           longer == items \o moved
<1>1. /\ n \in Nat /\ k \in Nat /\ Len(longer) = n + k
      /\ \A d \in 1..n : longer[d] = items[d]
      /\ \A d \in 1..(n + k) : d > n => longer[d] = moved[d - n]
  <2>1. n \in Nat /\ k \in Nat /\ Len(longer) = n + k
    BY ConcatProperties, LenProperties
  <2>2. \A d \in 1..n : longer[d] = items[d]
    BY <2>1, ConcatProperties
  <2>3. \A d \in 1..(n + k) : d > n => longer[d] = moved[d - n]
    BY <2>1, ConcatProperties
  <2>4. QED
    BY <2>1, <2>2, <2>3
<1>2. \A d \in 1..n : items[d].line_counter # m
  OBVIOUS
<1>3. \A d \in 1..k : moved[d].line_counter = m
  OBVIOUS
<1>4. src[m].kind = "comm" =>
           /\ k = Len(CommItems(src[m])) /\ k <= 2
           /\ \A d \in 1..k : moved[d].line = CommItems(src[m])[d]
  OBVIOUS
<1>5. \A d \in 1..n : src[items[d].line_counter].kind = "comm" =>
                        IsCommItem(src[items[d].line_counter], items, d)
  BY DEF CommsInOrder
<1> HIDE DEF n, k, longer
<1> SUFFICES ASSUME NEW d \in 1..(n + k), src[longer[d].line_counter].kind = "comm"
             PROVE  IsCommItem(src[longer[d].line_counter], longer, d)
  BY <1>1 DEF CommsInOrder, longer
<1>6. CASE d \in 1..n
  <2>1. d > 1 => d - 1 \in 1..n
    BY <1>1, <1>6
  <2>2. longer[d] = items[d] /\ (d > 1 => longer[d - 1] = items[d - 1])
    BY <1>1, <1>6, <2>1
  <2>3. CommPart(longer, d) = CommPart(items, d)
    BY <2>2 DEF CommPart
  <2>4. QED
    BY <1>5, <1>6, <2>2, <2>3 DEF IsCommItem
<1>7. CASE d > n
  <2>1. d - n \in 1..k
    BY <1>1, <1>7
  <2>2. longer[d] = moved[d - n] /\ longer[d].line_counter = m
    BY <1>1, <1>3, <1>7, <2>1
  <2>3. d - n \in {1, 2}
    BY <1>1, <1>4, <2>1, <2>2
  <2>4. CommPart(longer, d) = d - n
    <3>1. CASE d - n = 1
      <4>1. d > 1 => longer[d - 1].line_counter # m
        <5>1. d > 1 => d - 1 \in 1..n
          BY <1>1, <3>1
        <5>2. QED
          BY <1>1, <1>2, <5>1
      <4>2. QED
        BY <2>2, <3>1, <4>1 DEF CommPart
    <3>2. CASE d - n = 2
      <4>1. d - 1 \in 1..(n + k) /\ d - 1 > n /\ d - 1 - n = 1 /\ d > 1
        BY <1>1, <3>2, <2>1
      <4>2. longer[d - 1].line_counter = m
        <5>1. longer[d - 1] = moved[1]
          BY <1>1, <4>1
        <5>2. 1 \in 1..k
          BY <1>1, <2>1
        <5>3. QED
          BY <1>3, <5>1, <5>2
      <4>3. QED
        BY <2>2, <3>2, <4>1, <4>2 DEF CommPart
    <3>3. QED
      BY <2>3, <3>1, <3>2
  <2>5. QED
    BY <1>4, <2>1, <2>2, <2>4 DEF IsCommItem
<1>8. QED
  BY <1>1, <1>6, <1>7

-----------------------------------------------------------------------------
LEMMA InitEstablishesAccounted == Init => Accounted
<1> SUFFICES ASSUME Init PROVE Accounted
  OBVIOUS
<1>1. /\ phase = "pass1" /\ data_pass0 = << >> /\ pass1 = << >> /\ pass2 = << >>
      /\ errors = 0 /\ entry = NoEntry
  BY DEF Init
<1>2. CommsInOrder(pass0, data_pass0)
  BY <1>1 DEF CommsInOrder
<1>3. ErrorsAreCounted
  BY <1>1 DEF ErrorsAreCounted, AfterLabels
<1>4. EntryIsLastStart
  BY <1>1 DEF EntryIsLastStart
<1>5. QED
  BY <1>2, <1>3, <1>4 DEF Accounted

LEMMA PlacementErrorsType ==
  ASSUME NEW line
  PROVE  /\ LineErrors(line) \in Nat /\ DataErrors(line) \in Nat
         /\ PlacementErrors(line) \in Nat
BY DEF LineErrors, DataErrors, PlacementErrors

(* A deferred line is a label or data, or its .comm left it behind.        *)
LEMMA DeferredLinesAre ==
  ASSUME NEW src \in Seq(Line), NEW items \in Seq(DeferredLine), NEW m \in 0..Len(src),
         DeferredInOrder(src, items, m), CommsInOrder(src, items), NEW d \in 1..Len(items)
  PROVE  /\ items[d].line_counter \in 1..Len(src)
         /\ items[d].line \in Line
         /\ items[d].line.kind \in {"label", "data"}
<1> DEFINE s == items[d].line_counter
<1>1. items[d] \in DeferredLine
  BY ElementOfSeq
<1>2. /\ s \in 1..m
      /\ ~Keeps(src, s)
      /\ src[s].kind # "comm" => items[d].line = src[s]
      /\ src[s].kind = "comm" => IsCommItem(src[s], items, d)
  BY DEF DeferredInOrder, CommsInOrder
<1>3. s \in 1..Len(src) /\ src[s] \in Line
  <2>1. Len(src) \in Nat
    BY LenProperties
  <2>2. s \in 1..Len(src)
    BY <1>2, <2>1
  <2>3. QED
    BY <2>2, ElementOfSeq
<1>4. CASE src[s].kind # "comm"
  BY <1>1, <1>2, <1>3, <1>4, LineSizes DEF Keeps, DeferredLine
<1>5. CASE src[s].kind = "comm"
  <2>1. /\ CommPart(items, d) \in {1, 2}
        /\ CommPart(items, d) <= Len(CommItems(src[s]))
        /\ items[d].line = CommItems(src[s])[CommPart(items, d)]
    BY <1>2, <1>5 DEF CommPart, IsCommItem
  <2>2. /\ Len(CommItems(src[s])) \in {0, 1, 2}
        /\ Len(CommItems(src[s])) >= 1 => CommItems(src[s])[1].kind = "label"
        /\ Len(CommItems(src[s])) = 2 => CommItems(src[s])[2].kind = "data"
    <3>1. src[s] \in Line /\ src[s].kind = "comm"
      BY <1>3, <1>5
    <3> HIDE DEF s
    <3>2. QED
      BY <3>1, CommItemsAre
  <2>3. items[d].line.kind \in {"label", "data"}
    BY <2>1, <2>2
  <2>4. QED
    BY <1>1, <1>3, <2>3 DEF DeferredLine
<1>6. QED
  BY <1>4, <1>5

LEMMA DeferCommKeepsAccounted == IInv /\ Layout /\ Accounted /\ DeferComm => Accounted'
<1> SUFFICES ASSUME IInv, Layout, Accounted, DeferComm PROVE Accounted'
  OBVIOUS
<1> DEFINE items == CommItems(pass0[next])
           moved == [i \in 1..Len(items) |-> [line |-> items[i], line_counter |-> next]]
<1>1. /\ phase = "pass1" /\ next <= Len(pass0) /\ pass0[next].kind = "comm"
      /\ UNCHANGED << pass0, phase, pass1, pass2, labels, errors, entry >>
  BY DEF DeferComm
<1>2. data_pass0' = data_pass0 \o moved
  BY DEF DeferComm
<1>3. /\ pass0[next] \in Line /\ next \in Nat \ {0}
      /\ data_pass0 \in Seq(DeferredLine)
      /\ DeferredInOrder(pass0, data_pass0, next - 1)
  BY <1>1, ReadingLine
<1>4. items \in Seq(Line) /\ Len(items) \in Nat /\ \A i \in 1..Len(items) : items[i] \in Line
  BY <1>1, <1>3, CommItemsType
<1>5. Len(items) <= 2
  BY <1>1, <1>3, CommItemsAre
<1>6. /\ moved \in Seq(DeferredLine)
      /\ Len(moved) = Len(items)
      /\ \A d \in 1..Len(items) : moved[d].line_counter = next /\ moved[d].line = items[d]
  <2> HIDE DEF items
  <2>1. moved \in [1..Len(items) -> DeferredLine]
    BY <1>3, <1>4 DEF DeferredLine
  <2>2. QED
    BY <1>4, <2>1, TabulatedSeq
<1> HIDE DEF moved
<1>7. \A d \in 1..Len(data_pass0) : data_pass0[d].line_counter # next
  BY <1>3 DEF DeferredInOrder
<1>8. CommsInOrder(pass0, data_pass0 \o moved)
  <2>1. CommsInOrder(pass0, data_pass0)
    BY DEF Accounted
  <2>2. QED
    BY <1>3, <1>5, <1>6, <1>7, <2>1, CommsAppended
<1>9. ErrorsAreCounted' /\ EntryIsLastStart'
  BY <1>1 DEF Accounted, ErrorsAreCounted, EntryIsLastStart, AfterLabels
<1>10. QED
  BY <1>1, <1>2, <1>8, <1>9 DEF Accounted

LEMMA DeferToDataSectionKeepsAccounted ==
  IInv /\ Layout /\ Accounted /\ DeferToDataSection => Accounted'
<1> SUFFICES ASSUME IInv, Layout, Accounted, DeferToDataSection PROVE Accounted'
  OBVIOUS
<1> DEFINE item == [line |-> pass0[next], line_counter |-> next]
<1>1. /\ phase = "pass1" /\ next <= Len(pass0) /\ pass0[next].kind # "comm"
      /\ UNCHANGED << pass0, phase, pass1, pass2, labels, errors, entry >>
      /\ data_pass0' = Append(data_pass0, item)
  BY DEF DeferToDataSection
<1>2. /\ pass0[next] \in Line /\ next \in Nat \ {0}
      /\ data_pass0 \in Seq(DeferredLine)
      /\ DeferredInOrder(pass0, data_pass0, next - 1)
  BY <1>1, ReadingLine
<1>3. item \in DeferredLine /\ item.line_counter = next
  BY <1>2 DEF DeferredLine
<1> HIDE DEF item
<1>4. /\ << item >> \in Seq(DeferredLine) /\ Len(<< item >>) = 1
      /\ \A d \in 1..Len(<< item >>) : << item >>[d].line_counter = next
  BY <1>3
<1>5. data_pass0' = data_pass0 \o << item >>
  BY <1>1, <1>2, <1>3, AppendIsConcat
<1>6. \A d \in 1..Len(data_pass0) : data_pass0[d].line_counter # next
  BY <1>2 DEF DeferredInOrder
<1>7. CommsInOrder(pass0, data_pass0 \o << item >>)
  <2>1. CommsInOrder(pass0, data_pass0)
    BY DEF Accounted
  <2>2. QED
    BY <1>1, <1>2, <1>4, <1>6, <2>1, CommsAppended
<1>8. ErrorsAreCounted' /\ EntryIsLastStart'
  BY <1>1 DEF Accounted, ErrorsAreCounted, EntryIsLastStart, AfterLabels
<1>9. QED
  BY <1>1, <1>5, <1>7, <1>8 DEF Accounted

(* Placing a line adds its errors to the count.                            *)
LEMMA PlacingIsCounted ==
  ASSUME IInv, Accounted, phase \in {"pass1", "deferred"},
         UNCHANGED << pass0, phase, data_pass0, labels, pass2, entry >>,
         NEW p \in Pass1Line, pass1' = Append(pass1, p),
         errors' = errors + PlacementErrors(p.line)
  PROVE  Accounted'
<1>1. /\ pass1 \in Seq(Pass1Line) /\ errors \in Nat /\ pass2 = << >>
      /\ PlacementErrors(p.line) \in Nat
  BY PlacementErrorsType DEF IInv, TypeOK, Progress
<1>2. /\ Len(pass1) \in Nat
      /\ DOMAIN pass1 = 1..Len(pass1)
      /\ DOMAIN pass1' = 1..(Len(pass1) + 1)
      /\ \A j \in 1..Len(pass1) : pass1'[j] = pass1[j]
      /\ pass1'[Len(pass1) + 1] = p
  BY <1>1, Appended, LenProperties
<1>3. errors = 0 <=> \A j \in DOMAIN pass1 : PlacementErrors(pass1[j].line) = 0
  BY <1>1 DEF Accounted, ErrorsAreCounted, AfterLabels
<1>4. errors' = 0 <=> errors = 0 /\ PlacementErrors(p.line) = 0
  BY <1>1
<1>5. (\A j \in DOMAIN pass1' : PlacementErrors(pass1'[j].line) = 0) <=>
        /\ \A j \in DOMAIN pass1 : PlacementErrors(pass1[j].line) = 0
        /\ PlacementErrors(p.line) = 0
  <2>1. \A j \in 1..(Len(pass1) + 1) : j \in 1..Len(pass1) \/ j = Len(pass1) + 1
    BY <1>2
  <2>2. Len(pass1) + 1 \in 1..(Len(pass1) + 1) /\ \A j \in 1..Len(pass1) : j \in 1..(Len(pass1) + 1)
    BY <1>2
  <2>3. QED
    BY <1>2, <2>1, <2>2
<1>6. ErrorsAreCounted'
  BY <1>1, <1>3, <1>4, <1>5 DEF ErrorsAreCounted, AfterLabels
<1>7. EntryIsLastStart'
  BY DEF Accounted, EntryIsLastStart
<1>8. QED
  BY <1>6, <1>7 DEF Accounted

-----------------------------------------------------------------------------
LEMMA KeepLineKeepsAccounted == IInv /\ Layout /\ Accounted /\ KeepLine => Accounted'
<1> SUFFICES ASSUME IInv, Layout, Accounted, KeepLine PROVE Accounted'
  OBVIOUS
<1> DEFINE line == UpgradeSetr(pass0[next])
           p    == Placed(line, next)
<1>1. /\ phase = "pass1" /\ next <= Len(pass0)
      /\ UNCHANGED << pass0, phase, data_pass0, labels, pass2, entry >>
      /\ pass1' = Append(pass1, p)
      /\ errors' = errors + LineErrors(line) + DataErrors(line)
  BY DEF KeepLine
<1>2. pass0[next] \in Line /\ next \in Nat
  BY <1>1, ReadingLine
<1>3. line \in Line /\ LineType(line) \in LineTypes
  BY <1>2, UpgradeSetrType, LineTypeType
<1>4. p \in Pass1Line /\ p.line = line
  <2>1. program_counter \in Nat
    BY DEF IInv, TypeOK
  <2> HIDE DEF line
  <2>2. QED
    BY <1>2, <1>3, <2>1 DEF Placed, Pass1Line
<1>5. errors' = errors + PlacementErrors(p.line)
  <2>1. LineErrors(line) \in Nat /\ DataErrors(line) \in Nat
    BY PlacementErrorsType
  <2>2. errors \in Nat
    BY DEF IInv, TypeOK
  <2>3. p.line = line
    BY <1>4
  <2> HIDE DEF line, p
  <2>4. QED
    BY <1>1, <2>1, <2>2, <2>3 DEF PlacementErrors
<1> HIDE DEF line, p
<1>6. QED
  BY <1>1, <1>4, <1>5, PlacingIsCounted

LEMMA PlaceDeferredKeepsAccounted == IInv /\ Layout /\ Accounted /\ PlaceDeferred => Accounted'
<1> SUFFICES ASSUME IInv, Layout, Accounted, PlaceDeferred PROVE Accounted'
  OBVIOUS
<1> DEFINE line == data_pass0[next].line
           n == data_pass0[next].line_counter
           p == Placed(line, n)
<1>1. /\ phase = "deferred" /\ next <= Len(data_pass0)
      /\ UNCHANGED << pass0, phase, data_pass0, labels, pass2, entry >>
      /\ pass1' = Append(pass1, p)
      /\ errors' = errors + DataErrors(line)
  BY DEF PlaceDeferred
<1>2. /\ next \in Nat \ {0} /\ program_counter \in Nat /\ errors \in Nat
      /\ pass0 \in Seq(Line) /\ data_pass0 \in Seq(DeferredLine)
  BY DEF IInv, TypeOK
<1>3. next \in 1..Len(data_pass0) /\ Len(pass0) \in 0..Len(pass0)
  BY <1>1, <1>2, LenProperties
<1>4. DeferredInOrder(pass0, data_pass0, Len(pass0))
  BY <1>1 DEF Layout, LayoutBehind
<1>5. n \in 1..Len(pass0) /\ line \in Line /\ line.kind \in {"label", "data"}
  BY <1>2, <1>3, <1>4, DeferredLinesAre DEF Accounted
<1>6. LineType(line) \in LineTypes /\ LineErrors(line) = 0
  BY <1>5, LineTypeType, LineSizes DEF LineErrors
<1> HIDE DEF line, n
<1>7. p \in Pass1Line /\ p.line = line
  <2>1. n \in Nat
    BY <1>2, <1>5, LenProperties
  <2>2. QED
    BY <1>2, <1>5, <1>6, <2>1 DEF Placed, Pass1Line
<1> HIDE DEF p
<1>8. errors' = errors + PlacementErrors(p.line)
  <2>1. DataErrors(line) \in Nat
    BY PlacementErrorsType
  <2>2. PlacementErrors(line) = DataErrors(line)
    BY <1>6, <2>1 DEF PlacementErrors
  <2>3. QED
    BY <1>1, <1>7, <2>2
<1>9. QED
  BY <1>1, <1>7, <1>8, PlacingIsCounted

LEMMA CollectLabelsKeepsAccounted == IInv /\ Accounted /\ CollectLabels => Accounted'
<1> SUFFICES ASSUME IInv, Accounted, CollectLabels PROVE Accounted'
  OBVIOUS
<1> DEFINE found == Definitions(pass1)
<1>1. /\ phase = "labels" /\ phase' = "pass2" /\ labels' = found
      /\ errors' = errors + Cardinality(Duplicates(pass1, found))
      /\ UNCHANGED << pass0, data_pass0, pass1, pass2, entry >>
  BY DEF CollectLabels
<1>2. pass1 \in Seq(Pass1Line) /\ found \in SUBSET DOMAIN pass1 /\ errors \in Nat
        /\ pass2 = << >>
  BY <1>1 DEF IInv, TypeOK, Definitions, Progress
<1>3. /\ Cardinality(Duplicates(pass1, found)) \in Nat
      /\ Cardinality(Duplicates(pass1, found)) = 0 => Duplicates(pass1, found) = {}
      /\ Duplicates(pass1, found) = {} => Cardinality(Duplicates(pass1, found)) = 0
  BY <1>2, DuplicatesAreCounted, FS_EmptySet
<1>4. errors = 0 <=> \A j \in DOMAIN pass1 : PlacementErrors(pass1[j].line) = 0
  BY <1>1, <1>2 DEF Accounted, ErrorsAreCounted, AfterLabels
<1>5. errors' = 0 <=> errors = 0 /\ Duplicates(pass1, found) = {}
  <2>1. \A e, i \in Nat : e + i = 0 <=> e = 0 /\ i = 0
    OBVIOUS
  <2>2. QED
    BY <1>1, <1>2, <1>3, <2>1, Zenon
<1> HIDE DEF found
<1>6. ErrorsAreCounted'
  BY <1>1, <1>2, <1>4, <1>5 DEF ErrorsAreCounted, AfterLabels
<1>7. QED
  BY <1>1, <1>6 DEF Accounted, EntryIsLastStart

LEMMA EmitLineKeepsAccounted == IInv /\ Accounted /\ EmitLine => Accounted'
<1> SUFFICES ASSUME IInv, Accounted, EmitLine PROVE Accounted'
  OBVIOUS
<1> DEFINE p == pass1[next]
           q == [line            |-> p.line,
                 line_counter    |-> p.line_counter,
                 program_counter |-> p.program_counter,
                 line_type       |-> Pass2Type(p),
                 opcode          |-> EmittedWords(p)]
<1>1. /\ phase = "pass2" /\ next <= Len(pass1)
      /\ UNCHANGED << pass0, phase, data_pass0, pass1, labels, entry >>
      /\ pass2' = Append(pass2, q)
      /\ errors' = errors + InstructionErrors(p)
  BY DEF EmitLine
<1>2. TypeOK /\ Classified /\ Len(pass2) = next - 1
  BY <1>1 DEF IInv, Progress
<1>3. /\ p \in Pass1Line /\ p.line_type = LineType(p.line)
      /\ errors \in Nat /\ next \in Nat \ {0} /\ pass2 \in Seq(Pass2Line)
  BY <1>1, <1>2, ElementOfSeq DEF TypeOK, Classified
<1> HIDE DEF q
<1>4. InstructionErrors(p) \in Nat
  <2> HIDE DEF p
  <2>1. QED
    BY <1>2, <1>3, EmittedWordsType
<1>5. pass2' \in Seq(Pass2Line) /\ DOMAIN pass2 = 1..(next - 1) /\ DOMAIN pass2' = 1..next
  <2>1. (EmitLine /\ IInv) => IInv'
    BY EmitLineKeepsIInv
  <2>2. pass2' \in Seq(Pass2Line) /\ Len(pass2') = next' - 1 /\ next' = next + 1
    BY <1>1, <2>1 DEF IInv, TypeOK, Progress, EmitLine
  <2>3. QED
    BY <1>2, <1>3, <2>2
<1>6. (\A j \in DOMAIN pass2' : InstructionErrors(pass1[j]) = 0) <=>
        /\ \A j \in DOMAIN pass2 : InstructionErrors(pass1[j]) = 0
        /\ InstructionErrors(p) = 0
  <2>1. \A j \in 1..next : j \in 1..(next - 1) \/ j = next
    BY <1>3
  <2>2. next \in 1..next /\ \A j \in 1..(next - 1) : j \in 1..next
    BY <1>3
  <2>3. QED
    BY <1>5, <2>1, <2>2
<1>7. errors' = 0 <=> errors = 0 /\ InstructionErrors(p) = 0
  BY <1>1, <1>3, <1>4
<1>8. \A j : InstructionErrors(pass1[j])' = InstructionErrors(pass1[j])
  BY <1>1 DEF InstructionErrors, ArgumentCount
<1>9. ErrorsAreCounted'
  <2>1. errors = 0 <=> /\ \A j \in DOMAIN pass1 : PlacementErrors(pass1[j].line) = 0
                       /\ Duplicates(pass1, labels) = {}
                       /\ \A j \in DOMAIN pass2 : InstructionErrors(pass1[j]) = 0
    BY <1>1 DEF Accounted, ErrorsAreCounted, AfterLabels
  <2>2. errors' = 0 <=> /\ \A j \in DOMAIN pass1 : PlacementErrors(pass1[j].line) = 0
                        /\ Duplicates(pass1, labels) = {}
                        /\ \A j \in DOMAIN pass2' : InstructionErrors(pass1[j]) = 0
    BY <1>6, <1>7, <2>1
  <2>3. QED
    BY <1>1, <2>2 DEF ErrorsAreCounted, AfterLabels
<1>10. QED
  BY <1>1, <1>9 DEF Accounted, EntryIsLastStart

-----------------------------------------------------------------------------
(* No other step adds to what is counted, unless it ends the run.          *)
LEMMA NothingCounted ==
  ASSUME Accounted, UNCHANGED << pass0, data_pass0, pass1, pass2, labels >>,
         phase' = "done" \/ (errors' = errors /\ phase # "done" /\ (AfterLabels <=> AfterLabels'))
  PROVE  CommsInOrder(pass0, data_pass0)' /\ ErrorsAreCounted'
<1>1. CommsInOrder(pass0, data_pass0)'
  BY DEF Accounted
<1>2. (\A j : InstructionErrors(pass1[j])' = InstructionErrors(pass1[j]))
  BY DEF InstructionErrors, ArgumentCount
<1>3. ErrorsAreCounted'
  <2>1. CASE phase' = "done"
    BY <2>1 DEF ErrorsAreCounted
  <2>2. CASE phase' # "done"
    BY <1>2, <2>2 DEF Accounted, ErrorsAreCounted
  <2>3. QED
    BY <2>1, <2>2
<1>4. QED
  BY <1>1, <1>3

LEMMA EndOfLoopKeepsAccounted ==
  Accounted /\ (EndOfSource \/ EndOfDeferred \/ EndOfPass2) => Accounted'
<1> SUFFICES ASSUME Accounted, EndOfSource \/ EndOfDeferred \/ EndOfPass2 PROVE Accounted'
  OBVIOUS
<1>1. /\ UNCHANGED << pass0, data_pass0, pass1, pass2, labels, errors, entry >>
      /\ phase \in {"pass1", "deferred", "pass2"} /\ phase' \in {"deferred", "labels", "output"}
      /\ AfterLabels <=> AfterLabels'
  BY DEF EndOfSource, EndOfDeferred, EndOfPass2, AfterLabels
<1>2. EntryIsLastStart'
  BY <1>1 DEF Accounted, EntryIsLastStart
<1>3. QED
  BY <1>1, <1>2, NothingCounted DEF Accounted

LEMMA OutputEndKeepsAccounted ==
  Accounted /\ (RejectErrors \/ RejectKbt \/ RejectFlat \/ SealKbt \/ SealFlat) => Accounted'
<1> SUFFICES ASSUME Accounted, RejectErrors \/ RejectKbt \/ RejectFlat \/ SealKbt \/ SealFlat
             PROVE  Accounted'
  OBVIOUS
<1>1. UNCHANGED << pass0, data_pass0, pass1, pass2, labels >> /\ phase' = "done"
  BY DEF RejectErrors, RejectKbt, RejectFlat, SealKbt, SealFlat
<1>2. EntryIsLastStart'
  BY <1>1 DEF EntryIsLastStart
<1>3. QED
  BY <1>1, <1>2, NothingCounted DEF Accounted

LEMMA ImageStepKeepsAccounted ==
  IInv /\ Accounted /\ (ChooseImage \/ PushOpcode \/ NoteStart \/ PlaceOpcode) => Accounted'
<1> SUFFICES ASSUME IInv, Accounted, ChooseImage \/ PushOpcode \/ NoteStart \/ PlaceOpcode
             PROVE  Accounted'
  OBVIOUS
<1>1. /\ UNCHANGED << pass0, data_pass0, pass1, pass2, labels, errors >>
      /\ phase \in {"output", "kbt", "flat"} /\ phase' \in {"kbt", "flat"}
      /\ AfterLabels <=> AfterLabels'
  BY DEF ChooseImage, PushOpcode, NoteStart, PlaceOpcode, AfterLabels
<1>2. next \in Nat \ {0} /\ (phase = "output" => next = 1)
  BY DEF IInv, TypeOK, Progress
<1>3. EntryIsLastStart'
  <2>1. CASE ChooseImage
    <3>1. entry' = NoEntry /\ next' = 1
      BY <1>2, <2>1 DEF ChooseImage, Accounted, EntryIsLastStart
    <3>2. \A j \in 1..(next' - 1) : FALSE
      BY <3>1
    <3>3. QED
      BY <1>1, <3>1, <3>2 DEF EntryIsLastStart
  <2>2. CASE PushOpcode
    BY <2>2 DEF PushOpcode, Accounted, EntryIsLastStart
  <2>3. CASE NoteStart
    <3>1. /\ phase' = "flat" /\ next' = next + 1
          /\ pass2' = pass2 /\ pass2[next].line_type = "Start"
          /\ entry' = pass2[next].program_counter
      BY <2>3 DEF NoteStart
    <3>2. next \in 1..(next' - 1) /\ \A k \in (next + 1)..(next' - 1) : FALSE
      BY <1>2, <3>1
    <3>3. QED
      BY <3>1, <3>2 DEF EntryIsLastStart
  <2>4. CASE PlaceOpcode
    <3>1. /\ phase = "flat" /\ phase' = "flat" /\ next' = next + 1
          /\ pass2' = pass2 /\ pass2[next].line_type # "Start"
          /\ entry' = entry
      BY <2>4 DEF PlaceOpcode
    <3>2. \A j \in 1..(next' - 1) : j \in 1..(next - 1) \/ j = next
      BY <1>2, <3>1
    <3>3. CASE entry = NoEntry /\ \A j \in 1..(next - 1) : pass2[j].line_type # "Start"
      BY <3>1, <3>2, <3>3 DEF EntryIsLastStart
    <3>4. ASSUME NEW j \in 1..(next - 1), pass2[j].line_type = "Start",
                 entry = pass2[j].program_counter,
                 \A k \in (j + 1)..(next - 1) : pass2[k].line_type # "Start"
          PROVE  EntryIsLastStart'
      <4>1. \A k \in (j + 1)..(next' - 1) : k \in (j + 1)..(next - 1) \/ k = next
        BY <1>2, <3>1
      <4>2. j \in 1..(next' - 1)
        BY <1>2, <3>1
      <4>3. QED
        BY <3>1, <3>4, <4>1, <4>2 DEF EntryIsLastStart
    <3>5. QED
      BY <3>1, <3>3, <3>4 DEF Accounted, EntryIsLastStart
  <2>5. QED
    BY <2>1, <2>2, <2>3, <2>4
<1>4. QED
  BY <1>1, <1>3, NothingCounted DEF Accounted

LEMMA StutterKeepsAccounted == Accounted /\ UNCHANGED vars => Accounted'
BY DEF vars, Accounted, CommsInOrder, ErrorsAreCounted, EntryIsLastStart, AfterLabels,
       InstructionErrors, ArgumentCount

LEMMA NextKeepsAccounted == IInv /\ Layout /\ Accounted /\ [Next]_vars => Accounted'
BY DeferCommKeepsAccounted, DeferToDataSectionKeepsAccounted, KeepLineKeepsAccounted,
   PlaceDeferredKeepsAccounted, CollectLabelsKeepsAccounted, EmitLineKeepsAccounted,
   EndOfLoopKeepsAccounted, OutputEndKeepsAccounted, ImageStepKeepsAccounted,
   StutterKeepsAccounted
   DEF Next, Pass1Step, Pass2Step, OutputStep

-----------------------------------------------------------------------------
(* The contract's words for the lines, in the assembler's.                 *)

LEMMA ContractSum ==
  ASSUME NEW f, NEW D
  PROVE  Contract!SumFunctionOnSet(f, D) = SumFunctionOnSet(f, D)
BY DEF Contract!SumFunctionOnSet, SumFunctionOnSet, Contract!FoldFunctionOnSet,
       FoldFunctionOnSet, Contract!MapThenFoldSet, MapThenFoldSet

LEMMA ContractLines ==
  ASSUME NEW line
  PROVE  /\ Contract!UpgradeSetr(line) = UpgradeSetr(line)
         /\ Contract!WordCount(line) = WordCount(line)
<1>1. Contract!UpgradeSetr(line) = UpgradeSetr(line)
  BY DEF UpgradeSetr, Contract!UpgradeSetr
<1>2. Contract!WordCount(line) = WordCount(line)
  BY DEF WordCount, Contract!WordCount, LineType, Contract!LineType, DataWords, Contract!DataWords
<1>3. QED
  BY <1>1, <1>2

LEMMA ContractDeferred ==
  ASSUME pass0 \in Seq(Line), NEW s \in 1..Len(pass0)
  PROVE  Contract!Deferred(s) <=> ~Keeps(pass0, s)
<1>1. pass0[s] \in Line
  BY ElementOfSeq
<1>2. pass0[s].kind \in {"label", "data"} <=> LineType(pass0[s]) \in {"Label", "Data"}
  BY <1>1, LineSizes
<1>3. Contract!InDataSection(s) <=> InSection(pass0, s)
  BY DEF Contract!InDataSection, InSection
<1>4. QED
  BY <1>2, <1>3 DEF Contract!Deferred, Keeps

LEMMA ContractBefore ==
  ASSUME pass0 \in Seq(Line), NEW s \in 1..Len(pass0), NEW t \in 1..Len(pass0)
  PROVE  Contract!Before(t, s) <=>
           \/ (Keeps(pass0, t) <=> Keeps(pass0, s)) /\ t < s
           \/ Keeps(pass0, t) /\ ~Keeps(pass0, s)
<1>1. (Contract!Deferred(s) <=> ~Keeps(pass0, s)) /\ (Contract!Deferred(t) <=> ~Keeps(pass0, t))
  BY ContractDeferred
<1>2. Contract!Deferred(s) \in BOOLEAN /\ Contract!Deferred(t) \in BOOLEAN
  BY DEF Contract!Deferred
<1>3. Contract!Before(t, s) <=> IF Contract!Deferred(t) = Contract!Deferred(s)
                                THEN t < s ELSE Contract!Deferred(s)
  BY DEF Contract!Before
<1>4. QED
  BY <1>1, <1>2, <1>3

LEMMA ContractSize ==
  ASSUME pass0 \in Seq(Line), NEW s \in 1..Len(pass0)
  PROVE  /\ Contract!Size(s) \in Nat
         /\ pass0[s].kind # "comm" => Contract!Size(s) = WordCount(UpgradeSetr(pass0[s]))
         /\ pass0[s].kind = "comm" =>
              /\ ~pass0[s].complete => Contract!Size(s) = 0
              /\ pass0[s].complete =>
                   /\ Contract!Size(s) = 2 * ((pass0[s].size + 7) \div 8)
                   /\ Contract!Size(s) > 0 <=> pass0[s].size > 0
<1>1. pass0[s] \in Line
  BY ElementOfSeq
<1>2. Contract!Size(s) = IF pass0[s].kind = "comm"
                         THEN IF pass0[s].complete THEN 2 * ((pass0[s].size + 7) \div 8) ELSE 0
                         ELSE WordCount(UpgradeSetr(pass0[s]))
  BY ContractLines DEF Contract!Size
<1>3. CASE pass0[s].kind # "comm"
  BY <1>1, <1>2, <1>3, UpgradeSetrType, WordCountType
<1>4. CASE pass0[s].kind = "comm"
  <2>1. pass0[s].size \in Nat /\ pass0[s].complete \in BOOLEAN
    BY <1>1, <1>4, KindOfLine DEF CommLine
  <2>2. \A n \in Nat : /\ 2 * ((n + 7) \div 8) \in Nat
                       /\ 2 * ((n + 7) \div 8) > 0 <=> n > 0
    OBVIOUS
  <2>3. CASE pass0[s].complete
    BY <1>2, <1>4, <2>1, <2>2, <2>3
  <2>4. CASE ~pass0[s].complete
    BY <1>2, <1>4, <2>4
  <2>5. QED
    BY <2>3, <2>4
<1>5. QED
  BY <1>3, <1>4

-----------------------------------------------------------------------------
(* What pass 1 has placed, against the source.                             *)

(* Pass 1 is over: n kept lines and then the deferred ones.                *)
AllPlaced(n) ==
  /\ pass0 \in Seq(Line) /\ pass1 \in Seq(Pass1Line) /\ data_pass0 \in Seq(DeferredLine)
  /\ KeptInOrder(pass0, pass1, n, Len(pass0))
  /\ DeferredInOrder(pass0, data_pass0, Len(pass0))
  /\ Copied(pass1, n, data_pass0)
  /\ Len(pass1) = n + Len(data_pass0)
  /\ CommsInOrder(pass0, data_pass0)

LEMMA AllPlacedOnceLaidOut ==
  ASSUME IInv, Layout, Accounted, LaidOut
  PROVE  \E n \in 0..Len(pass1) : AllPlaced(n)
BY LayoutOnceLaidOut DEF AllPlaced, IInv, TypeOK, Accounted

(* Entry j of pass 1 is what its source line became.                       *)
ItemIs(j) ==
  LET s    == pass1[j].line_counter
      line == pass1[j].line
  IN  /\ s \in 1..Len(pass0)
      /\ pass0[s].kind # "comm" => line = UpgradeSetr(pass0[s])
      /\ pass0[s].kind = "comm" =>
           /\ pass0[s].complete
           /\ \/ line.kind = "label" /\ line.name = pass0[s].name
              \/ /\ line.kind = "data" /\ line.named = FALSE /\ line.valid = TRUE
                 /\ line.words = Contract!Size(s)

(* Source line s has become what it should.                                *)
HasItems(s) ==
  /\ pass0[s].kind # "comm" => \E j \in 1..Len(pass1) : pass1[j].line_counter = s
  /\ pass0[s].kind = "comm" /\ pass0[s].complete =>
       \E j \in 1..Len(pass1) : pass1[j].line_counter = s /\ pass1[j].line.kind = "label"
  /\ pass0[s].kind = "comm" /\ Contract!Size(s) > 0 =>
       \E j \in 1..Len(pass1) : pass1[j].line_counter = s /\ pass1[j].line.kind = "data"

(* Entry i precedes entry j as the contract wants it.                      *)
InContractOrder(i, j) ==
  LET s == pass1[i].line_counter
      t == pass1[j].line_counter
  IN  \/ s # t /\ Contract!Before(s, t)
      \/ s = t /\ pass0[s].kind = "comm" /\ pass1[i].line.kind = "label"

(* A deferred entry for a .comm.                                           *)
LEMMA CommItemIs ==
  ASSUME pass0 \in Seq(Line), data_pass0 \in Seq(DeferredLine),
         CommsInOrder(pass0, data_pass0), NEW d \in 1..Len(data_pass0),
         data_pass0[d].line_counter \in 1..Len(pass0),
         pass0[data_pass0[d].line_counter].kind = "comm"
  PROVE  LET s    == data_pass0[d].line_counter
             line == data_pass0[d].line
         IN  /\ pass0[s].complete
             /\ CommPart(data_pass0, d) = 1 => line.kind = "label" /\ line.name = pass0[s].name
             /\ CommPart(data_pass0, d) = 2 =>
                  /\ line.kind = "data" /\ line.named = FALSE /\ line.valid = TRUE
                  /\ line.words = Contract!Size(s)
             /\ CommPart(data_pass0, d) \in {1, 2}
<1> DEFINE s == data_pass0[d].line_counter
           part == CommPart(data_pass0, d)
           line == data_pass0[d].line
<1>1. s \in 1..Len(pass0) /\ pass0[s].kind = "comm" /\ pass0[s] \in Line
  BY ElementOfSeq
<1>2. part <= Len(CommItems(pass0[s])) /\ line = CommItems(pass0[s])[part]
  BY DEF CommsInOrder, IsCommItem
<1>3. part \in {1, 2}
  BY DEF CommPart
<1>4. pass0[s].complete => Contract!Size(s) = 2 * ((pass0[s].size + 7) \div 8)
  BY <1>1, ContractSize
<1> HIDE DEF s, part, line
<1>5. /\ Len(CommItems(pass0[s])) \in {0, 1, 2}
      /\ pass0[s].complete <=> Len(CommItems(pass0[s])) >= 1
      /\ Len(CommItems(pass0[s])) >= 1 =>
              /\ CommItems(pass0[s])[1].kind = "label"
              /\ CommItems(pass0[s])[1].name = pass0[s].name
      /\ Len(CommItems(pass0[s])) = 2 =>
              /\ CommItems(pass0[s])[2].kind = "data"
              /\ CommItems(pass0[s])[2].named = FALSE
              /\ CommItems(pass0[s])[2].valid = TRUE
              /\ CommItems(pass0[s])[2].words = 2 * ((pass0[s].size + 7) \div 8)
  BY <1>1, CommItemsAre
<1>6. CASE part = 1
  <2>1. pass0[s].complete /\ line.kind = "label" /\ line.name = pass0[s].name
    BY <1>2, <1>5, <1>6
  <2>2. QED
    BY <1>6, <2>1 DEF s, part, line
<1>7. CASE part = 2
  <2>1. /\ pass0[s].complete /\ line.kind = "data" /\ line.named = FALSE /\ line.valid = TRUE
        /\ line.words = Contract!Size(s)
    BY <1>2, <1>4, <1>5, <1>7
  <2>2. QED
    BY <1>7, <2>1 DEF s, part, line
<1>8. QED
  BY <1>3, <1>6, <1>7

LEMMA PlacedItemIs ==
  ASSUME NEW n \in 0..Len(pass1), AllPlaced(n), NEW j \in 1..Len(pass1)
  PROVE  ItemIs(j)
<1> DEFINE s == pass1[j].line_counter
           line == pass1[j].line
<1>1. /\ pass0 \in Seq(Line) /\ data_pass0 \in Seq(DeferredLine)
      /\ Len(pass0) \in Nat /\ Len(pass1) \in Nat /\ Len(data_pass0) \in Nat
  BY LenProperties DEF AllPlaced
<1>2. CASE j <= n
  <2>1. s \in 1..Len(pass0) /\ Keeps(pass0, s) /\ line = UpgradeSetr(pass0[s])
    BY <1>1, <1>2 DEF AllPlaced, KeptInOrder
  <2>2. QED
    BY <2>1 DEF ItemIs, Keeps
<1>3. CASE j > n
  <2> DEFINE d == j - n
  <2>1. /\ d \in 1..Len(data_pass0)
        /\ s = data_pass0[d].line_counter /\ line = data_pass0[d].line
    BY <1>1, <1>3 DEF AllPlaced, Copied
  <2> HIDE DEF d, s, line
  <2>2. /\ s \in 1..Len(pass0) /\ ~Keeps(pass0, s)
        /\ pass0[s].kind # "comm" => line = pass0[s]
    BY <2>1 DEF AllPlaced, DeferredInOrder
  <2>3. CASE pass0[s].kind # "comm"
    <3>1. pass0[s] \in Line
      BY <1>1, <2>2, ElementOfSeq
    <3>2. pass0[s].kind \in {"label", "data"}
      BY <2>2, <2>3, <3>1, LineSizes DEF Keeps
    <3>3. UpgradeSetr(pass0[s]) = pass0[s]
      BY <3>1, <3>2, LineSizes
    <3>4. QED
      BY <2>2, <2>3, <3>3 DEF ItemIs, s, line
  <2>4. CASE pass0[s].kind = "comm"
    <3>1. CommsInOrder(pass0, data_pass0)
      BY DEF AllPlaced
    <3>2. /\ pass0[s].complete
          /\ CommPart(data_pass0, d) = 1 => line.kind = "label" /\ line.name = pass0[s].name
          /\ CommPart(data_pass0, d) = 2 =>
                  /\ line.kind = "data" /\ line.named = FALSE /\ line.valid = TRUE
                  /\ line.words = Contract!Size(s)
          /\ CommPart(data_pass0, d) \in {1, 2}
      BY <1>1, <2>1, <2>2, <2>4, <3>1, CommItemIs
    <3>3. QED
      BY <2>2, <2>4, <3>2 DEF ItemIs, s, line
  <2>5. QED
    BY <2>3, <2>4
<1>4. QED
  BY <1>1, <1>2, <1>3

-----------------------------------------------------------------------------
(* The copy of deferred entry d.                                           *)
LEMMA CopyOfDeferred ==
  ASSUME NEW n \in 0..Len(pass1), AllPlaced(n), NEW d \in 1..Len(data_pass0)
  PROVE  /\ n + d \in 1..Len(pass1)
         /\ pass1[n + d].line_counter = data_pass0[d].line_counter
         /\ pass1[n + d].line = data_pass0[d].line
<1>1. Len(pass1) \in Nat /\ Len(data_pass0) \in Nat /\ Len(pass1) = n + Len(data_pass0)
  BY LenProperties DEF AllPlaced
<1>2. n + d \in (n + 1)..Len(pass1) /\ (n + d) - n = d /\ n + d \in 1..Len(pass1)
  BY <1>1
<1>3. QED
  BY <1>2 DEF AllPlaced, Copied

LEMMA PlacedLineHasItems ==
  ASSUME NEW n \in 0..Len(pass1), AllPlaced(n), NEW s \in 1..Len(pass0)
  PROVE  HasItems(s)
<1>1. /\ pass0 \in Seq(Line) /\ data_pass0 \in Seq(DeferredLine)
      /\ Len(pass0) \in Nat /\ Len(pass1) \in Nat /\ Len(data_pass0) \in Nat
  BY LenProperties DEF AllPlaced
<1>2. CASE Keeps(pass0, s)
  <2>1. pass0[s].kind # "comm"
    BY <1>2 DEF Keeps
  <2>2. PICK i \in 1..n : pass1[i].line_counter = s
    BY <1>2 DEF AllPlaced, KeptInOrder
  <2>3. i \in 1..Len(pass1)
    BY <1>1
  <2>4. QED
    BY <2>1, <2>2, <2>3 DEF HasItems
<1>3. CASE ~Keeps(pass0, s)
  <2>1. PICK first \in 0..Len(data_pass0) :
              /\ first + ItemCount(pass0, s) <= Len(data_pass0)
              /\ Stretch(data_pass0, s, first, first + ItemCount(pass0, s))
    BY <1>3 DEF AllPlaced, DeferredInOrder
  <2>2. ItemCount(pass0, s) \in Nat
    BY <1>1, ItemCountType
  <2>3. \A k \in 1..ItemCount(pass0, s) :
          first + k \in 1..Len(data_pass0) /\ data_pass0[first + k].line_counter = s
    BY <1>1, <2>1, <2>2 DEF Stretch
  <2>4. CASE pass0[s].kind # "comm"
    <3>1. 1 \in 1..ItemCount(pass0, s)
      BY <2>4 DEF ItemCount
    <3>2. first + 1 \in 1..Len(data_pass0) /\ data_pass0[first + 1].line_counter = s
      BY <2>3, <3>1
    <3>3. n + (first + 1) \in 1..Len(pass1) /\ pass1[n + (first + 1)].line_counter = s
      BY <3>2, CopyOfDeferred
    <3>4. QED
      BY <2>4, <3>3 DEF HasItems
  <2>5. CASE pass0[s].kind = "comm"
    <3>1. /\ pass0[s] \in Line
          /\ Len(CommItems(pass0[s])) = ItemCount(pass0, s)
      BY <1>1, <2>5, ElementOfSeq DEF ItemCount
    <3>2. /\ Len(CommItems(pass0[s])) \in {0, 1, 2}
          /\ pass0[s].complete <=> Len(CommItems(pass0[s])) >= 1
          /\ pass0[s].complete => (Len(CommItems(pass0[s])) = 2 <=> pass0[s].size > 0)
          /\ Len(CommItems(pass0[s])) >= 1 => CommItems(pass0[s])[1].kind = "label"
          /\ Len(CommItems(pass0[s])) = 2 => CommItems(pass0[s])[2].kind = "data"
      BY <2>5, <3>1, CommItemsAre
    <3>3. ASSUME NEW d \in 1..Len(data_pass0), data_pass0[d].line_counter = s
          PROVE  data_pass0[d].line = CommItems(pass0[s])[CommPart(data_pass0, d)]
      BY <2>5, <3>3 DEF AllPlaced, CommsInOrder, IsCommItem
    <3>4. \A k \in 1..ItemCount(pass0, s) : CommPart(data_pass0, first + k) = k
      <4> SUFFICES ASSUME NEW k \in 1..ItemCount(pass0, s)
                   PROVE  CommPart(data_pass0, first + k) = k
        OBVIOUS
      <4>1. k \in {1, 2}
        BY <2>2, <3>1, <3>2
      <4>2. CASE k = 1
        <5>1. first + k > 1 => /\ (first + k) - 1 \in 1..Len(data_pass0)
                               /\ ~(first < (first + k) - 1)
          BY <2>3, <4>2
        <5>2. first + k > 1 => data_pass0[(first + k) - 1].line_counter # s
          BY <2>1, <5>1 DEF Stretch
        <5>3. QED
          BY <2>3, <4>2, <5>2 DEF CommPart
      <4>3. CASE k = 2
        <5>1. 1 \in 1..ItemCount(pass0, s) /\ (first + k) - 1 = first + 1 /\ first + k > 1
          BY <2>2, <4>3
        <5>2. data_pass0[(first + k) - 1].line_counter = s
          BY <2>3, <5>1
        <5>3. QED
          BY <2>3, <4>3, <5>1, <5>2 DEF CommPart
      <4>4. QED
        BY <4>1, <4>2, <4>3
    <3>5. \A k \in 1..ItemCount(pass0, s) :
            \E j \in 1..Len(pass1) :
              pass1[j].line_counter = s /\ pass1[j].line = CommItems(pass0[s])[k]
      <4> SUFFICES ASSUME NEW k \in 1..ItemCount(pass0, s)
                   PROVE  \E j \in 1..Len(pass1) :
                            pass1[j].line_counter = s /\ pass1[j].line = CommItems(pass0[s])[k]
        OBVIOUS
      <4>1. first + k \in 1..Len(data_pass0) /\ data_pass0[first + k].line_counter = s
        BY <2>3
      <4>2. data_pass0[first + k].line = CommItems(pass0[s])[k]
        BY <3>3, <3>4, <4>1
      <4>3. /\ n + (first + k) \in 1..Len(pass1)
            /\ pass1[n + (first + k)].line_counter = s
            /\ pass1[n + (first + k)].line = CommItems(pass0[s])[k]
        BY <4>1, <4>2, CopyOfDeferred
      <4>4. QED
        BY <4>3
    <3>6. Contract!Size(s) > 0 => pass0[s].complete /\ pass0[s].size > 0
      <4>1. pass0[s].complete \in BOOLEAN
        BY <2>5, <3>1, KindOfLine DEF CommLine
      <4>2. QED
        BY <1>1, <2>5, <4>1, ContractSize
    <3>7. pass0[s].complete =>
            \E j \in 1..Len(pass1) : pass1[j].line_counter = s /\ pass1[j].line.kind = "label"
      <4> SUFFICES ASSUME pass0[s].complete
                   PROVE  \E j \in 1..Len(pass1) :
                            pass1[j].line_counter = s /\ pass1[j].line.kind = "label"
        OBVIOUS
      <4>1. 1 \in 1..ItemCount(pass0, s) /\ CommItems(pass0[s])[1].kind = "label"
        BY <2>2, <3>1, <3>2
      <4>2. PICK j \in 1..Len(pass1) :
                   pass1[j].line_counter = s /\ pass1[j].line = CommItems(pass0[s])[1]
        BY <3>5, <4>1
      <4>3. QED
        BY <4>1, <4>2
    <3>8. Contract!Size(s) > 0 =>
            \E j \in 1..Len(pass1) : pass1[j].line_counter = s /\ pass1[j].line.kind = "data"
      <4> SUFFICES ASSUME Contract!Size(s) > 0
                   PROVE  \E j \in 1..Len(pass1) :
                            pass1[j].line_counter = s /\ pass1[j].line.kind = "data"
        OBVIOUS
      <4>1. 2 \in 1..ItemCount(pass0, s) /\ CommItems(pass0[s])[2].kind = "data"
        BY <2>2, <3>1, <3>2, <3>6
      <4>2. PICK j \in 1..Len(pass1) :
                   pass1[j].line_counter = s /\ pass1[j].line = CommItems(pass0[s])[2]
        BY <3>5, <4>1
      <4>3. QED
        BY <4>1, <4>2
    <3>9. QED
      BY <2>5, <3>7, <3>8 DEF HasItems
  <2>6. QED
    BY <2>4, <2>5
<1>4. QED
  BY <1>2, <1>3

LEMMA PlacedInContractOrder ==
  ASSUME NEW n \in 0..Len(pass1), AllPlaced(n),
         NEW i \in 1..Len(pass1), NEW j \in 1..Len(pass1), i < j
  PROVE  InContractOrder(i, j)
<1> DEFINE s == pass1[i].line_counter
           t == pass1[j].line_counter
<1>1. /\ pass0 \in Seq(Line) /\ data_pass0 \in Seq(DeferredLine)
      /\ Len(pass0) \in Nat /\ Len(pass1) \in Nat /\ Len(data_pass0) \in Nat
  BY LenProperties DEF AllPlaced
<1>2. s \in 1..Len(pass0) /\ t \in 1..Len(pass0)
  BY PlacedItemIs DEF ItemIs
<1>3. Contract!Before(s, t) <=>
           \/ (Keeps(pass0, s) <=> Keeps(pass0, t)) /\ s < t
           \/ Keeps(pass0, s) /\ ~Keeps(pass0, t)
  BY <1>1, <1>2, ContractBefore
<1>4. i <= n => Keeps(pass0, s)
  BY <1>1 DEF AllPlaced, KeptInOrder
<1>5. \A k \in 1..Len(pass1) : k > n =>
        /\ k - n \in 1..Len(data_pass0)
        /\ pass1[k].line_counter = data_pass0[k - n].line_counter
        /\ pass1[k].line = data_pass0[k - n].line
        /\ ~Keeps(pass0, pass1[k].line_counter)
  <2>1. \A k \in 1..Len(pass1) : k > n => k \in (n + 1)..Len(pass1)
    BY <1>1
  <2>2. QED
    BY <2>1 DEF AllPlaced, Copied, DeferredInOrder
<1>6. CASE j <= n
  <2>1. s < t /\ Keeps(pass0, s) /\ Keeps(pass0, t)
    BY <1>1, <1>6 DEF AllPlaced, KeptInOrder
  <2>2. s # t
    BY <1>2, <2>1
  <2>3. QED
    BY <1>3, <2>1, <2>2 DEF InContractOrder
<1>7. CASE i <= n /\ j > n
  <2>1. Keeps(pass0, s) /\ ~Keeps(pass0, t)
    BY <1>4, <1>5, <1>7
  <2>2. QED
    BY <1>3, <2>1 DEF InContractOrder
<1>8. CASE i > n
  <2> DEFINE c == i - n
             d == j - n
  <2>1. /\ c \in 1..Len(data_pass0) /\ d \in 1..Len(data_pass0) /\ c < d
        /\ s = data_pass0[c].line_counter /\ t = data_pass0[d].line_counter
        /\ pass1[i].line = data_pass0[c].line
        /\ ~Keeps(pass0, s) /\ ~Keeps(pass0, t)
    <3>1. i > n /\ j > n /\ c < d
      BY <1>1, <1>8
    <3>2. QED
      BY <1>5, <3>1
  <2> HIDE DEF c, d, s, t
  <2>2. s <= t
    BY <2>1 DEF AllPlaced, DeferredInOrder
  <2>3. CASE s < t
    BY <1>2, <1>3, <2>1, <2>3 DEF InContractOrder, s, t
  <2>4. CASE s = t
    <3>1. PICK first \in 0..Len(data_pass0) :
                /\ first + ItemCount(pass0, s) <= Len(data_pass0)
                /\ Stretch(data_pass0, s, first, first + ItemCount(pass0, s))
      BY <1>2, <2>1 DEF AllPlaced, DeferredInOrder
    <3>2. ItemCount(pass0, s) \in Nat
      BY <1>1, <1>2, ItemCountType
    <3>3. first < c /\ d <= first + ItemCount(pass0, s)
      BY <2>1, <2>4, <3>1 DEF Stretch
    <3>4. ItemCount(pass0, s) > 1
      BY <2>1, <3>2, <3>3
    <3>5. pass0[s].kind = "comm"
      BY <3>4 DEF ItemCount
    <3>6. ItemCount(pass0, s) <= 2
      <4>1. pass0[s] \in Line
        BY <1>1, <1>2, ElementOfSeq
      <4>2. QED
        BY <3>5, <4>1, CommItemsAre DEF ItemCount
    <3>7. c = first + 1
      BY <2>1, <3>2, <3>3, <3>6
    <3>8. CommPart(data_pass0, c) = 1
      <4>1. c > 1 => c - 1 \in 1..Len(data_pass0) /\ ~(first < c - 1)
        BY <2>1, <3>7
      <4>2. c > 1 => data_pass0[c - 1].line_counter # s
        BY <3>1, <4>1 DEF Stretch
      <4>3. QED
        BY <2>1, <4>2 DEF CommPart
    <3>9. pass1[i].line.kind = "label"
      <4>1. CommsInOrder(pass0, data_pass0)
        BY DEF AllPlaced
      <4>2. data_pass0[c].line_counter \in 1..Len(pass0)
              /\ pass0[data_pass0[c].line_counter].kind = "comm"
        BY <1>2, <2>1, <3>5
      <4>3. data_pass0[c].line.kind = "label"
        BY <1>1, <2>1, <3>8, <4>1, <4>2, CommItemIs
      <4>4. QED
        BY <2>1, <4>3
    <3>10. QED
      BY <2>4, <3>5, <3>9 DEF InContractOrder, s, t
  <2>5. QED
    BY <1>2, <2>2, <2>3, <2>4
<1>9. QED
  BY <1>1, <1>6, <1>7, <1>8

-----------------------------------------------------------------------------
(* Addresses: pass 1 counts what the contract adds up.                     *)

PlacedAsPromised ==
  /\ pass0 \in Seq(Line) /\ pass1 \in Seq(Pass1Line)
  /\ Len(pass0) \in Nat /\ Len(pass1) \in Nat
  /\ DOMAIN pass0 = 1..Len(pass0) /\ DOMAIN pass1 = 1..Len(pass1)
  /\ Classified /\ Contiguous
  /\ \A j \in 1..Len(pass1) : pass1[j] \in Pass1Line /\ ItemIs(j)
  /\ \A s \in 1..Len(pass0) : HasItems(s)
  /\ \A i, j \in 1..Len(pass1) : i < j => InContractOrder(i, j)

LEMMA PlacedAsPromisedOnceLaidOut ==
  ASSUME IInv, Layout, Accounted, LaidOut
  PROVE  PlacedAsPromised
<1>1. PICK n \in 0..Len(pass1) : AllPlaced(n)
  BY AllPlacedOnceLaidOut
<1>2. /\ pass0 \in Seq(Line) /\ pass1 \in Seq(Pass1Line)
      /\ Len(pass0) \in Nat /\ Len(pass1) \in Nat
      /\ DOMAIN pass0 = 1..Len(pass0) /\ DOMAIN pass1 = 1..Len(pass1)
  BY <1>1, LenProperties DEF AllPlaced
<1>3. \A j \in 1..Len(pass1) : pass1[j] \in Pass1Line
  BY <1>2, ElementOfSeq
<1>4. /\ \A j \in 1..Len(pass1) : ItemIs(j)
      /\ \A s \in 1..Len(pass0) : HasItems(s)
      /\ \A i, j \in 1..Len(pass1) : i < j => InContractOrder(i, j)
  BY <1>1, PlacedItemIs, PlacedLineHasItems, PlacedInContractOrder
<1>5. Classified /\ Contiguous
  BY DEF IInv
<1>6. QED
  BY <1>2, <1>3, <1>4, <1>5 DEF PlacedAsPromised

Words(j) == WordCount(pass1[j].line)

(* An entry has the words of its source line, or it is the label of a      *)
(* .comm and has none.                                                     *)
LEMMA WordsOfItem ==
  ASSUME PlacedAsPromised, NEW j \in 1..Len(pass1)
  PROVE  LET s == pass1[j].line_counter
         IN  /\ s \in 1..Len(pass0) /\ Contract!Size(s) \in Nat /\ Words(j) \in Nat
             /\ Words(j) = 0 \/ Words(j) = Contract!Size(s)
             /\ \/ Words(j) = Contract!Size(s)
                \/ pass0[s].kind = "comm" /\ pass1[j].line.kind = "label"
             /\ pass1[j].line.kind = "label" => Words(j) = 0
             /\ pass1[j].line.kind = "data" => Words(j) = Contract!Size(s)
<1> DEFINE s == pass1[j].line_counter
           line == pass1[j].line
<1>1. ItemIs(j) /\ pass1[j] \in Pass1Line /\ pass0 \in Seq(Line)
  BY DEF PlacedAsPromised
<1>2. s \in 1..Len(pass0) /\ line \in Line
  BY <1>1 DEF ItemIs, Pass1Line
<1>3. Contract!Size(s) \in Nat /\ (pass0[s].kind # "comm" => Contract!Size(s) = WordCount(UpgradeSetr(pass0[s])))
  BY <1>1, <1>2, ContractSize
<1>4. WordCount(line) \in Nat /\ (line.kind = "label" => WordCount(line) = 0)
  BY <1>2, WordCountType, LineSizes
<1>5. pass0[s].kind # "comm" => line = UpgradeSetr(pass0[s])
  BY <1>1 DEF ItemIs
<1>6. pass0[s].kind = "comm" =>
        \/ line.kind = "label"
        \/ line.kind = "data" /\ line.valid = TRUE /\ line.words = Contract!Size(s)
  BY <1>1 DEF ItemIs
<1>7. line.kind = "data" /\ line.valid = TRUE => WordCount(line) = line.words
  BY DEF WordCount, LineType, DataWords
<1>8. Words(j) = WordCount(line)
  BY DEF Words
<1> HIDE DEF s, line
<1>9. /\ s \in 1..Len(pass0) /\ Contract!Size(s) \in Nat /\ Words(j) \in Nat
      /\ Words(j) = 0 \/ Words(j) = Contract!Size(s)
      /\ Words(j) = Contract!Size(s) \/ (pass0[s].kind = "comm" /\ line.kind = "label")
      /\ line.kind = "label" => Words(j) = 0
      /\ line.kind = "data" => Words(j) = Contract!Size(s)
  <2>1. CASE pass0[s].kind # "comm"
    <3>1. Words(j) = Contract!Size(s)
      BY <1>3, <1>5, <1>8, <2>1, Zenon
    <3>2. line.kind = "label" => Words(j) = 0
      BY <1>4, <1>8, Zenon
    <3>3. QED
      BY <1>2, <1>3, <3>1, <3>2, Zenon
  <2>2. CASE pass0[s].kind = "comm"
    <3>1. line.kind = "label" => Words(j) = 0
      BY <1>4, <1>8, Zenon
    <3>2. line.kind = "data" => Words(j) = Contract!Size(s)
      <4>1. "data" # "label"
        OBVIOUS
      <4>2. QED
        BY <1>6, <1>7, <1>8, <2>2, <4>1, Zenon
    <3>3. Words(j) \in Nat
      BY <1>4, <1>8, Zenon
    <3>4. QED
      BY <1>2, <1>3, <1>6, <2>2, <3>1, <3>2, <3>3, Zenon
  <2>3. QED
    BY <2>1, <2>2
<1>10. QED
  BY <1>9, Zenon DEF s, line

(* Source lines whose words are among the first k entries.                 *)
Heavy(k) ==
  {s \in 1..Len(pass0) : \E i \in 1..k : pass1[i].line_counter = s /\ Words(i) > 0}

Sizes == [s \in DOMAIN pass0 |-> Contract!Size(s)]

LEMMA SizesType ==
  ASSUME PlacedAsPromised, NEW T \in SUBSET (1..Len(pass0))
  PROVE  /\ IsFiniteSet(T)
         /\ \A s \in T : Sizes[s] = Contract!Size(s) /\ Sizes[s] \in Nat /\ Sizes[s] \in Int
         /\ SumFunctionOnSet(Sizes, T) \in Nat
<1>1. IsFiniteSet(1..Len(pass0))
  BY FS_Interval DEF PlacedAsPromised
<1>2. IsFiniteSet(T)
  BY <1>1, FS_Subset
<1>3. \A s \in T : Sizes[s] = Contract!Size(s) /\ Contract!Size(s) \in Nat
  BY ContractSize DEF PlacedAsPromised, Sizes
<1>4. \A s \in T : Sizes[s] \in Nat /\ Sizes[s] \in Int
  BY <1>3
<1>5. SumFunctionOnSet(Sizes, T) \in Nat
  BY <1>2, <1>4, SumNat
<1>6. QED
  BY <1>2, <1>3, <1>4, <1>5

(* Of two entries of one source line only the later one has words.         *)
LEMMA OneHeavyItem ==
  ASSUME PlacedAsPromised, NEW i \in 1..Len(pass1), NEW j \in 1..Len(pass1), i < j,
         pass1[i].line_counter = pass1[j].line_counter
  PROVE  Words(i) = 0
<1>1. pass1[i].line.kind = "label"
  BY DEF PlacedAsPromised, InContractOrder
<1>2. QED
  BY <1>1, WordsOfItem

LEMMA AddressesAddUp ==
  ASSUME PlacedAsPromised, NEW k \in 0..Len(pass1)
  PROVE  LineEnd(pass1, k) = HeaderBytes + 4 * SumFunctionOnSet(Sizes, Heavy(k))
<1> DEFINE N == {m \in Nat : m <= Len(pass1) =>
                   LineEnd(pass1, m) = HeaderBytes + 4 * SumFunctionOnSet(Sizes, Heavy(m))}
<1>0. Len(pass1) \in Nat
  BY DEF PlacedAsPromised
<1>1. 0 \in N
  <2>1. Heavy(0) = {}
    BY DEF Heavy
  <2>2. SumFunctionOnSet(Sizes, Heavy(0)) = 0
    BY <2>1, SumEmpty
  <2>3. QED
    BY <2>2 DEF LineEnd, HeaderBytes, HEAP_HEADER_WORDS
<1>2. ASSUME NEW m \in Nat, m \in N
      PROVE  m + 1 \in N
  <2> SUFFICES ASSUME m + 1 <= Len(pass1)
               PROVE  LineEnd(pass1, m + 1)
                        = HeaderBytes + 4 * SumFunctionOnSet(Sizes, Heavy(m + 1))
    OBVIOUS
  <2> DEFINE s == pass1[m + 1].line_counter
  <2>1. m + 1 \in 1..Len(pass1) /\ m <= Len(pass1) /\ (m + 1) - 1 = m /\ m + 1 # 0
    BY <1>0
  <2>2. LineEnd(pass1, m) = HeaderBytes + 4 * SumFunctionOnSet(Sizes, Heavy(m))
    BY <1>2, <2>1
  <2>3. LineEnd(pass1, m + 1) = LineEnd(pass1, m) + 4 * Words(m + 1)
    <3>1. pass1[m + 1].program_counter = LineEnd(pass1, m)
      BY <2>1 DEF PlacedAsPromised, Contiguous
    <3>2. QED
      BY <2>1, <3>1 DEF LineEnd, Words
  <2>4. /\ s \in 1..Len(pass0) /\ Words(m + 1) \in Nat
        /\ Words(m + 1) = 0 \/ Words(m + 1) = Contract!Size(s)
    BY <2>1, WordsOfItem
  <2>5. Heavy(m) \in SUBSET (1..Len(pass0))
    BY DEF Heavy
  <2>6. /\ IsFiniteSet(Heavy(m))
        /\ \A x \in Heavy(m) : Sizes[x] \in Int
        /\ SumFunctionOnSet(Sizes, Heavy(m)) \in Nat
    BY <2>5, SizesType
  <2>7. \A i \in 1..(m + 1) : i \in 1..m \/ i = m + 1
    OBVIOUS
  <2>8. \A i \in 1..m : i \in 1..(m + 1) /\ i \in 1..Len(pass1) /\ i < m + 1
    BY <2>1
  <2>9. CASE Words(m + 1) = 0
    <3>1. Heavy(m + 1) = Heavy(m)
      BY <2>7, <2>8, <2>9 DEF Heavy
    <3>2. SumFunctionOnSet(Sizes, Heavy(m + 1)) = SumFunctionOnSet(Sizes, Heavy(m))
      BY <3>1, Zenon
    <3>3. QED
      BY <2>2, <2>3, <2>6, <2>9, <3>2 DEF HeaderBytes, HEAP_HEADER_WORDS
  <2>10. CASE Words(m + 1) > 0
    <3>1. m + 1 \in 1..(m + 1)
      OBVIOUS
    <3>2. Heavy(m + 1) = Heavy(m) \cup {s}
      BY <2>4, <2>7, <2>8, <2>10, <3>1 DEF Heavy
    <3>3. s \notin Heavy(m)
      <4>1. \A i \in 1..m : pass1[i].line_counter = s => Words(i) = 0
        BY <2>1, <2>8, OneHeavyItem
      <4>2. QED
        BY <4>1 DEF Heavy
    <3>4. Sizes[s] = Words(m + 1) /\ Sizes[s] \in Int
      <4>1. {s} \in SUBSET (1..Len(pass0)) /\ s \in {s}
        BY <2>4
      <4>2. Sizes[s] = Contract!Size(s)
        BY <4>1, SizesType
      <4>3. Words(m + 1) = Contract!Size(s)
        BY <2>4, <2>10
      <4>4. QED
        BY <2>4, <4>2, <4>3
    <3>5. SumFunctionOnSet(Sizes, Heavy(m) \cup {s}) = Sizes[s] + SumFunctionOnSet(Sizes, Heavy(m))
      BY <2>6, <3>3, <3>4, SumAdd
    <3>6. SumFunctionOnSet(Sizes, Heavy(m + 1)) = Words(m + 1) + SumFunctionOnSet(Sizes, Heavy(m))
      BY <3>2, <3>4, <3>5, Zenon
    <3>7. QED
      BY <2>2, <2>3, <2>4, <2>6, <3>6 DEF HeaderBytes, HEAP_HEADER_WORDS
  <2>11. QED
    BY <2>4, <2>9, <2>10
<1>3. \A m \in Nat : m \in N
  <2> HIDE DEF N
  <2>1. QED
    BY <1>1, <1>2, NumberInduction
<1>4. QED
  BY <1>0, <1>3

(* Sums over sets that differ only in lines without words are equal.       *)
LEMMA SumWithoutEmptyLines ==
  ASSUME PlacedAsPromised, NEW T \in SUBSET (1..Len(pass0)), NEW U \in SUBSET (1..Len(pass0)),
         T \subseteq U, \A s \in U \ T : Contract!Size(s) = 0
  PROVE  SumFunctionOnSet(Sizes, U) = SumFunctionOnSet(Sizes, T)
<1>1. U = T \cup (U \ T) /\ T \cap (U \ T) = {}
  OBVIOUS
<1>2. /\ IsFiniteSet(T) /\ IsFiniteSet(U \ T)
      /\ \A x \in T \cup (U \ T) : Sizes[x] \in Int
      /\ SumFunctionOnSet(Sizes, T) \in Nat
  BY SizesType
<1>3. \A x \in U \ T : Sizes[x] = 0
  BY SizesType
<1>4. SumFunctionOnSet(Sizes, U \ T) = 0
  BY <1>2, <1>3, SumZero
<1>5. SumFunctionOnSet(Sizes, T \cup (U \ T))
        = SumFunctionOnSet(Sizes, T) + SumFunctionOnSet(Sizes, U \ T)
  BY <1>1, <1>2, SumUnion
<1>6. SumFunctionOnSet(Sizes, U) = SumFunctionOnSet(Sizes, T \cup (U \ T))
  BY <1>1
<1>7. QED
  BY <1>2, <1>4, <1>5, <1>6

-----------------------------------------------------------------------------
LEMMA HeavyItemExists ==
  ASSUME PlacedAsPromised, NEW s \in 1..Len(pass0), Contract!Size(s) > 0
  PROVE  \E j \in 1..Len(pass1) :
           pass1[j].line_counter = s /\ Words(j) = Contract!Size(s) /\ Words(j) > 0
<1>1. HasItems(s)
  BY DEF PlacedAsPromised
<1>2. CASE pass0[s].kind # "comm"
  <2>1. PICK j \in 1..Len(pass1) : pass1[j].line_counter = s
    BY <1>1, <1>2 DEF HasItems
  <2>2. Words(j) = Contract!Size(s)
    BY <1>2, <2>1, WordsOfItem
  <2>3. QED
    BY <2>1, <2>2
<1>3. CASE pass0[s].kind = "comm"
  <2>1. PICK j \in 1..Len(pass1) : pass1[j].line_counter = s /\ pass1[j].line.kind = "data"
    BY <1>1, <1>3 DEF HasItems
  <2>2. Words(j) = Contract!Size(s)
    BY <2>1, WordsOfItem
  <2>3. QED
    BY <2>1, <2>2
<1>4. QED
  BY <1>2, <1>3

LEMMA BeforeIsStrict ==
  ASSUME PlacedAsPromised, NEW s \in 1..Len(pass0), NEW t \in 1..Len(pass0),
         Contract!Before(t, s)
  PROVE  s # t /\ ~Contract!Before(s, t)
<1>1. pass0 \in Seq(Line) /\ Len(pass0) \in Nat
  BY DEF PlacedAsPromised
<1>2. Contract!Before(t, s) <=>
        \/ (Keeps(pass0, t) <=> Keeps(pass0, s)) /\ t < s
        \/ Keeps(pass0, t) /\ ~Keeps(pass0, s)
  BY <1>1, ContractBefore
<1>3. Contract!Before(s, t) <=>
        \/ (Keeps(pass0, s) <=> Keeps(pass0, t)) /\ s < t
        \/ Keeps(pass0, s) /\ ~Keeps(pass0, t)
  BY <1>1, ContractBefore
<1>4. t < s => ~(s < t) /\ s # t
  BY <1>1
<1>5. QED
  BY <1>2, <1>3, <1>4

(* The address pass 1 gives an entry is the one the contract gives its     *)
(* source line.                                                            *)
LEMMA AddressOfItem ==
  ASSUME PlacedAsPromised, NEW j \in 1..Len(pass1)
  PROVE  pass1[j].program_counter = Contract!Layout[pass1[j].line_counter]
<1> DEFINE s == pass1[j].line_counter
           U == {t \in DOMAIN pass0 : Contract!Before(t, s)}
<1>1. /\ Len(pass1) \in Nat /\ Len(pass0) \in Nat /\ DOMAIN pass0 = 1..Len(pass0)
      /\ s \in 1..Len(pass0) /\ j - 1 \in 0..Len(pass1)
  BY WordsOfItem DEF PlacedAsPromised
<1>2. pass1[j].program_counter = LineEnd(pass1, j - 1)
  BY DEF PlacedAsPromised, Contiguous
<1>3. LineEnd(pass1, j - 1) = HeaderBytes + 4 * SumFunctionOnSet(Sizes, Heavy(j - 1))
  BY <1>1, AddressesAddUp
<1>4. Heavy(j - 1) \in SUBSET (1..Len(pass0)) /\ U \in SUBSET (1..Len(pass0))
  BY <1>1 DEF Heavy
<1>5. Heavy(j - 1) \subseteq U
  <2> SUFFICES ASSUME NEW t \in Heavy(j - 1)
               PROVE  Contract!Before(t, s)
    BY <1>1, <1>4
  <2>1. PICK i \in 1..(j - 1) : pass1[i].line_counter = t /\ Words(i) > 0
    BY DEF Heavy
  <2>2. i \in 1..Len(pass1) /\ i < j
    BY <1>1
  <2>3. InContractOrder(i, j)
    BY <2>2 DEF PlacedAsPromised
  <2>4. t # s
    BY <2>1, <2>2, OneHeavyItem
  <2>5. QED
    BY <2>1, <2>3, <2>4 DEF InContractOrder
<1>6. \A t \in U \ Heavy(j - 1) : Contract!Size(t) = 0
  <2> SUFFICES ASSUME NEW t \in U, t \notin Heavy(j - 1), Contract!Size(t) # 0
               PROVE  FALSE
    OBVIOUS
  <2>1. t \in 1..Len(pass0) /\ Contract!Before(t, s)
    BY <1>1
  <2>2. Contract!Size(t) \in Nat
    BY <2>1, ContractSize DEF PlacedAsPromised
  <2>3. Contract!Size(t) > 0
    BY <2>2
  <2>4. PICK i \in 1..Len(pass1) : pass1[i].line_counter = t /\ Words(i) > 0
    BY <2>1, <2>3, HeavyItemExists
  <2>5. i \notin 1..(j - 1)
    BY <2>1, <2>4 DEF Heavy
  <2>6. s # t /\ ~Contract!Before(s, t)
    BY <1>1, <2>1, BeforeIsStrict
  <2>7. j < i
    BY <1>1, <2>4, <2>5, <2>6
  <2>8. InContractOrder(j, i)
    BY <2>7 DEF PlacedAsPromised
  <2>9. QED
    BY <2>4, <2>6, <2>8 DEF InContractOrder
<1>7. SumFunctionOnSet(Sizes, U) = SumFunctionOnSet(Sizes, Heavy(j - 1))
  BY <1>4, <1>5, <1>6, SumWithoutEmptyLines
<1>8. Contract!Layout[s] = 32 + 4 * SumFunctionOnSet(Sizes, U)
  <2>1. Contract!Layout = [x \in DOMAIN pass0 |->
           32 + 4 * SumFunctionOnSet(Sizes, {t \in DOMAIN pass0 : Contract!Before(t, x)})]
    BY ContractSum DEF Contract!Layout, Sizes, Contract!HeaderBytes
  <2>2. s \in DOMAIN pass0
    BY <1>1
  <2>3. QED
    BY <2>1, <2>2
<1>9. QED
  BY <1>2, <1>3, <1>7, <1>8 DEF HeaderBytes, HEAP_HEADER_WORDS

LEMMA EndOfLayout ==
  ASSUME PlacedAsPromised
  PROVE  /\ LineEnd(pass1, Len(pass1)) = HeaderBytes + 4 * Contract!SumFunction(Sizes)
         /\ Contract!SumFunction(Sizes) \in Nat
<1> DEFINE D == 1..Len(pass0)
<1>1. Len(pass1) \in 0..Len(pass1) /\ DOMAIN Sizes = D
  BY DEF PlacedAsPromised, Sizes
<1>2. Heavy(Len(pass1)) \in SUBSET D /\ D \in SUBSET D
  BY DEF Heavy
<1>3. \A s \in D \ Heavy(Len(pass1)) : Contract!Size(s) = 0
  <2> SUFFICES ASSUME NEW s \in D, s \notin Heavy(Len(pass1)), Contract!Size(s) # 0
               PROVE  FALSE
    OBVIOUS
  <2>1. Contract!Size(s) > 0
    BY ContractSize DEF PlacedAsPromised
  <2>2. QED
    BY <2>1, HeavyItemExists DEF Heavy
<1>4. SumFunctionOnSet(Sizes, D) = SumFunctionOnSet(Sizes, Heavy(Len(pass1)))
  BY <1>2, <1>3, SumWithoutEmptyLines
<1>5. Contract!SumFunction(Sizes) = SumFunctionOnSet(Sizes, D)
  BY <1>1, ContractSum DEF Contract!SumFunction
<1>6. SumFunctionOnSet(Sizes, D) \in Nat
  BY <1>2, SizesType
<1>7. LineEnd(pass1, Len(pass1)) = HeaderBytes + 4 * SumFunctionOnSet(Sizes, Heavy(Len(pass1)))
  BY <1>1, AddressesAddUp
<1>8. QED
  BY <1>4, <1>5, <1>6, <1>7

-----------------------------------------------------------------------------
(* Every address of the program belongs to one entry.                      *)

Covers(j, a) == pass1[j].program_counter <= a /\ a < pass1[j].program_counter + 4 * Words(j)

LEMMA LineEndType ==
  ASSUME PlacedAsPromised, NEW k \in 0..Len(pass1)
  PROVE  LineEnd(pass1, k) \in Nat /\ LineEnd(pass1, k) >= HeaderBytes
<1>1. Heavy(k) \in SUBSET (1..Len(pass0))
  BY DEF Heavy
<1>2. SumFunctionOnSet(Sizes, Heavy(k)) \in Nat
  BY <1>1, SizesType
<1>3. QED
  BY <1>2, AddressesAddUp DEF HeaderBytes, HEAP_HEADER_WORDS

LEMMA LineEndNext ==
  ASSUME PlacedAsPromised, NEW j \in 1..Len(pass1)
  PROVE  /\ j - 1 \in 0..Len(pass1) /\ j \in 0..Len(pass1) /\ Words(j) \in Nat
         /\ pass1[j].program_counter = LineEnd(pass1, j - 1)
         /\ LineEnd(pass1, j) = LineEnd(pass1, j - 1) + 4 * Words(j)
         /\ LineEnd(pass1, j - 1) \in Nat
<1>1. j - 1 \in 0..Len(pass1) /\ j \in 0..Len(pass1) /\ j # 0
  BY DEF PlacedAsPromised
<1>2. pass1[j].program_counter = LineEnd(pass1, j - 1)
  BY DEF PlacedAsPromised, Contiguous
<1>3. QED
  BY <1>1, <1>2, LineEndType, WordsOfItem DEF LineEnd, Words

LEMMA SomeEntryCovers ==
  ASSUME PlacedAsPromised, NEW a \in Nat, HeaderBytes <= a, a < LineEnd(pass1, Len(pass1))
  PROVE  \E j \in 1..Len(pass1) : Covers(j, a)
<1> DEFINE N == {m \in Nat : m <= Len(pass1) /\ a < LineEnd(pass1, m)
                               => \E j \in 1..Len(pass1) : Covers(j, a)}
<1>0. Len(pass1) \in Nat
  BY DEF PlacedAsPromised
<1>1. 0 \in N
  BY DEF LineEnd, HeaderBytes, HEAP_HEADER_WORDS
<1>2. ASSUME NEW m \in Nat, m \in N
      PROVE  m + 1 \in N
  <2> SUFFICES ASSUME m + 1 <= Len(pass1), a < LineEnd(pass1, m + 1)
               PROVE  \E j \in 1..Len(pass1) : Covers(j, a)
    OBVIOUS
  <2>1. m + 1 \in 1..Len(pass1) /\ m <= Len(pass1) /\ (m + 1) - 1 = m
    BY <1>0
  <2>2. /\ pass1[m + 1].program_counter = LineEnd(pass1, m)
        /\ LineEnd(pass1, m + 1) = LineEnd(pass1, m) + 4 * Words(m + 1)
        /\ LineEnd(pass1, m) \in Nat
    BY <2>1, LineEndNext
  <2>3. CASE a < LineEnd(pass1, m)
    BY <1>2, <2>1, <2>3
  <2>4. CASE ~(a < LineEnd(pass1, m))
    <3>1. Covers(m + 1, a)
      BY <2>2, <2>4 DEF Covers
    <3>2. QED
      BY <2>1, <3>1
  <2>5. QED
    BY <2>3, <2>4
<1>3. \A m \in Nat : m \in N
  <2> HIDE DEF N
  <2>1. QED
    BY <1>1, <1>2, NumberInduction
<1>4. QED
  BY <1>0, <1>3

LEMMA EntriesInAddressOrder ==
  ASSUME PlacedAsPromised, NEW i \in 1..Len(pass1), NEW j \in 1..Len(pass1), i < j
  PROVE  pass1[i].program_counter + 4 * Words(i) <= pass1[j].program_counter
<1> DEFINE N == {m \in Nat : i + m <= Len(pass1) => LineEnd(pass1, i) <= LineEnd(pass1, i + m)}
<1>0. Len(pass1) \in Nat /\ LineEnd(pass1, i) \in Nat
  BY LineEndType DEF PlacedAsPromised
<1>1. 0 \in N
  BY <1>0
<1>2. ASSUME NEW m \in Nat, m \in N
      PROVE  m + 1 \in N
  <2> SUFFICES ASSUME i + (m + 1) <= Len(pass1)
               PROVE  LineEnd(pass1, i) <= LineEnd(pass1, i + (m + 1))
    OBVIOUS
  <2>1. i + (m + 1) \in 1..Len(pass1) /\ i + m <= Len(pass1) /\ (i + (m + 1)) - 1 = i + m
    BY <1>0
  <2>2. /\ LineEnd(pass1, i + (m + 1)) = LineEnd(pass1, i + m) + 4 * Words(i + (m + 1))
        /\ LineEnd(pass1, i + m) \in Nat /\ Words(i + (m + 1)) \in Nat
    BY <2>1, LineEndNext
  <2>3. QED
    BY <1>0, <1>2, <2>1, <2>2
<1>3. \A m \in Nat : m \in N
  <2> HIDE DEF N
  <2>1. QED
    BY <1>1, <1>2, NumberInduction
<1>4. (j - 1) - i \in Nat /\ i + ((j - 1) - i) = j - 1 /\ j - 1 <= Len(pass1)
  BY <1>0
<1>5. LineEnd(pass1, i) <= LineEnd(pass1, j - 1)
  BY <1>3, <1>4
<1>6. /\ LineEnd(pass1, i) = pass1[i].program_counter + 4 * Words(i)
      /\ LineEnd(pass1, j - 1) = pass1[j].program_counter
  BY LineEndNext
<1>7. QED
  BY <1>5, <1>6

LEMMA OneEntryCovers ==
  ASSUME PlacedAsPromised, NEW i \in 1..Len(pass1), NEW j \in 1..Len(pass1),
         NEW a \in Nat, Covers(i, a), Covers(j, a)
  PROVE  i = j
<1>1. \A k \in 1..Len(pass1) : pass1[k].program_counter \in Nat /\ Words(k) \in Nat
  BY LineEndNext
<1>2. ASSUME NEW x \in 1..Len(pass1), NEW y \in 1..Len(pass1), x < y
      PROVE  ~(Covers(x, a) /\ Covers(y, a))
  <2>1. pass1[x].program_counter + 4 * Words(x) <= pass1[y].program_counter
    BY <1>2, EntriesInAddressOrder
  <2>2. /\ pass1[x].program_counter \in Nat /\ pass1[y].program_counter \in Nat
        /\ Words(x) \in Nat /\ Words(y) \in Nat
    BY LineEndNext
  <2>3. \A p, q, v \in Nat : p + 4 * v <= q => ~(a < p + 4 * v /\ q <= a)
    OBVIOUS
  <2>4. QED
    BY <2>1, <2>2, <2>3 DEF Covers
<1>3. ~(i < j) /\ ~(j < i)
  BY <1>2
<1>4. QED
  BY <1>3 DEF PlacedAsPromised

-----------------------------------------------------------------------------
(* Names: the look-ups find what the contract resolves.                    *)

(* SETR64 or not, the rest of the line stays.                              *)
LEMMA UpgradeKeepsTheRest ==
  ASSUME NEW line \in Line
  PROVE  /\ UpgradeSetr(line).kind = line.kind
         /\ line.kind = "instruction" =>
              /\ UpgradeSetr(line).operands = line.operands
              /\ UpgradeSetr(line).registers_ok = line.registers_ok
<1>1. CASE line.kind # "instruction"
  BY <1>1 DEF UpgradeSetr
<1>2. CASE line.kind = "instruction"
  <2>1. line \in InstructionLine
    BY <1>2, KindOfLine
  <2>2. UpgradeSetr(line) = line \/ UpgradeSetr(line) = [line EXCEPT !.op = "SETR64"]
    BY DEF UpgradeSetr
  <2>3. QED
    BY <2>1, <2>2 DEF InstructionLine
<1>3. QED
  BY <1>1, <1>2

LEMMA NamedEntry ==
  ASSUME PlacedAsPromised, NEW j \in 1..Len(pass1), DefinesName(pass1[j].line)
  PROVE  Upper[pass1[j].line.name] \in Contract!Defines(pass1[j].line_counter)
<1> DEFINE s == pass1[j].line_counter
           line == pass1[j].line
<1>1. ItemIs(j) /\ pass0 \in Seq(Line)
  BY DEF PlacedAsPromised
<1>2. s \in 1..Len(pass0) /\ pass0[s] \in Line
  BY <1>1, ElementOfSeq DEF ItemIs
<1>3. CASE pass0[s].kind # "comm"
  <2>1. line = UpgradeSetr(pass0[s])
    BY <1>1, <1>3 DEF ItemIs
  <2>2. pass0[s].kind = line.kind
    BY <1>2, <2>1, UpgradeKeepsTheRest
  <2>3. line.kind \in {"label", "data"}
    BY DEF DefinesName
  <2>4. line = pass0[s]
    BY <1>2, <2>1, <2>2, <2>3, LineSizes
  <2>5. QED
    BY <2>2, <2>4 DEF Contract!Defines, DefinesName
<1>4. CASE pass0[s].kind = "comm"
  <2>1. pass0[s].complete /\ line.name = pass0[s].name
    BY <1>1, <1>4 DEF ItemIs, DefinesName
  <2>2. QED
    BY <1>4, <2>1 DEF Contract!Defines
<1>5. QED
  BY <1>3, <1>4

LEMMA EntryOfName ==
  ASSUME PlacedAsPromised, NEW s \in 1..Len(pass0), NEW u \in Contract!Defines(s)
  PROVE  \E j \in 1..Len(pass1) :
           /\ pass1[j].line_counter = s
           /\ DefinesName(pass1[j].line) /\ Upper[pass1[j].line.name] = u
<1>1. pass0[s] \in Line /\ HasItems(s)
  BY ElementOfSeq DEF PlacedAsPromised
<1>2. /\ u = Upper[pass0[s].name]
      /\ \/ pass0[s].kind = "label"
         \/ pass0[s].kind = "data" /\ pass0[s].named
         \/ pass0[s].kind = "comm" /\ pass0[s].complete
  BY DEF Contract!Defines
<1>3. CASE pass0[s].kind # "comm"
  <2>1. PICK j \in 1..Len(pass1) : pass1[j].line_counter = s
    BY <1>1, <1>3 DEF HasItems
  <2>2. pass1[j].line = UpgradeSetr(pass0[s])
    BY <1>3, <2>1 DEF PlacedAsPromised, ItemIs
  <2>3. UpgradeSetr(pass0[s]) = pass0[s]
    BY <1>1, <1>2, <1>3, LineSizes
  <2>4. DefinesName(pass0[s])
    BY <1>2, <1>3 DEF DefinesName
  <2>5. QED
    BY <1>2, <2>1, <2>2, <2>3, <2>4
<1>4. CASE pass0[s].kind = "comm"
  <2>1. PICK j \in 1..Len(pass1) : pass1[j].line_counter = s /\ pass1[j].line.kind = "label"
    BY <1>1, <1>2, <1>4 DEF HasItems
  <2>2. pass1[j].line.name = pass0[s].name
    BY <1>4, <2>1 DEF PlacedAsPromised, ItemIs
  <2>3. DefinesName(pass1[j].line)
    BY <2>1 DEF DefinesName
  <2>4. QED
    BY <1>2, <2>1, <2>2, <2>3
<1>5. QED
  BY <1>3, <1>4

(* Every name that is defined has one address, in pass 1 ...               *)
OneAddressEach ==
  labels = Definitions(pass1) /\ Duplicates(pass1, labels) = {}

LEMMA LabelEntry ==
  ASSUME PlacedAsPromised, labels = Definitions(pass1), NEW j \in labels
  PROVE  /\ j \in 1..Len(pass1) /\ DefinesName(pass1[j].line)
         /\ pass1[j].program_counter = Contract!Layout[pass1[j].line_counter]
         /\ Upper[pass1[j].line.name] \in Contract!Defines(pass1[j].line_counter)
         /\ pass1[j].line_counter \in 1..Len(pass0)
<1>1. j \in 1..Len(pass1) /\ DefinesName(pass1[j].line)
  BY DEF Definitions, PlacedAsPromised
<1>2. QED
  BY <1>1, AddressOfItem, NamedEntry, WordsOfItem

LEMMA LabelOfName ==
  ASSUME PlacedAsPromised, labels = Definitions(pass1),
         NEW s \in 1..Len(pass0), NEW u \in Contract!Defines(s)
  PROVE  \E j \in labels :
           /\ pass1[j].line_counter = s /\ Upper[pass1[j].line.name] = u
           /\ pass1[j].program_counter = Contract!Layout[s]
<1>1. PICK j \in 1..Len(pass1) :
             /\ pass1[j].line_counter = s
             /\ DefinesName(pass1[j].line) /\ Upper[pass1[j].line.name] = u
  BY EntryOfName
<1>2. j \in labels
  BY <1>1 DEF Definitions, PlacedAsPromised
<1>3. QED
  BY <1>1, <1>2, AddressOfItem

(* ... exactly when the contract finds the names unambiguous.              *)
LEMMA NoDuplicatesMeansUnambiguous ==
  ASSUME PlacedAsPromised, labels = Definitions(pass1)
  PROVE  Duplicates(pass1, labels) = {} <=> Contract!NamesAreUnambiguous(Contract!Layout)
<1>1. pass1 \in Seq(Pass1Line) /\ labels \in SUBSET DOMAIN pass1 /\ DOMAIN pass0 = 1..Len(pass0)
  BY DEF PlacedAsPromised, Definitions
<1>2. ASSUME Duplicates(pass1, labels) = {},
             NEW s \in 1..Len(pass0), NEW t \in 1..Len(pass0),
             NEW u \in Contract!Defines(s), u \in Contract!Defines(t)
      PROVE  Contract!Layout[s] = Contract!Layout[t]
  <2>1. PICK i \in labels : Upper[pass1[i].line.name] = u /\ pass1[i].program_counter = Contract!Layout[s]
    BY <1>2, LabelOfName
  <2>2. PICK j \in labels : Upper[pass1[j].line.name] = u /\ pass1[j].program_counter = Contract!Layout[t]
    BY <1>2, LabelOfName
  <2>3. ReturnLabelValue(pass1, labels, pass1[i].line.name)
          = ReturnLabelValue(pass1, labels, pass1[j].line.name)
    BY <2>1, <2>2, LookUpOfSameName DEF SameName
  <2>4. \A k \in labels : ReturnLabelValue(pass1, labels, pass1[k].line.name) = pass1[k].program_counter
    BY <1>2 DEF Duplicates
  <2>5. QED
    BY <2>1, <2>2, <2>3, <2>4
<1>3. ASSUME Contract!NamesAreUnambiguous(Contract!Layout), NEW j \in labels
      PROVE  ReturnLabelValue(pass1, labels, pass1[j].line.name) = pass1[j].program_counter
  <2>1. j \in Matches(pass1, labels, pass1[j].line.name)
    BY DEF Matches, SameName
  <2>2. PICK k \in Matches(pass1, labels, pass1[j].line.name) :
               ReturnLabelValue(pass1, labels, pass1[j].line.name) = pass1[k].program_counter
    BY <1>1, <2>1, FirstDefinition
  <2>3. k \in labels /\ Upper[pass1[k].line.name] = Upper[pass1[j].line.name]
    BY DEF Matches, SameName
  <2> DEFINE s == pass1[k].line_counter
             t == pass1[j].line_counter
  <2>4. /\ s \in 1..Len(pass0) /\ t \in 1..Len(pass0)
        /\ Upper[pass1[j].line.name] \in Contract!Defines(s)
        /\ Upper[pass1[j].line.name] \in Contract!Defines(t)
        /\ pass1[k].program_counter = Contract!Layout[s]
        /\ pass1[j].program_counter = Contract!Layout[t]
    BY <2>3, LabelEntry
  <2>5. Contract!Layout[s] = Contract!Layout[t]
    BY <1>1, <1>3, <2>4 DEF Contract!NamesAreUnambiguous
  <2>6. QED
    BY <2>2, <2>4, <2>5
<1>4. Duplicates(pass1, labels) = {} => Contract!NamesAreUnambiguous(Contract!Layout)
  BY <1>1, <1>2 DEF Contract!NamesAreUnambiguous
<1>5. Contract!NamesAreUnambiguous(Contract!Layout) => Duplicates(pass1, labels) = {}
  BY <1>3 DEF Duplicates
<1>6. QED
  BY <1>4, <1>5

(* A reference resolves to the address the contract gives the name.        *)
LEMMA LookUpResolves ==
  ASSUME PlacedAsPromised, OneAddressEach, NEW name
  PROVE  (IF Matches(pass1, labels, name) # {} THEN ReturnLabelValue(pass1, labels, name) ELSE 0)
           = Contract!Resolve(Contract!Layout, name)
<1> DEFINE defining == {s \in DOMAIN pass0 : Upper[name] \in Contract!Defines(s)}
<1>1. /\ labels = Definitions(pass1) /\ Duplicates(pass1, labels) = {}
      /\ DOMAIN pass0 = 1..Len(pass0)
  BY DEF OneAddressEach, PlacedAsPromised
<1>2. Contract!Resolve(Contract!Layout, name) =
        IF defining = {} THEN 0 ELSE Contract!Layout[CHOOSE s \in defining : TRUE]
  BY DEF Contract!Resolve
<1>3. CASE defining = {}
  <2>1. ASSUME NEW j \in Matches(pass1, labels, name)
        PROVE  FALSE
    <3>1. j \in labels /\ Upper[pass1[j].line.name] = Upper[name]
      BY DEF Matches, SameName
    <3>2. pass1[j].line_counter \in defining
      BY <1>1, <3>1, LabelEntry
    <3>3. QED
      BY <1>3, <3>2
  <2>2. Matches(pass1, labels, name) = {}
    BY <2>1
  <2>3. QED
    BY <1>2, <1>3, <2>2
<1>4. CASE defining # {}
  <2> DEFINE s == CHOOSE x \in defining : TRUE
  <2>1. s \in defining
    BY <1>4
  <2>2. s \in 1..Len(pass0) /\ Upper[name] \in Contract!Defines(s)
    BY <1>1, <2>1
  <2>3. Contract!Resolve(Contract!Layout, name) = Contract!Layout[s]
    BY <1>2, <1>4
  <2> HIDE DEF s
  <2>4. PICK j \in labels : /\ Upper[pass1[j].line.name] = Upper[name]
                            /\ pass1[j].program_counter = Contract!Layout[s]
    BY <1>1, <2>2, LabelOfName
  <2>5. j \in Matches(pass1, labels, name) /\ SameName(pass1[j].line.name, name)
    BY <2>4 DEF Matches, SameName
  <2>6. ReturnLabelValue(pass1, labels, pass1[j].line.name) = pass1[j].program_counter
    BY <1>1 DEF Duplicates
  <2>7. ReturnLabelValue(pass1, labels, pass1[j].line.name) = ReturnLabelValue(pass1, labels, name)
    BY <2>5, LookUpOfSameName
  <2>8. Matches(pass1, labels, name) # {}
    BY <2>5
  <2>9. QED
    BY <2>3, <2>4, <2>6, <2>7, <2>8
<1>5. QED
  BY <1>3, <1>4

-----------------------------------------------------------------------------
(* Errors: the passes report one exactly when the contract finds a line    *)
(* incorrect or a name ambiguous.                                          *)

LEMMA OperandsAreCounted ==
  ASSUME NEW line \in InstructionLine, line.op \in DOMAIN Variables
  PROVE  ArgumentCount(line) = Variables[line.op] <=> Contract!OperandsSuffice(line)
<1> DEFINE w == Variables[line.op]
           g == Len(line.operands)
           literal == line.operands[1].kind = "literal"
<1>1. w \in Nat /\ g \in Nat
  <2>1. line.operands \in Seq(Operand)
    BY DEF InstructionLine
  <2>2. QED
    BY <2>1, OpcodeTableAssumption, LenProperties
<1>2. ArgumentCount(line) =
        IF w \notin {1, 2} THEN 0
        ELSE IF w = 2 /\ g = 1 /\ literal THEN 2
        ELSE IF g < w THEN g ELSE w
  BY DEF ArgumentCount
<1>3. Contract!OperandsSuffice(line) <=>
        \/ w = 0
        \/ w \in {1, 2} /\ g >= w
        \/ w = 2 /\ g = 1 /\ literal
  BY DEF Contract!OperandsSuffice
<1>4. literal \in BOOLEAN
  OBVIOUS
<1> HIDE DEF w, g, literal
<1>5. ArgumentCount(line) = w <=>
        \/ w = 0
        \/ w \in {1, 2} /\ g >= w
        \/ w = 2 /\ g = 1 /\ literal
  <2>1. CASE w \notin {1, 2}
    BY <1>1, <1>2, <2>1
  <2>2. CASE w \in {1, 2} /\ ~(w = 2 /\ g = 1 /\ literal)
    <3>1. ArgumentCount(line) = IF g < w THEN g ELSE w
      BY <1>2, <2>2
    <3>2. QED
      BY <1>1, <2>2, <3>1
  <2>3. CASE w = 2 /\ g = 1 /\ literal
    BY <1>2, <2>3
  <2>4. QED
    BY <2>1, <2>2, <2>3
<1>6. QED
  BY <1>3, <1>5 DEF w

NoErrors(p) == PlacementErrors(p.line) = 0 /\ InstructionErrors(p) = 0

LEMMA ErrorsOfEntry ==
  ASSUME NEW p \in Pass1Line, p.line_type = LineType(p.line)
  PROVE  NoErrors(p) <=> Contract!LineIsCorrect(p.line)
<1>1. p.line \in Line
  BY DEF Pass1Line
<1>2. CASE p.line.kind = "data"
  <2>1. p.line.valid \in BOOLEAN
    BY <1>1, <1>2, KindOfLine DEF DataLine
  <2>2. Contract!LineIsCorrect(p.line) <=> p.line.valid
    BY <1>2 DEF Contract!LineIsCorrect
  <2>3. LineType(p.line) = "Data"
    BY <1>2 DEF LineType
  <2>4. LineErrors(p.line) = 0 /\ InstructionErrors(p) = 0
    BY <2>3 DEF LineErrors, InstructionErrors
  <2>5. DataErrors(p.line) = IF ~p.line.valid THEN 1 ELSE 0
    BY <2>3 DEF DataErrors
  <2>6. QED
    BY <2>1, <2>2, <2>4, <2>5 DEF NoErrors, PlacementErrors
<1>3. CASE p.line.kind = "instruction"
  <2>1. p.line \in InstructionLine
    BY <1>1, <1>3, KindOfLine
  <2>2. Contract!LineIsCorrect(p.line) <=>
          /\ p.line.op \in DOMAIN Variables /\ p.line.registers_ok
          /\ Contract!OperandsSuffice(p.line)
    BY <1>3, Zenon DEF Contract!LineIsCorrect
  <2>3. LineType(p.line) = IF p.line.op \in DOMAIN Variables THEN "Opcode" ELSE "Error"
    BY <1>3 DEF LineType
  <2>4. CASE p.line.op \in DOMAIN Variables
    <3>1. LineErrors(p.line) = 0 /\ DataErrors(p.line) = 0
      BY <2>3, <2>4 DEF LineErrors, DataErrors
    <3>2. InstructionErrors(p) = (IF p.line.registers_ok THEN 0 ELSE 1)
            + (IF ArgumentCount(p.line) = Variables[p.line.op] THEN 0 ELSE 1)
      BY <2>3, <2>4 DEF InstructionErrors
    <3>3. ArgumentCount(p.line) = Variables[p.line.op] <=> Contract!OperandsSuffice(p.line)
      BY <2>1, <2>4, OperandsAreCounted
    <3>4. p.line.registers_ok \in BOOLEAN
      BY <2>1 DEF InstructionLine
    <3>5. InstructionErrors(p) = 0 <=>
            p.line.registers_ok /\ ArgumentCount(p.line) = Variables[p.line.op]
      BY <3>2, <3>4
    <3>6. NoErrors(p) <=> InstructionErrors(p) = 0
      BY <3>1 DEF NoErrors, PlacementErrors
    <3>7. QED
      BY <2>2, <2>4, <3>3, <3>5, <3>6, Zenon
  <2>5. CASE p.line.op \notin DOMAIN Variables
    <3>1. LineErrors(p.line) = 1 /\ DataErrors(p.line) = 0
      BY <1>3, <2>3, <2>5 DEF LineErrors, DataErrors
    <3>2. QED
      BY <2>2, <2>5, <3>1 DEF NoErrors, PlacementErrors
  <2>6. QED
    BY <2>4, <2>5
<1>4. CASE p.line.kind \notin {"data", "instruction"}
  <2>1. Contract!LineIsCorrect(p.line)
    BY <1>4 DEF Contract!LineIsCorrect
  <2>2. \/ LineType(p.line) \in {"Label", "Start", "Comment"}
        \/ (LineType(p.line) = "Error" /\ p.line.kind = "glued")
    BY <1>4 DEF LineType
  <2>3. LineErrors(p.line) = 0 /\ DataErrors(p.line) = 0 /\ InstructionErrors(p) = 0
    BY <2>2 DEF LineErrors, DataErrors, InstructionErrors
  <2>4. QED
    BY <2>1, <2>3 DEF NoErrors, PlacementErrors
<1>5. QED
  BY <1>2, <1>3, <1>4

LEMMA ErrorsMeanIncorrect ==
  ASSUME IInv, Layout, Accounted, phase \in {"output", "kbt", "flat"}
  PROVE  errors = 0 <=> Contract!Correct(Contract!Layout)
<1>1. PlacedAsPromised
  BY PlacedAsPromisedOnceLaidOut DEF LaidOut, Phases
<1>2. labels = Definitions(pass1)
  BY DEF IInv, NamesChecked, AfterLabels
<1>3. DOMAIN pass2 = DOMAIN pass1
  <2>1. pass1 \in Seq(Pass1Line) /\ pass2 \in Seq(Pass2Line) /\ Len(pass2) = Len(pass1)
    BY DEF IInv, TypeOK, Progress, AfterPass2
  <2>2. QED
    BY <2>1
<1>4. errors = 0 <=> /\ \A j \in DOMAIN pass1 : NoErrors(pass1[j])
                     /\ Duplicates(pass1, labels) = {}
  BY <1>3 DEF Accounted, ErrorsAreCounted, AfterLabels, NoErrors
<1>5. /\ DOMAIN pass0 = 1..Len(pass0) /\ DOMAIN pass1 = 1..Len(pass1)
      /\ \A s \in 1..Len(pass0) : pass0[s] \in Line /\ HasItems(s)
      /\ \A j \in 1..Len(pass1) :
           pass1[j] \in Pass1Line /\ pass1[j].line_type = LineType(pass1[j].line) /\ ItemIs(j)
  BY <1>1, ElementOfSeq DEF PlacedAsPromised, Classified
<1>6. Contract!Correct(Contract!Layout) <=>
        /\ Contract!NamesAreUnambiguous(Contract!Layout)
        /\ \A s \in 1..Len(pass0) : Contract!LineIsCorrect(UpgradeSetr(pass0[s]))
  BY <1>5, ContractLines DEF Contract!Correct
<1>7. ASSUME \A j \in 1..Len(pass1) : NoErrors(pass1[j]), NEW s \in 1..Len(pass0)
      PROVE  Contract!LineIsCorrect(UpgradeSetr(pass0[s]))
  <2>1. CASE pass0[s].kind # "comm"
    <3>1. PICK j \in 1..Len(pass1) : pass1[j].line_counter = s
      BY <1>5, <2>1 DEF HasItems
    <3>2. pass1[j].line = UpgradeSetr(pass0[s])
      BY <1>5, <2>1, <3>1 DEF ItemIs
    <3>3. Contract!LineIsCorrect(pass1[j].line)
      BY <1>5, <1>7, ErrorsOfEntry
    <3>4. QED
      BY <3>2, <3>3
  <2>2. CASE pass0[s].kind = "comm"
    <3>1. UpgradeSetr(pass0[s]).kind = "comm"
      BY <1>5, <2>2, UpgradeKeepsTheRest
    <3>2. QED
      BY <3>1 DEF Contract!LineIsCorrect
  <2>3. QED
    BY <2>1, <2>2
<1>8. ASSUME \A s \in 1..Len(pass0) : Contract!LineIsCorrect(UpgradeSetr(pass0[s])),
             NEW j \in 1..Len(pass1)
      PROVE  NoErrors(pass1[j])
  <2> DEFINE s == pass1[j].line_counter
             line == pass1[j].line
  <2>1. ItemIs(j) /\ s \in 1..Len(pass0)
    BY <1>5 DEF ItemIs
  <2>2. Contract!LineIsCorrect(line)
    <3>1. CASE pass0[s].kind # "comm"
      BY <1>8, <2>1, <3>1 DEF ItemIs
    <3>2. CASE pass0[s].kind = "comm"
      <4>1. line.kind = "label" \/ (line.kind = "data" /\ line.valid = TRUE)
        BY <2>1, <3>2 DEF ItemIs
      <4>2. QED
        BY <4>1 DEF Contract!LineIsCorrect
    <3>3. QED
      BY <3>1, <3>2
  <2>3. QED
    BY <1>5, <2>2, ErrorsOfEntry
<1>9. Duplicates(pass1, labels) = {} <=> Contract!NamesAreUnambiguous(Contract!Layout)
  BY <1>1, <1>2, NoDuplicatesMeansUnambiguous
<1>10. QED
  BY <1>4, <1>5, <1>6, <1>7, <1>8, <1>9

-----------------------------------------------------------------------------
(* The entries for _start are those of the lines _start.                   *)

LEMMA StartEntries ==
  ASSUME IInv, PlacedAsPromised, AfterPass2
  PROVE  /\ \A j \in StartLines :
              /\ j \in 1..Len(pass1) /\ pass1[j].line_counter \in Contract!Starts
              /\ pass2[j].program_counter = Contract!Layout[pass1[j].line_counter]
         /\ \A s \in Contract!Starts : \E j \in StartLines : pass1[j].line_counter = s
         /\ \A i, j \in StartLines : i < j => pass1[i].line_counter < pass1[j].line_counter
<1>1. /\ DOMAIN pass0 = 1..Len(pass0) /\ DOMAIN pass1 = 1..Len(pass1)
      /\ \A s \in 1..Len(pass0) : pass0[s] \in Line /\ HasItems(s)
      /\ \A j \in 1..Len(pass1) :
           /\ pass1[j] \in Pass1Line /\ pass1[j].line_type = LineType(pass1[j].line)
           /\ ItemIs(j)
      /\ pass0 \in Seq(Line) /\ Len(pass0) \in Nat
  BY ElementOfSeq DEF PlacedAsPromised, Classified
<1>2. DOMAIN pass2 = 1..Len(pass1)
  <2>1. pass2 \in Seq(Pass2Line) /\ Len(pass2) = Len(pass1)
    BY DEF IInv, TypeOK, Progress
  <2>2. QED
    BY <2>1
<1>3. \A j \in 1..Len(pass1) :
        /\ pass2[j].line_type = Pass2Type(pass1[j])
        /\ pass2[j].program_counter = pass1[j].program_counter
  BY <1>2 DEF IInv, EmissionFollowsLayout, Emitted
<1>4. ASSUME NEW j \in 1..Len(pass1)
      PROVE  /\ pass1[j].line_counter \in 1..Len(pass0)
             /\ j \in StartLines <=> pass0[pass1[j].line_counter].kind = "start"
  <2> DEFINE s == pass1[j].line_counter
             line == pass1[j].line
  <2>1. s \in 1..Len(pass0) /\ line \in Line
    BY <1>1 DEF ItemIs, Pass1Line
  <2>2. j \in StartLines <=> LineType(line) = "Start"
    BY <1>1, <1>2, <1>3 DEF StartLines, Pass2Type
  <2>3. LineType(line) = "Start" <=> line.kind = "start"
    BY DEF LineType
  <2>4. line.kind = "start" <=> pass0[s].kind = "start"
    <3>1. CASE pass0[s].kind # "comm"
      BY <1>1, <2>1, <3>1, UpgradeKeepsTheRest DEF ItemIs
    <3>2. CASE pass0[s].kind = "comm"
      BY <1>1, <3>2 DEF ItemIs
    <3>3. QED
      BY <3>1, <3>2
  <2>5. QED
    BY <2>1, <2>2, <2>3, <2>4
<1>5. StartLines \subseteq 1..Len(pass1) /\ Contract!Starts = {s \in 1..Len(pass0) : pass0[s].kind = "start"}
  BY <1>1, <1>2 DEF StartLines, Contract!Starts
<1>6. ASSUME NEW j \in StartLines
      PROVE  /\ j \in 1..Len(pass1) /\ pass1[j].line_counter \in Contract!Starts
             /\ pass2[j].program_counter = Contract!Layout[pass1[j].line_counter]
  <2>1. j \in 1..Len(pass1)
    BY <1>5
  <2>2. QED
    BY <1>3, <1>4, <1>5, <2>1, AddressOfItem
<1>7. ASSUME NEW s \in Contract!Starts
      PROVE  \E j \in StartLines : pass1[j].line_counter = s
  <2>1. s \in 1..Len(pass0) /\ pass0[s].kind = "start"
    BY <1>5
  <2>2. PICK j \in 1..Len(pass1) : pass1[j].line_counter = s
    BY <1>1, <2>1 DEF HasItems
  <2>3. QED
    BY <1>4, <2>1, <2>2
<1>8. ASSUME NEW i \in StartLines, NEW j \in StartLines, i < j
      PROVE  pass1[i].line_counter < pass1[j].line_counter
  <2> DEFINE s == pass1[i].line_counter
             t == pass1[j].line_counter
  <2>1. /\ i \in 1..Len(pass1) /\ j \in 1..Len(pass1)
        /\ s \in 1..Len(pass0) /\ t \in 1..Len(pass0)
        /\ pass0[s].kind = "start" /\ pass0[t].kind = "start"
    BY <1>5, <1>6
  <2>2. InContractOrder(i, j)
    BY <1>8, <2>1 DEF PlacedAsPromised
  <2>3. Contract!Before(s, t)
    BY <2>1, <2>2 DEF InContractOrder
  <2>4. Keeps(pass0, s) /\ Keeps(pass0, t)
    BY <2>1 DEF Keeps, LineType
  <2>5. QED
    BY <1>1, <2>1, <2>3, <2>4, ContractBefore
<1>9. QED
  BY <1>6, <1>7, <1>8

-----------------------------------------------------------------------------
(* Words: what pass 2 emits for an entry is the item of its source line.   *)

LEMMA ContractWord ==
  ASSUME NEW layout, NEW s, NEW i \in 0..(Contract!Size(s) - 1)
  PROVE  Contract!Item(layout, s)[i] =
           [line |-> s,
            part |-> (IF pass0[s].kind = "instruction" THEN 0 ELSE 1) + i,
            address |-> IF /\ pass0[s].kind = "instruction"
                           /\ i \in DOMAIN pass0[s].operands
                           /\ pass0[s].operands[i].kind = "name"
                        THEN Contract!Resolve(layout, pass0[s].operands[i].name)
                        ELSE 0]
BY DEF Contract!Item

LEMMA EntryWords ==
  ASSUME IInv, PlacedAsPromised, OneAddressEach, NEW j \in 1..Len(pass1),
         Len(EmittedWords(pass1[j])) = Words(j), NEW k \in 1..Words(j)
  PROVE  EmittedWords(pass1[j])[k]
           = Contract!Item(Contract!Layout, pass1[j].line_counter)[k - 1]
<1> DEFINE s == pass1[j].line_counter
           line == pass1[j].line
           word == Contract!Item(Contract!Layout, s)[k - 1]
<1>1. /\ pass1[j] \in Pass1Line /\ ItemIs(j) /\ pass1[j].line_type = LineType(line)
      /\ pass0 \in Seq(Line)
  BY DEF PlacedAsPromised, Classified
<1>2. /\ s \in 1..Len(pass0) /\ s \in Nat /\ Words(j) \in Nat
      /\ Words(j) = 0 \/ Words(j) = Contract!Size(s)
      /\ line \in Line
  BY <1>1, WordsOfItem DEF Pass1Line
<1>3. k \in Nat /\ k - 1 \in 0..(Contract!Size(s) - 1)
  BY <1>2
<1>4. pass0[s] \in Line
  BY <1>1, <1>2, ElementOfSeq
<1>5. word =
           [line |-> s,
            part |-> (IF pass0[s].kind = "instruction" THEN 0 ELSE 1) + (k - 1),
            address |-> IF /\ pass0[s].kind = "instruction"
                           /\ k - 1 \in DOMAIN pass0[s].operands
                           /\ pass0[s].operands[k - 1].kind = "name"
                        THEN Contract!Resolve(Contract!Layout, pass0[s].operands[k - 1].name)
                        ELSE 0]
  BY <1>3, ContractWord
<1>6. CASE LineType(line) = "Opcode"
  <2>1. line \in InstructionLine /\ line.op \in DOMAIN Variables /\ line.kind = "instruction"
    BY <1>2, <1>6, LineTypeType, LineSizes
  <2>2. pass0[s].kind # "comm"
    BY <1>1, <2>1 DEF ItemIs
  <2>3. /\ line = UpgradeSetr(pass0[s])
        /\ pass0[s].kind = "instruction" /\ pass0[s].operands = line.operands
    <3>1. line = UpgradeSetr(pass0[s])
      BY <1>1, <2>2 DEF ItemIs
    <3>2. QED
      BY <1>4, <2>1, <3>1, UpgradeKeepsTheRest
  <2>4. EmittedWords(pass1[j]) = InstructionWords(line, s)
    BY <1>1, <1>6 DEF EmittedWords
  <2>5. TypeOK
    BY DEF IInv
  <2>6. /\ Len(InstructionWords(line, s)) = ArgumentCount(line) + 1
        /\ \A m \in 1..ArgumentCount(line) :
             InstructionWords(line, s)[m + 1] = AddArguments(line, s)[m]
    BY <1>2, <2>1, <2>5, InstructionWordsType
  <2>7. ArgumentCount(line) \in Nat
    BY <2>1, ArgumentCountType
  <2> HIDE DEF word
  <2>8. CASE k = 1
    <3>1. InstructionWords(line, s)[1] = OwnWord(s, 0)
      <4>1. << OwnWord(s, 0) >> \in Seq(Word) /\ AddArguments(line, s) \in Seq(Word)
        BY <1>2, <2>1, <2>5, OwnWordType, AddArgumentsType
      <4>2. QED
        BY <4>1 DEF InstructionWords
    <3>2. line.operands \in Seq(Operand)
      BY <2>1 DEF InstructionLine
    <3>3. 0 \notin DOMAIN line.operands
      BY <3>2
    <3>4. word = [line |-> s, part |-> 0, address |-> 0]
      BY <1>5, <2>3, <2>8, <3>3
    <3>5. QED
      BY <2>4, <2>8, <3>1, <3>4 DEF OwnWord, word
  <2>9. CASE k # 1
    <3> DEFINE m == k - 1
    <3>1. m \in 1..ArgumentCount(line) /\ m + 1 = k
      BY <1>3, <2>4, <2>6, <2>7, <2>9
    <3>2. EmittedWords(pass1[j])[k] = AddArguments(line, s)[m]
      BY <2>4, <2>6, <3>1
    <3>3. AddArguments(line, s)[m] = IF m \in DOMAIN line.operands
                                     THEN ConvertArgument(line.operands[m], s, m)
                                     ELSE OwnWord(s, m)
      BY <3>1 DEF AddArguments
    <3>4. word = [line |-> s, part |-> m,
                  address |-> IF m \in DOMAIN line.operands /\ line.operands[m].kind = "name"
                              THEN Contract!Resolve(Contract!Layout, line.operands[m].name)
                              ELSE 0]
      <4>1. 0 + (k - 1) = m
        BY <1>3
      <4>2. QED
        BY <1>5, <2>3, <4>1
    <3> HIDE DEF m
    <3>5. CASE m \in DOMAIN line.operands /\ line.operands[m].kind = "name"
      <4>1. AddArguments(line, s)[m] = ConvertArgument(line.operands[m], s, m)
        BY <3>3, <3>5
      <4>2. ConvertArgument(line.operands[m], s, m) =
              [line |-> s, part |-> m,
               address |-> IF Matches(pass1, labels, line.operands[m].name) # {}
                           THEN ReturnLabelValue(pass1, labels, line.operands[m].name)
                           ELSE 0]
        BY <3>5 DEF ConvertArgument
      <4>3. (IF Matches(pass1, labels, line.operands[m].name) # {}
             THEN ReturnLabelValue(pass1, labels, line.operands[m].name) ELSE 0)
              = Contract!Resolve(Contract!Layout, line.operands[m].name)
        BY LookUpResolves
      <4>4. word = [line |-> s, part |-> m,
                    address |-> Contract!Resolve(Contract!Layout, line.operands[m].name)]
        BY <3>4, <3>5
      <4>5. QED
        BY <3>2, <4>1, <4>2, <4>3, <4>4, Zenon DEF word
    <3>6. CASE ~(m \in DOMAIN line.operands /\ line.operands[m].kind = "name")
      <4>1. AddArguments(line, s)[m] = [line |-> s, part |-> m, address |-> 0]
        BY <3>3, <3>6 DEF ConvertArgument, OwnWord
      <4>2. word = [line |-> s, part |-> m, address |-> 0]
        BY <3>4, <3>6
      <4>3. QED
        BY <3>2, <4>1, <4>2 DEF word
    <3>7. QED
      BY <3>5, <3>6
  <2>10. QED
    BY <2>8, <2>9
<1>7. CASE LineType(line) = "Data"
  <2>1. line.kind = "data"
    BY <1>7 DEF LineType
  <2>2. pass0[s].kind # "instruction"
    <3>1. CASE pass0[s].kind = "comm"
      BY <3>1
    <3>2. CASE pass0[s].kind # "comm"
      <4>1. line = UpgradeSetr(pass0[s])
        BY <1>1, <3>2 DEF ItemIs
      <4>2. line.kind = pass0[s].kind
        BY <1>4, <4>1, UpgradeKeepsTheRest
      <4>3. QED
        BY <2>1, <4>2
    <3>3. QED
      BY <3>1, <3>2
  <2>3. EmittedWords(pass1[j]) = [m \in 1..DataWords(line) |-> OwnWord(s, m)]
    BY <1>1, <1>7 DEF EmittedWords
  <2>4. DataWords(line) = Words(j)
    BY <1>7 DEF WordCount, Words
  <2>5. EmittedWords(pass1[j])[k] = OwnWord(s, k)
    BY <2>3, <2>4
  <2>6. word = [line |-> s, part |-> k, address |-> 0]
    <3>1. 1 + (k - 1) = k
      BY <1>3
    <3> HIDE DEF word
    <3>2. QED
      BY <1>5, <2>2, <3>1
  <2>7. QED
    BY <2>5, <2>6 DEF OwnWord
<1>8. CASE LineType(line) \notin {"Opcode", "Data"}
  <2>1. EmittedWords(pass1[j]) = << >>
    BY <1>1, <1>8 DEF EmittedWords
  <2>2. QED
    BY <2>1
<1>9. QED
  BY <1>6, <1>7, <1>8

(* The contract's word at a position, from the line that covers it.        *)
LEMMA ContractProgramWord ==
  ASSUME PlacedAsPromised, NEW p \in 1..Contract!SumFunction(Sizes),
         NEW s \in 1..Len(pass0),
         Contract!Layout[s] <= AddressOf(p),
         AddressOf(p) < Contract!Layout[s] + 4 * Contract!Size(s),
         \A t \in 1..Len(pass0) :
           (/\ Contract!Layout[t] <= AddressOf(p)
            /\ AddressOf(p) < Contract!Layout[t] + 4 * Contract!Size(t)) => t = s
  PROVE  Contract!ProgramWords(Contract!Layout)[p]
           = Contract!Item(Contract!Layout, s)[(AddressOf(p) - Contract!Layout[s]) \div 4]
<1> DEFINE layout == Contract!Layout
           item == [x \in DOMAIN pass0 |-> Contract!Item(layout, x)]
           Owner(a) == CHOOSE x \in DOMAIN pass0 :
                         layout[x] <= a /\ a < layout[x] + 4 * Sizes[x]
           Word_(a) == item[Owner(a)][(a - layout[Owner(a)]) \div 4]
<1>1. DOMAIN pass0 = 1..Len(pass0)
  BY DEF PlacedAsPromised
<1>2. Contract!ProgramWords(layout) =
        [q \in 1..Contract!SumFunction(Sizes) |-> Word_(32 + 4 * (q - 1))]
  BY DEF Contract!ProgramWords, Sizes, Contract!HeaderBytes
<1>3. AddressOf(p) = 32 + 4 * (p - 1)
  BY DEF AddressOf, HeaderBytes, HEAP_HEADER_WORDS
<1>4. \A x \in 1..Len(pass0) : Sizes[x] = Contract!Size(x)
  BY <1>1 DEF Sizes
<1>5. Owner(AddressOf(p)) = s
  <2> HIDE DEF layout
  <2>1. layout[s] <= AddressOf(p) /\ AddressOf(p) < layout[s] + 4 * Sizes[s]
    BY <1>4 DEF layout
  <2>2. \A x \in DOMAIN pass0 :
          layout[x] <= AddressOf(p) /\ AddressOf(p) < layout[x] + 4 * Sizes[x] => x = s
    BY <1>1, <1>4 DEF layout
  <2>3. QED
    BY <1>1, <2>1, <2>2, Zenon
<1> HIDE DEF Owner
<1>6. item[s] = Contract!Item(layout, s)
  BY <1>1
<1> HIDE DEF layout, item
<1>7. Contract!ProgramWords(layout)[p] = Word_(32 + 4 * (p - 1))
  <2> HIDE DEF Word_
  <2>1. QED
    BY <1>2
<1>8. Word_(32 + 4 * (p - 1)) = item[s][(AddressOf(p) - layout[s]) \div 4]
  BY <1>3, <1>5, Zenon
<1>9. QED
  BY <1>6, <1>7, <1>8, Zenon DEF layout

-----------------------------------------------------------------------------
LEMMA ContractLayoutType ==
  ASSUME PlacedAsPromised, NEW s \in 1..Len(pass0)
  PROVE  Contract!Layout[s] \in Nat
<1> DEFINE U(x) == {t \in DOMAIN pass0 : Contract!Before(t, x)}
<1>1. DOMAIN pass0 = 1..Len(pass0)
  BY DEF PlacedAsPromised
<1>2. Contract!Layout = [x \in DOMAIN pass0 |-> 32 + 4 * SumFunctionOnSet(Sizes, U(x))]
  BY ContractSum DEF Contract!Layout, Sizes, Contract!HeaderBytes
<1>3. U(s) \in SUBSET (1..Len(pass0))
  BY <1>1
<1>4. SumFunctionOnSet(Sizes, U(s)) \in Nat
  BY <1>3, SizesType
<1>5. Contract!Layout[s] = 32 + 4 * SumFunctionOnSet(Sizes, U(s))
  BY <1>1, <1>2
<1> HIDE DEF U
<1>6. QED
  BY <1>4, <1>5

(* The image is the contract's program.                                    *)
LEMMA ImageIsProgram ==
  ASSUME IInv, Layout, Accounted, phase \in {"kbt", "flat"}, next > Len(pass2)
  PROVE  output = Contract!ProgramWords(Contract!Layout)
<1>1. PlacedAsPromised
  BY PlacedAsPromisedOnceLaidOut DEF LaidOut, Phases
<1>2. /\ Len(pass2) = Len(pass1) /\ Len(pass1) \in Nat /\ next = Len(pass2) + 1
      /\ pass2 \in Seq(Pass2Line) /\ output \in Seq(Word) /\ errors = 0
      /\ DOMAIN pass2 = 1..Len(pass1)
  <2>1. /\ Len(pass2) = Len(pass1) /\ next <= Len(pass2) + 1 /\ errors = 0
        /\ pass2 \in Seq(Pass2Line) /\ output \in Seq(Word) /\ next \in Nat
    BY DEF IInv, TypeOK, Progress, AfterPass2
  <2>2. Len(pass1) \in Nat
    BY <1>1 DEF PlacedAsPromised
  <2>3. QED
    BY <2>1, <2>2
<1>3. OneAddressEach
  BY <1>2 DEF OneAddressEach, IInv, NamesChecked, AfterLabels
<1>4. \A j \in 1..Len(pass1) :
        /\ SitsAtItsAddress(pass2[j], output)
        /\ pass2[j].program_counter = pass1[j].program_counter
        /\ pass2[j].opcode = EmittedWords(pass1[j])
        /\ Len(EmittedWords(pass1[j])) = Words(j)
  <2>1. Written = 1..(next - 1)
    BY DEF Written
  <2>2. Written = 1..Len(pass1)
    BY <1>2, <2>1
  <2>3. \A j \in 1..Len(pass1) : SitsAtItsAddress(pass2[j], output) /\ Emitted(j)
    BY <1>2, <2>2 DEF IInv, ImagePlacement, EmissionFollowsLayout
  <2>4. QED
    BY <1>2, <2>3 DEF Emitted, Words
<1>5. /\ Len(output) \in Nat /\ DOMAIN output = 1..Len(output)
      /\ Len(output) = Contract!SumFunction(Sizes)
      /\ LineEnd(pass1, Len(pass1)) = HeaderBytes + 4 * Len(output)
  <2>1. HeaderBytes + 4 * Len(output) = LineEnd(pass1, next - 1)
    BY DEF IInv, OutputReachesLineEnd
  <2>2. next - 1 = Len(pass1)
    BY <1>2
  <2>3. /\ LineEnd(pass1, Len(pass1)) = HeaderBytes + 4 * Contract!SumFunction(Sizes)
        /\ Contract!SumFunction(Sizes) \in Nat
    BY <1>1, EndOfLayout
  <2>4. Len(output) \in Nat /\ DOMAIN output = 1..Len(output)
    BY <1>2, LenProperties
  <2>5. HeaderBytes + 4 * Len(output) = LineEnd(pass1, Len(pass1))
    BY <2>1, <2>2
  <2>6. QED
    BY <2>3, <2>4, <2>5 DEF HeaderBytes, HEAP_HEADER_WORDS
<1>6. ASSUME NEW p \in 1..Len(output)
      PROVE  output[p] = Contract!ProgramWords(Contract!Layout)[p]
  <2> DEFINE a == AddressOf(p)
  <2>1. /\ a \in Nat /\ HeaderBytes <= a /\ a < LineEnd(pass1, Len(pass1))
        /\ a = HeaderBytes + 4 * (p - 1)
    BY <1>5 DEF AddressOf, HeaderBytes, HEAP_HEADER_WORDS
  <2> HIDE DEF a
  <2>2. PICK j \in 1..Len(pass1) : Covers(j, a)
    BY <1>1, <2>1, SomeEntryCovers
  <2> DEFINE s == pass1[j].line_counter
             start == pass1[j].program_counter
  <2>3. /\ s \in 1..Len(pass0) /\ Words(j) \in Nat /\ Contract!Size(s) \in Nat
        /\ Words(j) = 0 \/ Words(j) = Contract!Size(s)
        /\ start = Contract!Layout[s]
    BY <1>1, WordsOfItem, AddressOfItem
  <2>4. PICK x \in Nat : start = HeaderBytes + 4 * x
    <3>1. /\ j - 1 \in 0..Len(pass1) /\ start = LineEnd(pass1, j - 1)
      BY <1>1, LineEndNext
    <3>2. Heavy(j - 1) \in SUBSET (1..Len(pass0))
      BY DEF Heavy
    <3>3. SumFunctionOnSet(Sizes, Heavy(j - 1)) \in Nat
      BY <1>1, <3>2, SizesType
    <3>4. QED
      BY <1>1, <3>1, <3>3, AddressesAddUp
  <2>5. start <= a /\ a < start + 4 * Words(j)
    BY <2>2 DEF Covers
  <2> HIDE DEF s, start
  <2> DEFINE k == p - x
  <2>6. /\ k \in 1..Words(j) /\ a = start + 4 * (k - 1) /\ (a - start) \div 4 = k - 1
        /\ Words(j) = Contract!Size(s)
    <3>1. a - start = 4 * (k - 1) /\ k \in Int
      BY <2>1, <2>4 DEF HeaderBytes, HEAP_HEADER_WORDS
    <3>2. k - 1 >= 0 /\ k - 1 < Words(j)
      BY <2>1, <2>3, <2>4, <2>5, <3>1 DEF HeaderBytes, HEAP_HEADER_WORDS
    <3>3. start \in Nat
      BY <2>4 DEF HeaderBytes, HEAP_HEADER_WORDS
    <3> HIDE DEF k
    <3>4. \A i \in Int : (4 * (i - 1)) \div 4 = i - 1
      OBVIOUS
    <3>5. (a - start) \div 4 = k - 1
      BY <3>1, <3>4
    <3>6. k \in 1..Words(j) /\ a = start + 4 * (k - 1)
      <4>1. \A i \in Int, w \in Nat : i - 1 >= 0 /\ i - 1 < w => i \in 1..w
        OBVIOUS
      <4>2. k \in 1..Words(j)
        BY <2>3, <3>1, <3>2, <4>1
      <4>3. a = start + 4 * (k - 1)
        BY <2>1, <3>1, <3>3
      <4>4. QED
        BY <4>2, <4>3
    <3>7. Words(j) = Contract!Size(s)
      BY <2>3, <3>1, <3>2
    <3>8. QED
      BY <3>5, <3>6, <3>7
  <2> HIDE DEF k
  <2>7. output[p] = EmittedWords(pass1[j])[k]
    <3>1. k \in 1..Len(pass2[j].opcode) /\ AddressOf(p) = pass2[j].program_counter + 4 * (k - 1)
      BY <1>4, <2>6 DEF a, start
    <3>2. output[p] = pass2[j].opcode[k]
      BY <1>4, <3>1 DEF SitsAtItsAddress
    <3>3. QED
      BY <1>4, <3>2
  <2>8. EmittedWords(pass1[j])[k] = Contract!Item(Contract!Layout, s)[k - 1]
    BY <1>1, <1>3, <1>4, <2>6, EntryWords DEF s
  <2>9. ASSUME NEW t \in 1..Len(pass0), Contract!Layout[t] <= a,
               a < Contract!Layout[t] + 4 * Contract!Size(t)
        PROVE  t = s
    <3>1. Contract!Layout[t] \in Nat /\ Contract!Size(t) \in Nat
      BY <1>1, ContractLayoutType, ContractSize DEF PlacedAsPromised
    <3>2. Contract!Size(t) > 0
      BY <2>1, <2>9, <3>1
    <3>3. PICK i \in 1..Len(pass1) :
                 pass1[i].line_counter = t /\ Words(i) = Contract!Size(t)
      BY <1>1, <3>2, HeavyItemExists
    <3>4. pass1[i].program_counter = Contract!Layout[t]
      BY <1>1, <3>3, AddressOfItem
    <3>5. Covers(i, a)
      BY <2>9, <3>3, <3>4 DEF Covers
    <3>6. i = j
      BY <1>1, <2>1, <2>2, <3>5, OneEntryCovers
    <3>7. QED
      BY <3>3, <3>6 DEF s
  <2>10. Contract!ProgramWords(Contract!Layout)[p]
           = Contract!Item(Contract!Layout, s)[(a - Contract!Layout[s]) \div 4]
    <3>1. /\ Contract!Layout[s] <= AddressOf(p)
          /\ AddressOf(p) < Contract!Layout[s] + 4 * Contract!Size(s)
      BY <2>3, <2>5, <2>6 DEF a
    <3>2. p \in 1..Contract!SumFunction(Sizes)
      BY <1>5
    <3>3. \A t \in 1..Len(pass0) :
            (/\ Contract!Layout[t] <= AddressOf(p)
             /\ AddressOf(p) < Contract!Layout[t] + 4 * Contract!Size(t)) => t = s
      BY <2>9 DEF a
    <3>4. QED
      BY <1>1, <2>3, <3>1, <3>2, <3>3, ContractProgramWord DEF a
  <2>11. (a - Contract!Layout[s]) \div 4 = k - 1
    BY <2>3, <2>6
  <2>12. QED
    BY <2>7, <2>8, <2>10, <2>11, Zenon
<1>7. /\ DOMAIN Contract!ProgramWords(Contract!Layout) = 1..Len(output)
      /\ Contract!ProgramWords(Contract!Layout)
           = [p \in 1..Len(output) |-> Contract!ProgramWords(Contract!Layout)[p]]
  <2> DEFINE Word_(p) ==
        LET address == Contract!HeaderBytes + 4 * (p - 1)
            size    == [x \in DOMAIN pass0 |-> Contract!Size(x)]
            item    == [x \in DOMAIN pass0 |-> Contract!Item(Contract!Layout, x)]
            s == CHOOSE x \in DOMAIN pass0 :
                   /\ Contract!Layout[x] <= address
                   /\ address < Contract!Layout[x] + 4 * size[x]
        IN  item[s][(address - Contract!Layout[s]) \div 4]
  <2>1. Contract!ProgramWords(Contract!Layout)
          = [p \in 1..Contract!SumFunction(Sizes) |-> Word_(p)]
    BY DEF Contract!ProgramWords, Sizes
  <2> HIDE DEF Word_
  <2>2. Contract!ProgramWords(Contract!Layout) = [p \in 1..Len(output) |-> Word_(p)]
    BY <1>5, <2>1
  <2>3. QED
    BY <2>2
<1>8. output = [p \in 1..Len(output) |-> output[p]]
  BY <1>2, <1>5
<1>9. QED
  BY <1>6, <1>7, <1>8

-----------------------------------------------------------------------------
(* What a run produces is one of the contract's results.                   *)

LEMMA HeapAfterPadding ==
  ASSUME TypeOK
  PROVE  /\ HeapStart = 32 + 4 * Len(Contract!Padded(output))
         /\ (IF Len(output) % 2 = 0 THEN output ELSE Append(output, Padding))
              = Contract!Padded(output)
<1>1. output \in Seq(Word) /\ Len(output) \in Nat /\ Padding \in Word
  <2>1. output \in Seq(Word)
    BY DEF TypeOK
  <2>2. Padding \in Word
    BY OwnWordType DEF Padding
  <2>3. QED
    BY <2>1, <2>2, LenProperties
<1>2. Padding = [line |-> 0, part |-> 0, address |-> 0]
  BY DEF Padding, OwnWord
<1>3. (IF Len(output) % 2 = 0 THEN output ELSE Append(output, Padding))
        = Contract!Padded(output)
  BY <1>2 DEF Contract!Padded
<1>4. Len(Contract!Padded(output)) = IF Len(output) % 2 = 0 THEN Len(output) ELSE Len(output) + 1
  <2>1. Len(Append(output, Padding)) = Len(output) + 1
    BY <1>1
  <2>2. QED
    BY <1>3, <2>1
<1>5. \A n \in Nat : AlignUp(32 + 4 * n) = IF n % 2 = 0 THEN 32 + 4 * n ELSE 32 + 4 * (n + 1)
  BY DEF AlignUp
<1>6. HeapStart = AlignUp(32 + 4 * Len(output))
  BY DEF HeapStart, HeaderBytes, HEAP_HEADER_WORDS
<1>7. HeapStart = 32 + 4 * Len(Contract!Padded(output))
  BY <1>1, <1>4, <1>5, <1>6
<1>8. QED
  BY <1>3, <1>7

LEMMA ContractCardinality ==
  ASSUME NEW S
  PROVE  Contract!Cardinality(S) = Cardinality(S)
BY Zenon DEF Cardinality, Contract!Cardinality

(* The cases of Results, one by one.                                       *)
LEMMA RejectedForErrors ==
  ASSUME ~Contract!Correct(Contract!Layout) \/ Contract!Starts = {}
  PROVE  Rejected \in Contract!Results
BY DEF Contract!Results, Contract!Rejected, Rejected

LEMMA RejectedForStarts ==
  ASSUME Cardinality(Contract!Starts) # 1
  PROVE  Rejected \in Contract!Results
<1>1. CASE ~Contract!Correct(Contract!Layout) \/ Contract!Starts = {}
  BY <1>1, RejectedForErrors
<1>2. CASE ~(~Contract!Correct(Contract!Layout) \/ Contract!Starts = {})
  <2>1. Contract!Results =
          {[kind |-> "flat", words |-> Contract!Padded(Contract!ProgramWords(Contract!Layout)),
            entry |-> Contract!Layout[Contract!Max(Contract!Starts)],
            heap_start |-> Contract!HeaderBytes
              + 4 * Len(Contract!Padded(Contract!ProgramWords(Contract!Layout)))]}
            \cup {Contract!Rejected}
    BY <1>2, ContractCardinality DEF Contract!Results
  <2>2. QED
    BY <2>1 DEF Contract!Rejected, Rejected
<1>3. QED
  BY <1>1, <1>2

LEMMA FlatIsAResult ==
  ASSUME Contract!Correct(Contract!Layout), NEW s \in Contract!Starts,
         s = Contract!Max(Contract!Starts), NEW words,
         words = Contract!Padded(Contract!ProgramWords(Contract!Layout)),
         NEW heap, heap = 32 + 4 * Len(words)
  PROVE  [kind |-> "flat", words |-> words, heap_start |-> heap,
          entry |-> Contract!Layout[s]] \in Contract!Results
BY DEF Contract!Results, Contract!HeaderBytes

LEMMA KbtIsAResult ==
  ASSUME Contract!Correct(Contract!Layout), NEW s \in Contract!Starts,
         Cardinality(Contract!Starts) = 1,
         s = Contract!Max(Contract!Starts), NEW words,
         words = Contract!ProgramWords(Contract!Layout),
         NEW heap, heap = 32 + 4 * Len(Contract!Padded(words))
  PROVE  [kind |-> "kbt", words |-> words, heap_start |-> heap,
          entry |-> Contract!Layout[s]] \in Contract!Results
<1> DEFINE Image_(kind, contents) ==
             [kind |-> kind, words |-> contents,
              entry |-> Contract!Layout[Contract!Max(Contract!Starts)],
              heap_start |-> Contract!HeaderBytes
                + 4 * Len(Contract!Padded(Contract!ProgramWords(Contract!Layout)))]
<1>1. Contract!Results =
        {Image_("flat", Contract!Padded(Contract!ProgramWords(Contract!Layout)))}
          \cup {Image_("kbt", Contract!ProgramWords(Contract!Layout))}
  BY ContractCardinality DEF Contract!Results
<1>2. Image_("kbt", Contract!ProgramWords(Contract!Layout))
        = [kind |-> "kbt", words |-> words, heap_start |-> heap,
           entry |-> Contract!Layout[s]]
  BY DEF Contract!HeaderBytes
<1> HIDE DEF Image_
<1>3. QED
  BY <1>1, <1>2

LEMMA LastStart ==
  ASSUME NEW S \in SUBSET Int, NEW s \in S, \A t \in S : t <= s
  PROVE  s = Contract!Max(S)
<1>1. \A t \in S : (\A y \in S : t >= y) <=> t = s
  OBVIOUS
<1>2. Contract!Max(S) = CHOOSE t \in S : \A y \in S : t >= y
  BY DEF Contract!Max
<1>3. s = CHOOSE t \in S : \A y \in S : t >= y
  BY <1>1
<1>4. QED
  BY <1>2, <1>3, Zenon

-----------------------------------------------------------------------------
EndingStep(result) ==
  /\ phase \in {"output", "kbt", "flat"}
  /\ outcome' = result
  /\ UNCHANGED pass0

LEMMA EndingStepAssembles ==
  ASSUME IInv, NEW result, EndingStep(result), result.kind # "pending",
         result \in Contract!Results
  PROVE  Contract!Assemble
<1>1. outcome = Pending
  BY DEF IInv, Progress, EndingStep
<1>2. QED
  BY <1>1 DEF EndingStep, Contract!Assemble, Pending

LEMMA RejectErrorsAssembles ==
  ASSUME IInv, Layout, Accounted, RejectErrors
  PROVE  Contract!Assemble
<1>1. EndingStep(Rejected)
  BY DEF EndingStep, RejectErrors
<1>2. ~Contract!Correct(Contract!Layout)
  <2>1. phase \in {"output", "kbt", "flat"} /\ errors # 0
    BY DEF RejectErrors
  <2>2. QED
    BY <2>1, ErrorsMeanIncorrect
<1>3. Rejected.kind # "pending"
  BY DEF Rejected
<1>4. QED
  BY <1>1, <1>2, <1>3, RejectedForErrors, EndingStepAssembles

(* What is known where an image is finished.                               *)
LEMMA LoopDone ==
  ASSUME IInv, Layout, Accounted, phase \in {"kbt", "flat"}, next > Len(pass2)
  PROVE  /\ PlacedAsPromised /\ AfterPass2
         /\ Contract!Correct(Contract!Layout)
         /\ output = Contract!ProgramWords(Contract!Layout)
         /\ HeapStart = 32 + 4 * Len(Contract!Padded(output))
<1>1. PlacedAsPromised
  BY PlacedAsPromisedOnceLaidOut DEF LaidOut, Phases
<1>2. AfterPass2
  BY DEF AfterPass2
<1>3. Contract!Correct(Contract!Layout)
  <2>1. errors = 0
    BY DEF IInv, Progress
  <2>2. QED
    BY <2>1, ErrorsMeanIncorrect
<1>4. output = Contract!ProgramWords(Contract!Layout)
  BY ImageIsProgram
<1>5. TypeOK
  BY DEF IInv
<1>6. QED
  BY <1>1, <1>2, <1>3, <1>4, <1>5, HeapAfterPadding

LEMMA SealKbtAssembles ==
  ASSUME IInv, Layout, Accounted, SealKbt
  PROVE  Contract!Assemble
<1>0. /\ phase = "kbt" /\ next > Len(pass2) /\ UNCHANGED pass0
  BY DEF SealKbt
<1>1. PICK j \in StartLines :
        /\ StartLines = {j}
        /\ outcome' = [kind |-> "kbt", words |-> output, heap_start |-> HeapStart,
                       entry |-> pass2[j].program_counter]
  BY DEF SealKbt
<1> DEFINE s == pass1[j].line_counter
<1>2. /\ PlacedAsPromised /\ AfterPass2
      /\ Contract!Correct(Contract!Layout)
      /\ output = Contract!ProgramWords(Contract!Layout)
      /\ HeapStart = 32 + 4 * Len(Contract!Padded(output))
  BY <1>0, LoopDone
<1>3. /\ s \in Contract!Starts
      /\ pass2[j].program_counter = Contract!Layout[s]
      /\ \A t \in Contract!Starts : \E i \in StartLines : pass1[i].line_counter = t
  BY <1>1, <1>2, StartEntries
<1>4. Contract!Starts = {s}
  BY <1>1, <1>3
<1>5. Cardinality(Contract!Starts) = 1
  BY <1>4, FS_Singleton
<1>6. s = Contract!Max(Contract!Starts)
  <2>1. Contract!Starts \subseteq Int
    BY <1>2 DEF Contract!Starts, PlacedAsPromised
  <2>2. \A t \in Contract!Starts : t <= s
    BY <1>4, <2>1
  <2>3. QED
    BY <1>3, <2>1, <2>2, LastStart
<1> DEFINE result == [kind |-> "kbt", words |-> output, heap_start |-> HeapStart,
                      entry |-> Contract!Layout[s]]
<1>7. result \in Contract!Results
  BY <1>2, <1>3, <1>5, <1>6, KbtIsAResult
<1>8. outcome' = result /\ result.kind # "pending"
  BY <1>1, <1>3
<1> HIDE DEF result
<1>9. QED
  BY <1>0, <1>7, <1>8, EndingStepAssembles DEF EndingStep

LEMMA RejectKbtAssembles ==
  ASSUME IInv, Layout, Accounted, RejectKbt
  PROVE  Contract!Assemble
<1>0. /\ phase = "kbt" /\ next > Len(pass2) /\ UNCHANGED pass0 /\ outcome' = Rejected
      /\ ~\E j \in StartLines : StartLines = {j}
  BY DEF RejectKbt
<1>1. PlacedAsPromised /\ AfterPass2
  BY <1>0, LoopDone
<1>2. /\ \A j \in StartLines :
           j \in 1..Len(pass1) /\ pass1[j].line_counter \in Contract!Starts
      /\ \A s \in Contract!Starts : \E j \in StartLines : pass1[j].line_counter = s
      /\ \A i, j \in StartLines : i < j => pass1[i].line_counter < pass1[j].line_counter
  BY <1>1, StartEntries
<1>3. Contract!Starts \subseteq Int
  BY <1>1 DEF Contract!Starts, PlacedAsPromised
<1>4. Cardinality(Contract!Starts) # 1
  <2> SUFFICES ASSUME Cardinality(Contract!Starts) = 1
               PROVE  FALSE
    OBVIOUS
  <2>1. PICK s : Contract!Starts = {s}
    <3>1. IsFiniteSet(Contract!Starts)
      <4>1. Contract!Starts \subseteq 1..Len(pass0) /\ Len(pass0) \in Nat
        BY <1>1 DEF Contract!Starts, PlacedAsPromised
      <4>2. IsFiniteSet(1..Len(pass0))
        BY <4>1, FS_Interval
      <4>3. QED
        BY <4>1, <4>2, FS_Subset
    <3>2. QED
      BY <3>1, FS_Singleton
  <2>2. PICK j \in StartLines : pass1[j].line_counter = s
    BY <1>2, <2>1
  <2>3. ASSUME NEW i \in StartLines
        PROVE  i = j
    <3>1. pass1[i].line_counter = s /\ s \in Int
      BY <1>2, <1>3, <2>1
    <3>2. i \in 1..Len(pass1) /\ j \in 1..Len(pass1)
      BY <1>2
    <3>3. ~(i < j) /\ ~(j < i)
      BY <1>2, <2>2, <3>1
    <3>4. QED
      BY <3>2, <3>3
  <2>4. StartLines = {j}
    BY <2>3
  <2>5. QED
    BY <1>0, <2>4
<1>5. Rejected.kind # "pending"
  BY DEF Rejected
<1>6. EndingStep(Rejected)
  BY <1>0 DEF EndingStep
<1>7. QED
  BY <1>4, <1>5, <1>6, RejectedForStarts, EndingStepAssembles

LEMMA SealFlatAssembles ==
  ASSUME IInv, Layout, Accounted, SealFlat
  PROVE  Contract!Assemble
<1>0. /\ phase = "flat" /\ next > Len(pass2) /\ entry # NoEntry /\ UNCHANGED pass0
      /\ outcome' = [kind |-> "flat",
                     words |-> IF Len(output) % 2 = 0 THEN output
                               ELSE Append(output, Padding),
                     heap_start |-> HeapStart,
                     entry |-> entry]
  BY DEF SealFlat
<1>1. /\ PlacedAsPromised /\ AfterPass2
      /\ Contract!Correct(Contract!Layout)
      /\ output = Contract!ProgramWords(Contract!Layout)
      /\ HeapStart = 32 + 4 * Len(Contract!Padded(output))
  BY <1>0, LoopDone
<1>2. /\ \A j \in StartLines :
           /\ j \in 1..Len(pass1) /\ pass1[j].line_counter \in Contract!Starts
           /\ pass2[j].program_counter = Contract!Layout[pass1[j].line_counter]
      /\ \A s \in Contract!Starts : \E j \in StartLines : pass1[j].line_counter = s
      /\ \A i, j \in StartLines : i < j => pass1[i].line_counter < pass1[j].line_counter
  BY <1>1, StartEntries
<1>3. Contract!Starts \in SUBSET Int
  BY <1>1 DEF Contract!Starts, PlacedAsPromised
<1>4. Len(pass2) \in Nat /\ next = Len(pass2) + 1 /\ DOMAIN pass2 = 1..Len(pass2)
  <2>1. pass2 \in Seq(Pass2Line) /\ next \in Nat /\ next <= Len(pass2) + 1
    BY <1>0 DEF IInv, TypeOK, Progress
  <2>2. QED
    BY <1>0, <2>1, LenProperties
<1>5. PICK j \in 1..Len(pass2) :
        /\ pass2[j].line_type = "Start"
        /\ entry = pass2[j].program_counter
        /\ \A k \in (j + 1)..Len(pass2) : pass2[k].line_type # "Start"
  <2>1. next - 1 = Len(pass2)
    BY <1>4
  <2>2. QED
    BY <1>0, <2>1 DEF Accounted, EntryIsLastStart
<1> DEFINE s == pass1[j].line_counter
<1>6. j \in StartLines /\ \A i \in StartLines : i <= j
  <2>1. j \in StartLines
    BY <1>4, <1>5 DEF StartLines
  <2>2. ASSUME NEW i \in StartLines
        PROVE  i <= j
    BY <1>4, <1>5 DEF StartLines
  <2>3. QED
    BY <2>1, <2>2
<1>7. s \in Contract!Starts /\ entry = Contract!Layout[s]
  BY <1>2, <1>5, <1>6
<1>8. s = Contract!Max(Contract!Starts)
  <2>1. ASSUME NEW t \in Contract!Starts
        PROVE  t <= s
    <3>1. PICK i \in StartLines : pass1[i].line_counter = t
      BY <1>2
    <3>2. i \in Int /\ j \in Int /\ s \in Int /\ t \in Int
      BY <1>2, <1>3, <1>5, <1>7
    <3>3. i <= j
      BY <1>6
    <3>4. i < j => t < s
      BY <1>2, <1>6, <3>1
    <3>5. i = j => t = s
      BY <3>1
    <3>6. QED
      BY <3>2, <3>3, <3>4, <3>5
  <2>2. QED
    BY <1>3, <1>7, <2>1, LastStart
<1> DEFINE words == IF Len(output) % 2 = 0 THEN output ELSE Append(output, Padding)
           result == [kind |-> "flat", words |-> words, heap_start |-> HeapStart,
                      entry |-> Contract!Layout[s]]
<1>9. words = Contract!Padded(output)
  BY HeapAfterPadding DEF IInv
<1>10. outcome' = result /\ result.kind # "pending"
  BY <1>0, <1>7
<1>11. result \in Contract!Results
  <2> HIDE DEF words
  <2>1. words = Contract!Padded(Contract!ProgramWords(Contract!Layout))
    BY <1>1, <1>9
  <2>2. HeapStart = 32 + 4 * Len(words)
    BY <1>1, <1>9
  <2>3. QED
    BY <1>1, <1>7, <1>8, <2>1, <2>2, FlatIsAResult
<1> HIDE DEF result
<1>12. QED
  BY <1>0, <1>10, <1>11, EndingStepAssembles DEF EndingStep

LEMMA RejectFlatAssembles ==
  ASSUME IInv, Layout, Accounted, RejectFlat
  PROVE  Contract!Assemble
<1>0. /\ phase = "flat" /\ next > Len(pass2) /\ entry = NoEntry /\ UNCHANGED pass0
      /\ outcome' = Rejected
  BY DEF RejectFlat
<1>1. PlacedAsPromised /\ AfterPass2
  BY <1>0, LoopDone
<1>2. /\ Len(pass2) \in Nat /\ next = Len(pass2) + 1 /\ DOMAIN pass2 = 1..Len(pass2)
      /\ Len(pass1) = Len(pass2)
  <2>1. /\ pass2 \in Seq(Pass2Line) /\ next \in Nat /\ next <= Len(pass2) + 1
        /\ Len(pass1) = Len(pass2)
    BY <1>0, <1>1 DEF IInv, TypeOK, Progress
  <2>2. QED
    BY <1>0, <2>1, LenProperties
<1>3. ASSUME NEW j \in 1..Len(pass2)
      PROVE  pass2[j].program_counter # NoEntry
  <2>1. pass2[j].program_counter = pass1[j].program_counter
    BY <1>2 DEF IInv, EmissionFollowsLayout, Emitted
  <2>2. pass1[j].program_counter = LineEnd(pass1, j - 1) /\ j - 1 \in 0..Len(pass1)
    BY <1>1, <1>2, LineEndNext
  <2>3. LineEnd(pass1, j - 1) \in Nat /\ LineEnd(pass1, j - 1) >= HeaderBytes
    BY <1>1, <2>2, LineEndType
  <2>4. QED
    BY <2>1, <2>2, <2>3 DEF HeaderBytes, HEAP_HEADER_WORDS, NoEntry
<1>4. \A j \in 1..Len(pass2) : pass2[j].line_type # "Start"
  <2>1. next - 1 = Len(pass2)
    BY <1>2
  <2>2. \/ \A j \in 1..Len(pass2) : pass2[j].line_type # "Start"
        \/ \E j \in 1..Len(pass2) : entry = pass2[j].program_counter
    BY <1>0, <2>1 DEF Accounted, EntryIsLastStart
  <2>3. QED
    BY <1>0, <1>3, <2>2
<1>5. StartLines = {}
  BY <1>2, <1>4 DEF StartLines
<1>6. \A s \in Contract!Starts : \E j \in StartLines : pass1[j].line_counter = s
  BY <1>1, StartEntries
<1>7. Contract!Starts = {}
  BY <1>5, <1>6
<1>8. Rejected.kind # "pending" /\ EndingStep(Rejected)
  BY <1>0 DEF Rejected, EndingStep
<1>9. QED
  BY <1>7, <1>8, RejectedForErrors, EndingStepAssembles

-----------------------------------------------------------------------------
(* Every other step is one the contract does not see.                      *)
LEMMA NextAssembles ==
  ASSUME IInv, Layout, Accounted, [Next]_vars
  PROVE  Contract!Assemble \/ UNCHANGED << pass0, outcome >>
<1>1. CASE Pass1Step
  BY <1>1 DEF Pass1Step, DeferComm, DeferToDataSection, KeepLine, EndOfSource,
     PlaceDeferred, EndOfDeferred
<1>2. CASE Pass2Step
  BY <1>2 DEF Pass2Step, CollectLabels, EmitLine, EndOfPass2
<1>3. CASE OutputStep
  <2>1. CASE ChooseImage \/ PushOpcode \/ NoteStart \/ PlaceOpcode
    BY <2>1 DEF ChooseImage, PushOpcode, NoteStart, PlaceOpcode
  <2>2. CASE RejectErrors
    BY <2>2, RejectErrorsAssembles
  <2>3. CASE SealKbt
    BY <2>3, SealKbtAssembles
  <2>4. CASE RejectKbt
    BY <2>4, RejectKbtAssembles
  <2>5. CASE SealFlat
    BY <2>5, SealFlatAssembles
  <2>6. CASE RejectFlat
    BY <2>6, RejectFlatAssembles
  <2>7. QED
    BY <1>3, <2>1, <2>2, <2>3, <2>4, <2>5, <2>6 DEF OutputStep
<1>4. CASE UNCHANGED vars
  BY <1>4 DEF vars
<1>5. QED
  BY <1>1, <1>2, <1>3, <1>4 DEF Next

LEMMA InitIsPending == Init => Contract!Init
BY DEF Init, Contract!Init, Pending

(* For every set of sources, every run of the assembler is a run of the    *)
(* contract: whatever it does in its loops, the image it ends with is the  *)
(* one the source alone determines, and it ends without one exactly when   *)
(* the source has an error or no usable _start.                            *)
THEOREM Implements == Spec => ImplementsContract
<1> DEFINE I == IInv /\ Layout /\ Accounted
<1>1. Init => I
  BY InitEstablishesIInv, InitEstablishesLayout, InitEstablishesAccounted
<1>2. I /\ [Next]_vars => I'
  BY NextKeepsIInv, NextKeepsLayout, NextKeepsAccounted
<1>3. I /\ [Next]_vars => [Contract!Assemble]_<< pass0, outcome >>
  BY NextAssembles
<1>4. QED
  BY <1>1, <1>2, <1>3, InitIsPending, PTL DEF Spec, ImplementsContract, Contract!Spec
=================================================================================
