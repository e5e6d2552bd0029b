--------------------------- MODULE AssemblerContract ---------------------------
(***************************************************************************)
(* What assembling promises, in one step: from the source alone, which     *)
(* word is at which address, or that there is no image.  No pass, no       *)
(* program counter and no loop: the address of a line is a sum over the    *)
(* lines placed before it.                                                 *)
(***************************************************************************)
EXTENDS SourceLines, FiniteSets, FiniteSetsExt, Functions

CONSTANT Programs

VARIABLES source, result

HeaderBytes == 32

InDataSection(s) ==
  \E d \in 1..(s - 1) :
    /\ source[d].kind = ".data"
    /\ \A t \in (d + 1)..(s - 1) : source[t].kind # ".text"

(* Lines whose item goes to the end of the program.                        *)
Deferred(s) ==
  \/ source[s].kind = "comm"
  \/ source[s].kind \in {"label", "data"} /\ InDataSection(s)

Before(t, s) ==
  IF Deferred(t) = Deferred(s) THEN t < s ELSE Deferred(s)

(* The 32-bit words of a line's item.                                      *)
Size(s) ==
  IF source[s].kind = "comm"
  THEN IF source[s].complete THEN 2 * ((source[s].size + 7) \div 8) ELSE 0
  ELSE WordCount(UpgradeSetr(source[s]))

(* Where each line's item starts.                                          *)
Layout ==
  LET size == [s \in DOMAIN source |-> Size(s)]
  IN  [s \in DOMAIN source |->
         HeaderBytes + 4 * SumFunctionOnSet(size, {t \in DOMAIN source : Before(t, s)})]

-----------------------------------------------------------------------------
(* The name, if any, that line s defines.  As in the code its case does not*)
(* count, and a second definition at the same address is no mistake; that  *)
(* the manual says otherwise of labels is the subject of                   *)
(* OneLabelRuleHolds.                                                      *)
Defines(s) ==
  IF \/ source[s].kind = "label"
     \/ source[s].kind = "data" /\ source[s].named
     \/ source[s].kind = "comm" /\ source[s].complete
  THEN {Upper[source[s].name]}
  ELSE {}

(* A name has one address; one that nothing defines counts as zero.        *)
Resolve(layout, name) ==
  LET defining == {s \in DOMAIN source : Upper[name] \in Defines(s)}
  IN  IF defining = {} THEN 0 ELSE layout[CHOOSE s \in defining : TRUE]

NamesAreUnambiguous(layout) ==
  \A s, t \in DOMAIN source :
    Defines(s) \cap Defines(t) # {} => layout[s] = layout[t]

OperandsSuffice(line) ==
  \/ Variables[line.op] = 0
  \/ Variables[line.op] \in {1, 2} /\ Len(line.operands) >= Variables[line.op]
  \/ Variables[line.op] = 2 /\ Len(line.operands) = 1 /\ line.operands[1].kind = "literal"

LineIsCorrect(line) ==
  CASE line.kind = "data" -> line.valid
    [] line.kind = "instruction" ->
         line.op \in DOMAIN Variables /\ line.registers_ok /\ OperandsSuffice(line)
    [] OTHER -> TRUE

Correct(layout) ==
  /\ NamesAreUnambiguous(layout)
  /\ \A s \in DOMAIN source : LineIsCorrect(UpgradeSetr(source[s]))

-----------------------------------------------------------------------------
(* The words of line s, in order; an instruction's own word is part 0.     *)
Item(layout, s) ==
  LET line  == source[s]
      first == IF line.kind = "instruction" THEN 0 ELSE 1
      IsReference(k) == /\ line.kind = "instruction"
                        /\ k \in DOMAIN line.operands
                        /\ line.operands[k].kind = "name"
  IN  [i \in 0..(Size(s) - 1) |->
         [line |-> s, part |-> first + i,
          address |-> IF IsReference(i)
                      THEN Resolve(layout, line.operands[i].name)
                      ELSE 0]]

ProgramWords(layout) ==
  LET size == [s \in DOMAIN source |-> Size(s)]
      item == [s \in DOMAIN source |-> Item(layout, s)]
      Owner(address) == CHOOSE s \in DOMAIN source :
                          /\ layout[s] <= address
                          /\ address < layout[s] + 4 * size[s]
  IN  [p \in 1..SumFunction(size) |->
         LET address == HeaderBytes + 4 * (p - 1)
             s       == Owner(address)
         IN  item[s][(address - layout[s]) \div 4]]

Padded(words) ==
  IF Len(words) % 2 = 0
  THEN words
  ELSE Append(words, [line |-> 0, part |-> 0, address |-> 0])

Rejected == [kind |-> "rejected"]

Starts == {s \in DOMAIN source : source[s].kind = "start"}

(* The board refuses a second _start, the emulator takes the last.         *)
Results ==
  LET layout == Layout
      words  == ProgramWords(layout)
      padded == Padded(words)
      Image(kind, contents, s) ==
        [kind |-> kind, words |-> contents, entry |-> layout[s],
         heap_start |-> HeaderBytes + 4 * Len(padded)]
  IN  IF ~Correct(layout) \/ Starts = {} THEN {Rejected}
      ELSE {Image("flat", padded, Max(Starts))} \cup
           (IF Cardinality(Starts) = 1
            THEN {Image("kbt", words, Max(Starts))}
            ELSE {Rejected})

Init == source \in Programs /\ result = [kind |-> "pending"]

Assemble ==
  /\ result.kind = "pending"
  /\ result'.kind # "pending"
  /\ result' \in Results
  /\ UNCHANGED source

Spec == Init /\ [][Assemble]_<< source, result >>
================================================================================
