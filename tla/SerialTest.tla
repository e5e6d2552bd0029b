------------------------------ MODULE SerialTest -------------------------------
(***************************************************************************)
(* run_test_monitor of serial.rs, on the port write_to_board_keep_port     *)
(* leaves open: collect what arrives, cut it into lines, compare the hex   *)
(* value each line starts with to the next expected one, until all have    *)
(* been compared, the deadline is found to have passed or a read fails.    *)
(***************************************************************************)
EXTENDS BoardUpload, FiniteSets

CONSTANTS
  HexDigits,     \* the characters 0-9 and A-F
  ValueWidth,    \* the digits of a value, 8 in the code
  Expectations   \* lists of expected values

Values == [1..ValueWidth -> HexDigits]

ASSUME SerialTestAssumption ==
  /\ {"Complete", "newline"} \subseteq Char
  /\ HexDigits \subseteq Char \ {"Complete", "newline"}
  /\ ValueWidth \in Nat \ {0}
  /\ Expectations \subseteq Seq(Values)

VARIABLES
  expected_values,
  test,            \* where the loop is
  line_buffer,
  expected_index,  \* counted from 0, as in the code
  passed,
  failed,
  expired,         \* start.elapsed() >= timeout
  heard,           \* all characters the loop has read (history)
  judged_from      \* who sent the values compared so far (history)

testVars == << expected_values, test, line_buffer, expected_index, passed,
               failed, expired, heard, judged_from >>

TestSteps == {"idle", "loop", "lines", "done"}

(* A session that is only monitored compares nothing.                      *)
TestInit ==
  /\ expected_values \in IF skip_load_response THEN {<< >>} ELSE Expectations
  /\ test = "idle"
  /\ line_buffer = << >>
  /\ expected_index = 0
  /\ passed = 0
  /\ failed = 0
  /\ expired = FALSE
  /\ heard = << >>
  /\ judged_from = {}

-----------------------------------------------------------------------------
(* Blank lines and lines with the word "Complete" say nothing.             *)
IsSkipped(line) == line = << >> \/ \E i \in 1..Len(line) : line[i].char = "Complete"

(* extract_hex_value: the line starts with the digits of a value; what     *)
(* follows them does not matter.                                           *)
HasValue(line) ==
  /\ ~IsSkipped(line)
  /\ Len(line) >= ValueWidth
  /\ \A i \in 1..ValueWidth : line[i].char \in HexDigits

ValueOf(line) == [i \in 1..ValueWidth |-> line[i].char]

FirstNewline(text) ==
  CHOOSE i \in 1..Len(text) :
    /\ text[i].char = "newline"
    /\ \A j \in 1..(i - 1) : text[j].char # "newline"

HasLine(text) == \E i \in 1..Len(text) : text[i].char = "newline"

Remaining == expected_index < Len(expected_values)

-----------------------------------------------------------------------------
StartTest ==
  /\ host = "opened"
  /\ test = "idle"
  /\ test' = "loop"
  /\ UNCHANGED << expected_values, line_buffer, expected_index, passed, failed,
                  expired, heard, judged_from >>
  /\ UNCHANGED uploadVars

(* Mutated form: the rest of an unfinished line is forgotten.              *)
BufferedAfresh(text) == text

Buffered(text) == line_buffer \o text

(* read returns Ok; a timeout only goes round the loop.                    *)
ReadOutput ==
  /\ test = "loop"
  /\ Remaining
  /\ ~expired
  /\ ~unplugged
  /\ \E n \in ReadLengths :
       /\ line_buffer' = Buffered(Taken(n))
       /\ heard' = heard \o Taken(n)
       /\ wire' = LeftOnWire(n)
  /\ test' = "lines"
  /\ UNCHANGED << expected_values, expected_index, passed, failed, expired, judged_from >>
  /\ UNCHANGED << skip_load_response, host, to_send, unsent, board, board_sent, old_left,
                  unplugged >>

ReadFails ==
  /\ test = "loop"
  /\ Remaining
  /\ unplugged
  /\ test' = "done"
  /\ UNCHANGED << expected_values, line_buffer, expected_index, passed, failed,
                  expired, heard, judged_from >>
  /\ UNCHANGED uploadVars

(* One turn of the inner loop.  Lines after the last expected value are    *)
(* taken off the buffer and ignored.                                       *)
JudgeLine ==
  /\ test = "lines"
  /\ HasLine(line_buffer)
  /\ LET newline == FirstNewline(line_buffer)
         line == SubSeq(line_buffer, 1, newline - 1)
     IN  /\ line_buffer' = SubSeq(line_buffer, newline + 1, Len(line_buffer))
         /\ IF HasValue(line) /\ Remaining
            THEN LET matches == ValueOf(line) = expected_values[expected_index + 1]
                 IN  /\ passed' = IF matches THEN passed + 1 ELSE passed
                     /\ failed' = IF matches THEN failed ELSE failed + 1
                     /\ expected_index' = expected_index + 1
                     /\ judged_from' = judged_from \cup {line[i].from : i \in 1..ValueWidth}
            ELSE UNCHANGED << passed, failed, expected_index, judged_from >>
  /\ UNCHANGED << expected_values, test, expired, heard >>
  /\ UNCHANGED uploadVars

NoMoreLines ==
  /\ test = "lines"
  /\ ~HasLine(line_buffer)
  /\ test' = "loop"
  /\ UNCHANGED << expected_values, line_buffer, expected_index, passed, failed,
                  expired, heard, judged_from >>
  /\ UNCHANGED uploadVars

(* Mutated form: the loop waits for the values whatever the time.          *)
AllValuesSeen == ~Remaining

TestIsOver == ~Remaining \/ expired

EndTest ==
  /\ test = "loop"
  /\ TestIsOver
  /\ test' = "done"
  /\ UNCHANGED << expected_values, line_buffer, expected_index, passed, failed,
                  expired, heard, judged_from >>
  /\ UNCHANGED uploadVars

TestStep == StartTest \/ ReadOutput \/ ReadFails \/ JudgeLine \/ NoMoreLines \/ EndTest

(* The deadline passes while the loop is anywhere.                         *)
Expire ==
  /\ test \in {"loop", "lines"}
  /\ ~expired
  /\ expired' = TRUE
  /\ UNCHANGED << expected_values, test, line_buffer, expected_index, passed,
                  failed, heard, judged_from >>
  /\ UNCHANGED uploadVars

timed_out == Remaining

TestTypeOK ==
  /\ expected_values \in Expectations \cup {<< >>}
  /\ test \in TestSteps
  /\ line_buffer \in Seq(Sent)
  /\ expected_index \in 0..Len(expected_values)
  /\ passed \in Nat
  /\ failed \in Nat
  /\ expired \in BOOLEAN
  /\ heard \in Seq(Sent)
  /\ judged_from \subseteq {"old", "loader", "program"}

-----------------------------------------------------------------------------
(* The lines of a text, by the place of the newline that ends them.        *)
LineEnds(text) == {i \in 1..Len(text) : text[i].char = "newline"}
LineEndingAt(text, i) ==
  LET before == {j \in LineEnds(text) : j < i}
      start == IF before = {} THEN 1 ELSE 1 + CHOOSE j \in before : \A k \in before : k <= j
  IN  SubSeq(text, start, i - 1)
ValueEnds(text) == {i \in LineEnds(text) : HasValue(LineEndingAt(text, i))}
Ordinal(ends, i) == Cardinality({j \in ends : j <= i})

(***************************************************************************)
(* CountsFollowOutput: whenever the loop is about to read again, and when  *)
(* it has ended, the counts are those of the text heard as a whole: its    *)
(* k-th value compared with the k-th expected one.  How the reads cut the  *)
(* output into pieces makes no difference, no value is counted twice or    *)
(* skipped, and passed, failed and expected_index stay in step.            *)
(***************************************************************************)
CountsFollowOutput ==
  test \in {"loop", "done"} =>
    LET ends == ValueEnds(heard)
        compared == {i \in ends : Ordinal(ends, i) <= Len(expected_values)}
        equal == {i \in compared :
                    ValueOf(LineEndingAt(heard, i)) = expected_values[Ordinal(ends, i)]}
    IN  /\ expected_index = Cardinality(compared)
        /\ passed = Cardinality(equal)
        /\ failed = Cardinality(compared \ equal)

(***************************************************************************)
(* OnlyThisProgramIsJudged: if the clearing read has left nothing of what  *)
(* an earlier program printed, every digit that was compared came from the *)
(* program just uploaded: not from the one before it and not from the      *)
(* loader's answer, of which the single read (serial.rs:256) may have      *)
(* taken all, a part or nothing.                                           *)
(***************************************************************************)
OnlyThisProgramIsJudged == ~old_left => judged_from \subseteq {"program"}

(* What OnlyThisProgramIsJudged takes for granted of the board: the rest   *)
(* of an answer such as "Load Complete OK" cannot be read as a value, nor  *)
(* as the beginning of one that the program's first digits complete.       *)
AnswersHoldNoValue ==
  \A answer \in Answers : \A i \in 1..Len(answer.text) :
    \E j \in i..(i + ValueWidth - 1) :
      j <= Len(answer.text) /\ answer.text[j] \notin HexDigits
================================================================================
