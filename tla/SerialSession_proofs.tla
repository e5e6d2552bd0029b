-------------------------- MODULE SerialSession_proofs --------------------------
(***************************************************************************)
(* Proofs about a session on the serial line, for every alphabet, buffer   *)
(* size, image, list of expected values and whatever board and user do.    *)
(***************************************************************************)
EXTENDS SerialSession, SequenceTheorems, SumTheorems

-----------------------------------------------------------------------------
(* The inductive invariant.                                                *)

(* The image is either still to be queued, with the driver, or sent; and   *)
(* the board has nothing to answer to before the old output was cleared.   *)
BeforeSending == {"open", "reset", "clear"}

ChunksAccountedFor ==
  /\ to_send + unsent <= Chunks
  /\ host \in BeforeSending => to_send = Chunks /\ board_sent = << >>
  /\ host = "send" => to_send > 0
  /\ host = "answer" => ~skip_load_response

EndsWith(text, end) ==
  /\ Len(end) <= Len(text)
  /\ SubSeq(text, Len(text) - Len(end) + 1, Len(text)) = end

(* Where the caller's thread is before it has shown anything, and in the   *)
(* loop.                                                                   *)
NotYetReading == {"idle", "raw", "flush", "drain", "clone"}

(* NoOutputMissed from the beginning, before there is a monitor.           *)
NothingLost ==
  skip_load_response /\ reader \in NotYetReading \cup {"test", "read"} =>
    /\ EndsWith(printed \o wire, board_sent)
    /\ ~HasNul(printed)

(* TerminalRestored, and the terminal as it was before the monitor.        *)
TerminalKept == reader \in {"idle", "raw", "done", "error", "killed"} => ~raw_mode

IInv ==
  /\ UploadTypeOK
  /\ TestTypeOK
  /\ MonitorTypeOK
  /\ ChunksAccountedFor
  /\ NothingLost
  /\ TerminalKept

-----------------------------------------------------------------------------
(* Texts.                                                                  *)

LEMMA AtMostType ==
  ASSUME NEW m \in Nat, NEW n \in Nat
  PROVE  AtMost(m, n) \in Nat /\ AtMost(m, n) <= m /\ AtMost(m, n) <= n
BY DEF AtMost

(* A text cut in two is the two parts, one after the other.                *)
LEMMA TextInTwo ==
  ASSUME NEW text \in Seq(Sent), NEW n \in 0..Len(text)
  PROVE  /\ SubSeq(text, 1, n) \in Seq(Sent)
         /\ SubSeq(text, n + 1, Len(text)) \in Seq(Sent)
         /\ Len(SubSeq(text, 1, n)) = n
         /\ \A i \in 1..n : SubSeq(text, 1, n)[i] = text[i]
         /\ Len(SubSeq(text, n + 1, Len(text))) = Len(text) - n
         /\ \A i \in 1..(Len(text) - n) : SubSeq(text, n + 1, Len(text))[i] = text[n + i]
         /\ SubSeq(text, 1, n) \o SubSeq(text, n + 1, Len(text)) = text
<1> DEFINE taken == SubSeq(text, 1, n)
           left == SubSeq(text, n + 1, Len(text))
<1>1. Len(text) \in Nat /\ \A i \in 1..Len(text) : text[i] \in Sent
  BY ElementOfSeq, LenProperties
<1>2. taken \in Seq(Sent) /\ left \in Seq(Sent)
  BY <1>1, SubSeqProperties, n + 1 \in Int
<1>3. /\ Len(taken) = n
      /\ \A i \in 1..n : taken[i] = text[i]
  BY <1>1
<1>4. /\ Len(left) = Len(text) - n
      /\ \A i \in 1..(Len(text) - n) : left[i] = text[n + i]
  BY <1>1
<1> HIDE DEF taken, left
<1> DEFINE both == taken \o left
<1>5. /\ both \in Seq(Sent)
      /\ Len(both) = Len(taken) + Len(left)
      /\ \A i \in 1..Len(taken) + Len(left) :
           both[i] = IF i <= Len(taken) THEN taken[i] ELSE left[i - Len(taken)]
  BY <1>2, ConcatProperties, Zenon
<1> HIDE DEF both
<1>6. Len(both) = Len(text)
  BY <1>1, <1>3, <1>4, <1>5
<1>7. \A i \in 1..Len(text) : both[i] = text[i]
  <2> SUFFICES ASSUME NEW i \in 1..Len(text) PROVE both[i] = text[i]
    OBVIOUS
  <2>1. CASE i <= n
    BY <1>1, <1>3, <1>4, <1>5, <2>1
  <2>2. CASE ~(i <= n)
    <3>1. i - n \in 1..(Len(text) - n)
      BY <1>1, <2>2
    <3>2. both[i] = left[i - n]
      BY <1>1, <1>3, <1>4, <1>5, <2>2
    <3>3. left[i - n] = text[n + (i - n)]
      BY <1>4, <3>1
    <3> QED
      BY <1>1, <3>2, <3>3
  <2> QED
    BY <2>1, <2>2
<1>8. both = text
  BY <1>5, <1>6, <1>7, SeqEqual
<1> QED
  BY <1>2, <1>3, <1>4, <1>8 DEF both, taken, left

(* What a read takes and what it leaves make up what was on the wire.      *)
LEMMA ReadSplitsWire ==
  ASSUME wire \in Seq(Sent), NEW n \in 0..Len(wire)
  PROVE  /\ Taken(n) \in Seq(Sent)
         /\ LeftOnWire(n) \in Seq(Sent)
         /\ Taken(n) \o LeftOnWire(n) = wire
BY TextInTwo DEF Taken, LeftOnWire

LEMMA ReadLengthsAreLengths ==
  ASSUME wire \in Seq(Sent), NEW n \in ReadLengths
  PROVE  n \in 0..Len(wire)
<1>1. ReadSize \in Nat /\ Len(wire) \in Nat
  BY BoardUploadAssumption, LenProperties
<1>2. AtMost(ReadSize, Len(wire)) \in Nat /\ AtMost(ReadSize, Len(wire)) <= Len(wire)
  BY <1>1, AtMostType
<1>3. n \in 1..AtMost(ReadSize, Len(wire))
  BY DEF ReadLengths
<1> QED
  BY <1>1, <1>2, <1>3

LEMMA SentByType ==
  ASSUME NEW text \in Seq(Char), NEW who \in {"old", "loader", "program"}
  PROVE  SentBy(text, who) \in Seq(Sent)
<1>1. \A i \in 1..Len(text) : [char |-> text[i], from |-> who] \in Sent
  BY ElementOfSeq DEF Sent
<1>2. Len(text) \in Nat
  BY LenProperties
<1>3. SentBy(text, who) \in [1..Len(text) -> Sent]
  BY <1>1 DEF SentBy
<1> QED
  BY <1>2, <1>3, SeqDef

(* A text that ends with another one goes on to when both grow alike.      *)
LEMMA BothGrow ==
  ASSUME NEW text \in Seq(Sent), NEW end \in Seq(Sent), NEW more \in Seq(Sent),
         EndsWith(text, end)
  PROVE  EndsWith(text \o more, end \o more)
<1> DEFINE long == text \o more
           tail == end \o more
           before == Len(text) - Len(end)
<1>1. Len(text) \in Nat /\ Len(end) \in Nat /\ Len(more) \in Nat /\ before \in Nat
  BY LenProperties DEF EndsWith
<1>2. /\ long \in Seq(Sent) /\ tail \in Seq(Sent)
      /\ Len(long) = Len(text) + Len(more)
      /\ Len(tail) = Len(end) + Len(more)
  OBVIOUS
<1>3. \A i \in 1..Len(end) : text[before + i] = end[i]
  <2>1. /\ SubSeq(text, before + 1, Len(text)) = end
        /\ before + Len(end) = Len(text)
    BY <1>1 DEF EndsWith
  <2> SUFFICES ASSUME NEW i \in 1..Len(end)
               PROVE  SubSeq(text, before + 1, Len(text))[i] = text[before + i]
    BY <2>1
  <2> HIDE DEF before
  <2>2. \A j \in (before + 1)..Len(text) : text[j] \in Sent
    BY <1>1, ElementOfSeq
  <2>3. i \in 1..Len(text) - (before + 1) + 1 /\ before + 1 + i - 1 = before + i
    BY <1>1, <2>1
  <2> QED
    BY <1>1, <2>2, <2>3, SubSeqProperties, before + 1 \in Int, Len(text) \in Int
<1>4. \A i \in 1..Len(tail) : long[before + i] = tail[i]
  <2> SUFFICES ASSUME NEW i \in 1..Len(tail) PROVE long[before + i] = tail[i]
    OBVIOUS
  <2>1. long[before + i] = IF before + i <= Len(text) THEN text[before + i]
                           ELSE more[before + i - Len(text)]
    BY <1>1, <1>2, before + i \in 1..Len(text) + Len(more), ConcatProperties
  <2>2. tail[i] = IF i <= Len(end) THEN end[i] ELSE more[i - Len(end)]
    BY <1>1, <1>2, i \in 1..Len(end) + Len(more), ConcatProperties
  <2> QED
    BY <1>1, <1>3, <2>1, <2>2
<1> HIDE DEF long, tail
<1>5. Len(long) - Len(tail) = before /\ Len(tail) <= Len(long) /\ Len(long) \in Nat /\ Len(tail) \in Nat
  BY <1>1, <1>2 DEF before
<1>6. SubSeq(long, before + 1, Len(long)) = tail
  <2> DEFINE s == SubSeq(long, before + 1, Len(long))
  <2>1. /\ s \in Seq(Sent)
        /\ Len(s) = Len(tail)
        /\ \A i \in 1..Len(tail) : s[i] = long[before + i]
    <3>1. before \in 0..Len(long) /\ Len(long) - before = Len(tail)
      BY <1>1, <1>5
    <3>2. /\ s \in Seq(Sent)
          /\ Len(s) = Len(long) - before
          /\ \A i \in 1..(Len(long) - before) : s[i] = long[before + i]
      <4> HIDE DEF before
      <4> QED
        BY <1>2, <3>1, TextInTwo
    <3> QED
      BY <3>1, <3>2
  <2> QED
    BY <1>2, <1>4, <2>1, SeqEqual
<1> QED
  BY <1>5, <1>6 DEF EndsWith, long, tail

(* Every text ends with the empty one.                                     *)
LEMMA EndsWithNothing ==
  ASSUME NEW text \in Seq(Sent)
  PROVE  EndsWith(text, << >>)
BY DEF EndsWith

(* Moving a part from the beginning of one text to the end of another one. *)
LEMMA MoveText ==
  ASSUME NEW s \in Seq(Sent), NEW t \in Seq(Sent), NEW u \in Seq(Sent)
  PROVE  (s \o t) \o u = s \o (t \o u)
BY ConcatAssociative

(* The first place where a text has a character.                           *)
LEMMA FirstPlace ==
  ASSUME NEW text \in Seq(Sent), NEW c, \E i \in 1..Len(text) : text[i].char = c
  PROVE  \E i \in 1..Len(text) :
           text[i].char = c /\ \A j \in 1..(i - 1) : text[j].char # c
<1> DEFINE T == {i \in 1..Len(text) : text[i].char = c}
           R == OpToRel(<, Nat)
<1>1. Len(text) \in Nat
  OBVIOUS
<1>2. IsWellFoundedOn(R, Nat)
  BY NatLessThanWellFounded, Zenon DEF R
<1>3. T \subseteq Nat /\ T # {}
  BY <1>1
<1>4. PICK i \in T : \A j \in T : << j, i >> \notin R
  <2> HIDE DEF T, R
  <2> QED
    BY <1>2, <1>3, WFMin
<1>5. \A j \in T : ~(j < i)
  BY <1>3, <1>4 DEF OpToRel, R
<1> QED
  BY <1>1, <1>5

LEMMA UpToNulType ==
  ASSUME NEW text \in Seq(Sent), HasNul(text)
  PROVE  UpToNul(text) \in Seq(Sent)
<1> DEFINE nul == CHOOSE i \in 1..Len(text) :
                    text[i].char = "NUL" /\ \A j \in 1..(i - 1) : text[j].char # "NUL"
<1>1. nul \in 1..Len(text)
  BY FirstPlace DEF HasNul
<1>2. UpToNul(text) = SubSeq(text, 1, nul - 1)
  BY DEF UpToNul
<1> HIDE DEF nul
<1>3. \A i \in 1..(nul - 1) : text[i] \in Sent
  BY <1>1, ElementOfSeq
<1> QED
  BY <1>1, <1>2, <1>3, SubSeqProperties, nul - 1 \in Int

LEMMA FirstLine ==
  ASSUME NEW text \in Seq(Sent), HasLine(text)
  PROVE  /\ FirstNewline(text) \in 1..Len(text)
         /\ SubSeq(text, 1, FirstNewline(text) - 1) \in Seq(Sent)
         /\ SubSeq(text, FirstNewline(text) + 1, Len(text)) \in Seq(Sent)
<1>1. FirstNewline(text) \in 1..Len(text)
  BY FirstPlace DEF HasLine, FirstNewline
<1>2. \A i \in 1..Len(text) : text[i] \in Sent
  BY ElementOfSeq
<1>3. Len(text) \in Nat
  OBVIOUS
<1> HIDE DEF FirstNewline
<1> QED
  BY <1>1, <1>2, <1>3, SubSeqProperties, FirstNewline(text) - 1 \in Int,
     FirstNewline(text) + 1 \in Int

LEMMA NulFreeConcat ==
  ASSUME NEW s \in Seq(Sent), NEW t \in Seq(Sent), ~HasNul(s), ~HasNul(t)
  PROVE  ~HasNul(s \o t)
<1> SUFFICES ASSUME NEW i \in 1..Len(s \o t), (s \o t)[i].char = "NUL" PROVE FALSE
  BY DEF HasNul
<1>1. /\ Len(s) \in Nat /\ Len(t) \in Nat
      /\ (s \o t)[i] = IF i <= Len(s) THEN s[i] ELSE t[i - Len(s)]
      /\ i \in 1..Len(s) + Len(t)
  BY ConcatProperties
<1>2. CASE i <= Len(s)
  BY <1>1, <1>2 DEF HasNul
<1>3. CASE ~(i <= Len(s))
  <2>1. i - Len(s) \in 1..Len(t)
    BY <1>1, <1>3
  <2> QED
    BY <1>1, <1>3, <2>1 DEF HasNul
<1> QED
  BY <1>2, <1>3

-----------------------------------------------------------------------------
LEMMA InitEstablishesIInv == Init => IInv
<1> SUFFICES ASSUME Init PROVE IInv
  OBVIOUS
<1>1. UploadInit /\ TestInit /\ MonitorInit
  BY DEF Init
<1>2. skip_load_response \in BOOLEAN /\ unplugged \in BOOLEAN /\ expired \in BOOLEAN
  BY <1>1, Zenon DEF UploadInit, TestInit
<1>3. running \in BOOLEAN /\ raw_mode \in BOOLEAN /\ ctrl_c \in BOOLEAN
  BY <1>1, Zenon DEF MonitorInit
<1>4. host = "open" /\ to_send = Chunks /\ unsent = 0 /\ board = "old program" /\ board_sent = << >>
      /\ old_left = FALSE
  BY <1>1, Zenon DEF UploadInit
<1>5. to_send = Chunks /\ unsent = 0 /\ Chunks \in Nat
  BY <1>4, BoardUploadAssumption, Zenon
<1>6. /\ expected_values \in Expectations \cup {<< >>}
      /\ test = "idle" /\ line_buffer = << >> /\ expected_index = 0 /\ passed = 0 /\ failed = 0
      /\ heard = << >> /\ judged_from = {}
  BY <1>1, Zenon DEF TestInit
<1>7. /\ reader = "idle" /\ keyboard = "none" /\ keys = << >> /\ pressed = 0
      /\ sent_keys = << >> /\ printed = << >>
  BY <1>1, Zenon DEF MonitorInit
<1>8. wire \in Seq(Sent)
  <2>1. PICK text \in OldOutputs : wire = SentBy(text, "old")
    BY <1>1 DEF UploadInit
  <2>2. text \in Seq(Char)
    BY BoardUploadAssumption
  <2> QED
    BY <2>1, <2>2, SentByType
<1>9. UploadTypeOK
  <2>1. << >> \in Seq(Sent)
    OBVIOUS
  <2>2. Chunks \in Nat
    BY BoardUploadAssumption
  <2> QED
    <3>1. to_send \in 0..Chunks /\ unsent \in 0..Chunks
      BY <1>5
    <3>2. host \in HostSteps /\ board \in BoardSteps /\ board_sent \in Seq(Sent)
      BY <1>4, <2>1 DEF HostSteps, BoardSteps
    <3> QED
      BY <1>2, <1>4, <1>8, <3>1, <3>2, Zenon DEF UploadTypeOK
<1>10. TestTypeOK
  <2>1. << >> \in Seq(Sent)
    OBVIOUS
  <2>2. Len(expected_values) \in Nat
    BY <1>6, SerialTestAssumption
  <2> QED
    BY <1>2, <1>6, <2>1, <2>2 DEF TestTypeOK, TestSteps
<1>11. MonitorTypeOK
  <2>1. << >> \in Seq(Sent) /\ << >> \in Seq(Key)
    OBVIOUS
  <2> QED
    BY <1>3, <1>7, <2>1, SerialMonitorAssumption DEF MonitorTypeOK, ReaderSteps, KeyboardSteps
<1>12. ChunksAccountedFor
  <2>1. to_send + unsent <= Chunks
    BY <1>5
  <2>2. host # "send" /\ host # "answer"
    BY <1>4
  <2> QED
    BY <1>4, <2>1, <2>2, Zenon DEF ChunksAccountedFor
<1>13. NothingLost
  <2>1. printed = << >> /\ board_sent = << >>
    BY <1>4, <1>7
  <2>2. printed \o wire = wire
    BY <1>8, <2>1, ConcatEmptySeq
  <2>3. ~HasNul(printed)
    BY <2>1 DEF HasNul
  <2> QED
    BY <1>8, <2>1, <2>2, <2>3, EndsWithNothing DEF NothingLost
<1>14. TerminalKept
  BY <1>1, Zenon DEF MonitorInit, TerminalKept
<1> QED
  BY <1>9, <1>10, <1>11, <1>12, <1>13, <1>14 DEF IInv

-----------------------------------------------------------------------------
(* The upload and the driver touch nothing of the test and the monitor.    *)
LEMMA OthersStay ==
  ASSUME TestTypeOK, MonitorTypeOK, TerminalKept, UNCHANGED << testVars, monitorVars >>
  PROVE  TestTypeOK' /\ MonitorTypeOK' /\ TerminalKept'
BY DEF TestTypeOK, MonitorTypeOK, TerminalKept, testVars, monitorVars,
       Remaining

LEMMA UploadKeepsIInv == IInv /\ Upload => IInv'
<1> SUFFICES ASSUME IInv, Upload PROVE IInv'
  OBVIOUS
<1>1. TestTypeOK' /\ MonitorTypeOK' /\ TerminalKept'
  BY OthersStay DEF IInv, Upload
<1>2. reader' = reader /\ printed' = printed
  BY DEF Upload, monitorVars
<1>3. UploadTypeOK /\ ChunksAccountedFor /\ NothingLost
  BY DEF IInv
<1>4. wire \in Seq(Sent) /\ board_sent \in Seq(Sent) /\ printed \in Seq(Sent)
  BY DEF IInv, UploadTypeOK, MonitorTypeOK
<1>5. Chunks \in Nat \ {0}
  BY BoardUploadAssumption
<1>6. CASE OpenPort \/ ResetBoard
  <2>1. UploadTypeOK' /\ ChunksAccountedFor'
    BY <1>3, <1>5, <1>6 DEF OpenPort, ResetBoard, AfterReset, UploadTypeOK, HostSteps, BoardSteps,
       ChunksAccountedFor, BeforeSending
  <2>2. NothingLost'
    BY <1>2, <1>3, <1>6 DEF OpenPort, ResetBoard, NothingLost
  <2> QED
    BY <1>1, <2>1, <2>2 DEF IInv
<1>7. CASE ClearOldMessages
  <2>1. wire' \in Seq(Sent)
    <3>1. wire' = wire \/ \E n \in {0} \cup ReadLengths : wire' = LeftOnWire(n)
      BY <1>7 DEF ClearOldMessages
    <3>2. ASSUME NEW n \in {0} \cup ReadLengths PROVE LeftOnWire(n) \in Seq(Sent)
      <4>1. n \in 0..Len(wire)
        BY <1>4, ReadLengthsAreLengths, LenProperties
      <4> QED
        BY <1>4, <4>1, ReadSplitsWire
    <3> QED
      BY <1>4, <3>1, <3>2
  <2>6. old_left' \in BOOLEAN
    BY <1>3, <1>7, Zenon DEF ClearOldMessages, UploadTypeOK
  <2>2. UploadTypeOK' /\ ChunksAccountedFor'
    BY <1>3, <1>5, <1>7, <2>1, <2>6 DEF ClearOldMessages, UploadTypeOK, HostSteps,
       ChunksAccountedFor, BeforeSending
  <2>3. board_sent' = << >>
    BY <1>3, <1>7 DEF ClearOldMessages, ChunksAccountedFor, BeforeSending
  <2>4. EndsWith(printed' \o wire', board_sent')
    BY <1>2, <1>4, <2>1, <2>3, EndsWithNothing, printed' \o wire' \in Seq(Sent)
  <2>5. NothingLost'
    BY <1>2, <1>3, <1>7, <2>4 DEF ClearOldMessages, NothingLost
  <2> QED
    BY <1>1, <2>2, <2>5 DEF IInv
<1>8. CASE QueueChunk \/ QueueIsEmpty
  <2>1. UploadTypeOK' /\ ChunksAccountedFor'
    BY <1>3, <1>5, <1>8 DEF QueueChunk, QueueIsEmpty, AfterChunk, UploadTypeOK, HostSteps,
       ChunksAccountedFor, BeforeSending
  <2>2. NothingLost'
    BY <1>2, <1>3, <1>8 DEF QueueChunk, QueueIsEmpty, NothingLost
  <2> QED
    BY <1>1, <2>1, <2>2 DEF IInv
<1>9. CASE ReadAnswer
  <2>1. wire' \in Seq(Sent)
    BY <1>4, <1>9, ReadLengthsAreLengths, ReadSplitsWire DEF ReadAnswer
  <2>2. UploadTypeOK' /\ ChunksAccountedFor'
    BY <1>3, <1>9, <2>1 DEF ReadAnswer, UploadTypeOK, HostSteps, ChunksAccountedFor,
       BeforeSending
  <2>3. NothingLost'
    BY <1>3, <1>9 DEF ReadAnswer, ChunksAccountedFor, NothingLost
  <2> QED
    BY <1>1, <2>2, <2>3 DEF IInv
<1> QED
  BY <1>6, <1>7, <1>8, <1>9 DEF Upload, HostStep

LEMMA DriverKeepsIInv == IInv /\ Driver => IInv'
<1> SUFFICES ASSUME IInv, Driver PROVE IInv'
  OBVIOUS
<1>1. TestTypeOK' /\ MonitorTypeOK' /\ TerminalKept'
  BY OthersStay DEF IInv, Driver
<1>2. reader' = reader /\ printed' = printed
  BY DEF Driver, monitorVars
<1>3. UploadTypeOK /\ ChunksAccountedFor /\ NothingLost
  BY DEF IInv
<1>4. wire \in Seq(Sent) /\ board_sent \in Seq(Sent) /\ printed \in Seq(Sent)
  BY DEF IInv, UploadTypeOK, MonitorTypeOK
<1>5. /\ to_send \in Nat /\ unsent \in Nat /\ Chunks \in Nat /\ unsent > 0
      /\ host \notin BeforeSending
  BY <1>3, BoardUploadAssumption DEF UploadTypeOK, ChunksAccountedFor, Driver, DriverSends
<1>6. /\ board' \in BoardSteps
      /\ \E said \in Seq(Sent) : wire' = wire \o said /\ board_sent' = board_sent \o said
  <2>1. CASE UNCHANGED << board, wire, board_sent >>
    <3>1. wire \o << >> = wire /\ board_sent \o << >> = board_sent /\ << >> \in Seq(Sent)
      BY <1>4, ConcatEmptySeq
    <3>2. wire' = wire \o << >> /\ board_sent' = board_sent \o << >>
      BY <2>1, <3>1
    <3> QED
      BY <1>3, <2>1, <3>1, <3>2 DEF UploadTypeOK
  <2>2. CASE \E answer \in Answers, output \in ProgramOutputs :
               LET said == SentBy(answer.text, "loader") \o
                             IF answer.accepts THEN SentBy(output, "program") ELSE << >>
               IN  /\ board' = IF answer.accepts THEN "running" ELSE "rejected"
                   /\ wire' = wire \o said
                   /\ board_sent' = board_sent \o said
    <3>1. PICK answer \in Answers, output \in ProgramOutputs :
            LET said == SentBy(answer.text, "loader") \o
                          IF answer.accepts THEN SentBy(output, "program") ELSE << >>
            IN  /\ board' = IF answer.accepts THEN "running" ELSE "rejected"
                /\ wire' = wire \o said
                /\ board_sent' = board_sent \o said
      BY <2>2
    <3>2. answer.text \in Seq(Char) /\ output \in Seq(Char)
      BY BoardUploadAssumption
    <3>3. SentBy(answer.text, "loader") \in Seq(Sent) /\ SentBy(output, "program") \in Seq(Sent)
      BY <3>2, SentByType
    <3>4. (SentBy(answer.text, "loader") \o
             IF answer.accepts THEN SentBy(output, "program") ELSE << >>) \in Seq(Sent)
      BY <3>3
    <3> QED
      BY <3>1, <3>4 DEF BoardSteps
  <2> QED
    BY <2>1, <2>2 DEF Driver, DriverSends
<1>7. PICK said \in Seq(Sent) : wire' = wire \o said /\ board_sent' = board_sent \o said
  BY <1>6
<1>8. UploadTypeOK' /\ ChunksAccountedFor'
  <2>1. wire' \in Seq(Sent) /\ board_sent' \in Seq(Sent)
    BY <1>4, <1>7
  <2> QED
    BY <1>3, <1>5, <1>6, <2>1 DEF Driver, DriverSends, UploadTypeOK, ChunksAccountedFor
<1>9. NothingLost'
  <2>1. skip_load_response' = skip_load_response
    BY DEF Driver, DriverSends
  <2>2. printed \o wire' = (printed \o wire) \o said
    <3>1. (printed \o wire) \o said = printed \o (wire \o said)
      BY <1>4, MoveText
    <3> QED
      BY <1>7, <3>1
  <2>3. printed \o wire \in Seq(Sent)
    BY <1>4
  <2>4. EndsWith(printed \o wire, board_sent) => EndsWith(printed' \o wire', board_sent')
    BY <1>2, <1>4, <1>7, <2>2, <2>3, BothGrow
  <2> QED
    BY <1>2, <1>3, <2>1, <2>4 DEF NothingLost
<1> QED
  BY <1>1, <1>8, <1>9 DEF IInv

-----------------------------------------------------------------------------
(* A test looks at the answer itself, so that NothingLost says nothing.    *)
LEMMA TestKeepsIInv == IInv /\ (Test \/ Clock) => IInv'
<1> SUFFICES ASSUME IInv, Test \/ Clock PROVE IInv'
  OBVIOUS
<1> USE DEF Test, Clock, Testing
<1>1. ~skip_load_response /\ UNCHANGED monitorVars
  OBVIOUS
<1>2. /\ UNCHANGED << skip_load_response, host, to_send, unsent, board, board_sent, old_left,
                       unplugged >>
      /\ wire' = wire \/ \E n \in ReadLengths : wire' = LeftOnWire(n)
  BY DEF TestStep, Expire, StartTest, ReadOutput, ReadFails, JudgeLine, NoMoreLines, EndTest,
         uploadVars
<1>3. wire \in Seq(Sent) /\ UploadTypeOK /\ ChunksAccountedFor
  BY DEF IInv, UploadTypeOK
<1>4. UploadTypeOK' /\ ChunksAccountedFor' /\ NothingLost'
  <2>1. wire' \in Seq(Sent)
    BY <1>2, <1>3, ReadLengthsAreLengths, ReadSplitsWire
  <2> QED
    BY <1>1, <1>2, <1>3, <2>1 DEF UploadTypeOK, ChunksAccountedFor, BeforeSending, NothingLost
<1>5. MonitorTypeOK' /\ TerminalKept'
  BY <1>1 DEF IInv, MonitorTypeOK, TerminalKept, monitorVars
<1>6. TestTypeOK
  BY DEF IInv
<1>7. TestTypeOK'
  <2>1. CASE StartTest \/ ReadFails \/ NoMoreLines \/ EndTest \/ Expire
    BY <1>6, <2>1 DEF StartTest, ReadFails, NoMoreLines, EndTest, Expire, TestTypeOK, TestSteps
  <2>2. CASE ReadOutput
    <3>1. PICK n \in ReadLengths : line_buffer' = Buffered(Taken(n)) /\ heard' = heard \o Taken(n)
      BY <2>2 DEF ReadOutput
    <3>2. Taken(n) \in Seq(Sent)
      BY <1>3, ReadLengthsAreLengths, ReadSplitsWire
    <3>3. line_buffer' \in Seq(Sent) /\ heard' \in Seq(Sent)
      BY <1>6, <3>1, <3>2 DEF TestTypeOK, Buffered
    <3> QED
      BY <1>6, <2>2, <3>3 DEF ReadOutput, TestTypeOK, TestSteps
  <2>3. CASE JudgeLine
    <3> DEFINE newline == FirstNewline(line_buffer)
               line == SubSeq(line_buffer, 1, newline - 1)
    <3>1. line \in Seq(Sent) /\ line_buffer' \in Seq(Sent)
      BY <1>6, <2>3, FirstLine DEF JudgeLine, TestTypeOK
    <3>2. HasValue(line) => \A i \in 1..ValueWidth : line[i].from \in {"old", "loader", "program"}
      <4> SUFFICES ASSUME HasValue(line), NEW i \in 1..ValueWidth
                   PROVE  line[i].from \in {"old", "loader", "program"}
        OBVIOUS
      <4>1. i \in 1..Len(line)
        BY <3>1, SerialTestAssumption, LenProperties DEF HasValue
      <4>2. line[i] \in Sent
        BY <3>1, <4>1, ElementOfSeq
      <4> QED
        BY <4>2 DEF Sent
    <3>3. UNCHANGED << expected_values, test, expired, heard >>
      BY <2>3 DEF JudgeLine
    <3>4. CASE HasValue(line) /\ Remaining
      <4>1. /\ passed' \in {passed, passed + 1}
            /\ failed' \in {failed, failed + 1}
            /\ expected_index' = expected_index + 1
            /\ judged_from' = judged_from \cup {line[i].from : i \in 1..ValueWidth}
        BY <2>3, <3>4 DEF JudgeLine
      <4>2. judged_from' \subseteq {"old", "loader", "program"}
        BY <1>6, <3>2, <3>4, <4>1 DEF TestTypeOK
      <4>3. Len(expected_values) \in Nat
        BY <1>6, SerialTestAssumption, LenProperties DEF TestTypeOK
      <4>4. expected_index' \in 0..Len(expected_values) /\ passed' \in Nat /\ failed' \in Nat
        BY <1>6, <3>4, <4>1, <4>3 DEF TestTypeOK, Remaining
      <4> QED
        BY <1>6, <3>1, <3>3, <4>2, <4>4 DEF TestTypeOK
    <3>5. CASE ~(HasValue(line) /\ Remaining)
      BY <1>6, <2>3, <3>1, <3>3, <3>5 DEF JudgeLine, TestTypeOK
    <3> QED
      BY <3>4, <3>5
  <2> QED
    BY <2>1, <2>2, <2>3 DEF TestStep
<1> QED
  BY <1>4, <1>5, <1>7 DEF IInv

-----------------------------------------------------------------------------
LEMMA TestStays ==
  ASSUME TestTypeOK, UNCHANGED testVars
  PROVE  TestTypeOK'
BY DEF TestTypeOK, testVars

LEMMA UploadStays ==
  ASSUME UploadTypeOK, ChunksAccountedFor, UNCHANGED uploadVars
  PROVE  UploadTypeOK' /\ ChunksAccountedFor'
BY DEF UploadTypeOK, ChunksAccountedFor, BeforeSending, uploadVars

LEMMA ReaderKeepsIInv == IInv /\ Reader => IInv'
<1> SUFFICES ASSUME IInv, Reader PROVE IInv'
  OBVIOUS
<1>1. TestTypeOK'
  BY TestStays DEF IInv, Reader
<1>2. MonitorTypeOK /\ NothingLost /\ TerminalKept /\ UploadTypeOK /\ ChunksAccountedFor
  BY DEF IInv
<1>3. CASE StartMonitor \/ TestRunning \/ ReadBoardFails \/ RestoreTerminal
  <2> USE DEF StartMonitor, SetTimeout, EnableRawMode, FlushKeys, DrainKey, StartKeyboard,
          TestRunning, ReadBoardFails, RestoreTerminal
  <2>1. UNCHANGED uploadVars /\ UNCHANGED << printed, sent_keys, pressed, ctrl_c >>
    BY <1>3
  <2>2. UploadTypeOK' /\ ChunksAccountedFor'
    BY ONLY <1>2, <2>1, UploadStays
  <2>3. keys' \in Seq(Key)
    <3>1. keys' = keys \/ keys' = << >> \/ (keys # << >> /\ keys' = Tail(keys))
      BY <1>3
    <3>2. keys \in Seq(Key)
      BY <1>2 DEF MonitorTypeOK
    <3> QED
      <4>1. CASE keys # << >> /\ keys' = Tail(keys)
        <5>1. Tail(keys) \in Seq(Key)
          BY <3>2, <4>1, HeadTailProperties
        <5> QED
          BY ONLY <4>1, <5>1
      <4>2. << >> \in Seq(Key)
        OBVIOUS
      <4> QED
        BY <3>1, <3>2, <4>1, <4>2, Zenon
  <2>4. MonitorTypeOK'
    BY <1>2, <1>3, <2>1, <2>3 DEF RawModeAfterError, MonitorTypeOK, ReaderSteps, KeyboardSteps
  <2>5. reader' \in NotYetReading \cup {"test", "read"} =>
          reader \in NotYetReading \cup {"test", "read"}
    BY <1>3 DEF NotYetReading
  <2>6. NothingLost'
    BY ONLY <1>2, <2>1, <2>5 DEF NothingLost, uploadVars
  <2>7. TerminalKept'
    BY <1>2, <1>3 DEF RawModeAfterError, TerminalKept
  <2> QED
    BY <1>1, <2>2, <2>4, <2>6, <2>7 DEF IInv
<1>4. CASE ReadBoard
  <2>1. /\ UNCHANGED << skip_load_response, host, to_send, unsent, board, board_sent, old_left,
                       unplugged >>
        /\ UNCHANGED << keyboard, running, raw_mode, keys, pressed, sent_keys, ctrl_c >>
        /\ reader = "read"
    BY <1>4 DEF ReadBoard
  <2>2. wire \in Seq(Sent) /\ printed \in Seq(Sent)
    BY <1>2 DEF UploadTypeOK, MonitorTypeOK
  <2>3. /\ wire' \in Seq(Sent)
        /\ printed' \in Seq(Sent)
        /\ reader' \in {"test", "restore"}
        /\ reader' = "test" /\ ~HasNul(printed) =>
             printed' \o wire' = printed \o wire /\ ~HasNul(printed')
    <3>1. CASE wire' = wire /\ printed' = printed /\ reader' = "test"
      BY <2>2, <3>1
    <3>2. ASSUME NEW n \in ReadLengths, wire' = LeftOnWire(n), HasNul(Taken(n)),
                 printed' = printed \o UpToNul(Taken(n)), reader' = "restore"
          PROVE  <2>3
      <4>1. Taken(n) \in Seq(Sent) /\ LeftOnWire(n) \in Seq(Sent)
        BY <2>2, ReadLengthsAreLengths, ReadSplitsWire
      <4>2. UpToNul(Taken(n)) \in Seq(Sent)
        BY <3>2, <4>1, UpToNulType
      <4> QED
        BY <2>2, <3>2, <4>1, <4>2
    <3>3. ASSUME NEW n \in ReadLengths, wire' = LeftOnWire(n), ~HasNul(Taken(n)),
                 printed' = printed \o Taken(n), reader' = "test"
          PROVE  <2>3
      <4>1. /\ Taken(n) \in Seq(Sent) /\ LeftOnWire(n) \in Seq(Sent)
            /\ Taken(n) \o LeftOnWire(n) = wire
        BY <2>2, ReadLengthsAreLengths, ReadSplitsWire
      <4>2. printed' \o wire' = printed \o wire
        BY <2>2, <3>3, <4>1, MoveText
      <4>3. ~HasNul(printed) => ~HasNul(printed')
        BY <2>2, <3>3, <4>1, NulFreeConcat
      <4> QED
        BY <2>2, <3>3, <4>1, <4>2, <4>3
    <3> QED
      BY <1>4, <3>1, <3>2, <3>3 DEF ReadBoard, AnnouncesHalt
  <2>4. UploadTypeOK' /\ ChunksAccountedFor'
    BY <1>2, <2>1, <2>3 DEF UploadTypeOK, ChunksAccountedFor, BeforeSending
  <2>5. MonitorTypeOK' /\ TerminalKept'
    BY <1>2, <2>1, <2>3 DEF MonitorTypeOK, ReaderSteps, TerminalKept
  <2>6. NothingLost'
    BY <1>2, <2>1, <2>3 DEF NothingLost, NotYetReading
  <2> QED
    BY <1>1, <2>4, <2>5, <2>6 DEF IInv
<1> QED
  BY <1>3, <1>4 DEF Reader, ReaderStep

LEMMA KeyboardKeepsIInv == IInv /\ Keyboard => IInv'
<1> SUFFICES ASSUME IInv, Keyboard PROVE IInv'
  OBVIOUS
<1>1. TestTypeOK'
  BY TestStays DEF IInv, Keyboard
<1>2. /\ UNCHANGED uploadVars
      /\ UNCHANGED << reader, raw_mode, printed, pressed, ctrl_c >>
  BY DEF Keyboard, KeyboardStep, KeyboardTestsRunning, PollTimesOut, ReadKey
<1>3. UploadTypeOK' /\ ChunksAccountedFor'
  BY <1>2, UploadStays DEF IInv
<1>4. NothingLost' /\ TerminalKept'
  BY <1>2 DEF IInv, NothingLost, TerminalKept, uploadVars
<1>5. MonitorTypeOK'
  <2>1. CASE KeyboardTestsRunning \/ PollTimesOut
    BY <2>1 DEF IInv, KeyboardTestsRunning, PollTimesOut, MonitorTypeOK, KeyboardSteps
  <2>2. CASE ReadKey
    <3>1. Tail(keys) \in Seq(Key) /\ Head(keys) \in Key /\ sent_keys \in Seq(Key)
      BY <2>2, HeadTailProperties DEF IInv, MonitorTypeOK, ReadKey
    <3>2. sent_keys' \in Seq(Key)
      <4>1. Append(sent_keys, Head(keys)) \in Seq(Key)
        BY <3>1, AppendProperties
      <4>2. sent_keys' = sent_keys \/ sent_keys' = Append(sent_keys, Head(keys))
        BY <2>2 DEF ReadKey
      <4> QED
        BY <3>1, <4>1, <4>2
    <3> QED
      BY <2>2, <3>1, <3>2 DEF IInv, ReadKey, RunningAfterCtrlC, MonitorTypeOK, KeyboardSteps
  <2> QED
    BY <2>1, <2>2 DEF Keyboard, KeyboardStep
<1> QED
  BY <1>1, <1>3, <1>4, <1>5 DEF IInv

LEMMA UserKeepsIInv == IInv /\ User => IInv'
<1> SUFFICES ASSUME IInv, User PROVE IInv'
  OBVIOUS
<1>1. CASE Unplug /\ UNCHANGED << testVars, monitorVars >>
  <2>1. TestTypeOK' /\ MonitorTypeOK' /\ TerminalKept'
    BY <1>1, OthersStay DEF IInv
  <2>2. UploadTypeOK' /\ ChunksAccountedFor' /\ NothingLost'
    BY <1>1 DEF IInv, Unplug, UploadTypeOK, ChunksAccountedFor, BeforeSending, NothingLost,
       monitorVars
  <2> QED
    BY <2>1, <2>2 DEF IInv
<1>2. CASE PressKey /\ UNCHANGED testVars
  <2>1. TestTypeOK'
    BY <1>2, TestStays DEF IInv
  <2>2. UploadTypeOK' /\ ChunksAccountedFor'
    BY <1>2, UploadStays DEF IInv, PressKey
  <2>3. NothingLost' /\ TerminalKept'
    BY <1>2 DEF IInv, PressKey, NothingLost, NotYetReading, TerminalKept, uploadVars
  <2>4. pressed + 1 \in 1..MaxKeys
    BY <1>2, SerialMonitorAssumption DEF IInv, MonitorTypeOK, PressKey
  <2>5. \A c \in BOOLEAN : [ctrl_c |-> c, number |-> pressed + 1] \in Key
    BY <2>4 DEF Key
  <2>6. keys' \in Seq(Key)
    <3>1. keys' = keys \/ \E key \in Key : keys' = Append(keys, key)
      BY <1>2, <2>5 DEF PressKey
    <3>2. keys \in Seq(Key)
      BY DEF IInv, MonitorTypeOK
    <3> QED
      BY <3>1, <3>2
  <2>7. reader' \in ReaderSteps /\ ctrl_c' \in BOOLEAN
    BY <1>2 DEF IInv, MonitorTypeOK, PressKey, ReaderSteps
  <2>8. MonitorTypeOK'
    BY <1>2, <2>4, <2>6, <2>7 DEF IInv, MonitorTypeOK, PressKey
  <2> QED
    BY <2>1, <2>2, <2>3, <2>8 DEF IInv
<1> QED
  BY <1>1, <1>2 DEF User

LEMMA StutterKeepsIInv == IInv /\ UNCHANGED vars => IInv'
<1> SUFFICES ASSUME IInv, UNCHANGED vars PROVE IInv'
  OBVIOUS
<1>1. UNCHANGED << uploadVars, testVars, monitorVars >>
  BY DEF vars
<1>2. TestTypeOK' /\ MonitorTypeOK' /\ TerminalKept' /\ UploadTypeOK' /\ ChunksAccountedFor'
  BY <1>1, OthersStay, UploadStays DEF IInv
<1>3. NothingLost'
  BY <1>1 DEF IInv, NothingLost, uploadVars, monitorVars
<1> QED
  BY <1>2, <1>3 DEF IInv

(***************************************************************************)
(* The invariant holds in every state of every session.                    *)
(***************************************************************************)
THEOREM IInvAlways == Spec => []IInv
<1>1. IInv /\ [Next]_vars => IInv'
  BY UploadKeepsIInv, DriverKeepsIInv, TestKeepsIInv, ReaderKeepsIInv, KeyboardKeepsIInv,
     UserKeepsIInv, StutterKeepsIInv, Zenon DEF Next
<1> QED
  BY <1>1, InitEstablishesIInv, PTL DEF Spec

(***************************************************************************)
(* Every variable keeps its type: the host never queues more chunks than   *)
(* the image has, nor compares more values than were expected.             *)
(***************************************************************************)
THEOREM TypeCorrect == Spec => []TypeOK
<1>1. IInv => TypeOK
  BY DEF IInv, TypeOK
<1> QED
  BY <1>1, IInvAlways, PTL

(***************************************************************************)
(* However the monitor ends, the terminal is out of raw mode.              *)
(***************************************************************************)
THEOREM TerminalRestoredAlways == Spec => []TerminalRestored
<1>1. IInv => TerminalRestored
  BY DEF IInv, TerminalKept, TerminalRestored, MonitorEnded
<1> QED
  BY <1>1, IInvAlways, PTL

(***************************************************************************)
(* Whatever the reads, the clearing one included, take or leave, what the  *)
(* monitor has shown and what is still to be read end with everything the  *)
(* board has sent since its reset.                                         *)
(***************************************************************************)
THEOREM NoOutputMissedAlways == Spec => []NoOutputMissed
<1>1. IInv => NoOutputMissed
  <2> SUFFICES ASSUME IInv, skip_load_response,
                      reader \in {"raw", "flush", "drain", "clone", "test", "read"}
               PROVE  LET shown == printed \o wire
                          old == Len(shown) - Len(board_sent)
                      IN  /\ old >= 0
                          /\ SubSeq(shown, old + 1, Len(shown)) = board_sent
                          /\ ~HasNul(printed)
    BY DEF NoOutputMissed
  <2>1. EndsWith(printed \o wire, board_sent) /\ ~HasNul(printed)
    BY DEF IInv, NothingLost, NotYetReading
  <2>2. printed \o wire \in Seq(Sent) /\ board_sent \in Seq(Sent)
    BY DEF IInv, UploadTypeOK, MonitorTypeOK
  <2>3. Len(printed \o wire) \in Nat /\ Len(board_sent) \in Nat
    BY <2>2, LenProperties
  <2> QED
    BY <2>1, <2>3 DEF EndsWith
<1> QED
  BY <1>1, IInvAlways, PTL
-----------------------------------------------------------------------------
(* CountsFollowOutput: what the loop has judged, as a text.                *)

Ends(text) == ValueEnds(text)

Compared(text, values) == {i \in Ends(text) : Ordinal(Ends(text), i) <= Len(values)}

Equal(text, values) ==
  {i \in Compared(text, values) :
     ValueOf(LineEndingAt(text, i)) = values[Ordinal(Ends(text), i)]}

(* The counts of the loop are those of text.                               *)
Tally(text, values, index, hits, misses) ==
  /\ index = AtMost(Cardinality(Ends(text)), Len(values))
  /\ index = Cardinality(Compared(text, values))
  /\ hits = Cardinality(Equal(text, values))
  /\ misses = Cardinality(Compared(text, values) \ Equal(text, values))

EndsLine(text) == text = << >> \/ text[Len(text)].char = "newline"

(* Whole lines have been judged; what was read after them is buffered.     *)
JudgedSoFar ==
  \E judged \in Seq(Sent) :
    /\ heard = judged \o line_buffer
    /\ EndsLine(judged)
    /\ Tally(judged, expected_values, expected_index, passed, failed)

NoLineWaits == test # "lines" => ~HasLine(line_buffer)

LEMMA GreatestOf ==
  ASSUME NEW n \in Nat, NEW T, T \subseteq 1..n, T # {}
  PROVE  \E j \in T : \A k \in T : k <= j
<1> DEFINE U == {n - j : j \in T}
<1>1. U \subseteq Nat /\ U # {}
  <2>1. \A j \in T : n - j \in Nat
    OBVIOUS
  <2>2. QED
    BY <2>1
<1>2. PICK u \in U : \A v \in U : u <= v
  <2> HIDE DEF U
  <2>1. QED
    BY <1>1, LeastOf
<1>3. PICK j \in T : u = n - j
  OBVIOUS
<1>4. ASSUME NEW k \in T PROVE k <= j
  <2>1. n - k \in U
    OBVIOUS
  <2>2. n - j <= n - k
    BY <1>2, <1>3, <2>1
  <2>3. QED
    BY <2>2
<1> QED
  BY <1>4

LEMMA Concatenated ==
  ASSUME NEW text \in Seq(Sent), NEW more \in Seq(Sent)
  PROVE  /\ text \o more \in Seq(Sent)
         /\ Len(text) \in Nat /\ Len(more) \in Nat
         /\ Len(text \o more) = Len(text) + Len(more)
         /\ \A i \in 1..Len(text) : (text \o more)[i] = text[i]
         /\ \A i \in 1..Len(more) : (text \o more)[Len(text) + i] = more[i]
<1>1. /\ text \o more \in Seq(Sent)
      /\ Len(text) \in Nat /\ Len(more) \in Nat
      /\ Len(text \o more) = Len(text) + Len(more)
  BY ConcatProperties, LenProperties
<1>2. \A i \in 1..Len(text) : (text \o more)[i] = text[i]
  BY <1>1, ConcatProperties
<1>3. \A i \in 1..Len(more) : (text \o more)[Len(text) + i] = more[i]
  BY <1>1, ConcatProperties
<1> QED
  BY <1>1, <1>2, <1>3

(* The same characters at the same places are the same part.               *)
LEMMA SamePart ==
  ASSUME NEW s \in Seq(Sent), NEW t \in Seq(Sent), NEW a \in Nat \ {0}, NEW b \in Nat,
         NEW c \in Int, a + c >= 1, b <= Len(s), b + c <= Len(t),
         \A i \in a..b : t[i + c] = s[i]
  PROVE  SubSeq(t, a + c, b + c) = SubSeq(s, a, b)
<1>1. \A i \in a..b : s[i] \in Sent
  BY ElementOfSeq
<1>2. \A i \in (a + c)..(b + c) : t[i] \in Sent
  BY ElementOfSeq
<1>3. /\ SubSeq(s, a, b) \in Seq(Sent)
      /\ Len(SubSeq(s, a, b)) = IF a <= b THEN b - a + 1 ELSE 0
      /\ \A i \in 1..(b - a + 1) : SubSeq(s, a, b)[i] = s[a + i - 1]
  BY <1>1, SubSeqProperties
<1>4. /\ SubSeq(t, a + c, b + c) \in Seq(Sent)
      /\ Len(SubSeq(t, a + c, b + c))
           = IF a + c <= b + c THEN (b + c) - (a + c) + 1 ELSE 0
      /\ \A i \in 1..((b + c) - (a + c) + 1) : SubSeq(t, a + c, b + c)[i] = t[(a + c) + i - 1]
  BY <1>2, SubSeqProperties, a + c \in Int, b + c \in Int
<1> DEFINE p == SubSeq(s, a, b)
           q == SubSeq(t, a + c, b + c)
<1> HIDE DEF p, q
<1>5. Len(q) = Len(p)
  BY <1>3, <1>4 DEF p, q
<1>6. ASSUME NEW i \in 1..Len(q) PROVE q[i] = p[i]
  <2>1. i \in 1..(b - a + 1) /\ i \in 1..((b + c) - (a + c) + 1)
    BY <1>3, <1>5 DEF p
  <2>2. p[i] = s[a + i - 1] /\ q[i] = t[(a + c) + i - 1]
    BY <1>3, <1>4, <2>1 DEF p, q
  <2>3. a + i - 1 \in a..b /\ (a + i - 1) + c = (a + c) + i - 1
    BY <2>1
  <2> QED
    BY <2>2, <2>3
<1> QED
  BY <1>3, <1>4, <1>5, <1>6, SeqEqual DEF p, q

LEMMA LineEndsOfPrefix ==
  ASSUME NEW text \in Seq(Sent), NEW more \in Seq(Sent), NEW i \in 1..Len(text)
  PROVE  i \in LineEnds(text \o more) <=> i \in LineEnds(text)
BY Concatenated DEF LineEnds

(* Where a line starts, given the newlines before its end.                 *)
LineStart(before) ==
  IF before = {} THEN 1 ELSE 1 + CHOOSE j \in before : \A k \in before : k <= j

(* More text changes nothing about the lines that have ended.              *)
LEMMA LineOfPrefix ==
  ASSUME NEW text \in Seq(Sent), NEW more \in Seq(Sent), NEW i \in 1..Len(text)
  PROVE  LineEndingAt(text \o more, i) = LineEndingAt(text, i)
<1> DEFINE long == text \o more
           before == {j \in LineEnds(text) : j < i}
           start == LineStart(before)
<1>1. /\ long \in Seq(Sent) /\ Len(text) \in Nat /\ Len(text) <= Len(long)
      /\ \A j \in 1..Len(text) : long[j] = text[j]
  BY Concatenated
<1>2. {j \in LineEnds(long) : j < i} = before
  <2>1. ASSUME NEW j \in 1..Len(text) PROVE j \in LineEnds(long) <=> j \in LineEnds(text)
    BY LineEndsOfPrefix
  <2>2. \A j \in LineEnds(long) : j < i => j \in 1..Len(text)
    BY <1>1 DEF LineEnds
  <2>3. \A j \in LineEnds(text) : j \in 1..Len(text)
    BY DEF LineEnds
  <2> HIDE DEF long
  <2> QED
    BY <2>1, <2>2, <2>3
<1>3. start \in 1..i
  <2>1. CASE before = {}
    BY <2>1 DEF LineStart
  <2>2. CASE before # {}
    <3>1. before \subseteq 1..Len(text)
      BY DEF LineEnds
    <3>2. PICK j \in before : \A k \in before : k <= j
      BY <1>1, <2>2, <3>1, GreatestOf
    <3> DEFINE last == CHOOSE m \in before : \A k \in before : k <= m
    <3>3. last \in before
      BY <3>2
    <3>4. last \in 1..(i - 1)
      BY <3>1, <3>3
    <3> HIDE DEF last
    <3>5. 1 + last \in 1..i
      BY <3>4
    <3> QED
      BY <2>2, <3>5 DEF last, LineStart
  <2> QED
    BY <2>1, <2>2
<1>4. LineEndingAt(long, i) = SubSeq(long, start, i - 1)
  <2>1. LineEndingAt(long, i)
          = SubSeq(long, LineStart({j \in LineEnds(long) : j < i}), i - 1)
    BY Zenon DEF LineEndingAt, LineStart
  <2> QED
    BY <1>2, <2>1, Zenon
<1>5. LineEndingAt(text, i) = SubSeq(text, start, i - 1)
  BY Zenon DEF LineEndingAt, LineStart
<1> HIDE DEF long, start, before
<1>6. start \in Nat \ {0} /\ i - 1 \in Nat /\ i - 1 <= Len(text)
  BY <1>1, <1>3
<1>7. SubSeq(long, start + 0, (i - 1) + 0) = SubSeq(text, start, i - 1)
  <2>1. \A j \in start..(i - 1) : long[j + 0] = text[j]
    BY <1>1, <1>6
  <2>2. start + 0 >= 1 /\ (i - 1) + 0 <= Len(long) /\ Len(long) \in Nat
    BY <1>1, <1>6, LenProperties
  <2> QED
    BY <1>1, <1>6, <2>1, <2>2, SamePart
<1>8. start + 0 = start /\ (i - 1) + 0 = i - 1
  BY <1>6
<1> QED
  BY <1>4, <1>5, <1>7, <1>8 DEF long

LEMMA EndsArePlaces ==
  ASSUME NEW text \in Seq(Sent)
  PROVE  /\ Ends(text) \subseteq 1..Len(text)
         /\ IsFiniteSet(Ends(text))
         /\ Cardinality(Ends(text)) \in Nat
<1>1. Len(text) \in Nat
  BY LenProperties
<1>2. Ends(text) \subseteq 1..Len(text)
  BY DEF Ends, ValueEnds, LineEnds
<1>3. IsFiniteSet(1..Len(text))
  BY <1>1, FS_Interval
<1> QED
  BY <1>2, <1>3, FS_Subset, FS_CardinalityType

LEMMA EndsOfPrefix ==
  ASSUME NEW text \in Seq(Sent), NEW more \in Seq(Sent), NEW i \in 1..Len(text)
  PROVE  i \in Ends(text \o more) <=> i \in Ends(text)
BY LineEndsOfPrefix, LineOfPrefix, Zenon DEF Ends, ValueEnds

(* An unfinished line adds no value.                                       *)
LEMMA EndsWithoutLine ==
  ASSUME NEW text \in Seq(Sent), NEW more \in Seq(Sent), ~HasLine(more)
  PROVE  Ends(text \o more) = Ends(text)
<1> DEFINE long == text \o more
<1>1. Ends(text) \subseteq 1..Len(text) /\ Ends(long) \subseteq LineEnds(long)
  BY EndsArePlaces DEF Ends, ValueEnds
<1>2. ASSUME NEW i \in LineEnds(long) PROVE i \in 1..Len(text)
  <2>1. i \in 1..Len(long) /\ long[i].char = "newline"
    BY DEF LineEnds
  <2>2. ASSUME i > Len(text) PROVE FALSE
    <3>1. i - Len(text) \in 1..Len(more) /\ i = Len(text) + (i - Len(text))
      BY <2>1, <2>2, Concatenated
    <3>2. more[i - Len(text)].char = "newline"
      BY <2>1, <3>1, Concatenated
    <3> QED
      BY <3>1, <3>2 DEF HasLine
  <2> QED
    BY <2>1, <2>2, Concatenated
<1>3. \A i \in 1..Len(text) : i \in Ends(long) <=> i \in Ends(text)
  BY EndsOfPrefix
<1> HIDE DEF long
<1>4. Ends(long) = Ends(text)
  BY <1>1, <1>2, <1>3
<1> QED
  BY <1>4 DEF long

(* A line that has ended adds its value, if it has one.                    *)
LEMMA EndsWithLine ==
  ASSUME NEW text \in Seq(Sent), EndsLine(text), NEW more \in Seq(Sent), more # << >>,
         more[Len(more)].char = "newline",
         \A i \in 1..(Len(more) - 1) : more[i].char # "newline"
  PROVE  LET end == Len(text) + Len(more)
             line == SubSeq(more, 1, Len(more) - 1)
         IN  /\ LineEndingAt(text \o more, end) = line
             /\ Ends(text \o more) = Ends(text) \cup (IF HasValue(line) THEN {end} ELSE {})
<1> DEFINE long == text \o more
           end == Len(text) + Len(more)
           line == SubSeq(more, 1, Len(more) - 1)
           before == {j \in LineEnds(long) : j < end}
           start == LineStart(before)
<1>1. /\ long \in Seq(Sent) /\ Len(text) \in Nat /\ Len(more) \in Nat \ {0} /\ Len(long) = end
      /\ \A i \in 1..Len(text) : long[i] = text[i]
      /\ \A i \in 1..Len(more) : long[Len(text) + i] = more[i]
  BY Concatenated
<1>2. ASSUME NEW i \in LineEnds(long), i < end PROVE i \in 1..Len(text)
  <2>1. i \in 1..Len(long) /\ long[i].char = "newline"
    BY DEF LineEnds
  <2>2. ASSUME i > Len(text) PROVE FALSE
    <3>1. i - Len(text) \in 1..(Len(more) - 1) /\ i = Len(text) + (i - Len(text))
      BY <1>1, <1>2, <2>1, <2>2
    <3>2. i - Len(text) \in 1..Len(more)
      BY <1>1, <3>1
    <3>3. more[i - Len(text)].char = "newline"
      BY <1>1, <2>1, <3>1, <3>2
    <3> QED
      BY <3>1, <3>3
  <2> QED
    BY <1>1, <2>1, <2>2
<1>3. end \in 1..Len(long) /\ long[end].char = "newline" /\ end \in LineEnds(long)
  <2>1. Len(more) \in 1..Len(more) /\ end \in 1..Len(long)
    BY <1>1
  <2>2. long[end] = more[Len(more)]
    BY <1>1, <2>1
  <2> QED
    BY <2>1, <2>2 DEF LineEnds
<1>4. start = Len(text) + 1
  <2>1. CASE text = << >>
    <3>1. before = {}
      BY <1>1, <1>2, <2>1
    <3> QED
      BY <2>1, <3>1 DEF LineStart
  <2>2. CASE text # << >>
    <3>1. Len(text) \in 1..Len(text) /\ text[Len(text)].char = "newline"
      BY <1>1, <2>2 DEF EndsLine
    <3>2. Len(text) \in LineEnds(long)
      BY <1>1, <3>1 DEF LineEnds
    <3>3. Len(text) \in before
      BY <1>1, <3>2
    <3>4. \A j \in before : j \in 1..Len(text)
      BY <1>2
    <3> HIDE DEF before
    <3>5. (CHOOSE j \in before : \A k \in before : k <= j) = Len(text)
      <4>1. \A k \in before : k <= Len(text)
        BY <1>1, <3>4
      <4>2. \A j \in before : (\A k \in before : k <= j) => j = Len(text)
        BY <1>1, <3>3, <3>4
      <4> QED
        BY <3>3, <4>1, <4>2
    <3>6. start = 1 + Len(text)
      BY <3>3, <3>5 DEF LineStart
    <3> QED
      BY <1>1, <3>6
  <2> QED
    BY <2>1, <2>2
<1>5. LineEndingAt(long, end) = SubSeq(long, start, end - 1)
  BY Zenon DEF LineEndingAt, LineStart
<1> HIDE DEF before, start
<1>6. SubSeq(long, 1 + Len(text), (Len(more) - 1) + Len(text)) = line
  <2>1. \A i \in 1..(Len(more) - 1) : long[i + Len(text)] = more[i]
    BY <1>1
  <2>2. /\ 1 \in Nat \ {0} /\ Len(more) - 1 \in Nat /\ Len(text) \in Int
        /\ 1 + Len(text) >= 1 /\ Len(more) - 1 <= Len(more)
        /\ (Len(more) - 1) + Len(text) <= Len(long)
    BY <1>1
  <2> HIDE DEF long
  <2> QED
    BY <1>1, <2>1, <2>2, SamePart
<1>7. 1 + Len(text) = Len(text) + 1 /\ (Len(more) - 1) + Len(text) = end - 1
  BY <1>1
<1>8. LineEndingAt(long, end) = line
  BY <1>4, <1>5, <1>6, <1>7
<1>9. end \in Ends(long) <=> HasValue(line)
  BY <1>3, <1>8, Zenon DEF Ends, ValueEnds
<1>10. \A i \in 1..Len(text) : i \in Ends(long) <=> i \in Ends(text)
  BY EndsOfPrefix
<1>11. Ends(text) \subseteq 1..Len(text) /\ Ends(long) \subseteq LineEnds(long)
       /\ \A i \in LineEnds(long) : i \in 1..end
  BY <1>1, EndsArePlaces DEF Ends, ValueEnds, LineEnds
<1>12. \A i \in Ends(long) : i = end \/ i \in 1..Len(text)
  <2>1. ASSUME NEW i \in Ends(long), i # end PROVE i \in 1..Len(text)
    <3>1. i \in LineEnds(long) /\ i < end
      <4>1. i \in LineEnds(long) /\ i \in 1..end
        BY <1>11
      <4>2. end \in Nat /\ i # end
        BY <1>1, <2>1
      <4> HIDE DEF long, end
      <4> QED
        BY <4>1, <4>2
    <3> QED
      BY <1>2, <3>1
  <2> QED
    BY <2>1
<1> HIDE DEF long, end, line
<1>13. Ends(long) = Ends(text) \cup (IF HasValue(line) THEN {end} ELSE {})
  <2>1. CASE HasValue(line)
    BY <1>9, <1>10, <1>11, <1>12, <2>1
  <2>2. CASE ~HasValue(line)
    BY <1>9, <1>10, <1>11, <1>12, <2>2
  <2> QED
    BY <2>1, <2>2
<1> QED
  BY <1>8, <1>13 DEF long, end, line

(* The order of the earlier values does not depend on later ones.          *)
LEMMA OrdinalOfEarlier ==
  ASSUME NEW ends, NEW end \in Nat, \A i \in ends : i \in Nat /\ i < end, NEW i \in ends
  PROVE  Ordinal(ends \cup {end}, i) = Ordinal(ends, i)
<1>1. {j \in ends \cup {end} : j <= i} = {j \in ends : j <= i}
  OBVIOUS
<1> QED
  BY <1>1, Zenon DEF Ordinal

LEMMA OrdinalOfLast ==
  ASSUME NEW ends, IsFiniteSet(ends), NEW end \in Nat, \A i \in ends : i \in Nat /\ i < end
  PROVE  Ordinal(ends \cup {end}, end) = Cardinality(ends) + 1
<1>1. {j \in ends \cup {end} : j <= end} = ends \cup {end}
  OBVIOUS
<1>2. end \notin ends
  OBVIOUS
<1>3. Cardinality(ends \cup {end}) = Cardinality(ends) + 1
  BY <1>2, FS_AddElement
<1> QED
  BY <1>1, <1>3, Zenon DEF Ordinal

LEMMA OrdinalType ==
  ASSUME NEW ends, IsFiniteSet(ends), NEW i
  PROVE  Ordinal(ends, i) \in Nat /\ Ordinal(ends, i) <= Cardinality(ends)
<1>1. {j \in ends : j <= i} \subseteq ends
  OBVIOUS
<1> QED
  BY <1>1, FS_Subset, FS_CardinalityType DEF Ordinal

(* While values remain, every value so far has been compared.              *)
LEMMA AllCompared ==
  ASSUME NEW text \in Seq(Sent), NEW values, Len(values) \in Nat,
         Cardinality(Ends(text)) <= Len(values)
  PROVE  Compared(text, values) = Ends(text)
<1>1. IsFiniteSet(Ends(text)) /\ Cardinality(Ends(text)) \in Nat
  BY EndsArePlaces
<1>2. \A i \in Ends(text) : Ordinal(Ends(text), i) \in Nat
                              /\ Ordinal(Ends(text), i) <= Cardinality(Ends(text))
  BY <1>1, OrdinalType
<1>3. \A i \in Ends(text) : Ordinal(Ends(text), i) <= Len(values)
  BY <1>1, <1>2
<1> QED
  BY <1>3 DEF Compared

LEMMA ComparedIsFinite ==
  ASSUME NEW text \in Seq(Sent), NEW values
  PROVE  /\ IsFiniteSet(Compared(text, values)) /\ IsFiniteSet(Equal(text, values))
         /\ IsFiniteSet(Compared(text, values) \ Equal(text, values))
         /\ Compared(text, values) \subseteq Ends(text)
         /\ Equal(text, values) \subseteq Compared(text, values)
<1>1. IsFiniteSet(Ends(text))
  BY EndsArePlaces
<1>2. Compared(text, values) \subseteq Ends(text)
      /\ Equal(text, values) \subseteq Compared(text, values)
  BY DEF Compared, Equal
<1>3. IsFiniteSet(Compared(text, values))
  BY <1>1, <1>2, FS_Subset
<1>4. Compared(text, values) \ Equal(text, values) \subseteq Compared(text, values)
  OBVIOUS
<1> QED
  BY <1>2, <1>3, <1>4, FS_Subset

(* Text with the same values, at the same places, has the same counts.     *)
LEMMA SameTally ==
  ASSUME NEW text \in Seq(Sent), NEW long, NEW values, NEW index, NEW hits, NEW misses,
         Tally(text, values, index, hits, misses), Ends(long) = Ends(text),
         \A i \in Ends(text) : LineEndingAt(long, i) = LineEndingAt(text, i)
  PROVE  Tally(long, values, index, hits, misses)
<1>1. Compared(long, values) = Compared(text, values)
  BY Zenon DEF Compared
<1>2. Equal(long, values) = Equal(text, values)
  <2>1. \A i \in Compared(text, values) : LineEndingAt(long, i) = LineEndingAt(text, i)
    BY DEF Compared
  <2>2. \A i \in Compared(text, values) :
          ValueOf(LineEndingAt(long, i)) = ValueOf(LineEndingAt(text, i))
    BY <2>1, Zenon
  <2>3. Equal(long, values) = {i \in Compared(text, values) :
          ValueOf(LineEndingAt(long, i)) = values[Ordinal(Ends(text), i)]}
    BY <1>1, Zenon DEF Equal
  <2>4. Equal(text, values) = {i \in Compared(text, values) :
          ValueOf(LineEndingAt(text, i)) = values[Ordinal(Ends(text), i)]}
    BY Zenon DEF Equal
  <2> QED
    BY <2>2, <2>3, <2>4, Zenon
<1> QED
  BY <1>1, <1>2, Zenon DEF Tally

(* One more value: compared while values remain, and ignored afterwards.   *)
LEMMA OneMoreValue ==
  ASSUME NEW text \in Seq(Sent), NEW long \in Seq(Sent), NEW values,
         Len(values) \in Nat, NEW index, NEW hits, NEW misses,
         Tally(text, values, index, hits, misses),
         NEW end \in Nat, \A i \in Ends(text) : i < end,
         Ends(long) = Ends(text) \cup {end},
         \A i \in Ends(text) : LineEndingAt(long, i) = LineEndingAt(text, i),
         NEW line, LineEndingAt(long, end) = line
  PROVE  /\ index >= Len(values) => Tally(long, values, index, hits, misses)
         /\ index < Len(values) =>
              IF ValueOf(line) = values[index + 1]
              THEN Tally(long, values, index + 1, hits + 1, misses)
              ELSE Tally(long, values, index + 1, hits, misses + 1)
<1> DEFINE n == Cardinality(Ends(text))
<1>1. /\ IsFiniteSet(Ends(text)) /\ n \in Nat
      /\ \A i \in Ends(text) : i \in Nat /\ i < end
      /\ end \notin Ends(text)
  <2>1. Ends(text) \subseteq 1..Len(text) /\ IsFiniteSet(Ends(text)) /\ n \in Nat
    BY EndsArePlaces
  <2>2. \A i \in Ends(text) : i \in Nat /\ i < end
    BY <2>1
  <2> QED
    BY <2>1, <2>2
<1>2. \A i \in Ends(text) : Ordinal(Ends(long), i) = Ordinal(Ends(text), i)
  BY <1>1, OrdinalOfEarlier
<1>3. Ordinal(Ends(long), end) = n + 1
  BY <1>1, OrdinalOfLast
<1>4. Cardinality(Ends(long)) = n + 1
  BY <1>1, FS_AddElement
<1>5. /\ index = AtMost(n, Len(values))
      /\ index = Cardinality(Compared(text, values))
      /\ hits = Cardinality(Equal(text, values))
      /\ misses = Cardinality(Compared(text, values) \ Equal(text, values))
  BY DEF Tally
<1> HIDE DEF n
<1>6. \A i \in Compared(text, values) :
        ValueOf(LineEndingAt(long, i)) = values[Ordinal(Ends(long), i)]
          <=> ValueOf(LineEndingAt(text, i)) = values[Ordinal(Ends(text), i)]
  <2>1. \A i \in Compared(text, values) : i \in Ends(text)
    BY DEF Compared
  <2> QED
    BY <1>2, <2>1, Zenon
<1>7. ASSUME index >= Len(values) PROVE Tally(long, values, index, hits, misses)
  <2>1. n >= Len(values) /\ index = Len(values)
    BY <1>1, <1>5, <1>7 DEF AtMost
  <2>2. ~(n + 1 <= Len(values)) /\ AtMost(n + 1, Len(values)) = index
    BY <1>1, <2>1 DEF AtMost
  <2>3. Compared(long, values) = Compared(text, values)
    <3>1. \A i : i \in Compared(long, values) <=> i \in Compared(text, values)
      BY <1>2, <1>3, <2>2, Zenon DEF Compared
    <3> QED
      BY <3>1, Zenon DEF Compared
  <2>4. Equal(long, values) = Equal(text, values)
    <3>1. \A i : i \in Equal(long, values) <=> i \in Equal(text, values)
      BY <1>6, <2>3, Zenon DEF Equal
    <3> QED
      BY <3>1, Zenon DEF Equal
  <2> QED
    BY <1>4, <1>5, <2>2, <2>3, <2>4, Zenon DEF Tally
<1>8. ASSUME index < Len(values)
      PROVE  IF ValueOf(line) = values[index + 1]
             THEN Tally(long, values, index + 1, hits + 1, misses)
             ELSE Tally(long, values, index + 1, hits, misses + 1)
  <2>1. n < Len(values) /\ index = n /\ AtMost(n + 1, Len(values)) = index + 1
        /\ n <= Len(values) /\ n + 1 <= Len(values)
    BY <1>1, <1>5, <1>8 DEF AtMost
  <2>2. Compared(text, values) = Ends(text)
    BY <2>1, AllCompared DEF n
  <2>3. Compared(long, values) = Ends(text) \cup {end}
    <3>1. Compared(long, values) = Ends(long)
      BY <1>4, <2>1, AllCompared
    <3> QED
      BY <3>1
  <2> DEFINE C == Ends(text)
             E == Equal(text, values)
  <2>4. IsFiniteSet(E) /\ IsFiniteSet(C \ E) /\ E \subseteq C
    BY <2>2, ComparedIsFinite
  <2>5. Cardinality(C) = index /\ Cardinality(E) = hits /\ Cardinality(C \ E) = misses
    BY <1>5, <2>2
  <2>6. \A i \in C : i \in Equal(long, values) <=> i \in E
    BY <1>6, <2>2, <2>3 DEF Equal
  <2>7. end \in Equal(long, values) <=> ValueOf(line) = values[index + 1]
    <3>1. Ordinal(Ends(long), end) = index + 1
      BY <1>3, <2>1
    <3> QED
      BY <2>3, <3>1, Zenon DEF Equal
  <2>8. Equal(long, values) \subseteq C \cup {end}
    BY <2>3 DEF Equal
  <2>9. Cardinality(C \cup {end}) = index + 1
    BY <1>1, <2>5, FS_AddElement
  <2> HIDE DEF C, E
  <2>10. end \notin C /\ end \notin E /\ end \notin C \ E
    BY <1>1, <2>4 DEF C
  <2>11. CASE ValueOf(line) = values[index + 1]
    <3>1. Equal(long, values) = E \cup {end}
      BY <2>4, <2>6, <2>7, <2>8, <2>11
    <3>2. (C \cup {end}) \ (E \cup {end}) = C \ E
      BY <2>10
    <3>3. Cardinality(E \cup {end}) = hits + 1
      BY <2>4, <2>5, <2>10, FS_AddElement
    <3>4. Tally(long, values, index + 1, hits + 1, misses)
      BY <1>4, <2>1, <2>3, <2>5, <2>9, <3>1, <3>2, <3>3, Zenon DEF Tally, C
    <3> QED
      BY <2>11, <3>4
  <2>12. CASE ValueOf(line) # values[index + 1]
    <3>1. Equal(long, values) = E
      BY <2>4, <2>6, <2>7, <2>8, <2>12
    <3>2. (C \cup {end}) \ E = (C \ E) \cup {end}
      BY <2>10
    <3>3. Cardinality((C \ E) \cup {end}) = misses + 1
      BY <2>4, <2>5, <2>10, FS_AddElement
    <3>4. Tally(long, values, index + 1, hits, misses + 1)
      BY <1>4, <2>1, <2>3, <2>5, <2>9, <3>1, <3>2, <3>3, Zenon DEF Tally, C
    <3> QED
      BY <2>12, <3>4
  <2> QED
    BY <2>11, <2>12
<1> QED
  BY <1>7, <1>8

OneLine(buffer) == SubSeq(buffer, 1, FirstNewline(buffer) - 1)
AfterLine(buffer) == SubSeq(buffer, FirstNewline(buffer) + 1, Len(buffer))

(* The counts once line has been judged.                                   *)
TallyAfter(text, values, index, hits, misses, line) ==
  IF HasValue(line) /\ index < Len(values)
  THEN IF ValueOf(line) = values[index + 1]
       THEN Tally(text, values, index + 1, hits + 1, misses)
       ELSE Tally(text, values, index + 1, hits, misses + 1)
  ELSE Tally(text, values, index, hits, misses)

(* The first line of the buffer, judged.                                   *)
LEMMA JudgedLine ==
  ASSUME NEW buffer \in Seq(Sent), HasLine(buffer), NEW judged \in Seq(Sent),
         EndsLine(judged), NEW values, Len(values) \in Nat,
         NEW index, NEW hits, NEW misses, Tally(judged, values, index, hits, misses)
  PROVE  \E longer \in Seq(Sent) :
           /\ judged \o buffer = longer \o AfterLine(buffer)
           /\ EndsLine(longer)
           /\ TallyAfter(longer, values, index, hits, misses, OneLine(buffer))
<1> DEFINE newline == FirstNewline(buffer)
           line == OneLine(buffer)
           more == SubSeq(buffer, 1, newline)
           rest == SubSeq(buffer, newline + 1, Len(buffer))
           longer == judged \o more
           end == Len(judged) + Len(more)
<1>1. /\ newline \in 1..Len(buffer) /\ newline \in Nat \ {0}
      /\ buffer[newline].char = "newline"
      /\ \A j \in 1..(newline - 1) : buffer[j].char # "newline"
  <2>1. \E i \in 1..Len(buffer) : /\ buffer[i].char = "newline"
                                 /\ \A j \in 1..(i - 1) : buffer[j].char # "newline"
    BY FirstPlace DEF HasLine
  <2>2. /\ FirstNewline(buffer) \in 1..Len(buffer)
        /\ buffer[FirstNewline(buffer)].char = "newline"
        /\ \A j \in 1..(FirstNewline(buffer) - 1) : buffer[j].char # "newline"
    BY <2>1 DEF FirstNewline
  <2> QED
    BY <2>2, LenProperties
<1> HIDE DEF newline
<1>2. Len(buffer) \in Nat /\ newline \in 0..Len(buffer)
  BY <1>1, LenProperties
<1>3. /\ more \in Seq(Sent) /\ rest \in Seq(Sent) /\ more \o rest = buffer
      /\ Len(more) = newline
      /\ \A i \in 1..newline : more[i] = buffer[i]
  BY <1>2, TextInTwo
<1>4. line = SubSeq(more, 1, Len(more) - 1)
  <2> HIDE DEF more
  <2>1. \A i \in 1..(newline - 1) : buffer[i + 0] = more[i]
    BY <1>1, <1>3
  <2>2. /\ 1 \in Nat \ {0} /\ newline - 1 \in Nat /\ 0 \in Int /\ 1 + 0 >= 1
        /\ newline - 1 <= Len(more) /\ (newline - 1) + 0 <= Len(buffer)
    BY <1>1, <1>2, <1>3
  <2>3. SubSeq(buffer, 1 + 0, (newline - 1) + 0) = SubSeq(more, 1, newline - 1)
    BY <1>3, <2>1, <2>2, SamePart
  <2>4. 1 + 0 = 1 /\ (newline - 1) + 0 = newline - 1
    BY <1>1
  <2> QED
    BY <1>3, <2>3, <2>4 DEF OneLine, newline
<1> HIDE DEF more, rest, line
<1>5. judged \o buffer = longer \o rest
  BY <1>3, MoveText
<1>6. /\ more # << >> /\ more[Len(more)].char = "newline"
      /\ \A i \in 1..(Len(more) - 1) : more[i].char # "newline"
  <2>1. newline \in 1..newline /\ \A i \in 1..(newline - 1) : i \in 1..newline
    BY <1>1
  <2>2. more # << >>
    BY <1>1, <1>3
  <2> QED
    BY <1>1, <1>3, <2>1, <2>2
<1>7. /\ longer \in Seq(Sent) /\ Len(judged) \in Nat /\ Len(longer) = end
      /\ \A i \in 1..Len(more) : longer[Len(judged) + i] = more[i]
  BY <1>3, Concatenated
<1>8. EndsLine(longer)
  <2>1. Len(more) \in 1..Len(more)
    BY <1>1, <1>3
  <2> QED
    BY <1>6, <1>7, <2>1 DEF EndsLine
<1>9. /\ LineEndingAt(longer, end) = line
      /\ Ends(longer) = Ends(judged) \cup (IF HasValue(line) THEN {end} ELSE {})
  BY <1>3, <1>4, <1>6, EndsWithLine
<1>10. \A i \in Ends(judged) : i \in 1..Len(judged) /\ i < end
  BY <1>1, <1>3, <1>7, EndsArePlaces
<1>11. \A i \in Ends(judged) : LineEndingAt(longer, i) = LineEndingAt(judged, i)
  BY <1>3, <1>10, LineOfPrefix
<1>12. end \in Nat
  BY <1>1, <1>3, <1>7
<1> HIDE DEF longer, end
<1>13. CASE ~HasValue(line)
  <2>1. Ends(longer) = Ends(judged)
    BY <1>9, <1>13
  <2>2. Tally(longer, values, index, hits, misses)
    BY <1>11, <2>1, SameTally
  <2>3. TallyAfter(longer, values, index, hits, misses, line)
    BY <1>13, <2>2, Zenon DEF TallyAfter
  <2> QED
    BY <1>5, <1>7, <1>8, <2>3 DEF rest, line, newline, AfterLine
<1>14. CASE HasValue(line)
  <2>1. Ends(longer) = Ends(judged) \cup {end}
    BY <1>9, <1>14
  <2>2. index \in Nat
    BY ComparedIsFinite, FS_CardinalityType DEF Tally
  <2>3. /\ index >= Len(values) => Tally(longer, values, index, hits, misses)
        /\ index < Len(values) =>
             IF ValueOf(line) = values[index + 1]
             THEN Tally(longer, values, index + 1, hits + 1, misses)
             ELSE Tally(longer, values, index + 1, hits, misses + 1)
    BY <1>7, <1>9, <1>10, <1>11, <1>12, <2>1, OneMoreValue
  <2>4. ~(index < Len(values)) => index >= Len(values)
    BY <2>2
  <2>5. TallyAfter(longer, values, index, hits, misses, line)
    BY <1>14, <2>3, <2>4, Zenon DEF TallyAfter
  <2> QED
    BY <1>5, <1>7, <1>8, <2>5 DEF rest, line, newline, AfterLine
<1> QED
  BY <1>13, <1>14

Judging == JudgedSoFar /\ NoLineWaits

LEMMA InitEstablishesJudging == Init => Judging
<1> SUFFICES ASSUME Init PROVE Judging
  OBVIOUS
<1>1. /\ expected_values \in Expectations \cup {<< >>}
      /\ line_buffer = << >> /\ expected_index = 0 /\ passed = 0 /\ failed = 0
      /\ heard = << >>
  BY Zenon DEF Init, TestInit
<1>2. << >> \in Seq(Sent) /\ heard = << >> \o line_buffer /\ EndsLine(<< >>)
  BY <1>1 DEF EndsLine
<1>3. Ends(<< >>) = {}
  BY DEF Ends, ValueEnds, LineEnds
<1>4. Compared(<< >>, expected_values) = {} /\ Equal(<< >>, expected_values) = {}
  BY <1>3 DEF Compared, Equal
<1>5. Len(expected_values) \in Nat
  BY <1>1, SerialTestAssumption, LenProperties
<1>6. AtMost(0, Len(expected_values)) = 0
  BY <1>5 DEF AtMost
<1>7. Cardinality({}) = 0 /\ {} \ {} = {}
  BY FS_EmptySet
<1>8. Tally(<< >>, expected_values, expected_index, passed, failed)
  BY <1>1, <1>3, <1>4, <1>6, <1>7, Zenon DEF Tally
<1>9. NoLineWaits
  BY <1>1 DEF NoLineWaits, HasLine
<1> QED
  BY <1>2, <1>8, <1>9 DEF Judging, JudgedSoFar

LEMMA OtherStepsKeepJudging ==
  ASSUME Judging, UNCHANGED testVars
  PROVE  Judging'
BY DEF Judging, JudgedSoFar, NoLineWaits, testVars

LEMMA TestKeepsJudging == IInv /\ Judging /\ (Test \/ Clock) => Judging'
<1> SUFFICES ASSUME IInv, Judging, Test \/ Clock PROVE Judging'
  OBVIOUS
<1>1. /\ line_buffer \in Seq(Sent) /\ heard \in Seq(Sent) /\ wire \in Seq(Sent)
      /\ expected_values \in Expectations \cup {<< >>}
  BY DEF IInv, TestTypeOK, UploadTypeOK
<1>2. PICK judged \in Seq(Sent) :
             /\ heard = judged \o line_buffer
             /\ EndsLine(judged)
             /\ Tally(judged, expected_values, expected_index, passed, failed)
  BY DEF Judging, JudgedSoFar
<1>3. CASE StartTest \/ ReadFails \/ NoMoreLines \/ EndTest \/ Expire
  <2>1. UNCHANGED << expected_values, line_buffer, expected_index, passed, failed, heard >>
        /\ (test' # "lines" => test # "lines" \/ ~HasLine(line_buffer))
    BY <1>3 DEF StartTest, ReadFails, NoMoreLines, EndTest, Expire
  <2> QED
    BY <2>1 DEF Judging, JudgedSoFar, NoLineWaits
<1>4. CASE ReadOutput
  <2>1. PICK n \in ReadLengths : line_buffer' = Buffered(Taken(n)) /\ heard' = heard \o Taken(n)
    BY <1>4 DEF ReadOutput
  <2>2. Taken(n) \in Seq(Sent)
    BY <1>1, ReadLengthsAreLengths, ReadSplitsWire
  <2>3. heard' = judged \o line_buffer'
    BY <1>1, <1>2, <2>1, <2>2, MoveText DEF Buffered
  <2>4. UNCHANGED << expected_values, expected_index, passed, failed >> /\ test' = "lines"
    BY <1>4 DEF ReadOutput
  <2> QED
    BY <1>2, <2>3, <2>4 DEF Judging, JudgedSoFar, NoLineWaits
<1>5. CASE JudgeLine
  <2> DEFINE line == OneLine(line_buffer)
  <2>1. /\ test = "lines" /\ HasLine(line_buffer)
        /\ line_buffer' = AfterLine(line_buffer)
        /\ UNCHANGED << expected_values, test, heard >>
    BY <1>5 DEF JudgeLine, AfterLine
  <2>2. Len(expected_values) \in Nat
    BY <1>1, SerialTestAssumption, LenProperties
  <2>3. PICK longer \in Seq(Sent) :
           /\ judged \o line_buffer = longer \o AfterLine(line_buffer)
           /\ EndsLine(longer)
           /\ TallyAfter(longer, expected_values, expected_index, passed, failed, line)
    BY <1>1, <1>2, <2>1, <2>2, JudgedLine
  <2>4. Tally(longer, expected_values, expected_index', passed', failed')
    <3>1. CASE ~(HasValue(line) /\ Remaining)
      <4>1. UNCHANGED << expected_index, passed, failed >>
        BY <1>5, <3>1 DEF JudgeLine, OneLine
      <4> QED
        BY <2>3, <3>1, <4>1, Zenon DEF Remaining, TallyAfter
    <3>2. CASE HasValue(line) /\ Remaining
      <4>1. /\ expected_index' = expected_index + 1
            /\ passed' = IF ValueOf(line) = expected_values[expected_index + 1]
                         THEN passed + 1 ELSE passed
            /\ failed' = IF ValueOf(line) = expected_values[expected_index + 1]
                         THEN failed ELSE failed + 1
        BY <1>5, <3>2 DEF JudgeLine, OneLine
      <4>2. IF ValueOf(line) = expected_values[expected_index + 1]
            THEN Tally(longer, expected_values, expected_index + 1, passed + 1, failed)
            ELSE Tally(longer, expected_values, expected_index + 1, passed, failed + 1)
        BY <2>3, <3>2, Zenon DEF Remaining, TallyAfter
      <4>3. CASE ValueOf(line) = expected_values[expected_index + 1]
        BY <4>1, <4>2, <4>3, Zenon
      <4>4. CASE ValueOf(line) # expected_values[expected_index + 1]
        BY <4>1, <4>2, <4>4, Zenon
      <4> QED
        BY <4>3, <4>4
    <3> QED
      BY <3>1, <3>2
  <2>5. heard' = longer \o line_buffer'
    BY <1>2, <2>1, <2>3
  <2>6. JudgedSoFar'
    BY <2>1, <2>3, <2>4, <2>5, Zenon DEF JudgedSoFar
  <2> QED
    BY <2>1, <2>6 DEF Judging, NoLineWaits
<1> QED
  BY <1>3, <1>4, <1>5 DEF Test, Clock, TestStep

LEMMA NextKeepsJudging == IInv /\ Judging /\ [Next]_vars => Judging'
<1> SUFFICES ASSUME IInv, Judging, [Next]_vars PROVE Judging'
  OBVIOUS
<1>1. CASE UNCHANGED testVars
  BY <1>1, OtherStepsKeepJudging
<1>2. CASE Test \/ Clock
  BY <1>2, TestKeepsJudging
<1>3. Test \/ Clock \/ UNCHANGED testVars
  BY DEF Next, Upload, Driver, Reader, Keyboard, User, vars
<1> QED
  BY <1>1, <1>2, <1>3

(***************************************************************************)
(* However the reads cut the board's output into pieces, the test's counts *)
(* are those of the whole text: each value is compared once, with the      *)
(* expected value of its own number.                                       *)
(***************************************************************************)
THEOREM CountsFollowOutputAlways == Spec => []CountsFollowOutput
<1>1. IInv /\ Judging => CountsFollowOutput
  <2> SUFFICES ASSUME IInv, Judging, test \in {"loop", "done"} PROVE CountsFollowOutput
    BY DEF CountsFollowOutput
  <2>1. line_buffer \in Seq(Sent) /\ ~HasLine(line_buffer)
    BY DEF IInv, TestTypeOK, Judging, NoLineWaits
  <2>2. PICK judged \in Seq(Sent) :
               /\ heard = judged \o line_buffer
               /\ Tally(judged, expected_values, expected_index, passed, failed)
    BY DEF Judging, JudgedSoFar
  <2>3. Ends(heard) = Ends(judged)
    BY <2>1, <2>2, EndsWithoutLine
  <2>4. \A i \in Ends(judged) : LineEndingAt(heard, i) = LineEndingAt(judged, i)
    BY <2>1, <2>2, EndsArePlaces, LineOfPrefix
  <2>5. Tally(heard, expected_values, expected_index, passed, failed)
    BY <2>2, <2>3, <2>4, SameTally
  <2> QED
    BY <2>5, Zenon DEF CountsFollowOutput, Tally, Equal, Compared, Ends
<1>2. Init => IInv /\ Judging
  BY InitEstablishesIInv, InitEstablishesJudging
<1>3. IInv /\ Judging /\ [Next]_vars => Judging'
  BY NextKeepsJudging
<1> QED
  BY <1>1, <1>2, <1>3, IInvAlways, PTL DEF Spec

-----------------------------------------------------------------------------
(* OnlyThisProgramIsJudged: what is still to be judged.                    *)

(* The loader's part comes first and holds no value.                       *)
SafeToJudge(text) ==
  \A i \in 1..Len(text) :
    /\ text[i].from \in {"loader", "program"}
    /\ text[i].from = "loader" =>
         \E j \in i..(i + ValueWidth - 1) : j <= Len(text) /\ text[j].char \notin HexDigits
    /\ text[i].from = "program" => \A j \in i..Len(text) : text[j].from = "program"

AfterClearing == {"send", "drain", "answer", "opened"}

(* The wire is empty from the clearing read, which has left nothing, to    *)
(* the board's answer.                                                     *)
WireOfThisProgram ==
  ~skip_load_response /\ host \in AfterClearing =>
    /\ to_send + unsent > 0 => wire = << >> /\ line_buffer = << >>
    /\ SafeToJudge(line_buffer \o wire)

ForThisProgram ==
  /\ judged_from \subseteq {"program"}
  /\ test = "idle" => line_buffer = << >>
  /\ test # "idle" => host = "opened"
  /\ WireOfThisProgram

(* What is left when the beginning of a safe text has been read is safe.   *)
LEMMA SafeRest ==
  ASSUME NEW first \in Seq(Sent), NEW rest \in Seq(Sent), SafeToJudge(first \o rest)
  PROVE  SafeToJudge(rest)
<1> DEFINE text == first \o rest
           n == Len(first)
<1>1. /\ n \in Nat /\ Len(rest) \in Nat /\ Len(text) = n + Len(rest)
      /\ \A i \in 1..Len(rest) : text[n + i] = rest[i]
  BY Concatenated
<1>2. ValueWidth \in Nat \ {0}
  BY SerialTestAssumption
<1>3. SafeToJudge(text)
  OBVIOUS
<1> HIDE DEF text, n
<1> SUFFICES ASSUME NEW i \in 1..Len(rest)
             PROVE  /\ rest[i].from \in {"loader", "program"}
                    /\ rest[i].from = "loader" =>
                         \E j \in i..(i + ValueWidth - 1) :
                           j <= Len(rest) /\ rest[j].char \notin HexDigits
                    /\ rest[i].from = "program" =>
                         \A j \in i..Len(rest) : rest[j].from = "program"
  BY DEF SafeToJudge
<1>4. n + i \in 1..Len(text) /\ text[n + i] = rest[i]
  BY <1>1
<1>5. ASSUME rest[i].from = "loader"
      PROVE  \E j \in i..(i + ValueWidth - 1) : j <= Len(rest) /\ rest[j].char \notin HexDigits
  <2>1. PICK k \in (n + i)..((n + i) + ValueWidth - 1) :
               k <= Len(text) /\ text[k].char \notin HexDigits
    BY <1>3, <1>4, <1>5 DEF SafeToJudge
  <2>2. /\ k - n \in i..(i + ValueWidth - 1) /\ k - n <= Len(rest)
        /\ k - n \in 1..Len(rest) /\ n + (k - n) = k
    BY <1>1, <1>2, <2>1
  <2>3. rest[k - n] = text[k]
    BY <1>1, <2>2
  <2> QED
    BY <2>1, <2>2, <2>3
<1>6. ASSUME rest[i].from = "program", NEW j \in i..Len(rest) PROVE rest[j].from = "program"
  <2>1. n + j \in (n + i)..Len(text) /\ j \in 1..Len(rest)
    BY <1>1
  <2>2. text[n + j].from = "program"
    BY <1>3, <1>4, <1>6, <2>1 DEF SafeToJudge
  <2> QED
    BY <1>1, <2>1, <2>2
<1> QED
  BY <1>3, <1>4, <1>5, <1>6 DEF SafeToJudge

LEMMA SentByPlaces ==
  ASSUME NEW text \in Seq(Char), NEW who \in {"old", "loader", "program"}
  PROVE  /\ SentBy(text, who) \in Seq(Sent)
         /\ Len(SentBy(text, who)) = Len(text)
         /\ \A i \in 1..Len(text) :
              SentBy(text, who)[i].char = text[i] /\ SentBy(text, who)[i].from = who
<1>1. SentBy(text, who) \in Seq(Sent)
  BY SentByType
<1>2. DOMAIN SentBy(text, who) = 1..Len(text) /\ Len(text) \in Nat
  BY LenProperties DEF SentBy
<1>3. Len(SentBy(text, who)) = Len(text)
  BY <1>1, <1>2, LenProperties
<1> QED
  BY <1>1, <1>3 DEF SentBy

(* What the board says: the loader's answer and then the program's output. *)
BoardSays(answer, output) ==
  SentBy(answer.text, "loader") \o
    IF answer.accepts THEN SentBy(output, "program") ELSE << >>

LEMMA SafeAnswer ==
  ASSUME AnswersHoldNoValue, NEW answer \in Answers, NEW output \in ProgramOutputs,
         NEW said, said = BoardSays(answer, output)
  PROVE  said \in Seq(Sent) /\ SafeToJudge(said)
<1> DEFINE first == SentBy(answer.text, "loader")
           then  == IF answer.accepts THEN SentBy(output, "program") ELSE << >>
<1>1. answer.text \in Seq(Char) /\ output \in Seq(Char)
  BY BoardUploadAssumption
<1>2. /\ first \in Seq(Sent) /\ Len(first) = Len(answer.text)
      /\ \A i \in 1..Len(answer.text) :
           first[i].char = answer.text[i] /\ first[i].from = "loader"
  BY <1>1, SentByPlaces
<1>3. then \in Seq(Sent) /\ \A i \in 1..Len(then) : then[i].from = "program"
  <2>1. /\ SentBy(output, "program") \in Seq(Sent)
        /\ \A i \in 1..Len(SentBy(output, "program")) :
             SentBy(output, "program")[i].from = "program"
    BY <1>1, SentByPlaces
  <2>2. << >> \in Seq(Sent) /\ \A i \in 1..Len(<< >>) : FALSE
    OBVIOUS
  <2>3. CASE answer.accepts
    BY <2>1, <2>3
  <2>4. CASE ~answer.accepts
    BY <2>2, <2>4
  <2> QED
    BY <2>3, <2>4
<1>4. said = first \o then
  BY DEF BoardSays
<1> DEFINE n == Len(answer.text)
<1>n. n \in Nat /\ n = Len(first) /\ \A i \in 1..n : first[i].char = answer.text[i]
                                                  /\ first[i].from = "loader"
  BY <1>1, <1>2, LenProperties
<1>m. \A i \in 1..n : \E j \in i..(i + ValueWidth - 1) : j <= n /\ answer.text[j] \notin HexDigits
  BY DEF AnswersHoldNoValue
<1>w. ValueWidth \in Nat \ {0}
  BY SerialTestAssumption
<1>f. first \in Seq(Sent) /\ then \in Seq(Sent) /\ Len(then) \in Nat
  BY <1>2, <1>3, LenProperties
<1> HIDE DEF first, then, n
<1>5. /\ said \in Seq(Sent) /\ n \in Nat /\ Len(then) \in Nat /\ Len(said) = n + Len(then)
      /\ \A i \in 1..n : said[i] = first[i]
      /\ \A i \in 1..Len(then) : said[n + i] = then[i]
  <2>1. /\ first \o then \in Seq(Sent)
        /\ Len(first \o then) = Len(first) + Len(then)
        /\ \A i \in 1..Len(first) : (first \o then)[i] = first[i]
        /\ \A i \in 1..Len(then) : (first \o then)[Len(first) + i] = then[i]
    BY <1>f, Concatenated
  <2> QED
    BY <1>4, <1>n, <1>f, <2>1
<1>6. ASSUME NEW i \in (n + 1)..Len(said) PROVE said[i].from = "program"
  <2>1. i - n \in 1..Len(then) /\ n + (i - n) = i
    BY <1>5
  <2> QED
    BY <1>3, <1>5, <2>1
<1>7. ASSUME NEW i \in 1..n
      PROVE  /\ said[i].from = "loader"
             /\ \E j \in i..(i + ValueWidth - 1) :
                  j <= Len(said) /\ said[j].char \notin HexDigits
  <2>1. PICK j \in i..(i + ValueWidth - 1) : j <= n /\ answer.text[j] \notin HexDigits
    BY <1>m
  <2>2. j \in 1..n /\ j <= Len(said)
    BY <1>w, <1>5, <2>1
  <2>3. said[j].char \notin HexDigits
    BY <1>n, <1>5, <2>1, <2>2
  <2> QED
    BY <1>n, <1>5, <2>1, <2>2, <2>3
<1>8. ASSUME NEW i \in 1..Len(said)
      PROVE  /\ said[i].from \in {"loader", "program"}
             /\ said[i].from = "loader" =>
                  \E j \in i..(i + ValueWidth - 1) :
                    j <= Len(said) /\ said[j].char \notin HexDigits
             /\ said[i].from = "program" => \A j \in i..Len(said) : said[j].from = "program"
  <2>1. CASE i \in 1..n
    BY <1>7, <2>1
  <2>2. CASE i \in (n + 1)..Len(said)
    <3>1. \A j \in i..Len(said) : j \in (n + 1)..Len(said)
      BY <1>5, <2>2
    <3> QED
      BY <1>6, <2>2, <3>1
  <2> QED
    BY <1>5, <2>1, <2>2
<1> QED
  BY <1>5, <1>8 DEF SafeToJudge

(* A line that begins with a value is the program's.                       *)
LEMMA SafeLine ==
  ASSUME NEW buffer \in Seq(Sent), NEW more \in Seq(Sent), SafeToJudge(buffer \o more),
         HasLine(buffer), HasValue(OneLine(buffer))
  PROVE  {OneLine(buffer)[i].from : i \in 1..ValueWidth} \subseteq {"program"}
<1> DEFINE newline == FirstNewline(buffer)
           line == OneLine(buffer)
           text == buffer \o more
<1>1. newline \in 1..Len(buffer) /\ Len(buffer) \in Nat
  BY FirstLine, LenProperties
<1>2. newline - 1 \in 0..Len(buffer)
  BY <1>1
<1>3. Len(line) = newline - 1 /\ \A i \in 1..(newline - 1) : line[i] = buffer[i]
  BY <1>2, TextInTwo DEF OneLine
<1>4. Len(line) >= ValueWidth /\ \A i \in 1..ValueWidth : line[i].char \in HexDigits
  BY DEF HasValue
<1>5. ValueWidth \in Nat \ {0}
  BY SerialTestAssumption
<1>6. /\ Len(more) \in Nat /\ Len(text) = Len(buffer) + Len(more)
      /\ \A i \in 1..Len(buffer) : text[i] = buffer[i]
  BY Concatenated
<1>7. SafeToJudge(text)
  OBVIOUS
<1> HIDE DEF newline, line, text
<1>8. \A i \in 1..ValueWidth : i \in 1..Len(text) /\ line[i] = text[i]
  <2> SUFFICES ASSUME NEW i \in 1..ValueWidth PROVE i \in 1..Len(text) /\ line[i] = text[i]
    OBVIOUS
  <2>1. i \in 1..(newline - 1) /\ i \in 1..Len(buffer) /\ i \in 1..Len(text)
    BY <1>1, <1>3, <1>4, <1>5, <1>6
  <2> QED
    BY <1>3, <1>6, <2>1
<1>9. 1 \in 1..ValueWidth /\ 1 \in 1..Len(text)
  BY <1>5, <1>8
<1>10. ASSUME text[1].from = "loader" PROVE FALSE
  <2>1. 1 + ValueWidth - 1 = ValueWidth
    BY <1>5
  <2>2. PICK j \in 1..ValueWidth : text[j].char \notin HexDigits
    BY <1>7, <1>9, <1>10, <2>1 DEF SafeToJudge
  <2> QED
    BY <1>4, <1>8, <2>2
<1>11. text[1].from = "program"
  BY <1>7, <1>9, <1>10 DEF SafeToJudge
<1>12. \A j \in 1..Len(text) : text[j].from = "program"
  BY <1>7, <1>9, <1>11 DEF SafeToJudge
<1>13. \A i \in 1..ValueWidth : line[i].from = "program"
  BY <1>8, <1>12
<1> QED
  BY <1>13 DEF line

LEMMA InitIsForThisProgram == Init => ForThisProgram /\ host \in BeforeSending /\ ~old_left
BY Zenon DEF Init, UploadInit, TestInit, ForThisProgram, WireOfThisProgram, AfterClearing,
             BeforeSending

LEMMA UploadIsForThisProgram ==
  IInv /\ ForThisProgram /\ Upload /\ ~old_left' => ForThisProgram'
<1> SUFFICES ASSUME IInv, ForThisProgram, Upload, ~old_left' PROVE ForThisProgram'
  OBVIOUS
<1>1. UNCHANGED << test, line_buffer, judged_from, skip_load_response >>
  BY DEF Upload, testVars, HostStep, OpenPort, ResetBoard, ClearOldMessages, QueueChunk,
         QueueIsEmpty, ReadAnswer
<1>2. test = "idle" /\ line_buffer = << >> /\ host # "opened"
  <2>1. host # "opened"
    BY DEF Upload, HostStep, OpenPort, ResetBoard, ClearOldMessages, QueueChunk,
           QueueIsEmpty, ReadAnswer
  <2> QED
    BY <2>1 DEF ForThisProgram
<1>3. /\ wire \in Seq(Sent) /\ Len(wire) \in Nat /\ to_send \in Nat /\ unsent \in Nat
      /\ Chunks \in Nat
  BY BoardUploadAssumption, LenProperties DEF IInv, UploadTypeOK
<1>4. ASSUME ~skip_load_response
      PROVE  host' \in AfterClearing =>
               /\ to_send' + unsent' > 0 => wire' = << >>
               /\ SafeToJudge(wire')
  <2>1. host \in AfterClearing =>
          /\ to_send + unsent > 0 => wire = << >>
          /\ SafeToJudge(wire)
    <3>1. << >> \o wire = wire
      BY <1>3
    <3> QED
      BY <1>2, <1>4, <3>1 DEF ForThisProgram, WireOfThisProgram
  <2>2. CASE OpenPort \/ ResetBoard
    BY <2>1, <2>2 DEF OpenPort, ResetBoard, AfterReset, AfterClearing
  <2>3. CASE ClearOldMessages
    <3>1. CASE unplugged
      BY <2>3, <3>1 DEF ClearOldMessages, AfterClearing
    <3>2. CASE ~unplugged
      <4>1. wire' = << >>
        BY <2>3, <3>2 DEF ClearOldMessages
      <4> QED
        BY <4>1 DEF SafeToJudge
    <3> QED
      BY <3>1, <3>2
  <2>4. CASE QueueChunk
    <3>1. host = "send" /\ host' \in {"failed", "drain", "send"} /\ wire' = wire
      BY <2>4 DEF QueueChunk, AfterChunk
    <3>2. to_send' + unsent' > 0 => to_send + unsent > 0
      BY <1>3, <2>4 DEF QueueChunk
    <3> QED
      BY <2>1, <3>1, <3>2 DEF BeforeSending, AfterClearing
  <2>5. CASE QueueIsEmpty
    <3>1. host = "drain" /\ host' \in {"opened", "answer"}
          /\ wire' = wire /\ to_send' = to_send /\ unsent' = unsent
      BY <2>5 DEF QueueIsEmpty
    <3> QED
      BY <2>1, <3>1 DEF BeforeSending, AfterClearing
  <2>6. CASE ReadAnswer
    <3>1. /\ host = "answer" /\ host' = "opened" /\ to_send' = to_send /\ unsent' = unsent
          /\ wire' = wire \/ \E n \in ReadLengths : wire' = LeftOnWire(n)
      BY <2>6 DEF ReadAnswer
    <3>2. SafeToJudge(wire) /\ (to_send + unsent > 0 => wire = << >>)
      BY <2>1, <3>1 DEF AfterClearing
    <3>3. CASE wire' = wire
      BY <3>1, <3>2, <3>3 DEF BeforeSending
    <3>4. ASSUME NEW n \in ReadLengths, wire' = LeftOnWire(n)
          PROVE  SafeToJudge(wire') /\ wire # << >>
      <4>1. n \in 0..Len(wire) /\ n >= 1
        BY <1>3, <3>4, ReadLengthsAreLengths DEF ReadLengths
      <4>2. wire # << >>
        BY <1>3, <4>1
      <4>3. /\ Taken(n) \in Seq(Sent) /\ LeftOnWire(n) \in Seq(Sent)
            /\ Taken(n) \o LeftOnWire(n) = wire
        BY <1>3, <4>1, ReadSplitsWire
      <4> QED
        BY <3>2, <3>4, <4>2, <4>3, SafeRest
    <3> QED
      BY <3>1, <3>2, <3>3, <3>4 DEF BeforeSending
  <2> QED
    BY <2>2, <2>3, <2>4, <2>5, <2>6 DEF Upload, HostStep
<1>5. wire' \in Seq(Sent)
  BY UploadKeepsIInv DEF IInv, UploadTypeOK
<1>6. << >> \o wire' = wire'
  BY <1>5
<1>7. WireOfThisProgram'
  BY <1>1, <1>2, <1>4, <1>6 DEF WireOfThisProgram
<1> QED
  BY <1>1, <1>2, <1>7 DEF ForThisProgram

LEMMA DriverIsForThisProgram ==
  AnswersHoldNoValue /\ IInv /\ ForThisProgram /\ Driver => ForThisProgram'
<1> SUFFICES ASSUME AnswersHoldNoValue, IInv, ForThisProgram, Driver PROVE ForThisProgram'
  OBVIOUS
<1>1. /\ UNCHANGED << skip_load_response, host, to_send >>
      /\ UNCHANGED << test, line_buffer, judged_from >>
      /\ unsent > 0 /\ unsent' = unsent - 1
  BY DEF Driver, DriverSends, testVars
<1>2. /\ to_send \in Nat /\ unsent \in Nat /\ Chunks \in Nat
      /\ wire \in Seq(Sent) /\ line_buffer \in Seq(Sent)
      /\ host \notin BeforeSending
  BY <1>1, BoardUploadAssumption DEF IInv, UploadTypeOK, TestTypeOK, ChunksAccountedFor
<1>3. ASSUME ~skip_load_response, host \in AfterClearing
      PROVE  /\ to_send' + unsent' > 0 => wire' = << >> /\ line_buffer = << >>
             /\ SafeToJudge(line_buffer \o wire')
  <2>1. wire = << >> /\ line_buffer = << >>
    BY <1>1, <1>2, <1>3 DEF ForThisProgram, WireOfThisProgram
  <2>2. CASE to_send + unsent > 1
    <3>1. wire' = << >>
      BY <2>1, <2>2 DEF Driver, DriverSends
    <3>2. SafeToJudge(<< >> \o << >>)
      BY DEF SafeToJudge
    <3> QED
      BY <2>1, <3>1, <3>2
  <2>3. CASE ~(to_send + unsent > 1)
    <3>1. ~(to_send' + unsent' > 0)
      BY <1>1, <1>2, <2>3
    <3>2. PICK answer \in Answers, output \in ProgramOutputs :
                 wire' = wire \o BoardSays(answer, output)
      BY <2>3, Zenon DEF Driver, DriverSends, BoardSays
    <3>3. BoardSays(answer, output) \in Seq(Sent) /\ SafeToJudge(BoardSays(answer, output))
      BY SafeAnswer
    <3>4. line_buffer \o wire' = BoardSays(answer, output)
      BY <2>1, <3>2, <3>3
    <3> QED
      BY <3>1, <3>3, <3>4
  <2> QED
    BY <2>2, <2>3
<1>4. WireOfThisProgram'
  BY <1>1, <1>2, <1>3 DEF WireOfThisProgram
<1> QED
  BY <1>1, <1>4 DEF ForThisProgram

LEMMA TestIsForThisProgram ==
  IInv /\ ForThisProgram /\ (Test \/ Clock) => ForThisProgram'
<1> SUFFICES ASSUME IInv, ForThisProgram, Test \/ Clock PROVE ForThisProgram'
  OBVIOUS
<1>1. /\ UNCHANGED << skip_load_response, host, to_send, unsent >>
      /\ ~skip_load_response /\ host = "opened" /\ test' # "idle"
  BY DEF ForThisProgram, Test, Clock, Testing, TestStep, Expire, StartTest, ReadOutput,
         ReadFails, JudgeLine, NoMoreLines, EndTest, uploadVars
<1>2. wire \in Seq(Sent) /\ line_buffer \in Seq(Sent)
  BY DEF IInv, UploadTypeOK, TestTypeOK
<1>3. /\ to_send + unsent > 0 => wire = << >> /\ line_buffer = << >>
      /\ SafeToJudge(line_buffer \o wire)
      /\ judged_from \subseteq {"program"}
  BY <1>1 DEF ForThisProgram, WireOfThisProgram, AfterClearing
<1>4. /\ to_send + unsent > 0 => wire' = << >> /\ line_buffer' = << >>
      /\ SafeToJudge(line_buffer' \o wire')
      /\ judged_from' \subseteq {"program"}
  <2>1. CASE StartTest \/ ReadFails \/ NoMoreLines \/ EndTest \/ Expire
    <3>1. UNCHANGED << wire, line_buffer, judged_from >>
      BY <2>1 DEF StartTest, ReadFails, NoMoreLines, EndTest, Expire, uploadVars
    <3> QED
      BY <1>3, <3>1
  <2>2. CASE ReadOutput
    <3>1. PICK n \in ReadLengths : line_buffer' = Buffered(Taken(n)) /\ wire' = LeftOnWire(n)
      BY <2>2 DEF ReadOutput
    <3>2. n \in 0..Len(wire) /\ n >= 1
      BY <1>2, ReadLengthsAreLengths DEF ReadLengths
    <3>3. wire # << >>
      BY <1>2, <3>2
    <3>4. /\ Taken(n) \in Seq(Sent) /\ LeftOnWire(n) \in Seq(Sent)
          /\ Taken(n) \o LeftOnWire(n) = wire
      BY <1>2, <3>2, ReadSplitsWire
    <3>5. line_buffer' \o wire' = line_buffer \o wire
      BY <1>2, <3>1, <3>4, MoveText DEF Buffered
    <3>6. judged_from' = judged_from
      BY <2>2 DEF ReadOutput
    <3> QED
      BY <1>3, <3>3, <3>5, <3>6
  <2>3. CASE JudgeLine
    <3> DEFINE newline == FirstNewline(line_buffer)
               more == SubSeq(line_buffer, 1, newline)
    <3>1. /\ HasLine(line_buffer) /\ line_buffer' = AfterLine(line_buffer) /\ wire' = wire
      BY <2>3 DEF JudgeLine, AfterLine, uploadVars
    <3>2. newline \in 0..Len(line_buffer) /\ newline >= 1
      BY <1>2, <3>1, FirstLine
    <3>3. /\ more \in Seq(Sent) /\ line_buffer' \in Seq(Sent)
          /\ more \o line_buffer' = line_buffer
      BY <1>2, <3>1, <3>2, TextInTwo DEF AfterLine
    <3>4. line_buffer # << >>
      BY <1>2, <3>2
    <3> HIDE DEF more, newline
    <3>5. line_buffer' \o wire \in Seq(Sent) /\ wire' = wire
          /\ line_buffer \o wire = more \o (line_buffer' \o wire)
      <4> DEFINE left == line_buffer'
      <4>1. /\ left \in Seq(Sent) /\ more \in Seq(Sent) /\ wire \in Seq(Sent)
            /\ more \o left = line_buffer
        BY <1>2, <3>3
      <4> HIDE DEF left
      <4>2. left \o wire \in Seq(Sent)
        BY <1>2, <4>1, Concatenated
      <4>3. (more \o left) \o wire = more \o (left \o wire)
        BY <4>1, MoveText, Zenon
      <4>4. line_buffer \o wire = more \o (left \o wire)
        BY <4>1, <4>3
      <4> QED
        BY <3>1, <4>2, <4>4 DEF left
    <3>6. SafeToJudge(line_buffer' \o wire')
      BY <1>3, <3>1, <3>3, <3>5, SafeRest
    <3>7. judged_from' \subseteq {"program"}
      <4>1. \/ judged_from' = judged_from
            \/ /\ HasValue(OneLine(line_buffer))
               /\ judged_from' = judged_from \cup
                                   {OneLine(line_buffer)[i].from : i \in 1..ValueWidth}
        BY <2>3, Zenon DEF JudgeLine, OneLine
      <4>2. HasValue(OneLine(line_buffer)) =>
              {OneLine(line_buffer)[i].from : i \in 1..ValueWidth} \subseteq {"program"}
        BY <1>2, <1>3, <3>1, SafeLine
      <4> DEFINE senders == {OneLine(line_buffer)[i].from : i \in 1..ValueWidth}
      <4> HIDE DEF senders
      <4>3. \/ judged_from' = judged_from
            \/ judged_from' = judged_from \cup senders /\ senders \subseteq {"program"}
        BY <4>1, <4>2, Zenon DEF senders
      <4> QED
        BY <1>3, <4>3
    <3> QED
      BY <1>3, <3>4, <3>6, <3>7
  <2> QED
    BY <2>1, <2>2, <2>3 DEF Test, Clock, TestStep
<1>5. WireOfThisProgram'
  BY <1>1, <1>4 DEF WireOfThisProgram, BeforeSending
<1> QED
  BY <1>1, <1>4, <1>5 DEF ForThisProgram

(* The monitor's threads run when the answer is left to be read.           *)
LEMMA OthersAreForThisProgram ==
  ForThisProgram /\ (Reader \/ Keyboard \/ User \/ UNCHANGED vars) => ForThisProgram'
<1> SUFFICES ASSUME ForThisProgram, Reader \/ Keyboard \/ User \/ UNCHANGED vars
             PROVE  ForThisProgram'
  OBVIOUS
<1>1. UNCHANGED << skip_load_response, host, to_send, unsent, test, line_buffer, judged_from >>
  BY DEF Reader, Keyboard, User, vars, testVars, uploadVars, ReaderStep, StartMonitor,
         SetTimeout, EnableRawMode, FlushKeys, DrainKey, StartKeyboard, TestRunning, ReadBoardFails, ReadBoard, RestoreTerminal, KeyboardStep,
         KeyboardTestsRunning, PollTimesOut, ReadKey, PressKey, Unplug
<1>2. skip_load_response \/ wire' = wire
  BY DEF Reader, Keyboard, User, vars, uploadVars, Monitoring, Unplug
<1> QED
  BY <1>1, <1>2 DEF ForThisProgram, WireOfThisProgram

(* Only the clearing read may leave something, and only once.              *)
LEMMA OldLeftOnce ==
  ASSUME [Next]_vars, old_left => host \notin BeforeSending
  PROVE  /\ ~old_left' => ~old_left
         /\ old_left' => host' \notin BeforeSending
<1>1. CASE Upload
  <2>1. CASE ClearOldMessages
    BY <2>1 DEF ClearOldMessages, BeforeSending
  <2>2. CASE OpenPort \/ ResetBoard \/ QueueChunk \/ QueueIsEmpty \/ ReadAnswer
    BY <2>2 DEF OpenPort, ResetBoard, AfterReset, QueueChunk, AfterChunk, QueueIsEmpty,
       ReadAnswer, BeforeSending
  <2> QED
    BY <1>1, <2>1, <2>2 DEF Upload, HostStep
<1>2. CASE ~Upload
  <2>1. UNCHANGED << host, old_left >>
    BY <1>2 DEF Next, Driver, DriverSends, Test, Clock, Testing, TestStep, Expire, StartTest,
       ReadOutput, ReadFails, JudgeLine, NoMoreLines, EndTest, Reader, Keyboard, User, vars,
       uploadVars, ReaderStep, StartMonitor, SetTimeout, EnableRawMode, FlushKeys, DrainKey,
       StartKeyboard, TestRunning, ReadBoardFails, ReadBoard, RestoreTerminal, KeyboardStep,
       KeyboardTestsRunning, PollTimesOut, ReadKey, PressKey, Unplug
  <2> QED
    BY <2>1
<1> QED
  BY <1>1, <1>2

(***************************************************************************)
(* When no loader answer can be read as a value, or as the beginning of    *)
(* one, and the clearing read has left nothing, every digit that is        *)
(* compared is this program's, whatever part of the answer the read after  *)
(* the image takes.                                                        *)
(***************************************************************************)
THEOREM OnlyThisProgramIsJudgedAlways ==
  AnswersHoldNoValue => (Spec => []OnlyThisProgramIsJudged)
<1> DEFINE Judged == /\ old_left => host \notin BeforeSending
                     /\ ~old_left => ForThisProgram
<1> SUFFICES ASSUME AnswersHoldNoValue PROVE Spec => []OnlyThisProgramIsJudged
  OBVIOUS
<1>1. Init => Judged
  BY InitIsForThisProgram
<1>2. IInv /\ Judged /\ [Next]_vars => Judged'
  <2> SUFFICES ASSUME IInv, Judged, [Next]_vars PROVE Judged'
    OBVIOUS
  <2>1. (~old_left' => ~old_left) /\ (old_left' => host' \notin BeforeSending)
    BY OldLeftOnce
  <2>2. ASSUME ~old_left' PROVE ForThisProgram'
    <3>1. ForThisProgram
      BY <2>1, <2>2
    <3> QED
      BY <2>2, <3>1, UploadIsForThisProgram, DriverIsForThisProgram, TestIsForThisProgram,
         OthersAreForThisProgram, Zenon DEF Next
  <2> QED
    BY <2>1, <2>2
<1>3. Judged => OnlyThisProgramIsJudged
  BY DEF OnlyThisProgramIsJudged, ForThisProgram
<1> HIDE DEF Judged
<1> QED
  BY <1>1, <1>2, <1>3, IInvAlways, PTL DEF Spec
================================================================================
