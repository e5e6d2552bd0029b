------------------------------ MODULE BoardUpload ------------------------------
(***************************************************************************)
(* write_to_board_keep_port of serial.rs and the board at the other end of *)
(* the cable: open the port, reset the board, throw away what an earlier   *)
(* program printed, queue the image in chunks, watch the driver send them  *)
(* and, unless told not to, read the board's answer once.                  *)
(*                                                                         *)
(* The wire holds what the board has sent and the host has not read.  A    *)
(* read takes any part of it that may have arrived; a read that times out  *)
(* says only that nothing has arrived yet.  Each character remembers who   *)
(* sent it, which no code looks at and only the properties use.            *)
(***************************************************************************)
EXTENDS Integers, Sequences

CONSTANTS
  Char,            \* what the UART carries; "Complete" stands for the word
  OldOutputs,      \* what an earlier program may have left unread
  ProgramOutputs,  \* what the uploaded program may print
  Answers,         \* what the loader may answer, [accepts, text]
  ReadSize,        \* the size of the read buffer, 1024 in the code
  Chunks           \* the number of 64 KiB pieces of the image

ASSUME BoardUploadAssumption ==
  /\ OldOutputs \subseteq Seq(Char)
  /\ ProgramOutputs \subseteq Seq(Char)
  /\ Answers \subseteq [accepts : BOOLEAN, text : Seq(Char)]
  /\ ReadSize \in Nat \ {0}
  /\ Chunks \in Nat \ {0}

VARIABLES
  skip_load_response,  \* the argument: do not read the board's answer
  host,                \* the statement write_to_board_keep_port is at
  to_send,             \* chunks not yet given to the driver
  unsent,              \* chunks the driver holds: bytes_to_write
  board,               \* what the board is doing
  wire,                \* characters sent by the board and not yet read
  board_sent,          \* all characters sent since the reset (history)
  old_left,            \* the clearing read has left something (history)
  unplugged            \* the device is gone: every call on it fails

uploadVars == << skip_load_response, host, to_send, unsent, board, wire,
                 board_sent, old_left, unplugged >>

HostSteps == {"open", "reset", "clear", "send", "drain", "answer", "opened", "failed"}
BoardSteps == {"old program", "loader", "running", "rejected"}
Sent == [char : Char, from : {"old", "loader", "program"}]

SentBy(text, who) == [i \in 1..Len(text) |-> [char |-> text[i], from |-> who]]

(* What one read may return: at most ReadSize characters, and only those   *)
(* that have arrived.                                                      *)
AtMost(m, n) == IF m <= n THEN m ELSE n
ReadLengths == 1..AtMost(ReadSize, Len(wire))
Taken(n) == SubSeq(wire, 1, n)
LeftOnWire(n) == SubSeq(wire, n + 1, Len(wire))

UploadInit ==
  /\ skip_load_response \in BOOLEAN
  /\ host = "open"
  /\ to_send = Chunks
  /\ unsent = 0
  /\ board = "old program"
  /\ \E text \in OldOutputs : wire = SentBy(text, "old")
  /\ board_sent = << >>
  /\ old_left = FALSE
  /\ unplugged = FALSE

-----------------------------------------------------------------------------
(* return_port: a name that cannot be opened, given or found, is an error. *)
OpenPort ==
  /\ host = "open"
  /\ host' \in IF unplugged THEN {"failed"} ELSE {"reset", "failed"}
  /\ UNCHANGED << skip_load_response, to_send, unsent, board, wire, board_sent, old_left, unplugged >>

(* Mutated form: the image is sent without the read.                       *)
AfterResetSend == "send"

AfterReset == "clear"

(* A break, or the letter S, and half a second for the board to restart.   *)
ResetBoard ==
  /\ host = "reset"
  /\ IF unplugged
     THEN host' = "failed" /\ board' = board
     ELSE host' = AfterReset /\ board' = "loader"
  /\ UNCHANGED << skip_load_response, to_send, unsent, wire, board_sent, old_left, unplugged >>

(* One read, which may return less than has arrived or time out; whatever  *)
(* it says is ignored.                                                     *)
ClearOldMessages ==
  /\ host = "clear"
  /\ IF unplugged
     THEN host' = "failed" /\ UNCHANGED << wire, old_left >>
     ELSE /\ host' = "send"
          /\ \E n \in {0} \cup ReadLengths : wire' = LeftOnWire(n)
          /\ old_left' = (wire' # << >>)
  /\ UNCHANGED << skip_load_response, to_send, unsent, board, board_sent, unplugged >>

(* Mutated form: one chunk too many.                                       *)
AfterOneMoreChunk == IF to_send = 0 THEN "drain" ELSE "send"

AfterChunk == IF to_send = 1 THEN "drain" ELSE "send"

QueueChunk ==
  /\ host = "send"
  /\ IF unplugged
     THEN host' = "failed" /\ UNCHANGED << to_send, unsent >>
     ELSE /\ host' = AfterChunk
          /\ to_send' = to_send - 1
          /\ unsent' = unsent + 1
  /\ UNCHANGED << skip_load_response, board, wire, board_sent, old_left, unplugged >>

(* bytes_to_write is 0, or fails and is taken for 0.                       *)
QueueIsEmpty ==
  /\ host = "drain"
  /\ unsent = 0 \/ unplugged
  /\ host' = IF skip_load_response THEN "opened" ELSE "answer"
  /\ UNCHANGED << skip_load_response, to_send, unsent, board, wire, board_sent, old_left, unplugged >>

(* One read of whatever is there.  Silence, an error or text that is not   *)
(* UTF-8 is a warning; the port is returned all the same.                  *)
ReadAnswer ==
  /\ host = "answer"
  /\ host' = "opened"
  /\ \/ ~unplugged /\ \E n \in ReadLengths : wire' = LeftOnWire(n)
     \/ wire' = wire
  /\ UNCHANGED << skip_load_response, to_send, unsent, board, board_sent, old_left, unplugged >>

HostStep == OpenPort \/ ResetBoard \/ ClearOldMessages \/ QueueChunk \/ QueueIsEmpty \/ ReadAnswer

-----------------------------------------------------------------------------
(* The driver sends a chunk.  With the last one the board answers and, if  *)
(* it accepts the image, runs it; what it prints arrives in its own time.  *)
DriverSends ==
  /\ unsent > 0
  /\ ~unplugged
  /\ unsent' = unsent - 1
  /\ IF to_send + unsent > 1
     THEN UNCHANGED << board, wire, board_sent >>
     ELSE \E answer \in Answers, output \in ProgramOutputs :
            LET said == SentBy(answer.text, "loader") \o
                          IF answer.accepts THEN SentBy(output, "program") ELSE << >>
            IN  /\ board' = IF answer.accepts THEN "running" ELSE "rejected"
                /\ wire' = wire \o said
                /\ board_sent' = board_sent \o said
  /\ UNCHANGED << skip_load_response, host, to_send, old_left, unplugged >>

Unplug ==
  /\ ~unplugged
  /\ unplugged' = TRUE
  /\ UNCHANGED << skip_load_response, host, to_send, unsent, board, wire, board_sent, old_left >>

UploadTypeOK ==
  /\ skip_load_response \in BOOLEAN
  /\ host \in HostSteps
  /\ to_send \in 0..Chunks
  /\ unsent \in 0..Chunks
  /\ board \in BoardSteps
  /\ wire \in Seq(Sent)
  /\ board_sent \in Seq(Sent)
  /\ old_left \in BOOLEAN
  /\ unplugged \in BOOLEAN

(***************************************************************************)
(* OldMessagesCleared: when the image is sent, nothing an earlier program  *)
(* printed is left to be read.  "clear any old messages in buffer" is what *)
(* the comment on the single read (serial.rs:201) says.                    *)
(***************************************************************************)
OldMessagesCleared ==
  host \notin {"open", "reset", "clear", "failed"} =>
    \A i \in 1..Len(wire) : wire[i].from # "old"
================================================================================
