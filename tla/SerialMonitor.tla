----------------------------- MODULE SerialMonitor -----------------------------
(***************************************************************************)
(* monitor_serial_port of serial.rs, on the port write_to_board_keep_port  *)
(* leaves open: the caller's thread prints what the board sends, a second  *)
(* thread reads the keyboard and forwards each key.  They share one flag,  *)
(* running.  The board announces that its program has halted with a NUL.   *)
(*                                                                         *)
(* The terminal is in raw mode meanwhile, so Ctrl+C is a key like any      *)
(* other: only the keyboard thread can act on it.                          *)
(***************************************************************************)
EXTENDS BoardUpload

CONSTANTS
  MaxKeys         \* bound: how many keys the user presses

ASSUME SerialMonitorAssumption ==
  /\ "NUL" \in Char
  /\ MaxKeys \in Nat

VARIABLES
  reader,         \* where the caller's thread is
  keyboard,       \* where the keyboard thread is
  running,        \* the shared flag
  raw_mode,       \* the terminal delivers keys as they are pressed
  keys,           \* pressed and not yet read
  pressed,        \* keys pressed so far, at most MaxKeys
  sent_keys,      \* keys written to the board
  printed,        \* characters shown
  ctrl_c          \* Ctrl+C has been pressed (history)

monitorVars == << reader, keyboard, running, raw_mode, keys, pressed, sent_keys,
                  printed, ctrl_c >>

ReaderSteps == {"idle", "raw", "flush", "drain", "clone", "test", "read", "restore",
                "done", "error", "killed"}
KeyboardSteps == {"none", "test", "poll", "done"}
Key == [ctrl_c : BOOLEAN, number : 1..MaxKeys]

MonitorInit ==
  /\ reader = "idle"
  /\ keyboard = "none"
  /\ running = TRUE
  /\ raw_mode = FALSE
  /\ keys = << >>
  /\ pressed = 0
  /\ sent_keys = << >>
  /\ printed = << >>
  /\ ctrl_c = FALSE

MonitorEnded == reader \in {"done", "error", "killed"}

-----------------------------------------------------------------------------
(* Before the loop, on the caller's thread.  set_timeout may fail, with    *)
(* the port still cooked.                                                  *)
SetTimeout ==
  /\ host = "opened"
  /\ reader = "idle"
  /\ reader' \in {"raw", "error"}
  /\ UNCHANGED << keyboard, running, raw_mode, keys, pressed, sent_keys, printed, ctrl_c >>
  /\ UNCHANGED uploadVars

(* enable_raw_mode may fail, with a warning.                               *)
EnableRawMode ==
  /\ reader = "raw"
  /\ reader' = "flush"
  /\ raw_mode' \in BOOLEAN
  /\ UNCHANGED << keyboard, running, keys, pressed, sent_keys, printed, ctrl_c >>
  /\ UNCHANGED uploadVars

(* tcflush, and then key after key until none is left: what was typed      *)
(* before the monitor was ready is thrown away, Ctrl+C in raw mode too.    *)
FlushKeys ==
  /\ reader = "flush"
  /\ reader' = "drain"
  /\ keys' = << >>
  /\ UNCHANGED << keyboard, running, raw_mode, pressed, sent_keys, printed, ctrl_c >>
  /\ UNCHANGED uploadVars

DrainKey ==
  /\ reader = "drain"
  /\ IF keys = << >>
     THEN reader' = "clone" /\ keys' = keys
     ELSE reader' = reader /\ keys' = Tail(keys)
  /\ UNCHANGED << keyboard, running, raw_mode, pressed, sent_keys, printed, ctrl_c >>
  /\ UNCHANGED uploadVars

(* try_clone may fail, with a warning, and then there is no keyboard       *)
(* thread.                                                                 *)
StartKeyboard ==
  /\ reader = "clone"
  /\ reader' = "test"
  /\ keyboard' \in {"test", "none"}
  /\ UNCHANGED << running, raw_mode, keys, pressed, sent_keys, printed, ctrl_c >>
  /\ UNCHANGED uploadVars

StartMonitor == SetTimeout \/ EnableRawMode \/ FlushKeys \/ DrainKey \/ StartKeyboard

TestRunning ==
  /\ reader = "test"
  /\ reader' = IF running THEN "read" ELSE "restore"
  /\ UNCHANGED << keyboard, running, raw_mode, keys, pressed, sent_keys, printed, ctrl_c >>
  /\ UNCHANGED uploadVars

HasNul(text) == \E i \in 1..Len(text) : text[i].char = "NUL"

(* Mutated form: a NUL counts only at the start of what was read.          *)
StartsWithNul(text) == text # << >> /\ text[1].char = "NUL"

AnnouncesHalt(text) == HasNul(text)

UpToNul(text) ==
  LET nul == CHOOSE i \in 1..Len(text) :
               text[i].char = "NUL" /\ \A j \in 1..(i - 1) : text[j].char # "NUL"
  IN  SubSeq(text, 1, nul - 1)

(* One read of the board's output, with a timeout of 500 ms.  At a NUL the *)
(* loop ends; running stays set.                                           *)
ReadBoard ==
  /\ reader = "read"
  /\ ~unplugged
  /\ \/ \E n \in ReadLengths :
          /\ wire' = LeftOnWire(n)
          /\ IF AnnouncesHalt(Taken(n))
             THEN /\ printed' = printed \o UpToNul(Taken(n))
                  /\ reader' = "restore"
             ELSE /\ printed' = printed \o Taken(n)
                  /\ reader' = "test"
     \/ wire' = wire /\ printed' = printed /\ reader' = "test"
  /\ UNCHANGED << keyboard, running, raw_mode, keys, pressed, sent_keys, ctrl_c >>
  /\ UNCHANGED << skip_load_response, host, to_send, unsent, board, board_sent, old_left,
                  unplugged >>

(* Mutated form: the error path leaves the terminal as it is.              *)
RawModeKept == raw_mode

RawModeAfterError == FALSE

ReadBoardFails ==
  /\ reader = "read"
  /\ unplugged
  /\ raw_mode' = RawModeAfterError
  /\ reader' = "error"
  /\ UNCHANGED << keyboard, running, keys, pressed, sent_keys, printed, ctrl_c >>
  /\ UNCHANGED uploadVars

RestoreTerminal ==
  /\ reader = "restore"
  /\ raw_mode' = FALSE
  /\ reader' = "done"
  /\ UNCHANGED << keyboard, running, keys, pressed, sent_keys, printed, ctrl_c >>
  /\ UNCHANGED uploadVars

ReaderStep == StartMonitor \/ TestRunning \/ ReadBoard \/ ReadBoardFails \/ RestoreTerminal

-----------------------------------------------------------------------------
(* The keyboard thread.  The process ends soon after the caller's thread   *)
(* and takes it along wherever it is; until then it goes on.               *)
KeyboardTestsRunning ==
  /\ keyboard = "test"
  /\ keyboard' = IF running THEN "poll" ELSE "done"
  /\ UNCHANGED << reader, running, raw_mode, keys, pressed, sent_keys, printed, ctrl_c >>
  /\ UNCHANGED uploadVars

(* Nothing pressed for 100 ms.                                             *)
PollTimesOut ==
  /\ keyboard = "poll"
  /\ keys = << >>
  /\ keyboard' = "test"
  /\ UNCHANGED << reader, running, raw_mode, keys, pressed, sent_keys, printed, ctrl_c >>
  /\ UNCHANGED uploadVars

(* Mutated form: the thread leaves without clearing the flag.              *)
LeaveFlagSet == running

RunningAfterCtrlC == FALSE

(* A write that fails is dropped without a word.                           *)
ReadKey ==
  /\ keyboard = "poll"
  /\ keys # << >>
  /\ keys' = Tail(keys)
  /\ IF Head(keys).ctrl_c
     THEN /\ running' = RunningAfterCtrlC
          /\ keyboard' = "done"
          /\ sent_keys' = sent_keys
     ELSE /\ running' = running
          /\ keyboard' = "test"
          /\ sent_keys' = IF unplugged THEN sent_keys ELSE Append(sent_keys, Head(keys))
  /\ UNCHANGED << reader, raw_mode, pressed, printed, ctrl_c >>
  /\ UNCHANGED uploadVars

KeyboardStep == KeyboardTestsRunning \/ PollTimesOut \/ ReadKey

(* Keys are numbered as they are pressed.  Out of raw mode, Ctrl+C is the  *)
(* signal that ends the process.                                           *)
PressKey ==
  /\ reader \notin {"idle", "done", "error", "killed"}
  /\ pressed < MaxKeys
  /\ pressed' = pressed + 1
  /\ \/ /\ keys' = Append(keys, [ctrl_c |-> FALSE, number |-> pressed + 1])
        /\ UNCHANGED << reader, ctrl_c >>
     \/ /\ ctrl_c' = TRUE
        /\ IF raw_mode
           THEN /\ keys' = Append(keys, [ctrl_c |-> TRUE, number |-> pressed + 1])
                /\ reader' = reader
           ELSE keys' = keys /\ reader' = "killed"
  /\ UNCHANGED << keyboard, running, raw_mode, sent_keys, printed >>
  /\ UNCHANGED uploadVars

MonitorTypeOK ==
  /\ reader \in ReaderSteps
  /\ keyboard \in KeyboardSteps
  /\ running \in BOOLEAN
  /\ raw_mode \in BOOLEAN
  /\ keys \in Seq(Key)
  /\ pressed \in 0..MaxKeys
  /\ sent_keys \in Seq(Key)
  /\ printed \in Seq(Sent)
  /\ ctrl_c \in BOOLEAN

-----------------------------------------------------------------------------
(***************************************************************************)
(* NoOutputMissed: with the port handed over by the upload and the answer  *)
(* not read there, what is shown and what is still on the wire make up all *)
(* the board has sent since its reset, as far as the first NUL, while the  *)
(* monitor gets ready and while it reads.  "ensuring no UART output is     *)
(* missed" is why the port is kept open (serial.rs:326).  What the single  *)
(* clearing read may have left is shown first.                             *)
(***************************************************************************)
NoOutputMissed ==
  skip_load_response /\ reader \in {"raw", "flush", "drain", "clone", "test", "read"} =>
    LET shown == printed \o wire
        old == Len(shown) - Len(board_sent)
    IN  /\ old >= 0
        /\ SubSeq(shown, old + 1, Len(shown)) = board_sent
        /\ ~HasNul(printed)

(***************************************************************************)
(* TerminalRestored: whichever way the monitor ends, a key, the board's    *)
(* NUL, a lost device or Ctrl+C out of raw mode, the terminal is no longer *)
(* in raw mode.  A signal other than that of Ctrl+C is not modelled: one   *)
(* that ends the process in raw mode leaves the terminal so.               *)
(***************************************************************************)
TerminalRestored == MonitorEnded => ~raw_mode

CtrlCWaits == \E i \in 1..Len(keys) : keys[i].ctrl_c

(***************************************************************************)
(* CtrlCStops: a Ctrl+C ends the monitor, whatever else is typed and       *)
(* printed, as long as there is somebody to act on it: the keyboard        *)
(* thread, or the terminal out of raw mode.  Two kinds of Ctrl+C are lost, *)
(* both in raw mode: those typed before the drain is over (see CtrlCHeard) *)
(* and all of them when try_clone has failed.                              *)
(***************************************************************************)
CtrlCStops ==
  (keyboard # "none" /\ CtrlCWaits) \/ (ctrl_c /\ ~raw_mode) ~> MonitorEnded

(***************************************************************************)
(* CtrlCHeard: "Runs until the user presses Ctrl+C, then closes the port   *)
(* cleanly" (serial.rs:316), with a keyboard thread to read the key.       *)
(***************************************************************************)
CtrlCHeard == ctrl_c /\ keyboard # "none" ~> MonitorEnded

(***************************************************************************)
(* HaltStops: once the board's program has announced that it halted, the   *)
(* monitor ends although nobody touches the keyboard.                      *)
(***************************************************************************)
HaltStops == HasNul(board_sent) /\ reader \in {"test", "read"} ~> MonitorEnded
================================================================================
