-------------------------------- MODULE MCSerial -------------------------------
(* Small instances of the serial session: values of two binary digits, a   *)
(* read buffer of three characters, an image of two chunks.                *)
EXTENDS SerialSession

MCDigits == {"0", "1"}
MCChar == MCDigits \cup {"text", "Complete", "newline", "NUL"}

Line(chars) == Append(chars, "newline")
One == << "0", "1" >>
Two == << "1", "0" >>

(* Left unread by an earlier program: a value or half a line, of which the *)
(* clearing read takes any part.                                           *)
MCOldOutputs == { Line(Two), << "1" >> }
(* More than the clearing read takes.                                      *)
MCLongOldOutputs == { Line(One) \o Line(Two) }

(* Values, a longer one, an unfinished last line, lines that are no value, *)
(* a halt right after a line and a silent program.                         *)
MCProgramOutputs ==
  { Line(One) \o Line(Two),
    Line(One) \o Two,
    Line(<< "0", "text" >>) \o Line(Append(Two, "1")),
    Line(<< >>) \o Line(Two) \o Line(Append(One, "Complete")),
    Line(Two) \o << "NUL" >>,
    << >> }

MCAnswers == { [accepts |-> TRUE, text |-> Line(<< "Complete" >>)],
               [accepts |-> TRUE, text |-> << >>],
               [accepts |-> FALSE, text |-> Line(<< "text" >>)] }

MCExpectations == { << One >>, << One, Two >>, << Two, One >> }

ASSUME MCAnswersHoldNoValue == AnswersHoldNoValue
================================================================================
