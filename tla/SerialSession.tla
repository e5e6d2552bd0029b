----------------------------- MODULE SerialSession -----------------------------
(***************************************************************************)
(* What klausscc does with a board on a serial cable: upload a program,    *)
(* then either compare its output with the expected values (-T, -L) or     *)
(* monitor it (-m).  Composes BoardUpload with SerialTest and with         *)
(* SerialMonitor; the board, the driver, the clock and the user run beside *)
(* the host's threads.                                                     *)
(***************************************************************************)
EXTENDS SerialTest, SerialMonitor

vars == << uploadVars, testVars, monitorVars >>

(* run_test_mode and run_test_list read the board's answer; every caller   *)
(* that goes on to monitor_serial_port leaves it to the monitor.           *)
Testing == ~skip_load_response
Monitoring == skip_load_response

Init == UploadInit /\ TestInit /\ MonitorInit

Upload == HostStep /\ UNCHANGED << testVars, monitorVars >>
Driver == DriverSends /\ UNCHANGED << testVars, monitorVars >>
Test == Testing /\ TestStep /\ UNCHANGED monitorVars
Clock == Testing /\ Expire /\ UNCHANGED monitorVars
Reader == Monitoring /\ ReaderStep /\ UNCHANGED testVars
Keyboard == Monitoring /\ KeyboardStep /\ UNCHANGED testVars
User == \/ Monitoring /\ PressKey /\ UNCHANGED testVars
        \/ Unplug /\ UNCHANGED << testVars, monitorVars >>

Next == Upload \/ Driver \/ Test \/ Clock \/ Reader \/ Keyboard \/ User

(* Each thread of the host takes its next step, the driver sends what it   *)
(* holds, the clock reaches the deadline, and what has been sent arrives:  *)
(* reads do not time out for ever while there is output on the wire.  The  *)
(* user need not do anything.                                              *)
Arrival == Monitoring /\ ReadBoard /\ wire' # wire /\ UNCHANGED testVars

Spec == Init /\ [][Next]_vars

FairSpec ==
  /\ Spec
  /\ WF_vars(Upload)
  /\ WF_vars(Driver)
  /\ WF_vars(Test)
  /\ WF_vars(Clock)
  /\ WF_vars(Reader)
  /\ WF_vars(Keyboard)
  /\ SF_vars(Arrival)

TypeOK == UploadTypeOK /\ TestTypeOK /\ MonitorTypeOK

(***************************************************************************)
(* EveryTestEnds: a test that was started ends with a verdict or with the  *)
(* upload's error, whatever the board sends or fails to send.              *)
(***************************************************************************)
EveryTestEnds == Testing ~> (host = "failed" \/ test = "done")
================================================================================
