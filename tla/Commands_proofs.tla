---------------------------- MODULE Commands_proofs ----------------------------
(***************************************************************************)
(* Proofs about sequences of commands, for every set of sources, binaries, *)
(* command lines, test lists and edits, however many there are.            *)
(***************************************************************************)
EXTENDS Commands, SumTheorems, SequenceTheorems

-----------------------------------------------------------------------------
(* The inductive invariant, from the control to the data.                  *)

(* What TypeOK says, with any number of edits.                             *)
AnySource == [of : Kla \cup {"none"}, version : Nat, outcome : Outcomes, expected : BOOLEAN]
AnyImage == [of : Kla \cup {"binary", "torn", "none"}, version : Nat, clean : BOOLEAN]
AnyResult == [of : Kla, assembled : AnyImage, on_board : AnyImage, against : Nat,
              verdict : Verdict]

Typed ==
  /\ source \in [Kla -> AnySource]
  /\ \A f \in Kla : source[f].of = f
  /\ kbt \in [Stems -> AnyImage]
  /\ board \in AnyImage
  /\ assembling \in AnySource
  /\ against \in AnySource
  /\ wanted \in [Stems -> Nat \cup {Failed}]
  /\ results \in Seq(AnyResult)
  /\ list \in Seq(Kla)
  /\ index \in Nat \ {0}
  /\ exit \in 0..3

(* Which command line leads to a step.                                     *)
ReadsSource ==
  Mode(args) = "opcodes" /\ ~args.table /\ Task(args) = "read source" /\ args.input = "kla"
RunsList ==
  Mode(args) = "opcodes" /\ ~args.table /\ Task(args) = "test list"
Verifies ==
  Mode(args) = "opcodes" /\ ~args.table /\ Task(args) = "emulate test"

Control ==
  /\ args \in Args
  /\ at # "idle" => Accepted(args)
  /\ args.input = "kla" => file \in Kla
  /\ args.input \in {"kbt", "binary"} => file \in Stems
  /\ at = "monitor" => args.monitor
  /\ at \in {"net", "mem"} => args.load = at
  /\ at = "binary" => Mode(args) = "binary"
  /\ at = "kbt" => Mode(args) = "kbt"
  /\ at = "opcodes" => Mode(args) = "opcodes"
  /\ at \in {"emulate test", "verify", "verify run"} => Verifies
  /\ at \in {"test list", "suite"} => RunsList
  /\ at \in {"read source", "listing", "binary output", "tail"} => ReadsSource
  /\ at \in {"expect", "judge"} => ~args.monitor
  /\ at \in {"expect", "upload", "judge"} /\ ~args.monitor => ReadsSource \/ RunsList
  /\ at = "upload" => ReadsSource \/ RunsList \/ Mode(args) \in {"binary", "kbt"}
  /\ at = "device" => ReadsSource \/ Mode(args) \in {"binary", "kbt"}

(* Where a process is in its list, and what it has judged.                 *)
OnList == {"suite", "expect", "upload", "judge", "verify", "verify run"}

Progress ==
  /\ at \notin OnList \cup {"exited"} => index = 1 /\ results = << >>
  /\ at \in {"expect", "upload", "judge"} /\ ~args.test_list => index = 1 /\ results = << >>
  /\ at \in {"suite", "verify"} => index <= Len(list) + 1
  /\ at \in {"expect", "upload", "judge"} /\ args.test_list => index <= Len(list)
  /\ at = "verify run" => index <= Len(list)
  /\ at \in {"suite", "expect", "upload", "judge"} /\ args.test_list =>
       /\ Len(results) = index - 1
       /\ \A i \in 1..Len(results) : results[i].of = list[i]

(* What the process has read, and what may become of it.                   *)
UpToDate(src, f) == src.of = f /\ src.version <= source[f].version

Assembled ==
  /\ at \in {"listing", "binary output"} =>
       UpToDate(assembling, file) /\ (~args.emulate => wanted[file] = assembling.version)
  /\ at \in {"expect", "upload", "judge"} /\ ~args.monitor => UpToDate(assembling, Current)
  /\ at \in {"expect", "upload", "judge", "device"} /\ args.input \notin {"binary", "kbt"} =>
       assembling.outcome = "good"
  /\ at \in {"upload", "judge"} /\ ~args.monitor => assembling.version <= against.version
  /\ at = "judge" => board \in {ImageOf(assembling), Torn}

(* A .kbt is of the version last read for it, except while that version is *)
(* on its way to the file.                                                 *)
IsCurrent(f) ==
  wanted[f] # Failed =>
    kbt[f] \in {NoImage, BinaryImage} \/ (kbt[f].of = f /\ kbt[f].version = wanted[f])

OnItsWay(f) == at \in {"listing", "binary output"} /\ ~args.emulate /\ f = file

KbtsCurrent == \A f \in Kla : IsCurrent(f) \/ OnItsWay(f)

IInv ==
  /\ Typed
  /\ Control
  /\ Progress
  /\ Assembled
  /\ KbtsCurrent
  /\ OnlyCleanPrograms
  /\ JudgedOnBoard
  /\ ExitTellsResults

LEMMA InitIInv == Init => IInv
<1> SUFFICES ASSUME Init PROVE IInv
  OBVIOUS
<1> USE DEF Init
<1>1. Typed
  <2>1. source \in [Kla -> AnySource] /\ \A f \in Kla : source[f].of = f
    BY DEF AnySource, Outcomes
  <2>2. kbt \in [Stems -> AnyImage] /\ board \in AnyImage
    BY DEF AnyImage, NoImage
  <2>3. assembling \in AnySource /\ against \in AnySource
    BY DEF AnySource, NoSource, Outcomes
  <2>4. /\ wanted \in [Stems -> Nat \cup {Failed}]
        /\ results \in Seq(AnyResult)
        /\ list \in Seq(Kla)
    OBVIOUS
  <2>5. index \in Nat \ {0} /\ exit \in 0..3
    OBVIOUS
  <2> QED
    BY <2>1, <2>2, <2>3, <2>4, <2>5 DEF Typed
<1>2. Control
  BY DEF Control, NoArgs, Args
<1>3. Progress /\ Assembled
  BY DEF Progress, Assembled, OnList
<1>4. KbtsCurrent
  BY DEF KbtsCurrent, IsCurrent, Stems
<1>5. OnlyCleanPrograms
  BY DEF OnlyCleanPrograms, NoImage
<1>6. JudgedOnBoard /\ ExitTellsResults
  BY DEF JudgedOnBoard, ExitTellsResults
<1> QED
  BY <1>1, <1>2, <1>3, <1>4, <1>5, <1>6 DEF IInv

-----------------------------------------------------------------------------
(* What a step keeps by leaving variables alone.                           *)

LEMMA SameJudged ==
  ASSUME JudgedOnBoard, UNCHANGED << results, args >>
  PROVE  JudgedOnBoard'
BY DEF JudgedOnBoard

LEMMA SameKbt ==
  ASSUME KbtsCurrent, UNCHANGED << kbt, wanted >>,
         at \notin {"listing", "binary output"} \/ args.emulate
  PROVE  KbtsCurrent'
BY DEF KbtsCurrent, IsCurrent, OnItsWay

(* A process that goes on promises nothing of its exit yet.                *)
LEMMA NotExited ==
  ASSUME at' # "exited"
  PROVE  ExitTellsResults'
BY DEF ExitTellsResults

LEMMA ExitCodes == \A code \in {0, 1, 2, 3} : code \in 0..3
  OBVIOUS

(* A process that has judged nothing exits with 0 or 1, and with 0 only if *)
(* it had no list of tests to run.                                         *)
LEMMA NothingJudged ==
  ASSUME results' = << >>, exit' \in {0, 1},
         exit' = 1 \/ ~args'.test_list \/ args'.emulate_test \/ args'.table
  PROVE  ExitTellsResults'
<1>1. 1..Len(results') = {}
  OBVIOUS
<1>2. /\ {i \in 1..Len(results') : Fails(results'[i])} = {}
      /\ {i \in 1..Len(results') : results'[i].verdict.timed_out} = {}
  BY <1>1
<1>3. exit' # 2 /\ exit' # 3
  OBVIOUS
<1>4. ~(args'.test_list /\ ~args'.emulate_test /\ ~args'.table /\ exit' # 1)
  OBVIOUS
<1> QED
  BY <1>2, <1>3, <1>4 DEF ExitTellsResults

(* A step that only moves on, or leaves another program on the board.      *)
Moves ==
  /\ UNCHANGED << source, args, file, list, index, results, kbt, wanted, assembling, against >>
  /\ board' = board \/ (board' \in AnyImage /\ board'.clean)

LEMMA MovesOn ==
  ASSUME IInv, Moves, Control', Progress', Assembled', exit' \in 0..3, ExitTellsResults',
         at \notin {"listing", "binary output"} \/ args.emulate
  PROVE  IInv'
<1>1. Typed'
  BY DEF IInv, Moves, Typed
<1>2. KbtsCurrent'
  BY SameKbt DEF IInv, Moves
<1>3. OnlyCleanPrograms' /\ JudgedOnBoard'
  BY SameJudged DEF IInv, Moves, OnlyCleanPrograms
<1> QED
  BY <1>1, <1>2, <1>3 DEF IInv

(* A step that ends a process which has judged nothing.                    *)
LEMMA Exits ==
  ASSUME IInv, Moves, at' = "exited", exit' \in {0, 1}, results = << >>,
         exit' = 1 \/ ~args.test_list \/ args.emulate_test \/ args.table,
         at # "idle", at \notin {"listing", "binary output"} \/ args.emulate
  PROVE  IInv'
<1>1. Control'
  BY DEF IInv, Moves, Control
<1>2. Progress' /\ Assembled'
  BY DEF IInv, Moves, Progress, OnList, Assembled
<1>3. ExitTellsResults'
  BY NothingJudged DEF Moves
<1>4. exit' \in 0..3
  BY ExitCodes
<1> QED
  BY <1>1, <1>2, <1>3, <1>4, MovesOn

(* A step that goes on to another one.                                     *)
LEMMA GoesOn ==
  ASSUME IInv, Moves, Control', Progress', Assembled', exit' = exit, at' # "exited",
         at \notin {"listing", "binary output"} \/ args.emulate
  PROVE  IInv'
<1>1. exit' \in 0..3
  BY DEF IInv, Typed
<1>2. ExitTellsResults'
  BY NotExited
<1> QED
  BY <1>1, <1>2, MovesOn

-----------------------------------------------------------------------------
(* The commands that need no opcode file.                                  *)

LEMMA MonitorKeepsIInv == IInv /\ Monitor => IInv'
<1> SUFFICES ASSUME IInv, Monitor PROVE IInv'
  OBVIOUS
<1>1. Moves /\ at = "monitor" /\ at' = "exited" /\ exit' = 0
  BY DEF Monitor, Moves, Exit, given, files, reading
<1>2. results = << >> /\ ~args.test_list
  BY <1>1 DEF IInv, Progress, OnList, Control, Accepted, Args
<1> QED
  BY <1>1, <1>2, Exits

LEMMA FlattenKeepsIInv == IInv /\ Flatten => IInv'
<1> SUFFICES ASSUME IInv, Flatten PROVE IInv'
  OBVIOUS
<1>1. Moves /\ at \in {"net", "mem", "binary"}
  BY DEF Flatten, Moves, given, files
<1>2. results = << >>
  BY <1>1 DEF IInv, Progress, OnList
<1>3. CASE ExitWithError(1)
  <2>1. at' = "exited" /\ exit' = 1
    BY <1>3 DEF ExitWithError, Exit
  <2> QED
    BY <1>1, <1>2, <2>1, Exits
<1>4. CASE UNCHANGED << at, exit, errors >>
  <2>1. Control'
    BY <1>1, <1>4 DEF IInv, Moves, Control
  <2>2. Progress' /\ Assembled'
    BY <1>1, <1>4 DEF IInv, Moves, Progress, OnList, Assembled
  <2> QED
    BY <1>1, <1>4, <2>1, <2>2, GoesOn
<1> QED
  BY <1>3, <1>4, Zenon DEF Flatten

LEMMA MemOutKeepsIInv == IInv /\ MemOut => IInv'
<1> SUFFICES ASSUME IInv, MemOut PROVE IInv'
  OBVIOUS
<1>1. Moves /\ at = "mem" /\ at' = "exited" /\ exit' \in {0, 1}
  BY DEF MemOut, Moves, ExitWithError, Exit, given, files
<1>2. results = << >> /\ ~args.test_list
  BY <1>1 DEF IInv, Progress, OnList, Control, Accepted, Args
<1> QED
  BY <1>1, <1>2, Exits

LEMMA EmulateBinaryKeepsIInv == IInv /\ EmulateBinary => IInv'
<1> SUFFICES ASSUME IInv, EmulateBinary PROVE IInv'
  OBVIOUS
<1>1. Moves /\ at = "binary" /\ at' = "exited" /\ exit' = 0
  BY DEF EmulateBinary, Moves, Exit, given, files
<1>2. results = << >>
  BY <1>1 DEF IInv, Progress, OnList
<1>3. ~args.test_list
  BY <1>1 DEF IInv, Control, Accepted, Args, Mode
<1> QED
  BY <1>1, <1>2, <1>3, Exits

LEMMA KbtKeepsIInv == IInv /\ Kbt => IInv'
<1> SUFFICES ASSUME IInv, Kbt PROVE IInv'
  OBVIOUS
<1>1. /\ Moves
      /\ at = "kbt"
      /\ \/ at' = "exited" /\ exit' \in {0, 1}
         \/ at' = "upload" /\ exit' = exit /\ args.monitor
         \/ at' = "device" /\ exit' = exit
  BY DEF Kbt, Moves, ExitWithError, Exit, Continue, given, files, reading
<1>2. results = << >> /\ index = 1
  BY <1>1 DEF IInv, Progress, OnList
<1>3. Mode(args) = "kbt"
  BY <1>1 DEF IInv, Control
<1>4. args.input = "kbt"
  BY <1>3 DEF IInv, Control, Args, Mode
<1>5. ~args.test_list
  BY <1>1, <1>4 DEF IInv, Control, Accepted, Args
<1>6. CASE at' = "exited"
  BY <1>1, <1>2, <1>5, <1>6, Exits
<1>7. CASE at' # "exited"
  <2>1. Control'
    BY <1>1, <1>3, <1>7 DEF IInv, Moves, Control
  <2>2. Progress' /\ Assembled'
    BY <1>1, <1>2, <1>4, <1>5, <1>7 DEF Moves, Progress, OnList, Assembled
  <2> QED
    BY <1>1, <1>7, <2>1, <2>2, GoesOn
<1> QED
  BY <1>6, <1>7

-----------------------------------------------------------------------------
(* The commands that read the opcode file.                                 *)

LEMMA OpcodesKeepsIInv == IInv /\ Opcodes => IInv'
<1> SUFFICES ASSUME IInv, Opcodes PROVE IInv'
  OBVIOUS
<1>1. Moves /\ at = "opcodes"
  BY DEF Opcodes, Moves, given, files, reading
<1>2. results = << >> /\ index = 1
  BY <1>1 DEF IInv, Progress, OnList
<1>3. CASE ExitWithError(1)
  <2>1. at' = "exited" /\ exit' = 1
    BY <1>3 DEF ExitWithError, Exit
  <2> QED
    BY <1>1, <1>2, <2>1, Exits
<1>4. CASE args.table /\ Exit(0)
  <2>1. at' = "exited" /\ exit' = 0
    BY <1>4 DEF Exit
  <2> QED
    BY <1>1, <1>2, <1>4, <2>1, Exits
<1>5. CASE ~args.table /\ Continue(Task(args))
  <2>1. at' = Task(args) /\ exit' = exit
    BY <1>5 DEF Continue
  <2>2. Mode(args) = "opcodes" /\ Accepted(args) /\ args \in Args
    BY <1>1 DEF IInv, Control
  <2>3. at' \in {"emulate test", "test list", "read source"}
    BY <2>1 DEF Task
  <2>4. Task(args) = "read source" => args.input = "kla"
    BY <2>2, <1>5 DEF Task, Mode, Accepted, Args
  <2>5. Control'
    BY <1>1, <1>5, <2>1, <2>2, <2>3, <2>4 DEF IInv, Moves, Control, ReadsSource, RunsList, Verifies
  <2>6. Progress' /\ Assembled'
    BY <1>1, <1>2, <2>3 DEF Moves, Progress, OnList, Assembled
  <2> QED
    BY <1>1, <2>1, <2>3, <2>5, <2>6, GoesOn
<1> QED
  BY <1>3, <1>4, <1>5, Zenon DEF Opcodes

LEMMA TwoIfAny ==
  ASSUME NEW F, NEW code, code = IF F # {} THEN 2 ELSE 0
  PROVE  code # 3 /\ (code = 2 <=> F # {})
  OBVIOUS

(* A batch exits with 2 if a test it ran failed, otherwise with 0.         *)
LEMMA BatchEnds ==
  ASSUME IInv, Moves, RunsList \/ Verifies, at \notin {"idle", "listing", "binary output"},
         Exit(IF \E i \in 1..Len(results) : Fails(results[i]) THEN 2 ELSE 0),
         args.test_list /\ ~args.emulate_test =>
           Len(results) = Len(list) /\ \A i \in 1..Len(list) : results[i].of = list[i]
  PROVE  IInv'
<1>1. at' = "exited" /\ exit' = IF \E i \in 1..Len(results) : Fails(results[i]) THEN 2 ELSE 0
  BY DEF Exit
<1>2. Control'
  BY <1>1 DEF IInv, Moves, Control
<1>3. Progress' /\ Assembled'
  BY <1>1 DEF IInv, Moves, Progress, OnList, Assembled
<1>4. ExitTellsResults'
  <2> DEFINE failing == {i \in 1..Len(results) : Fails(results[i])}
  <2>1. exit' = IF failing # {} THEN 2 ELSE 0
    BY <1>1
  <2>2. Mode(args) = "opcodes" /\ Task(args) # "read source" /\ ~args.table
    BY DEF RunsList, Verifies
  <2>3. exit' # 3 /\ (exit' = 2 <=> failing # {})
    BY <2>1, TwoIfAny
  <2>4. UNCHANGED << args, list, results >>
    BY DEF Moves
  <2> QED
    BY <2>2, <2>3, <2>4 DEF ExitTellsResults
<1>5. exit' \in 0..3
  BY <1>1, ExitCodes
<1> QED
  BY <1>2, <1>3, <1>4, <1>5, MovesOn

LEMMA TestListKeepsIInv == IInv /\ TestList => IInv'
<1> SUFFICES ASSUME IInv, TestList PROVE IInv'
  OBVIOUS
<1>1. Moves /\ at = "test list"
  BY DEF TestList, Moves, given, files, reading
<1>2. results = << >> /\ index = 1
  BY <1>1 DEF IInv, Progress, OnList
<1>3. CASE ExitWithError(1)
  <2>1. at' = "exited" /\ exit' = 1
    BY <1>3 DEF ExitWithError, Exit
  <2> QED
    BY <1>1, <1>2, <2>1, Exits
<1>4. CASE Continue("suite")
  <2>1. at' = "suite" /\ exit' = exit
    BY <1>4 DEF Continue
  <2>2. Control'
    BY <1>1, <2>1 DEF IInv, Moves, Control, RunsList
  <2>3. Progress'
    <3>1. Len(list) \in Nat
      BY DEF IInv, Typed
    <3>2. index' = 1 /\ results' = << >> /\ list' = list
      BY <1>1, <1>2 DEF Moves
    <3> QED
      BY <2>1, <3>1, <3>2 DEF Progress, OnList
  <2>4. Assembled'
    BY <2>1 DEF Assembled
  <2> QED
    BY <1>1, <2>1, <2>2, <2>3, <2>4, GoesOn
<1> QED
  BY <1>3, <1>4, Zenon DEF TestList

LEMMA SuiteEndsKeepsIInv == IInv /\ SuiteEnds => IInv'
<1> SUFFICES ASSUME IInv, SuiteEnds PROVE IInv'
  OBVIOUS
<1>1. /\ Moves
      /\ at = "suite"
      /\ index > Len(list)
      /\ Exit(IF \E i \in 1..Len(results) : Fails(results[i]) THEN 2 ELSE 0)
  BY DEF SuiteEnds, Moves, given, files, reading
<1>2. RunsList
  BY <1>1 DEF IInv, Control
<1>3. index = Len(list) + 1
  BY <1>1 DEF IInv, Progress, Typed
<1>4. args.test_list => Len(results) = Len(list)
  BY <1>1, <1>3 DEF IInv, Progress, Typed
<1>5. args.test_list => \A i \in 1..Len(results) : results[i].of = list[i]
  BY <1>1 DEF IInv, Progress
<1> QED
  BY <1>1, <1>2, <1>4, <1>5, BatchEnds

LEMMA EmulateTestKeepsIInv == IInv /\ EmulateTest => IInv'
<1> SUFFICES ASSUME IInv, EmulateTest PROVE IInv'
  OBVIOUS
<1>1. Moves /\ at = "emulate test"
  BY DEF EmulateTest, Moves, given, files, reading
<1>2. results = << >> /\ index = 1
  BY <1>1 DEF IInv, Progress, OnList
<1>3. CASE ExitWithError(1)
  <2>1. at' = "exited" /\ exit' = 1
    BY <1>3 DEF ExitWithError, Exit
  <2> QED
    BY <1>1, <1>2, <2>1, Exits
<1>4. CASE Continue("verify")
  <2>1. at' = "verify" /\ exit' = exit
    BY <1>4 DEF Continue
  <2>2. Control'
    BY <1>1, <2>1 DEF IInv, Moves, Control, Verifies
  <2>3. Progress'
    <3>1. Len(list) \in Nat
      BY DEF IInv, Typed
    <3>2. index' = 1 /\ results' = << >> /\ list' = list
      BY <1>1, <1>2 DEF Moves
    <3> QED
      BY <2>1, <3>1, <3>2 DEF Progress, OnList
  <2>4. Assembled'
    BY <2>1 DEF Assembled
  <2> QED
    BY <1>1, <2>1, <2>2, <2>3, <2>4, GoesOn
<1> QED
  BY <1>3, <1>4, Zenon DEF EmulateTest

LEMMA VerifyEndsKeepsIInv == IInv /\ VerifyEnds => IInv'
<1> SUFFICES ASSUME IInv, VerifyEnds PROVE IInv'
  OBVIOUS
<1>1. /\ Moves
      /\ at = "verify"
      /\ Exit(IF \E i \in 1..Len(results) : Fails(results[i]) THEN 2 ELSE 0)
  BY DEF VerifyEnds, Moves, given, files, reading
<1>2. Verifies
  BY <1>1 DEF IInv, Control
<1>3. args.emulate_test
  BY <1>2 DEF Verifies, Task
<1> QED
  BY <1>1, <1>2, <1>3, BatchEnds

LEMMA EmulateKeepsIInv == IInv /\ Emulate => IInv'
<1> SUFFICES ASSUME IInv, Emulate PROVE IInv'
  OBVIOUS
<1>1. Moves /\ at = "listing" /\ args.emulate
  BY DEF Emulate, Moves, given, files, reading
<1>2. results = << >>
  BY <1>1 DEF IInv, Progress, OnList
<1>3. ~args.test_list \/ args.emulate_test
  BY <1>1 DEF IInv, Control, ReadsSource, Task
<1>4. ExitWithError(1) \/ Exit(0)
  BY Zenon DEF Emulate
<1>5. at' = "exited" /\ exit' \in {0, 1}
  BY <1>4 DEF ExitWithError, Exit
<1> QED
  BY <1>1, <1>2, <1>3, <1>5, Exits

LEMMA EndOfMainKeepsIInv == IInv /\ EndOfMain => IInv'
<1> SUFFICES ASSUME IInv, EndOfMain PROVE IInv'
  OBVIOUS
<1>1. Moves /\ at = "tail"
  BY DEF EndOfMain, Moves, given, files, reading
<1>2. results = << >> /\ index = 1
  BY <1>1 DEF IInv, Progress, OnList
<1>3. ~args.test_list \/ args.emulate_test
  BY <1>1 DEF IInv, Control, ReadsSource, Task
<1>4. CASE ExitWithError(1) \/ Exit(0)
  <2>1. at' = "exited" /\ exit' \in {0, 1}
    BY <1>4 DEF ExitWithError, Exit
  <2> QED
    BY <1>1, <1>2, <1>3, <2>1, Exits
<1>5. CASE args.monitor /\ Continue("monitor")
  <2>1. at' = "monitor" /\ exit' = exit
    BY <1>5 DEF Continue
  <2>2. Control'
    BY <1>1, <1>5, <2>1 DEF IInv, Moves, Control
  <2>3. Progress' /\ Assembled'
    BY <1>2, <1>1, <2>1 DEF Moves, Progress, OnList, Assembled
  <2> QED
    BY <1>1, <2>1, <2>2, <2>3, GoesOn
<1> QED
  BY <1>4, <1>5, Zenon DEF EndOfMain

-----------------------------------------------------------------------------
(* Programs for the board.                                                 *)

(* Only run_netload sends over TCP.                                        *)
LEMMA SerialLoadsNothing ==
  ASSUME IInv, at \in {"upload", "device"}
  PROVE  args.load = "none"
<1>1. Mode(args) \in {"opcodes", "binary", "kbt"} /\ args \in Args
  BY DEF IInv, Control, ReadsSource, RunsList
<1> QED
  BY <1>1 DEF Mode, Args

(* What is sent is clean.                                                  *)
LEMMA OutgoingIsClean ==
  ASSUME IInv, at \in {"upload", "device"}
  PROVE  Outgoing \in AnyImage /\ Outgoing.clean
<1>1. CASE args.input = "binary"
  BY <1>1 DEF Outgoing, BinaryImage, AnyImage
<1>2. CASE args.input = "kbt"
  <2>1. file \in Stems /\ Outgoing = kbt[file]
    BY <1>2, SerialLoadsNothing DEF IInv, Control, Outgoing
  <2>2. kbt \in [Stems -> AnyImage] /\ kbt[file].clean
    BY <2>1 DEF IInv, Typed, OnlyCleanPrograms
  <2> QED
    BY <2>1, <2>2
<1>3. CASE args.input \notin {"binary", "kbt"}
  <2>1. Outgoing = ImageOf(assembling)
    BY <1>3, SerialLoadsNothing DEF Outgoing
  <2>2. assembling \in AnySource
    BY DEF IInv, Typed
  <2>3. assembling.outcome = "good"
    BY <1>3 DEF IInv, Control, Assembled
  <2> QED
    BY <2>1, <2>2, <2>3 DEF ImageOf, AnySource, AnyImage
<1> QED
  BY <1>1, <1>2, <1>3

(* However an upload ends, the board keeps its program or a clean one.     *)
LEMMA UploadIsClean ==
  ASSUME IInv, NEW image \in AnyImage, image.clean, UploadSucceeds(image) \/ UploadFails
  PROVE  board' = board \/ (board' \in AnyImage /\ board'.clean)
<1>1. Torn \in AnyImage /\ Torn.clean
  BY DEF Torn, AnyImage
<1> QED
  BY <1>1 DEF UploadSucceeds, UploadFails

LEMMA NetLoadKeepsIInv == IInv /\ NetLoad => IInv'
<1> SUFFICES ASSUME IInv, NetLoad PROVE IInv'
  OBVIOUS
<1>1. board' = BinaryImage \/ UploadFails
  BY Zenon DEF NetLoad
<1>2. board' = board \/ (board' \in AnyImage /\ board'.clean)
  <2>1. BinaryImage \in AnyImage /\ BinaryImage.clean
    BY DEF BinaryImage, AnyImage
  <2> QED
    BY <1>1, <2>1, UploadIsClean
<1>3. Moves /\ at = "net"
  BY <1>2 DEF NetLoad, Moves, given, files
<1>4. results = << >> /\ index = 1
  BY <1>3 DEF IInv, Progress, OnList
<1>5. ~args.test_list
  BY <1>3 DEF IInv, Control, Accepted, Args
<1>6. CASE ExitWithError(1) \/ Exit(0)
  <2>1. at' = "exited" /\ exit' \in {0, 1}
    BY <1>6 DEF ExitWithError, Exit
  <2> QED
    BY <1>3, <1>4, <1>5, <2>1, Exits
<1>7. CASE args.monitor /\ Continue("monitor")
  <2>1. at' = "monitor" /\ exit' = exit
    BY <1>7 DEF Continue
  <2>2. Control'
    BY <1>3, <1>7, <2>1 DEF IInv, Moves, Control
  <2>3. Progress' /\ Assembled'
    BY <1>3, <1>4, <2>1 DEF Moves, Progress, OnList, Assembled
  <2> QED
    BY <1>3, <2>1, <2>2, <2>3, GoesOn
<1> QED
  BY <1>6, <1>7, Zenon DEF NetLoad

LEMMA WriteToDeviceKeepsIInv == IInv /\ WriteToDevice => IInv'
<1> SUFFICES ASSUME IInv, WriteToDevice PROVE IInv'
  OBVIOUS
<1>1. at = "device"
  BY DEF WriteToDevice
<1>2. board' = board \/ UploadSucceeds(Outgoing) \/ UploadFails
  BY Zenon DEF WriteToDevice
<1>3. board' = board \/ (board' \in AnyImage /\ board'.clean)
  BY <1>1, <1>2, OutgoingIsClean, UploadIsClean
<1>4. Moves
  BY <1>3 DEF WriteToDevice, Moves, given, files, reading
<1>5. results = << >> /\ index = 1
  BY <1>1 DEF IInv, Progress, OnList
<1>6. CASE args.input = "kla" /\ Continue("tail")
  <2>1. at' = "tail" /\ exit' = exit
    BY <1>6 DEF Continue
  <2>2. ReadsSource
    BY <1>1, <1>6 DEF IInv, Control, Mode, Args
  <2>3. Control'
    BY <1>4, <1>1, <2>1, <2>2 DEF IInv, Moves, Control, ReadsSource
  <2>4. Progress' /\ Assembled'
    BY <1>4, <1>5, <2>1 DEF Moves, Progress, OnList, Assembled
  <2> QED
    BY <1>1, <1>4, <2>1, <2>3, <2>4, GoesOn
<1>7. CASE args.input # "kla" /\ Exit(0)
  <2>1. at' = "exited" /\ exit' = 0
    BY <1>7 DEF Exit
  <2>2. ~args.test_list
    BY <1>1, <1>7 DEF IInv, Control, ReadsSource, Mode, Accepted, Args
  <2> QED
    BY <1>1, <1>4, <1>5, <2>1, <2>2, Exits
<1> QED
  BY <1>6, <1>7, Zenon DEF WriteToDevice

-----------------------------------------------------------------------------
(* Images in files.                                                        *)

LEMMA WritingKbt ==
  ASSUME IInv, NEW f \in Stems, NEW image \in AnyImage, image.clean,
         KbtWritten(f, image) \/ KbtFails(f)
  PROVE  /\ kbt' \in [Stems -> AnyImage]
         /\ wanted' \in [Stems -> Nat \cup {Failed}]
         /\ \A g \in Stems : kbt'[g].clean
         /\ \A g \in Stems : g # f => kbt'[g] = kbt[g] /\ wanted'[g] = wanted[g]
         /\ wanted'[f] # Failed => kbt'[f] = image /\ wanted'[f] = image.version
<1>1. kbt \in [Stems -> AnyImage] /\ wanted \in [Stems -> Nat \cup {Failed}]
  BY DEF IInv, Typed
<1>2. \A g \in Stems : kbt[g].clean
  BY <1>1 DEF IInv, OnlyCleanPrograms
<1>3. CASE KbtWritten(f, image)
  <2>1. kbt' = [kbt EXCEPT ![f] = image] /\ wanted' = [wanted EXCEPT ![f] = image.version]
    BY <1>3 DEF KbtWritten
  <2>2. image.version \in Nat
    BY DEF AnyImage
  <2> QED
    BY <1>1, <1>2, <2>1, <2>2
<1>4. CASE KbtFails(f)
  <2>1. /\ kbt' = kbt \/ kbt' = [kbt EXCEPT ![f] = Torn]
        /\ wanted' = [wanted EXCEPT ![f] = Failed]
    BY <1>4 DEF KbtFails
  <2>2. Torn \in AnyImage /\ Torn.clean
    BY DEF Torn, AnyImage
  <2> QED
    BY <1>1, <1>2, <2>1, <2>2
<1> QED
  BY <1>3, <1>4

LEMMA ElfToSerialKeepsIInv == IInv /\ ElfToSerial => IInv'
<1> SUFFICES ASSUME IInv, ElfToSerial PROVE IInv'
  OBVIOUS
<1>1. /\ UNCHANGED << source, board, args, file, list, index, results, assembling, against >>
      /\ at = "binary"
  BY DEF ElfToSerial, given
<1>2. results = << >> /\ index = 1
  BY <1>1 DEF IInv, Progress, OnList
<1>3. Mode(args) = "binary" /\ args.input = "binary" /\ file \in Stems /\ ~args.test_list
  BY <1>1 DEF IInv, Control, Mode, Accepted, Args
<1>4. CASE UNCHANGED files /\ Continue(IF args.monitor THEN "upload" ELSE "device")
  <2>1. Moves
    BY <1>1, <1>4 DEF Moves, files
  <2>2. at' = (IF args.monitor THEN "upload" ELSE "device") /\ exit' = exit
    BY <1>4 DEF Continue
  <2>3. Control'
    BY <1>1, <1>3, <2>2 DEF IInv, Control
  <2>4. Progress' /\ Assembled'
    BY <1>1, <1>2, <1>3, <2>2 DEF Progress, OnList, Assembled
  <2> QED
    BY <1>1, <2>1, <2>2, <2>3, <2>4, GoesOn
<1>5. CASE Exit(0) /\ (KbtWritten(file, BinaryImage) \/ KbtFails(file))
  <2>1. at' = "exited" /\ exit' = 0
    BY <1>5 DEF Exit
  <2>2. BinaryImage \in AnyImage /\ BinaryImage.clean
    BY DEF BinaryImage, AnyImage
  <2>3. /\ kbt' \in [Stems -> AnyImage]
        /\ wanted' \in [Stems -> Nat \cup {Failed}]
        /\ \A g \in Stems : kbt'[g].clean
        /\ \A g \in Stems : g # file => kbt'[g] = kbt[g] /\ wanted'[g] = wanted[g]
        /\ wanted'[file] # Failed => kbt'[file] = BinaryImage
    BY <1>3, <1>5, <2>2, WritingKbt
  <2>4. Typed'
    BY <1>1, <2>1, <2>3 DEF IInv, Typed
  <2>5. Control'
    BY <1>1, <2>1 DEF IInv, Control
  <2>6. Progress' /\ Assembled'
    BY <1>1, <2>1 DEF IInv, Progress, OnList, Assembled
  <2>7. KbtsCurrent'
    BY <1>1, <2>1, <2>3 DEF IInv, KbtsCurrent, IsCurrent, OnItsWay, Stems
  <2>8. OnlyCleanPrograms' /\ JudgedOnBoard'
    BY <1>1, <2>3, SameJudged DEF IInv, OnlyCleanPrograms
  <2>9. ExitTellsResults'
    BY <1>1, <1>2, <1>3, <2>1, NothingJudged
  <2> QED
    BY <2>4, <2>5, <2>6, <2>7, <2>8, <2>9 DEF IInv
<1> QED
  BY <1>4, <1>5, Zenon DEF ElfToSerial

-----------------------------------------------------------------------------
(* main() assembles a source.                                              *)

LEMMA ReadSourceKeepsIInv == IInv /\ ReadSource => IInv'
<1> SUFFICES ASSUME IInv, ReadSource PROVE IInv'
  OBVIOUS
<1>1. /\ UNCHANGED << source, kbt, board, args, file, list, index, results, against >>
      /\ at = "read source"
  BY DEF ReadSource, given
<1>2. results = << >> /\ index = 1
  BY <1>1 DEF IInv, Progress, OnList
<1>3. ReadsSource /\ file \in Kla
  BY <1>1 DEF IInv, Control, ReadsSource
<1>4. ~args.test_list
  BY <1>3 DEF ReadsSource, Task
<1>5. CASE ExitWithError(1) /\ UNCHANGED << assembling, wanted >>
  <2>1. at' = "exited" /\ exit' = 1
    BY <1>5 DEF ExitWithError, Exit
  <2>2. Moves
    BY <1>1, <1>5 DEF Moves
  <2> QED
    BY <1>1, <1>2, <2>1, <2>2, Exits
<1>6. CASE /\ assembling' = source[file]
           /\ Continue("listing")
           /\ wanted' = IF args.emulate THEN wanted
                        ELSE [wanted EXCEPT ![file] = source[file].version]
  <2>1. at' = "listing" /\ exit' = exit
    BY <1>6 DEF Continue
  <2>2. source[file] \in AnySource /\ source[file].of = file /\ source[file].version \in Nat
    BY <1>3 DEF IInv, Typed, AnySource
  <2>3. wanted \in [Stems -> Nat \cup {Failed}] /\ file \in Stems
    BY <1>3 DEF IInv, Typed, Stems
  <2>4. /\ wanted' \in [Stems -> Nat \cup {Failed}]
        /\ ~args.emulate => wanted'[file] = source[file].version
        /\ args.emulate => wanted' = wanted
        /\ \A g \in Stems : g # file => wanted'[g] = wanted[g]
    BY <1>6, <2>2, <2>3
  <2>5. Typed'
    BY <1>1, <1>6, <2>1, <2>2, <2>4 DEF IInv, Typed
  <2>6. Control'
    BY <1>1, <1>3, <2>1 DEF IInv, Control, ReadsSource
  <2>7. Progress'
    BY <1>1, <1>2, <2>1 DEF Progress, OnList
  <2>8. Assembled'
    <3>1. UpToDate(assembling, file)'
      <4>1. source[file].version <= source[file].version
        BY <2>2
      <4> QED
        BY <1>1, <1>6, <2>2, <4>1 DEF UpToDate
    <3>2. (~args.emulate => wanted[file] = assembling.version)'
      BY <1>1, <1>6, <2>4
    <3> QED
      BY <2>1, <3>1, <3>2 DEF Assembled
  <2>9. KbtsCurrent'
    BY <1>1, <2>1, <2>4 DEF IInv, KbtsCurrent, IsCurrent, OnItsWay, Stems
  <2>10. OnlyCleanPrograms' /\ JudgedOnBoard'
    BY <1>1, SameJudged DEF IInv, OnlyCleanPrograms
  <2>11. ExitTellsResults'
    BY <2>1, NotExited
  <2> QED
    BY <2>5, <2>6, <2>7, <2>8, <2>9, <2>10, <2>11 DEF IInv
<1> QED
  BY <1>5, <1>6, Zenon DEF ReadSource

LEMMA WriteListingKeepsIInv == IInv /\ WriteListing => IInv'
<1> SUFFICES ASSUME IInv, WriteListing PROVE IInv'
  OBVIOUS
<1>1. /\ UNCHANGED << source, kbt, board, args, file, list, index, results,
                      assembling, against >>
      /\ at = "listing" /\ ~args.emulate
  BY DEF WriteListing, given, reading
<1>2. results = << >> /\ index = 1
  BY <1>1 DEF IInv, Progress, OnList
<1>3. ReadsSource /\ file \in Kla
  BY <1>1 DEF IInv, Control, ReadsSource
<1>4. ~args.test_list
  BY <1>3 DEF ReadsSource, Task
<1>5. wanted \in [Stems -> Nat \cup {Failed}] /\ file \in Stems
  BY <1>3 DEF IInv, Typed, Stems
<1>6. OnlyCleanPrograms' /\ JudgedOnBoard'
  BY <1>1, SameJudged DEF IInv, OnlyCleanPrograms
<1>7. CASE Continue("binary output") /\ UNCHANGED << errors, wanted >>
  <2>1. at' = "binary output" /\ exit' = exit
    BY <1>7 DEF Continue
  <2>2. Typed'
    BY <1>1, <1>7, <2>1 DEF IInv, Typed
  <2>3. Control'
    BY <1>1, <1>3, <2>1 DEF IInv, Control, ReadsSource
  <2>4. Progress'
    BY <1>1, <1>2, <2>1 DEF Progress, OnList
  <2>5. Assembled'
    BY <1>1, <1>7, <2>1 DEF IInv, Assembled, UpToDate
  <2>6. KbtsCurrent'
    BY <1>1, <1>7, <2>1 DEF IInv, KbtsCurrent, IsCurrent, OnItsWay
  <2>7. ExitTellsResults'
    BY <2>1, NotExited
  <2> QED
    BY <1>6, <2>2, <2>3, <2>4, <2>5, <2>6, <2>7 DEF IInv
<1>8. CASE ExitWithError(1) /\ wanted' = [wanted EXCEPT ![file] = Failed]
  <2>1. at' = "exited" /\ exit' = 1
    BY <1>8 DEF ExitWithError, Exit
  <2>2. /\ wanted' \in [Stems -> Nat \cup {Failed}]
        /\ wanted'[file] = Failed
        /\ \A g \in Stems : g # file => wanted'[g] = wanted[g]
    BY <1>5, <1>8
  <2>3. Typed'
    BY <1>1, <2>1, <2>2 DEF IInv, Typed
  <2>4. Control'
    BY <1>1, <2>1 DEF IInv, Control
  <2>5. Progress' /\ Assembled'
    BY <1>1, <2>1 DEF IInv, Progress, OnList, Assembled
  <2>6. KbtsCurrent'
    BY <1>1, <2>1, <2>2 DEF IInv, KbtsCurrent, IsCurrent, OnItsWay, Stems
  <2>7. ExitTellsResults'
    BY <1>1, <1>2, <2>1, NothingJudged
  <2> QED
    BY <1>6, <2>3, <2>4, <2>5, <2>6, <2>7 DEF IInv
<1> QED
  BY <1>7, <1>8, Zenon DEF WriteListing

LEMMA WriteBinaryKeepsIInv == IInv /\ WriteBinary => IInv'
<1> SUFFICES ASSUME IInv, WriteBinary PROVE IInv'
  OBVIOUS
<1>1. /\ UNCHANGED << source, board, args, file, list, index, results, assembling, against >>
      /\ at = "binary output"
  BY DEF WriteBinary, given, reading
<1>2. results = << >> /\ index = 1
  BY <1>1 DEF IInv, Progress, OnList
<1>3. ReadsSource /\ file \in Kla /\ file \in Stems
  BY <1>1 DEF IInv, Control, ReadsSource, Stems
<1>4. ~args.test_list /\ ~args.emulate_test
  BY <1>3 DEF ReadsSource, Task
<1>5. JudgedOnBoard'
  BY <1>1, SameJudged DEF IInv
<1>6. UpToDate(assembling, file) /\ assembling \in AnySource
  BY <1>1 DEF IInv, Assembled, Typed
<1>7. CASE KbtRemoved /\ wanted' = wanted /\ Continue("tail")
  <2>1. at' = "tail" /\ exit' = exit
    BY <1>7 DEF Continue
  <2>2. kbt \in [Stems -> AnyImage]
    BY DEF IInv, Typed
  <2>3. NoImage \in AnyImage /\ NoImage.clean
    BY DEF NoImage, AnyImage
  <2>4. /\ kbt' \in [Stems -> AnyImage]
        /\ kbt'[file] = NoImage
        /\ \A g \in Stems : g # file => kbt'[g] = kbt[g]
    BY <1>3, <1>7, <2>2, <2>3 DEF KbtRemoved
  <2>5. Typed'
    BY <1>1, <1>7, <2>1, <2>4 DEF IInv, Typed
  <2>6. Control'
    BY <1>1, <1>3, <2>1 DEF IInv, Control, ReadsSource
  <2>7. Progress' /\ Assembled'
    BY <1>1, <1>2, <2>1 DEF Progress, OnList, Assembled
  <2>8. KbtsCurrent'
    BY <1>1, <1>7, <2>1, <2>4 DEF IInv, KbtsCurrent, IsCurrent, OnItsWay, Stems
  <2>9. OnlyCleanPrograms'
    BY <1>1, <2>2, <2>3, <2>4 DEF IInv, OnlyCleanPrograms
  <2>10. ExitTellsResults'
    BY <2>1, NotExited
  <2> QED
    BY <1>5, <2>5, <2>6, <2>7, <2>8, <2>9, <2>10 DEF IInv
<1>8. CASE /\ assembling.outcome = "good"
           /\ KbtWritten(file, ImageOf(assembling)) \/ KbtFails(file)
           /\ Continue(AfterOutput)
  <2>1. at' = AfterOutput /\ exit' = exit
    BY <1>8 DEF Continue
  <2>2. /\ ImageOf(assembling) \in AnyImage
        /\ ImageOf(assembling).clean
        /\ ImageOf(assembling).of = file
    BY <1>6, <1>8 DEF ImageOf, AnyImage, AnySource, UpToDate
  <2>3. /\ kbt' \in [Stems -> AnyImage]
        /\ wanted' \in [Stems -> Nat \cup {Failed}]
        /\ \A g \in Stems : kbt'[g].clean
        /\ \A g \in Stems : g # file => kbt'[g] = kbt[g] /\ wanted'[g] = wanted[g]
        /\ wanted'[file] # Failed =>
             kbt'[file].of = file /\ wanted'[file] = kbt'[file].version
    BY <1>3, <1>8, <2>2, WritingKbt
  <2>4. /\ at' \in {"tail", "expect", "upload", "device"}
        /\ at' = "expect" => args.test
        /\ at' = "upload" => args.monitor
    BY <2>1 DEF AfterOutput
  <2>5. ~(args.test /\ args.monitor)
    BY <1>1 DEF IInv, Control, Accepted
  <2>6. Typed'
    BY <1>1, <2>1, <2>3 DEF IInv, Typed
  <2>7. Control'
    BY <1>1, <1>3, <2>4, <2>5 DEF IInv, Control, ReadsSource
  <2>8. Progress'
    BY <1>1, <1>2, <1>4, <2>4 DEF Progress, OnList
  <2>9. Assembled'
    BY <1>1, <1>4, <1>6, <1>8, <2>4 DEF Assembled, UpToDate, Current
  <2>10. KbtsCurrent'
    BY <1>1, <2>3, <2>4 DEF IInv, KbtsCurrent, IsCurrent, OnItsWay, Stems
  <2>11. OnlyCleanPrograms'
    BY <1>1, <2>3 DEF IInv, OnlyCleanPrograms
  <2>12. ExitTellsResults'
    BY <2>4, NotExited
  <2> QED
    BY <1>5, <2>6, <2>7, <2>8, <2>9, <2>10, <2>11, <2>12 DEF IInv
<1> QED
  BY <1>7, <1>8, Zenon DEF WriteBinary

-----------------------------------------------------------------------------
(* Tests on the board.                                                     *)

(* The file a test is of.                                                  *)
LEMMA CurrentIsASource ==
  ASSUME IInv,
         \/ at = "suite" /\ index <= Len(list)
         \/ at \in {"expect", "upload", "judge"} /\ ~args.monitor
  PROVE  Current \in Kla /\ (args.test_list => Current = list[index])
<1>1. list \in Seq(Kla) /\ index \in Nat \ {0} /\ Len(list) \in Nat
  BY DEF IInv, Typed
<1>2. CASE RunsList
  <2>1. args.test_list
    BY <1>2 DEF RunsList, Task
  <2>2. index <= Len(list)
    BY <2>1 DEF IInv, Progress
  <2>3. list[index] \in Kla
    BY <1>1, <2>2
  <2> QED
    BY <2>1, <2>3 DEF Current
<1>3. CASE ReadsSource
  <2>1. ~args.test_list /\ ~args.emulate_test
    BY <1>3 DEF ReadsSource, Task
  <2>2. file \in Kla
    BY <1>3 DEF ReadsSource, IInv, Control
  <2> QED
    BY <2>1, <2>2 DEF Current
<1> QED
  BY <1>2, <1>3 DEF IInv, Control

(* The results of a list so far, and one more for its current file.        *)
LEMMA OneMoreResult ==
  ASSUME IInv, args.test_list, at \in {"suite", "expect", "upload", "judge"},
         index <= Len(list), index' = index + 1, UNCHANGED << args, list >>,
         NEW r \in AnyResult, r.of = list[index], results' = Append(results, r)
  PROVE  /\ results' \in Seq(AnyResult)
         /\ index' \in Nat \ {0}
         /\ index' <= Len(list') + 1
         /\ Len(results') = index' - 1
         /\ \A i \in 1..Len(results') : results'[i].of = list'[i]
<1>1. /\ results \in Seq(AnyResult) /\ Len(results) \in Nat
      /\ index \in Nat \ {0}
      /\ list \in Seq(Kla) /\ Len(list) \in Nat
  BY DEF IInv, Typed
<1>2. Len(results) = index - 1 /\ \A i \in 1..Len(results) : results[i].of = list[i]
  BY DEF IInv, Progress
<1>3. /\ results' \in Seq(AnyResult)
      /\ Len(results') = Len(results) + 1
      /\ \A i \in 1..Len(results) : results'[i] = results[i]
      /\ results'[Len(results) + 1] = r
  BY <1>1
<1> QED
  BY <1>1, <1>2, <1>3

(* A test that is skipped, wherever it is.                                 *)
LEMMA SkipKeepsIInv ==
  ASSUME IInv, Skip, RunsList, at \in {"suite", "expect", "upload"}, index <= Len(list),
         UNCHANGED << source, args, file, list, kbt >>,
         wanted' = wanted \/ wanted' = [wanted EXCEPT ![Current] = Failed],
         board' = board \/ (board' \in AnyImage /\ board'.clean)
  PROVE  IInv'
<1>1. args.test_list /\ ~args.emulate_test
  BY DEF RunsList, Task
<1> DEFINE r == [of |-> list[index], assembled |-> NoImage, on_board |-> NoImage,
                 against |-> 0,
                 verdict |-> [skipped |-> TRUE, failed |-> FALSE, timed_out |-> FALSE]]
<1>2. /\ results' = Append(results, r)
      /\ index' = index + 1
      /\ assembling' = NoSource
      /\ against' = NoSource
      /\ at' = "suite" /\ exit' = exit
  BY DEF Skip, NextIndex, Continue
<1>3. list[index] \in Kla
  BY DEF IInv, Typed
<1>4. r \in AnyResult /\ r.of = list[index] /\ r.verdict.skipped
  BY <1>3 DEF AnyResult, AnyImage, NoImage, Verdict
<1> HIDE DEF r
<1>5. /\ results' \in Seq(AnyResult)
      /\ index' \in Nat \ {0}
      /\ index' <= Len(list') + 1
      /\ Len(results') = index' - 1
      /\ \A i \in 1..Len(results') : results'[i].of = list'[i]
  BY <1>1, <1>2, <1>4, OneMoreResult
<1>6. NoSource \in AnySource /\ wanted' \in [Stems -> Nat \cup {Failed}]
  BY DEF NoSource, AnySource, Outcomes, IInv, Typed
<1>7. Typed'
  BY <1>2, <1>5, <1>6 DEF IInv, Typed
<1>8. Control'
  BY <1>2 DEF IInv, Control, RunsList
<1>9. Progress'
  BY <1>2, <1>5 DEF Progress, OnList
<1>10. Assembled'
  BY <1>2 DEF Assembled
<1>11. KbtsCurrent'
  BY <1>2 DEF IInv, Typed, KbtsCurrent, IsCurrent, OnItsWay, Stems
<1>12. OnlyCleanPrograms'
  BY DEF IInv, OnlyCleanPrograms
<1>13. JudgedOnBoard'
  <2>1. results \in Seq(AnyResult)
    BY DEF IInv, Typed
  <2>2. \A i \in 1..Len(results') :
          \/ i \in 1..Len(results) /\ results'[i] = results[i]
          \/ results'[i].verdict.skipped
    BY <1>2, <1>4, <2>1
  <2> QED
    BY <2>2 DEF IInv, JudgedOnBoard
<1>14. ExitTellsResults'
  BY <1>2, NotExited
<1> QED
  BY <1>7, <1>8, <1>9, <1>10, <1>11, <1>12, <1>13, <1>14 DEF IInv

LEMMA SuiteAssembleKeepsIInv == IInv /\ SuiteAssemble => IInv'
<1> SUFFICES ASSUME IInv, SuiteAssemble PROVE IInv'
  OBVIOUS
<1>1. /\ UNCHANGED << source, board, args, file, list >>
      /\ at = "suite" /\ index <= Len(list)
  BY DEF SuiteAssemble, given
<1>2. RunsList
  BY <1>1 DEF IInv, Control
<1>3. CASE /\ Skip
           /\ wanted' = IF source[Current].outcome = "unreadable" THEN wanted
                        ELSE [wanted EXCEPT ![Current] = Failed]
           /\ kbt' = kbt
  <2>1. wanted' = wanted \/ wanted' = [wanted EXCEPT ![Current] = Failed]
    BY <1>3
  <2>2. board' = board
    BY DEF SuiteAssemble
  <2> QED
    BY <1>1, <1>2, <1>3, <2>1, <2>2, SkipKeepsIInv
<1>4. CASE /\ Assembles(source[Current])
           /\ assembling' = source[Current]
           /\ KbtWritten(Current, ImageOf(source[Current])) \/ KbtFails(Current)
           /\ Continue("expect")
           /\ UNCHANGED << index, results, against >>
  <2> DEFINE f == Current
  <2>1. at' = "expect" /\ exit' = exit
    BY <1>4 DEF Continue
  <2>2. f \in Kla /\ f \in Stems /\ f = list[index]
    BY <1>1, <1>2, CurrentIsASource DEF RunsList, Task, Stems
  <2>3. args.test_list /\ ~args.emulate_test /\ ~args.monitor
    BY <1>1, <1>2 DEF RunsList, Task, IInv, Control, Accepted
  <2>4. /\ source[f] \in AnySource /\ source[f].of = f /\ source[f].version \in Nat
        /\ source[f].outcome = "good"
    BY <1>4, <2>2 DEF IInv, Typed, AnySource, Assembles
  <2>5. /\ ImageOf(source[f]) \in AnyImage
        /\ ImageOf(source[f]).clean
        /\ ImageOf(source[f]).of = f
    BY <2>4 DEF ImageOf, AnyImage, AnySource
  <2>6. KbtWritten(f, ImageOf(source[f])) \/ KbtFails(f)
    BY <1>4
  <2>7. Current' = f
    BY <1>1, <1>4, <2>2, <2>3 DEF Current
  <2>8. assembling' = source[f]
    BY <1>4
  <2> HIDE DEF f
  <2>9. /\ kbt' \in [Stems -> AnyImage]
        /\ wanted' \in [Stems -> Nat \cup {Failed}]
        /\ \A g \in Stems : kbt'[g].clean
        /\ \A g \in Stems : g # f => kbt'[g] = kbt[g] /\ wanted'[g] = wanted[g]
        /\ wanted'[f] # Failed => kbt'[f].of = f /\ wanted'[f] = kbt'[f].version
    BY <2>2, <2>5, <2>6, WritingKbt
  <2>10. Typed'
    BY <1>1, <1>4, <2>1, <2>4, <2>8, <2>9 DEF IInv, Typed
  <2>11. Control'
    BY <1>1, <1>2, <2>1, <2>3 DEF IInv, Control, RunsList
  <2>12. Progress'
    BY <1>1, <1>4, <2>1, <2>3 DEF IInv, Progress, OnList
  <2>13. Assembled'
    <3>1. source[f].version <= source[f].version
      BY <2>4
    <3>2. UpToDate(assembling, Current)'
      BY <1>1, <2>4, <2>7, <2>8, <3>1 DEF UpToDate
    <3> QED
      BY <2>1, <2>4, <2>8, <3>2 DEF Assembled
  <2>14. KbtsCurrent'
    BY <1>1, <2>1, <2>9 DEF IInv, KbtsCurrent, IsCurrent, OnItsWay, Stems
  <2>15. OnlyCleanPrograms'
    BY <1>1, <2>9 DEF IInv, OnlyCleanPrograms
  <2>16. JudgedOnBoard'
    BY <1>1, <1>4, SameJudged DEF IInv
  <2>17. ExitTellsResults'
    BY <2>1, NotExited
  <2> QED
    BY <2>10, <2>11, <2>12, <2>13, <2>14, <2>15, <2>16, <2>17 DEF IInv
<1> QED
  BY <1>3, <1>4, Zenon DEF SuiteAssemble

(* A test without a list that gives up.                                    *)
LEMMA GivingUp ==
  ASSUME IInv, Moves, ExitWithError(1), at \in {"expect", "upload"}, ~args.test_list
  PROVE  IInv'
<1>1. at' = "exited" /\ exit' = 1
  BY DEF ExitWithError, Exit
<1>2. results = << >>
  BY DEF IInv, Progress
<1> QED
  BY <1>1, <1>2, Exits

LEMMA ReadExpectedKeepsIInv == IInv /\ ReadExpected => IInv'
<1> SUFFICES ASSUME IInv, ReadExpected PROVE IInv'
  OBVIOUS
<1>1. /\ UNCHANGED << source, board, args, file, list, kbt, wanted >>
      /\ at = "expect"
  BY DEF ReadExpected, given, files
<1>2. ~args.monitor /\ (ReadsSource \/ RunsList)
  BY <1>1 DEF IInv, Control
<1>3. args.test_list => RunsList /\ index <= Len(list)
  BY <1>1, <1>2 DEF ReadsSource, Task, IInv, Progress
<1>4. CASE /\ against' = source[Current]
           /\ Continue("upload")
           /\ UNCHANGED << assembling, index, errors, results >>
  <2>1. at' = "upload" /\ exit' = exit
    BY <1>4 DEF Continue
  <2>2. Current \in Kla
    BY <1>1, <1>2, CurrentIsASource
  <2>3. source[Current] \in AnySource
    BY <2>2 DEF IInv, Typed
  <2>4. Typed'
    BY <1>1, <1>4, <2>1, <2>3 DEF IInv, Typed
  <2>5. Control'
    BY <1>1, <1>2, <2>1 DEF IInv, Control, ReadsSource, RunsList
  <2>6. Progress'
    BY <1>1, <1>4, <2>1 DEF IInv, Progress, OnList
  <2>7. Assembled'
    <3>1. Current' = Current
      BY <1>1, <1>4 DEF Current
    <3>2. UpToDate(assembling, Current)
      BY <1>1, <1>2 DEF IInv, Assembled
    <3>3. UpToDate(assembling, Current)' /\ assembling.version <= against'.version
      BY <1>1, <1>4, <3>1, <3>2 DEF UpToDate
    <3>4. args.input \notin {"binary", "kbt"} => assembling.outcome = "good"
      BY <1>1 DEF IInv, Assembled
    <3> QED
      BY <1>1, <1>4, <2>1, <3>3, <3>4 DEF Assembled
  <2>8. KbtsCurrent' /\ OnlyCleanPrograms' /\ JudgedOnBoard'
    BY <1>1, <1>4, SameKbt, SameJudged DEF IInv, OnlyCleanPrograms
  <2>9. ExitTellsResults'
    BY <2>1, NotExited
  <2> QED
    BY <2>4, <2>5, <2>6, <2>7, <2>8, <2>9 DEF IInv
<1>5. CASE args.test_list /\ Skip
  BY <1>1, <1>3, <1>5, SkipKeepsIInv
<1>6. CASE /\ ~args.test_list
           /\ ExitWithError(1)
           /\ UNCHANGED << assembling, against, index, results >>
  <2>1. Moves
    BY <1>1, <1>6 DEF Moves
  <2> QED
    BY <1>1, <1>6, <2>1, GivingUp
<1> QED
  BY <1>4, <1>5, <1>6, Zenon DEF ReadExpected

LEMMA UploadKeepsIInv == IInv /\ Upload => IInv'
<1> SUFFICES ASSUME IInv, Upload PROVE IInv'
  OBVIOUS
<1>1. /\ UNCHANGED << source, args, file, list, kbt, wanted >>
      /\ at = "upload"
  BY DEF Upload, given, files
<1>2. board' = board \/ UploadSucceeds(Outgoing) \/ UploadFails
  BY Zenon DEF Upload
<1>3. board' = board \/ (board' \in AnyImage /\ board'.clean)
  BY <1>1, <1>2, OutgoingIsClean, UploadIsClean
<1>4. args.test_list => RunsList /\ index <= Len(list)
  BY <1>1 DEF IInv, Control, Progress, Accepted, Args, Mode, ReadsSource, Task
<1>5. CASE /\ UploadSucceeds(Outgoing)
           /\ Continue(IF args.monitor THEN "monitor" ELSE "judge")
           /\ UNCHANGED << assembling, against, index, errors, results >>
  <2>1. at' = (IF args.monitor THEN "monitor" ELSE "judge") /\ exit' = exit
    BY <1>5 DEF Continue
  <2>2. Moves
    BY <1>1, <1>3, <1>5 DEF Moves
  <2>3. Control'
    BY <1>1, <2>1 DEF IInv, Control, ReadsSource, RunsList
  <2>4. CASE args.monitor
    <3>1. ~args.test_list
      BY <1>1, <2>4 DEF IInv, Control, Accepted
    <3>2. index = 1 /\ results = << >>
      BY <1>1, <3>1 DEF IInv, Progress
    <3>3. Progress' /\ Assembled'
      BY <1>1, <1>5, <2>1, <2>4, <3>2 DEF Progress, OnList, Assembled
    <3> QED
      BY <1>1, <2>1, <2>2, <2>3, <3>3, GoesOn
  <2>5. CASE ~args.monitor
    <3>1. args.input \notin {"binary", "kbt"}
      <4>1. Mode(args) = "opcodes"
        BY <1>1, <2>5 DEF IInv, Control, ReadsSource, RunsList
      <4>2. args.load # "opcodes"
        BY DEF IInv, Control, Args
      <4> QED
        BY <4>1, <4>2 DEF Mode
    <3>2. board' \in {ImageOf(assembling), Torn}
      BY <1>1, <1>5, <3>1, SerialLoadsNothing DEF UploadSucceeds, Outgoing
    <3>3. Current' = Current
      BY <1>1, <1>5 DEF Current
    <3>4. /\ UpToDate(assembling, Current)
          /\ assembling.version <= against.version
          /\ assembling.outcome = "good"
      BY <1>1, <2>5, <3>1 DEF IInv, Assembled
    <3>5. UpToDate(assembling, Current)'
      BY <1>1, <1>5, <3>3, <3>4 DEF UpToDate
    <3>6. (board \in {ImageOf(assembling), Torn})'
      BY <1>5, <3>2 DEF ImageOf
    <3>7. Assembled'
      BY <1>5, <2>1, <2>5, <3>4, <3>5, <3>6 DEF Assembled
    <3>8. Progress'
      BY <1>1, <1>5, <2>1, <2>5 DEF IInv, Progress, OnList
    <3> QED
      BY <1>1, <2>1, <2>2, <2>3, <3>7, <3>8, GoesOn
  <2> QED
    BY <2>4, <2>5
<1>6. CASE args.test_list /\ Skip
  BY <1>1, <1>3, <1>4, <1>6, SkipKeepsIInv
<1>7. CASE /\ ~args.test_list
           /\ ExitWithError(1)
           /\ UNCHANGED << assembling, against, index, results >>
  <2>1. Moves
    BY <1>1, <1>3, <1>7 DEF Moves
  <2> QED
    BY <1>1, <1>7, <2>1, GivingUp
<1> QED
  BY <1>5, <1>6, <1>7, Zenon DEF Upload

LEMMA ResultIsJudged ==
  ASSUME JudgedOnBoard, args' = args, results \in Seq(AnyResult),
         NEW r \in AnyResult, results' = Append(results, r),
         args.emulate_test \/ ( /\ r.on_board \in {r.assembled, Torn}
                                /\ r.assembled.of = r.of
                                /\ r.assembled.version <= r.against )
  PROVE  JudgedOnBoard'
<1>1. \A i \in 1..Len(results') :
        \/ i \in 1..Len(results) /\ results'[i] = results[i]
        \/ results'[i] = r
  OBVIOUS
<1> QED
  BY <1>1 DEF JudgedOnBoard

LEMMA Singleton ==
  ASSUME NEW r, NEW s, s = << r >>
  PROVE  1..Len(s) = {1} /\ s[1] = r
<1>1. Len(s) = 1 /\ s[1] = r
  OBVIOUS
<1> QED
  BY <1>1

LEMMA TestExitCodes ==
  ASSUME NEW v \in Verdict, NEW code, code = TestExit(v)
  PROVE  /\ code \in {0, 2, 3}
         /\ code = 2 <=> v.failed /\ ~v.timed_out
         /\ code = 3 <=> v.timed_out
<1>1. v.timed_out => code = 3
  BY DEF TestExit
<1>2. ~v.timed_out /\ v.failed => code = 2
  BY DEF TestExit
<1>3. ~v.timed_out /\ ~v.failed => code = 0
  BY DEF TestExit
<1>4. v.timed_out \in BOOLEAN /\ v.failed \in BOOLEAN
  BY DEF Verdict
<1> QED
  BY <1>1, <1>2, <1>3, <1>4

(* The exit of -T: of one verdict.                                         *)
LEMMA OneVerdict ==
  ASSUME NEW r, results' = << r >>, r.verdict \in Verdict, args' = args,
         Task(args) = "read source", exit' = TestExit(r.verdict)
  PROVE  ExitTellsResults' /\ exit' \in 0..3
<1>1. 1..Len(results') = {1} /\ results'[1] = r
  BY Singleton
<1>2. Fails(r) <=> r.verdict.failed \/ r.verdict.timed_out
  BY DEF Fails
<1>3. /\ {i \in 1..Len(results') : Fails(results'[i])} # {} <=> Fails(r)
      /\ {i \in 1..Len(results') : results'[i].verdict.timed_out} # {} <=> r.verdict.timed_out
  BY <1>1
<1>4. /\ exit' \in {0, 2, 3}
      /\ exit' = 2 <=> r.verdict.failed /\ ~r.verdict.timed_out
      /\ exit' = 3 <=> r.verdict.timed_out
  BY TestExitCodes
<1>5. ExitTellsResults'
  BY <1>2, <1>3, <1>4 DEF ExitTellsResults
<1> QED
  BY <1>4, <1>5, ExitCodes

LEMMA JudgeKeepsIInv == IInv /\ Judge => IInv'
<1> SUFFICES ASSUME IInv, Judge PROVE IInv'
  OBVIOUS
<1>1. /\ UNCHANGED << source, board, args, file, list, kbt, wanted >>
      /\ at = "judge"
      /\ assembling' = NoSource /\ against' = NoSource
  BY DEF Judge, given, files
<1>2. PICK failed \in BOOLEAN, timed_out \in BOOLEAN :
        LET verdict == [skipped |-> FALSE, failed |-> failed, timed_out |-> timed_out]
        IN  /\ results' = Append(results, [of |-> Current, assembled |-> ImageOf(assembling),
                             on_board |-> board, against |-> against.version,
                             verdict |-> verdict])
            /\ IF args.test_list
               THEN Continue("suite") /\ index' = NextIndex
               ELSE Exit(TestExit(verdict)) /\ index' = index
  BY DEF Judge
<1> DEFINE verdict == [skipped |-> FALSE, failed |-> failed, timed_out |-> timed_out]
           r == [of |-> Current, assembled |-> ImageOf(assembling), on_board |-> board,
                 against |-> against.version, verdict |-> verdict]
<1>3. /\ results' = Append(results, r)
      /\ args.test_list => Continue("suite") /\ index' = NextIndex
      /\ ~args.test_list => Exit(TestExit(verdict)) /\ index' = index
  BY <1>2
<1>4. ~args.monitor /\ (ReadsSource \/ RunsList)
  BY <1>1 DEF IInv, Control
<1>5. Current \in Kla /\ (args.test_list => Current = list[index])
  BY <1>1, <1>4, CurrentIsASource
<1>6. /\ board \in AnyImage /\ assembling \in AnySource /\ against \in AnySource
      /\ results \in Seq(AnyResult)
  BY DEF IInv, Typed
<1>7. ImageOf(assembling) \in AnyImage
  BY <1>6 DEF ImageOf, AnyImage, AnySource
<1>8. r \in AnyResult /\ r.of = Current /\ r.verdict = verdict /\ verdict \in Verdict
  BY <1>5, <1>6, <1>7 DEF AnyResult, AnySource, Verdict
<1>9. /\ r.on_board \in {r.assembled, Torn}
      /\ r.assembled.of = r.of
      /\ r.assembled.version <= r.against
  BY <1>1, <1>4 DEF IInv, Assembled, UpToDate, ImageOf
<1> HIDE DEF r, verdict
<1>10. JudgedOnBoard'
  BY <1>1, <1>3, <1>6, <1>8, <1>9, ResultIsJudged DEF IInv
<1>11. KbtsCurrent' /\ OnlyCleanPrograms'
  BY <1>1, SameKbt DEF IInv, OnlyCleanPrograms
<1>12. NoSource \in AnySource
  BY DEF NoSource, AnySource, Outcomes
<1>13. CASE args.test_list
  <2>1. RunsList /\ index <= Len(list)
    BY <1>1, <1>4, <1>13 DEF ReadsSource, Task, IInv, Progress
  <2>2. at' = "suite" /\ exit' = exit /\ index' = index + 1
    BY <1>3, <1>13 DEF Continue, NextIndex
  <2>3. /\ results' \in Seq(AnyResult)
        /\ index' \in Nat \ {0}
        /\ index' <= Len(list') + 1
        /\ Len(results') = index' - 1
        /\ \A i \in 1..Len(results') : results'[i].of = list'[i]
    BY <1>1, <1>3, <1>5, <1>8, <1>13, <2>1, <2>2, OneMoreResult
  <2>4. Typed'
    BY <1>1, <1>12, <2>2, <2>3 DEF IInv, Typed
  <2>5. Control'
    BY <1>1, <2>1, <2>2 DEF IInv, Control, RunsList
  <2>6. Progress' /\ Assembled'
    BY <2>2, <2>3 DEF Progress, OnList, Assembled
  <2>7. ExitTellsResults'
    BY <2>2, NotExited
  <2> QED
    BY <1>10, <1>11, <2>4, <2>5, <2>6, <2>7 DEF IInv
<1>14. CASE ~args.test_list
  <2>1. Task(args) = "read source"
    BY <1>4, <1>14 DEF ReadsSource, RunsList, Task
  <2>2. at' = "exited" /\ exit' = TestExit(verdict) /\ index' = index
    BY <1>3, <1>14 DEF Exit
  <2>3. results' = << r >> /\ results' \in Seq(AnyResult)
    <3>1. results = << >>
      BY <1>1, <1>14 DEF IInv, Progress
    <3> QED
      BY <1>3, <1>8, <3>1
  <2>4. ExitTellsResults' /\ exit' \in 0..3
    BY <1>1, <1>8, <2>1, <2>2, <2>3, OneVerdict
  <2>5. Typed'
    BY <1>1, <1>12, <2>2, <2>3, <2>4 DEF IInv, Typed
  <2>6. Control'
    BY <1>1, <2>2 DEF IInv, Control
  <2>7. Progress' /\ Assembled'
    BY <2>2 DEF Progress, OnList, Assembled
  <2> QED
    BY <1>10, <1>11, <2>4, <2>5, <2>6, <2>7 DEF IInv
<1> QED
  BY <1>13, <1>14

-----------------------------------------------------------------------------
(* Tests in the emulator.                                                  *)

LEMMA VerifyExpectedKeepsIInv == IInv /\ VerifyExpected => IInv'
<1> SUFFICES ASSUME IInv, VerifyExpected PROVE IInv'
  OBVIOUS
<1>1. /\ UNCHANGED << source, board, args, file, list, results, kbt, wanted, assembling >>
      /\ at = "verify" /\ at' \in {"verify", "verify run"} /\ exit' = exit
      /\ at' = "verify run" => index' = index
      /\ against' \in {against, source[Current]}
  BY DEF VerifyExpected, Continue, given, files
<1>2. index <= Len(list) /\ index' \in {index, index + 1}
  BY DEF VerifyExpected, IndexWhenPassedOver
<1>3. Verifies /\ args.emulate_test
  BY <1>1 DEF IInv, Control, Verifies, Task
<1>4. index \in Nat \ {0} /\ Len(list) \in Nat /\ list \in Seq(Kla)
  BY DEF IInv, Typed
<1>5. source[Current] \in AnySource
  <2>1. Current = list[index]
    BY <1>3 DEF Current
  <2>2. list[index] \in Kla
    BY <1>2, <1>4
  <2> QED
    BY <2>1, <2>2 DEF IInv, Typed
<1>6. index' \in Nat \ {0} /\ index' <= Len(list) + 1
  BY <1>2, <1>4
<1>7. Typed'
  <2>1. against' \in AnySource
    BY <1>1, <1>5 DEF IInv, Typed
  <2> QED
    BY <1>1, <1>6, <2>1 DEF IInv, Typed
<1>8. Control'
  BY <1>1, <1>3 DEF IInv, Control, Verifies
<1>9. Progress' /\ Assembled'
  <2>1. ~(at' \in {"suite", "expect", "upload", "judge"})
    BY <1>1
  <2>2. at' = "verify run" => index' <= Len(list')
    BY <1>1, <1>2
  <2>3. Progress'
    BY <1>1, <1>6, <2>1, <2>2 DEF Progress, OnList
  <2> QED
    BY <1>1, <2>3 DEF Assembled
<1>10. KbtsCurrent' /\ OnlyCleanPrograms' /\ JudgedOnBoard'
  BY <1>1, SameKbt, SameJudged DEF IInv, OnlyCleanPrograms
<1>11. ExitTellsResults'
  BY <1>1, NotExited
<1> QED
  BY <1>7, <1>8, <1>9, <1>10, <1>11 DEF IInv

LEMMA VerifyRunKeepsIInv == IInv /\ VerifyRun => IInv'
<1> SUFFICES ASSUME IInv, VerifyRun PROVE IInv'
  OBVIOUS
<1>1. /\ UNCHANGED << source, board, args, file, list, kbt, wanted, assembling >>
      /\ at = "verify run" /\ at' = "verify" /\ exit' = exit
      /\ against' = NoSource
  BY DEF VerifyRun, Continue, given, files
<1>2. index' = index + 1
  BY DEF VerifyRun, NextIndex
<1>3. PICK failed \in BOOLEAN :
        results' = Append(results, [of |-> Current, assembled |-> ImageOf(source[Current]),
                     on_board |-> NoImage, against |-> against.version,
                     verdict |-> [skipped |-> FALSE, failed |-> failed, timed_out |-> FALSE]])
  BY DEF VerifyRun
<1> DEFINE r == [of |-> Current, assembled |-> ImageOf(source[Current]),
                 on_board |-> NoImage, against |-> against.version,
                 verdict |-> [skipped |-> FALSE, failed |-> failed, timed_out |-> FALSE]]
<1>4. Verifies /\ args.emulate_test
  BY <1>1 DEF IInv, Control, Verifies, Task
<1>5. /\ index \in Nat \ {0} /\ Len(list) \in Nat /\ index <= Len(list)
      /\ results \in Seq(AnyResult)
  <2>1. index <= Len(list)
    BY <1>1 DEF IInv, Progress
  <2> QED
    BY <2>1 DEF IInv, Typed
<1>6. Current \in Kla
  BY <1>4, <1>5 DEF Current, IInv, Typed
<1>7. source[Current] \in AnySource /\ against.version \in Nat
  BY <1>6 DEF IInv, Typed, AnySource
<1>8. ImageOf(source[Current]) \in AnyImage /\ NoImage \in AnyImage
  BY <1>7 DEF ImageOf, NoImage, AnyImage, AnySource
<1>9. r \in AnyResult
  BY <1>6, <1>7, <1>8 DEF AnyResult, Verdict
<1>10. results' = Append(results, r)
  BY <1>3
<1> HIDE DEF r
<1>11. results' \in Seq(AnyResult)
  BY <1>5, <1>9, <1>10
<1>12. NoSource \in AnySource
  BY DEF NoSource, AnySource, Outcomes
<1>13. Typed'
  <2>1. index' \in Nat \ {0}
    BY <1>5, <1>2
  <2> QED
    BY <1>1, <1>11, <1>12, <2>1 DEF IInv, Typed
<1>14. Control'
  BY <1>1, <1>4 DEF IInv, Control, Verifies
<1>15. Progress' /\ Assembled'
  <2>1. index' <= Len(list) + 1
    BY <1>5, <1>2
  <2> QED
    BY <1>1, <2>1 DEF Progress, OnList, Assembled
<1>16. KbtsCurrent' /\ OnlyCleanPrograms'
  BY <1>1, SameKbt DEF IInv, OnlyCleanPrograms
<1>17. JudgedOnBoard'
  BY <1>1, <1>4, <1>5, <1>9, <1>10, ResultIsJudged DEF IInv
<1>18. ExitTellsResults'
  BY <1>1, NotExited
<1> QED
  BY <1>13, <1>14, <1>15, <1>16, <1>17, <1>18 DEF IInv

-----------------------------------------------------------------------------
(* The user and the shell.                                                 *)

(* An edit makes a file newer, and leaves all else as it is.               *)
LEMMA EditKeepsIInv == IInv /\ Edit => IInv'
<1> SUFFICES ASSUME IInv, Edit PROVE IInv'
  OBVIOUS
<1>1. UNCHANGED << kbt, wanted, board, at, args, file, list, index, results,
                   assembling, against, exit >>
  BY DEF Edit, given, files, reading
<1>2. PICK f \in Named, edit \in Edited :
        source' = [source EXCEPT ![f] = [of |-> f, version |-> @.version + 1,
                     outcome |-> edit.outcome, expected |-> edit.expected]]
  BY DEF Edit
<1>3. f \in Kla /\ edit.outcome \in Outcomes /\ edit.expected \in BOOLEAN
  BY CommandsAssumption
<1>4. source \in [Kla -> AnySource] /\ source[f].version \in Nat
  BY <1>3 DEF IInv, Typed, AnySource
<1> DEFINE new == [of |-> f, version |-> source[f].version + 1,
                   outcome |-> edit.outcome, expected |-> edit.expected]
<1>5. new \in AnySource /\ new.of = f /\ source[f].version <= new.version
  BY <1>3, <1>4 DEF AnySource
<1>6. source' = [source EXCEPT ![f] = new]
  BY <1>2
<1> HIDE DEF new
<1>7. \A g \in Kla : source'[g] = IF g = f THEN new ELSE source[g]
  BY <1>4, <1>6
<1>8. source' \in [Kla -> AnySource]
  BY <1>4, <1>5, <1>6
<1>9. \A g \in Kla : UpToDate(assembling, g) => UpToDate(assembling, g)'
  <2> SUFFICES ASSUME NEW g \in Kla, UpToDate(assembling, g)
               PROVE  UpToDate(assembling, g)'
    OBVIOUS
  <2>1. /\ assembling.version \in Nat
        /\ source[g].version \in Nat
        /\ source'[g].version \in Nat
    BY <1>4, <1>8 DEF IInv, Typed, AnySource
  <2>2. source[g].version <= source'[g].version
    BY <1>5, <1>7, <2>1
  <2>3. assembling.of = g /\ assembling.version <= source'[g].version
    BY <2>1, <2>2 DEF UpToDate
  <2> QED
    BY <1>1, <2>3 DEF UpToDate
<1>10. Typed'
  <2>1. \A g \in Kla : source'[g].of = g
    BY <1>5, <1>7 DEF IInv, Typed
  <2> QED
    BY <1>1, <1>8, <2>1 DEF IInv, Typed
<1>11. Control'
  BY <1>1 DEF IInv, Control, ReadsSource, RunsList, Verifies
<1>12. Progress'
  BY <1>1 DEF IInv, Progress
<1>13. Assembled'
  <2>1. at \in {"listing", "binary output"} => file \in Kla
    BY DEF IInv, Control, ReadsSource
  <2>2. at \in {"expect", "upload", "judge"} /\ ~args.monitor => Current \in Kla
    BY CurrentIsASource
  <2>3. Current' = Current /\ ImageOf(assembling)' = ImageOf(assembling)
    BY <1>1 DEF Current, ImageOf
  <2>4. at \in {"listing", "binary output"} => UpToDate(assembling, file)'
    <3>1. at \in {"listing", "binary output"} => UpToDate(assembling, file)
      BY DEF IInv, Assembled
    <3> QED
      BY <1>1, <1>9, <2>1, <3>1 DEF UpToDate
  <2>5. at \in {"expect", "upload", "judge"} /\ ~args.monitor =>
          UpToDate(assembling, Current)'
    <3>1. at \in {"expect", "upload", "judge"} /\ ~args.monitor =>
            UpToDate(assembling, Current)
      BY DEF IInv, Assembled
    <3> QED
      BY <1>1, <1>9, <2>2, <2>3, <3>1 DEF UpToDate
  <2> QED
    BY <1>1, <2>3, <2>4, <2>5 DEF IInv, Assembled
<1>14. KbtsCurrent' /\ OnlyCleanPrograms' /\ JudgedOnBoard' /\ ExitTellsResults'
  BY <1>1 DEF IInv, KbtsCurrent, IsCurrent, OnItsWay, OnlyCleanPrograms, JudgedOnBoard,
              ExitTellsResults
<1> QED
  BY <1>10, <1>11, <1>13, <1>14, <1>12 DEF IInv

LEMMA InvokeKeepsIInv == IInv /\ Invoke => IInv'
<1> SUFFICES ASSUME IInv, Invoke PROVE IInv'
  OBVIOUS
<1>1. /\ UNCHANGED << source, board, index, results, kbt, wanted, assembling, against >>
      /\ at = "idle" /\ at' = Mode(args') /\ exit' = exit
  BY DEF Invoke, Continue, files, reading
<1>2. args' \in Args /\ Accepted(args')
  BY CommandsAssumption DEF Invoke
<1>3. list' \in Seq(Kla)
  <2>1. list' \in TestLists \/ list' = << >>
    BY DEF Invoke
  <2>2. TestLists \subseteq Seq(Kla)
    BY CommandsAssumption
  <2>3. << >> \in Seq(Kla)
    OBVIOUS
  <2> QED
    BY <2>1, <2>2, <2>3
<1>4. /\ args'.input = "kla" => file' \in Kla
      /\ args'.input \in {"kbt", "binary"} => file' \in Stems
  <2>1. file' \in CASE args'.input = "kla" -> Named
                    [] args'.input = "kbt" -> Named \cup {BinaryStem}
                    [] args'.input = "binary" -> {BinaryStem}
                    [] OTHER -> {"none"}
    BY DEF Invoke
  <2>2. Named \subseteq Kla
    BY CommandsAssumption
  <2>3. CASE args'.input = "kla"
    BY <2>1, <2>2, <2>3
  <2>4. CASE args'.input = "kbt"
    BY <2>1, <2>2, <2>4 DEF Stems
  <2>5. CASE args'.input = "binary"
    BY <2>1, <2>5 DEF Stems
  <2> QED
    BY <2>3, <2>4, <2>5
<1>5. /\ at' \in {"monitor", "net", "mem", "binary", "kbt", "opcodes"}
      /\ at' = "monitor" => args'.monitor
      /\ at' \in {"net", "mem"} => args'.load = at'
  BY <1>1, <1>2 DEF Mode, Args
<1>6. results = << >> /\ index = 1
  BY <1>1 DEF IInv, Progress, OnList
<1>7. Typed'
  BY <1>1, <1>3 DEF IInv, Typed
<1>8. Control'
  BY <1>1, <1>2, <1>4, <1>5 DEF Control
<1>9. Progress' /\ Assembled'
  BY <1>1, <1>5, <1>6 DEF Progress, OnList, Assembled
<1>10. KbtsCurrent' /\ OnlyCleanPrograms'
  BY <1>1, SameKbt DEF IInv, OnlyCleanPrograms
<1>11. JudgedOnBoard'
  BY <1>1, <1>6 DEF JudgedOnBoard
<1>12. ExitTellsResults'
  BY <1>5, NotExited
<1> QED
  BY <1>7, <1>8, <1>9, <1>10, <1>11, <1>12 DEF IInv

LEMMA LeaveKeepsIInv == IInv /\ Leave => IInv'
<1> SUFFICES ASSUME IInv, Leave PROVE IInv'
  OBVIOUS
<1>1. /\ UNCHANGED << source, board, kbt, wanted >>
      /\ at = "exited" /\ at' = "idle"
      /\ args' = NoArgs /\ file' = "none" /\ list' = << >> /\ index' = 1
      /\ assembling' = NoSource /\ against' = NoSource
      /\ results' = << >> /\ exit' = 0
  BY DEF Leave, files
<1>2. Typed'
  <2>1. NoSource \in AnySource
    BY DEF NoSource, AnySource, Outcomes
  <2>2. << >> \in Seq(AnyResult) /\ << >> \in Seq(Kla) /\ 1 \in Nat \ {0} /\ 0 \in 0..3
    OBVIOUS
  <2> QED
    BY <1>1, <2>1, <2>2 DEF IInv, Typed
<1>3. Control'
  BY <1>1 DEF Control, NoArgs, Args
<1>4. Progress' /\ Assembled'
  BY <1>1 DEF Progress, OnList, Assembled
<1>5. KbtsCurrent' /\ OnlyCleanPrograms'
  BY <1>1, SameKbt DEF IInv, OnlyCleanPrograms
<1>6. JudgedOnBoard'
  BY <1>1 DEF JudgedOnBoard
<1>7. ExitTellsResults'
  BY <1>1, NotExited
<1> QED
  BY <1>2, <1>3, <1>4, <1>5, <1>6, <1>7 DEF IInv

-----------------------------------------------------------------------------
LEMMA StutterKeepsIInv == IInv /\ UNCHANGED vars => IInv'
<1> SUFFICES ASSUME IInv, UNCHANGED vars PROVE IInv'
  OBVIOUS
<1>1. UNCHANGED << source, kbt, wanted, board, at, args, file, list, index, results,
                   assembling, against, exit >>
  BY DEF vars
<1>2. Typed'
  BY <1>1 DEF IInv, Typed
<1>3. Control'
  BY <1>1 DEF IInv, Control, ReadsSource, RunsList, Verifies
<1>4. Progress'
  BY <1>1 DEF IInv, Progress
<1>5. Assembled'
  BY <1>1 DEF IInv, Assembled, UpToDate, Current, ImageOf
<1>6. KbtsCurrent' /\ OnlyCleanPrograms' /\ JudgedOnBoard' /\ ExitTellsResults'
  BY <1>1 DEF IInv, KbtsCurrent, IsCurrent, OnItsWay, OnlyCleanPrograms, JudgedOnBoard,
              ExitTellsResults
<1> QED
  BY <1>2, <1>3, <1>4, <1>5, <1>6 DEF IInv

LEMMA NextKeepsIInv == IInv /\ [Next]_vars => IInv'
<1> SUFFICES ASSUME IInv, [Next]_vars PROVE IInv'
  OBVIOUS
<1>1. CASE Invoke
  BY <1>1, InvokeKeepsIInv
<1>2. CASE Edit
  BY <1>2, EditKeepsIInv
<1>3. CASE Leave \/ Monitor \/ Flatten \/ NetLoad \/ MemOut \/ EmulateBinary
  BY <1>3, LeaveKeepsIInv, MonitorKeepsIInv, FlattenKeepsIInv, NetLoadKeepsIInv,
     MemOutKeepsIInv, EmulateBinaryKeepsIInv
<1>4. CASE ElfToSerial \/ Kbt \/ Opcodes \/ ReadSource \/ Emulate \/ WriteListing
  BY <1>4, ElfToSerialKeepsIInv, KbtKeepsIInv, OpcodesKeepsIInv, ReadSourceKeepsIInv,
     EmulateKeepsIInv, WriteListingKeepsIInv
<1>5. CASE WriteBinary \/ EndOfMain \/ TestList \/ SuiteAssemble \/ ReadExpected \/ Upload
  BY <1>5, WriteBinaryKeepsIInv, EndOfMainKeepsIInv, TestListKeepsIInv,
     SuiteAssembleKeepsIInv, ReadExpectedKeepsIInv, UploadKeepsIInv
<1>6. CASE Judge \/ SuiteEnds \/ WriteToDevice \/ EmulateTest
  BY <1>6, JudgeKeepsIInv, SuiteEndsKeepsIInv, WriteToDeviceKeepsIInv,
     EmulateTestKeepsIInv
<1>7. CASE VerifyExpected \/ VerifyRun \/ VerifyEnds
  BY <1>7, VerifyExpectedKeepsIInv, VerifyRunKeepsIInv, VerifyEndsKeepsIInv
<1>8. CASE UNCHANGED vars
  BY <1>8, StutterKeepsIInv
<1> QED
  BY <1>1, <1>2, <1>3, <1>4, <1>5, <1>6, <1>7, <1>8, Zenon DEF Next, Process

(***************************************************************************)
(* The invariant holds in every state of every sequence of commands.       *)
(***************************************************************************)
THEOREM IInvAlways == Spec => []IInv
BY InitIInv, NextKeepsIInv, PTL DEF Spec

(***************************************************************************)
(* Whatever commands are given and whatever the user edits meanwhile, no   *)
(* program that was assembled with errors gets into a .kbt file or onto    *)
(* the board: main() and run_test_list write and send only what assembled. *)
(***************************************************************************)
THEOREM OnlyCleanProgramsAlways == Spec => []OnlyCleanPrograms
<1>1. IInv => OnlyCleanPrograms
  BY DEF IInv
<1> QED
  BY <1>1, IInvAlways, PTL

(***************************************************************************)
(* A test is judged on the output of the program that was assembled for it *)
(* (or of none), against expected values that are not older.               *)
(***************************************************************************)
THEOREM JudgedOnBoardAlways == Spec => []JudgedOnBoard
<1>1. IInv => JudgedOnBoard
  BY DEF IInv
<1> QED
  BY <1>1, IInvAlways, PTL

(***************************************************************************)
(* When a process has ended, the .kbt beside a source is that of the last  *)
(* assembly for it, or there is none, except for an old one that stayed    *)
(* because an output file could not be written or because the source did   *)
(* not assemble in a test list.                                            *)
(***************************************************************************)
THEOREM NoStaleImageAlways == Spec => []NoStaleImage
<1>1. IInv => NoStaleImage
  BY DEF IInv, KbtsCurrent, IsCurrent, OnItsWay, NoStaleImage
<1> QED
  BY <1>1, IInvAlways, PTL

(***************************************************************************)
(* The exit status of a test or of a list of tests says how it went, and a *)
(* list that ran to its end has a result for each of its files.            *)
(***************************************************************************)
THEOREM ExitTellsResultsAlways == Spec => []ExitTellsResults
<1>1. IInv => ExitTellsResults
  BY DEF IInv
<1> QED
  BY <1>1, IInvAlways, PTL

-----------------------------------------------------------------------------
(* A monitor that is started for a program follows an upload or a network  *)
(* load of it; every other way to the monitor leads past an Error.         *)
Attached ==
  /\ at = "tail" /\ args.monitor /\ args.serial => errors
  /\ at = "device" => ~args.monitor
  /\ MonitorShowsThisProgram

LEMMA NotAttached ==
  ASSUME at' \notin {"tail", "device", "monitor"}
  PROVE  Attached'
BY DEF Attached, MonitorShowsThisProgram, Sends

LEMMA InitAttached == Init => Attached
BY DEF Init, Attached, MonitorShowsThisProgram, Sends

LEMMA AttachedFrom ==
  ASSUME IInv, Attached, [Next]_vars
  PROVE  Attached'
<1>1. CASE UNCHANGED << at, args, errors, board, kbt, file, assembling >>
  BY <1>1 DEF Attached, MonitorShowsThisProgram, Sends, Outgoing, ImageOf
<1>2. CASE Invoke
  <2>1. args' \in Args /\ at' = Mode(args')
    BY <1>2, CommandsAssumption DEF Invoke, Continue
  <2>2. at' \notin {"tail", "device"} /\ (at' = "monitor" => args'.input = "none" /\ args'.load = "none")
    BY <2>1 DEF Mode, Args
  <2>3. QED
    BY <2>2 DEF Attached, MonitorShowsThisProgram, Sends
<1>3. CASE Edit
  BY <1>1, <1>3 DEF Edit, given, files, reading
<1>4. CASE Leave \/ Monitor \/ MemOut \/ EmulateBinary \/ Emulate \/ SuiteEnds \/ VerifyEnds
  <2>1. at' \in {"idle", "exited"}
    BY <1>4, Zenon DEF Leave, Monitor, MemOut, EmulateBinary, Emulate, SuiteEnds, VerifyEnds,
                       Exit, ExitWithError
  <2>2. QED
    BY <2>1, NotAttached
<1>5. CASE Flatten \/ TestList \/ EmulateTest \/ VerifyExpected \/ VerifyRun
  <2>1. at' \in {"exited", "suite", "verify", "verify run"} \/ at' = at
    BY <1>5, Zenon DEF Flatten, TestList, EmulateTest, VerifyExpected, VerifyRun, Continue,
                       Exit, ExitWithError
  <2>2. at \in {"net", "mem", "binary", "test list", "emulate test", "verify", "verify run"}
    BY <1>5 DEF Flatten, TestList, EmulateTest, VerifyExpected, VerifyRun
  <2>3. QED
    BY <2>1, <2>2, NotAttached
<1>6. CASE NetLoad
  <2>1. at = "net" /\ args' = args
    BY <1>6 DEF NetLoad, given
  <2>2. args.load = "net"
    BY <2>1 DEF IInv, Control
  <2>3. at' \in {"exited", "monitor"}
    BY <1>6, Zenon DEF NetLoad, Continue, Exit, ExitWithError
  <2>4. at' = "monitor" => errors' \/ board' = BinaryImage
    BY <1>6, Zenon DEF NetLoad, ExitWithError, Exit
  <2>5. Outgoing' = BinaryImage
    BY <2>1, <2>2 DEF Outgoing
  <2>6. QED
    BY <2>1, <2>3, <2>4, <2>5 DEF Attached, MonitorShowsThisProgram, Sends
<1>7. CASE ElfToSerial \/ Kbt
  <2>1. at' \in {"upload", "exited"} \/ (at' = "device" /\ ~args.monitor)
    BY <1>7, Zenon DEF ElfToSerial, Kbt, Continue, Exit, ExitWithError
  <2>2. args' = args
    BY <1>7 DEF ElfToSerial, Kbt, given
  <2>3. QED
    BY <2>1, <2>2 DEF Attached, MonitorShowsThisProgram, Sends
<1>8. CASE Opcodes \/ ReadSource \/ WriteListing \/ SuiteAssemble \/ ReadExpected
  <2>1. at' \in {"exited", "emulate test", "test list", "read source", "listing",
                 "binary output", "suite", "expect", "upload"}
    BY <1>8, Zenon DEF Opcodes, ReadSource, WriteListing, SuiteAssemble, ReadExpected, Task,
                       Skip, Continue, Exit, ExitWithError
  <2>2. QED
    BY <2>1, NotAttached
<1>9. CASE WriteBinary
  <2>1. args' = args
    BY <1>9 DEF WriteBinary, given
  <2>2. \/ at' = "tail" /\ errors' = TRUE
        \/ at' = AfterOutput
    BY <1>9, Zenon DEF WriteBinary, Continue
  <2>3. AfterOutput \in {"expect", "upload"} \/ (AfterOutput = "tail" /\ ~args.serial)
          \/ (AfterOutput = "device" /\ ~args.monitor)
    BY DEF AfterOutput
  <2>4. QED
    BY <2>1, <2>2, <2>3 DEF Attached, MonitorShowsThisProgram, Sends
<1>10. CASE EndOfMain
  <2>1. args' = args /\ at = "tail"
    BY <1>10 DEF EndOfMain, given
  <2>2. at' = "exited" \/ (at' = "monitor" /\ args.monitor /\ args.serial /\ errors' = errors)
    BY <1>10, Zenon DEF EndOfMain, Continue, Exit, ExitWithError
  <2>3. at' = "monitor" => errors'
    BY <2>1, <2>2, Zenon DEF Attached
  <2>4. QED
    BY <2>1, <2>2, <2>3, Zenon DEF Attached, MonitorShowsThisProgram, Sends
<1>11. CASE Upload
  <2>1. at' \in {"exited", "suite", "judge"} \/ (at' = "monitor" /\ UploadSucceeds(Outgoing))
    BY <1>11, Zenon DEF Upload, Skip, Continue, Exit, ExitWithError
  <2>2. args' = args /\ kbt' = kbt /\ file' = file
    BY <1>11 DEF Upload, given, files
  <2>3. CASE UploadSucceeds(Outgoing) /\ assembling' = assembling
    <3>1. Outgoing' = Outgoing
      BY <2>2, <2>3 DEF Outgoing, ImageOf
    <3>2. board' \in {Outgoing, Torn}
      BY <2>3 DEF UploadSucceeds
    <3>3. args'.load = "none"
      BY <1>11, <2>2, SerialLoadsNothing DEF Upload
    <3>4. QED
      BY <2>1, <3>1, <3>2, <3>3 DEF Attached, MonitorShowsThisProgram, Sends
  <2>4. CASE UploadFails /\ at' \in {"exited", "suite"}
    BY <2>4, NotAttached
  <2>5. QED
    BY <1>11, <2>3, <2>4, Zenon DEF Upload, Skip, Continue, Exit, ExitWithError
<1>12. CASE Judge
  <2>1. at' \in {"suite", "exited"}
    BY <1>12, Zenon DEF Judge, Continue, Exit
  <2>2. QED
    BY <2>1, NotAttached
<1>13. CASE WriteToDevice
  <2>1. at = "device" /\ args' = args
    BY <1>13 DEF WriteToDevice, given
  <2>2. at' \in {"tail", "exited"}
    BY <1>13, Zenon DEF WriteToDevice, Continue, Exit
  <2>3. QED
    BY <2>1, <2>2 DEF Attached, MonitorShowsThisProgram, Sends
<1>14. CASE UNCHANGED vars
  BY <1>1, <1>14 DEF vars
<1>15. QED
  BY <1>2, <1>3, <1>4, <1>5, <1>6, <1>7, <1>8, <1>9, <1>10, <1>11, <1>12, <1>13, <1>14,
     Zenon DEF Next, Process

THEOREM MonitorShowsThisProgramAlways == Spec => []MonitorShowsThisProgram
<1>1. Attached => MonitorShowsThisProgram
  BY DEF Attached
<1>2. IInv /\ Attached /\ [Next]_vars => Attached'
  BY AttachedFrom
<1>3. QED
  BY <1>1, <1>2, InitAttached, IInvAlways, PTL DEF Spec

-----------------------------------------------------------------------------
(* The bounds of TypeOK: every version there is anywhere is one a source   *)
(* has had, and an edit that is still allowed finds each version below the *)
(* number of edits, which is their sum.                                    *)
Stored ==
  /\ source \in [Kla -> Source]
  /\ kbt \in [Stems -> Image]
  /\ board \in Image
  /\ assembling \in Source \cup {NoSource}
  /\ against \in Source \cup {NoSource}
  /\ \A i \in 1..Len(results) : results[i] \in Result
  /\ shown \in Image
  /\ wanted \in [Stems -> 0..MaxEdits \cup {Failed}]

Course ==
  /\ at \in Steps
  /\ args \in {NoArgs} \cup CommandLines
  /\ file \in Stems \cup {"none"}
  /\ list \in {<< >>} \cup TestLists
  /\ index \in 1..(Len(list) + 1)
  /\ errors \in BOOLEAN
  /\ loaded \in Binaries \cup {NoBinary}
  /\ exit \in 0..3

LEMMA TypeSplit == TypeOK <=> Stored /\ Course
BY DEF TypeOK, Stored, Course

LEMMA VersionsBelowEdits ==
  ASSUME source \in [Kla -> Source], NEW f \in Kla
  PROVE  Edits \in Int /\ source[f].version <= Edits
<1> DEFINE v == [g \in Kla |-> source[g].version]
<1>1. IsFiniteSet(Kla)
  BY CommandsAssumption
<1>2. \A g \in Kla : v[g] \in Nat /\ v[g] \in Int
  BY CommandsAssumption DEF Source
<1>3. Edits = SumFunctionOnSet(v, Kla)
  BY DEF Edits, SumFunction
<1>4. v[f] = source[f].version
  OBVIOUS
<1> HIDE DEF v
<1>5. SumFunctionOnSet(v, Kla) = v[f] + SumFunctionOnSet(v, Kla \ {f})
  BY <1>1, <1>2, SumRemove
<1>6. IsFiniteSet(Kla \ {f}) /\ \A g \in Kla \ {f} : v[g] \in Nat
  BY <1>1, <1>2, FS_Subset
<1>7. SumFunctionOnSet(v, Kla \ {f}) \in Nat
  BY <1>6, SumNat
<1>8. QED
  BY <1>2, <1>3, <1>4, <1>5, <1>7

-----------------------------------------------------------------------------
(* The data.                                                               *)

LEMMA ImageTypes ==
  /\ NoImage \in Image /\ Torn \in Image /\ BinaryImage \in Image
  /\ \A src \in Source \cup {NoSource} : ImageOf(src) \in Image
BY CommandsAssumption DEF NoImage, Torn, BinaryImage, ImageOf, Source, NoSource, Image

LEMMA OutgoingType ==
  ASSUME IInv, Stored
  PROVE  Outgoing \in Image
<1>1. args.input = "kbt" => kbt[file] \in Image
  BY DEF IInv, Control, Stored
<1>2. QED
  BY <1>1, ImageTypes DEF Outgoing, Stored

-----------------------------------------------------------------------------
(* Which actions touch what.                                               *)
Touches ==
  /\ source' = source \/ Edit
  /\ board' = board \/ NetLoad \/ Upload \/ WriteToDevice
  /\ UNCHANGED files \/ ElfToSerial \/ ReadSource \/ WriteListing \/ WriteBinary
                     \/ SuiteAssemble
  /\ UNCHANGED << assembling, against >> \/ Leave \/ ReadSource \/ SuiteAssemble
       \/ ReadExpected \/ Upload \/ Judge \/ VerifyExpected \/ VerifyRun
  /\ results' = results \/ Leave \/ SuiteAssemble \/ ReadExpected \/ Upload \/ Judge
                        \/ VerifyRun
  /\ shown' = shown \/ Leave \/ Monitor
  /\ UNCHANGED << args, file, list >> \/ Invoke \/ Leave
  /\ loaded' = loaded \/ Leave \/ Flatten \/ NetLoad \/ MemOut \/ EmulateBinary \/ ElfToSerial

LEMMA StepTouches == [Next]_vars => Touches
<1> SUFFICES ASSUME [Next]_vars PROVE Touches
  OBVIOUS
<1> USE DEF given, files, reading
<1>1. CASE Invoke \/ Edit \/ Leave \/ Monitor \/ Flatten
  BY <1>1 DEF Touches, Invoke, Edit, Leave, Monitor, Flatten
<1>2. CASE NetLoad \/ MemOut \/ EmulateBinary \/ ElfToSerial \/ Kbt
  BY <1>2 DEF Touches, NetLoad, MemOut, EmulateBinary, ElfToSerial, Kbt
<1>3. CASE Opcodes \/ ReadSource \/ Emulate \/ WriteListing \/ WriteBinary \/ EndOfMain
  BY <1>3 DEF Touches, Opcodes, ReadSource, Emulate, WriteListing, WriteBinary, EndOfMain
<1>4. CASE TestList \/ SuiteAssemble \/ ReadExpected \/ Upload \/ Judge \/ SuiteEnds
  BY <1>4 DEF Touches, TestList, SuiteAssemble, ReadExpected, Upload, Judge, SuiteEnds
<1>5. CASE WriteToDevice \/ EmulateTest \/ VerifyExpected \/ VerifyRun \/ VerifyEnds
  BY <1>5 DEF Touches, WriteToDevice, EmulateTest, VerifyExpected, VerifyRun, VerifyEnds
<1>6. CASE UNCHANGED vars
  BY <1>6 DEF vars, Touches
<1>7. QED
  BY <1>1, <1>2, <1>3, <1>4, <1>5, <1>6, Zenon DEF Next, Process
-----------------------------------------------------------------------------
(* Each part of TypeOK by the actions that touch it.                       *)

LEMMA SourceTyped ==
  ASSUME TypeOK, Touches
  PROVE  source' \in [Kla -> Source]
<1>1. source \in [Kla -> Source]
  BY DEF TypeOK
<1>2. CASE Edit
  <2>1. PICK f \in Named, edit \in Edited :
          source' = [source EXCEPT ![f] = [of |-> f, version |-> @.version + 1,
                       outcome |-> edit.outcome, expected |-> edit.expected]]
    BY <1>2 DEF Edit
  <2>2. f \in Kla /\ edit.outcome \in Outcomes /\ edit.expected \in BOOLEAN
    BY CommandsAssumption
  <2>3. source[f].version \in Nat /\ source[f].version < MaxEdits
    BY <1>1, <1>2, <2>2, VersionsBelowEdits, CommandsAssumption DEF Edit, Source
  <2>4. source[f].version + 1 \in 0..MaxEdits
    BY <2>3, CommandsAssumption
  <2>5. [of |-> f, version |-> source[f].version + 1,
         outcome |-> edit.outcome, expected |-> edit.expected] \in Source
    BY <2>2, <2>4 DEF Source
  <2>6. QED
    BY <1>1, <2>1, <2>2, <2>5
<1>3. QED
  BY <1>1, <1>2 DEF Touches

LEMMA BoardTyped ==
  ASSUME IInv, TypeOK, Touches
  PROVE  board' \in Image
<1>1. board \in Image /\ Outgoing \in Image /\ Torn \in Image /\ BinaryImage \in Image
  BY OutgoingType, ImageTypes, TypeSplit DEF TypeOK
<1>2. CASE NetLoad
  <2>1. board' = BinaryImage \/ UploadFails
    BY <1>2, Zenon DEF NetLoad
  <2>2. QED
    BY <1>1, <2>1 DEF UploadFails
<1>3. CASE Upload \/ WriteToDevice
  <2>1. board' = board \/ UploadSucceeds(Outgoing) \/ UploadFails
    BY <1>3, Zenon DEF Upload, WriteToDevice
  <2>2. QED
    BY <1>1, <2>1 DEF UploadFails, UploadSucceeds
<1>4. QED
  BY <1>1, <1>2, <1>3 DEF Touches

LEMMA KbtTyped ==
  ASSUME TypeOK, NEW f, NEW image \in Image, f \in Stems,
         KbtWritten(f, image) \/ KbtFails(f)
  PROVE  kbt' \in [Stems -> Image] /\ wanted' \in [Stems -> 0..MaxEdits \cup {Failed}]
<1>1. kbt \in [Stems -> Image] /\ wanted \in [Stems -> 0..MaxEdits \cup {Failed}]
  BY DEF TypeOK
<1>2. image.version \in 0..MaxEdits /\ Torn \in Image
  BY ImageTypes DEF Image
<1>3. QED
  BY <1>1, <1>2 DEF KbtWritten, KbtFails

LEMMA FilesTyped ==
  ASSUME IInv, TypeOK, Touches
  PROVE  kbt' \in [Stems -> Image] /\ wanted' \in [Stems -> 0..MaxEdits \cup {Failed}]
<1>1. kbt \in [Stems -> Image] /\ wanted \in [Stems -> 0..MaxEdits \cup {Failed}]
  BY DEF TypeOK
<1>2. CASE ElfToSerial
  <2>1. file \in Stems
    <3>1. at = "binary"
      BY <1>2 DEF ElfToSerial
    <3>2. Mode(args) = "binary" /\ args \in Args
      BY <3>1 DEF IInv, Control
    <3>3. args.input = "binary"
      BY <3>2 DEF Mode, Args
    <3>4. QED
      BY <3>3 DEF IInv, Control
  <2>2. UNCHANGED files \/ KbtWritten(file, BinaryImage) \/ KbtFails(file)
    BY <1>2, Zenon DEF ElfToSerial
  <2>3. QED
    BY <1>1, <2>1, <2>2, KbtTyped, ImageTypes DEF files
<1>3. CASE ReadSource \/ WriteListing \/ WriteBinary
  <2>1. file \in Kla /\ file \in Stems
    BY <1>3 DEF ReadSource, WriteListing, WriteBinary, IInv, Control, ReadsSource, Stems
  <2>2. source[file].version \in 0..MaxEdits
    BY <2>1 DEF TypeOK, Source
  <2>3. CASE ReadSource \/ WriteListing
    BY <1>1, <2>1, <2>2, <2>3 DEF ReadSource, WriteListing
  <2>4. CASE WriteBinary
    <3>1. \/ KbtWritten(file, ImageOf(assembling)) \/ KbtFails(file)
          \/ KbtRemoved /\ wanted' = wanted
      BY <2>4, Zenon DEF WriteBinary
    <3>2. ImageOf(assembling) \in Image /\ NoImage \in Image
      BY ImageTypes DEF TypeOK
    <3>3. QED
      BY <1>1, <2>1, <3>1, <3>2, KbtTyped DEF KbtRemoved
  <2>5. QED
    BY <1>3, <2>3, <2>4
<1>4. CASE SuiteAssemble
  <2>1. CASE /\ kbt' = kbt
             /\ wanted' = wanted \/ wanted' = [wanted EXCEPT ![Current] = Failed]
    BY <1>1, <2>1
  <2>2. CASE KbtWritten(Current, ImageOf(source[Current])) \/ KbtFails(Current)
    <3>1. Current \in Kla
      BY <1>4, CurrentIsASource DEF SuiteAssemble
    <3>2. Current \in Stems /\ ImageOf(source[Current]) \in Image
      BY <3>1, ImageTypes DEF Stems, TypeOK
    <3>3. QED
      BY <2>2, <3>2, KbtTyped
  <2>3. QED
    BY <1>4, <2>1, <2>2, Zenon DEF SuiteAssemble
<1>5. QED
  BY <1>1, <1>2, <1>3, <1>4 DEF Touches, files
LEMMA ListTyped ==
  ASSUME IInv
  PROVE  list \in Seq(Kla) /\ index \in Nat \ {0}
BY DEF IInv, Typed

(* A file on the list that is being tested or verified.                    *)
AtListed ==
  \/ at \in {"suite", "verify"} /\ index <= Len(list)
  \/ at \in {"expect", "upload"} /\ args.test_list
  \/ at = "verify run"

LEMMA ListedIsASource ==
  ASSUME IInv, AtListed
  PROVE  list[index] \in Kla
<1>1. index <= Len(list)
  BY DEF IInv, Progress, AtListed
<1>2. QED
  BY <1>1, ListTyped

LEMMA VerifiedIsASource ==
  ASSUME IInv, (at = "verify" /\ index <= Len(list)) \/ at = "verify run"
  PROVE  Current \in Kla
<1>1. args.emulate_test
  BY DEF IInv, Control, Verifies, Task
<1>2. QED
  BY <1>1, ListedIsASource DEF AtListed, Current

LEMMA ReadingTyped ==
  ASSUME IInv, TypeOK, Touches
  PROVE  assembling' \in Source \cup {NoSource} /\ against' \in Source \cup {NoSource}
<1>1. assembling \in Source \cup {NoSource} /\ against \in Source \cup {NoSource}
  BY DEF TypeOK
<1>2. \A f \in Kla : source[f] \in Source
  BY DEF TypeOK
<1>3. CASE ReadSource
  <2>1. file \in Kla
    BY <1>3 DEF ReadSource, IInv, Control, ReadsSource
  <2>2. QED
    BY <1>1, <1>2, <1>3, <2>1 DEF ReadSource
<1>4. CASE SuiteAssemble
  <2>1. Current \in Kla
    BY <1>4, CurrentIsASource DEF SuiteAssemble
  <2>2. /\ assembling' \in {NoSource, source[Current]}
        /\ against' \in {NoSource, against}
    BY <1>4, Zenon DEF SuiteAssemble, Skip
  <2>3. QED
    BY <1>1, <1>2, <2>1, <2>2
<1>5. CASE ReadExpected
  <2>1. Current \in Kla
    BY <1>5, CurrentIsASource DEF ReadExpected, IInv, Control
  <2>2. /\ assembling' \in {NoSource, assembling}
        /\ against' \in {NoSource, against, source[Current]}
    BY <1>5, Zenon DEF ReadExpected, Skip
  <2>3. QED
    BY <1>1, <1>2, <2>1, <2>2
<1>6. CASE Upload \/ Judge \/ Leave \/ VerifyRun
  <2>1. assembling' \in {NoSource, assembling} /\ against' \in {NoSource, against}
    BY <1>6, Zenon DEF Upload, Skip, Judge, Leave, VerifyRun
  <2>2. QED
    BY <1>1, <2>1
<1>7. CASE VerifyExpected
  <2>1. Current \in Kla
    BY <1>7, VerifiedIsASource DEF VerifyExpected
  <2>2. assembling' = assembling /\ against' \in {against, source[Current]}
    BY <1>7, Zenon DEF VerifyExpected
  <2>3. QED
    BY <1>1, <1>2, <2>1, <2>2
<1>8. QED
  BY <1>1, <1>3, <1>4, <1>5, <1>6, <1>7 DEF Touches

LEMMA AppendedTyped ==
  ASSUME IInv, TypeOK, NEW r \in Result, results' = Append(results, r)
  PROVE  \A i \in 1..Len(results') : results'[i] \in Result
<1>1. results \in Seq(AnyResult)
  BY DEF IInv, Typed
<1>2. \A i \in 1..Len(results) : results[i] \in Result
  BY DEF TypeOK
<1>3. Len(results') = Len(results) + 1 /\ results'[Len(results) + 1] = r
  BY <1>1
<1>4. \A i \in 1..Len(results) : results'[i] = results[i]
  BY <1>1
<1>5. \A i \in 1..Len(results') : i \in 1..Len(results) \/ i = Len(results) + 1
  BY <1>1, <1>3
<1>6. QED
  BY <1>2, <1>3, <1>4, <1>5

LEMMA SkipTyped ==
  ASSUME IInv, TypeOK, list[index] \in Kla, Skip
  PROVE  \A i \in 1..Len(results') : results'[i] \in Result
<1> DEFINE r == [of |-> list[index], assembled |-> NoImage,
       on_board |-> NoImage, against |-> 0,
       verdict |-> [skipped |-> TRUE, failed |-> FALSE, timed_out |-> FALSE]]
<1>1. r \in Result
  BY ImageTypes, CommandsAssumption DEF Result, Verdict
<1>2. results' = Append(results, r)
  BY DEF Skip
<1> HIDE DEF r
<1>3. QED
  BY <1>1, <1>2, AppendedTyped

LEMMA JudgedTyped ==
  ASSUME IInv, TypeOK, Judge
  PROVE  \A i \in 1..Len(results') : results'[i] \in Result
<1>1. PICK failed, timed_out \in BOOLEAN :
        results' = Append(results, [of |-> Current, assembled |-> ImageOf(assembling),
                     on_board |-> board, against |-> against.version,
                     verdict |-> [skipped |-> FALSE, failed |-> failed,
                                  timed_out |-> timed_out]])
  BY DEF Judge
<1> DEFINE r == [of |-> Current, assembled |-> ImageOf(assembling),
                 on_board |-> board, against |-> against.version,
                 verdict |-> [skipped |-> FALSE, failed |-> failed,
                              timed_out |-> timed_out]]
<1>2. Current \in Kla
  BY CurrentIsASource DEF Judge, IInv, Control
<1>3. against.version \in 0..MaxEdits /\ board \in Image /\ ImageOf(assembling) \in Image
  BY ImageTypes, CommandsAssumption DEF TypeOK, Source, NoSource
<1>4. r \in Result
  BY <1>2, <1>3 DEF Result, Verdict
<1> HIDE DEF r
<1>5. QED
  BY <1>1, <1>4, AppendedTyped DEF r

LEMMA VerifiedTyped ==
  ASSUME IInv, TypeOK, VerifyRun
  PROVE  \A i \in 1..Len(results') : results'[i] \in Result
<1>1. Current \in Kla
  BY VerifiedIsASource DEF VerifyRun
<1>2. PICK failed \in BOOLEAN :
        results' = Append(results, [of |-> Current, assembled |-> ImageOf(source[Current]),
                     on_board |-> NoImage, against |-> against.version,
                     verdict |-> [skipped |-> FALSE, failed |-> failed, timed_out |-> FALSE]])
  BY DEF VerifyRun
<1> DEFINE r == [of |-> Current, assembled |-> ImageOf(source[Current]),
                 on_board |-> NoImage, against |-> against.version,
                 verdict |-> [skipped |-> FALSE, failed |-> failed, timed_out |-> FALSE]]
<1>3. against.version \in 0..MaxEdits /\ source[Current] \in Source
  BY <1>1, CommandsAssumption DEF TypeOK, Source, NoSource
<1>4. r \in Result
  BY <1>1, <1>3, ImageTypes DEF Result, Verdict
<1> HIDE DEF r
<1>5. QED
  BY <1>2, <1>4, AppendedTyped DEF r

LEMMA ResultsTyped ==
  ASSUME IInv, TypeOK, Touches
  PROVE  \A i \in 1..Len(results') : results'[i] \in Result
<1>1. CASE results' = results
  BY <1>1 DEF TypeOK
<1>2. CASE results' = << >>
  BY <1>2
<1>3. CASE SuiteAssemble \/ ReadExpected \/ Upload
  <2>1. CASE args.test_list /\ Skip
    <3>1. list[index] \in Kla
      BY <1>3, <2>1, ListedIsASource DEF AtListed, SuiteAssemble, ReadExpected, Upload
    <3>2. QED
      BY <2>1, <3>1, SkipTyped
  <2>2. SuiteAssemble => args.test_list
    BY DEF SuiteAssemble, IInv, Control, RunsList, Task
  <2>3. results' = results \/ (args.test_list /\ Skip)
    BY <1>3, <2>2, Zenon DEF SuiteAssemble, ReadExpected, Upload
  <2>4. QED
    BY <1>1, <2>1, <2>3
<1>4. Leave => results' = << >>
  BY DEF Leave
<1>5. QED
  BY <1>1, <1>2, <1>3, <1>4, JudgedTyped, VerifiedTyped DEF Touches

LEMMA StoredNext ==
  ASSUME IInv, TypeOK, [Next]_vars
  PROVE  Stored'
<1>1. Touches
  BY StepTouches
<1>2. shown' \in Image
  <2>1. board \in Image /\ shown \in Image
    BY DEF TypeOK
  <2>2. Monitor => shown' \in {board, NoImage}
    BY DEF Monitor
  <2>3. Leave => shown' = NoImage
    BY DEF Leave
  <2>4. QED
    BY <1>1, <2>1, <2>2, <2>3, ImageTypes DEF Touches
<1>3. QED
  BY <1>1, <1>2, SourceTyped, BoardTyped, FilesTyped, ReadingTyped, ResultsTyped DEF Stored

-----------------------------------------------------------------------------
(* The course of a process.                                                *)

LEMMA InvokedMode ==
  ASSUME Invoke
  PROVE  at' \in {"monitor", "net", "mem", "binary", "kbt", "opcodes"}
<1>1. args' \in Args /\ at' = Mode(args')
  BY CommandsAssumption DEF Invoke, Continue
<1>2. QED
  BY <1>1 DEF Mode, Args

LEMMA StepsTyped ==
  ASSUME TypeOK, [Next]_vars
  PROVE  at' \in Steps /\ errors' \in BOOLEAN
<1>1. at \in Steps /\ errors \in BOOLEAN
  BY DEF TypeOK
<1> USE DEF Continue, Exit, ExitWithError
<1>2. CASE Edit \/ Leave \/ Monitor
  BY <1>1, <1>2 DEF Edit, Leave, Monitor, Steps
<1>3. CASE Flatten \/ NetLoad \/ MemOut \/ EmulateBinary \/ ElfToSerial \/ Kbt
  BY <1>1, <1>3 DEF Flatten, NetLoad, MemOut, EmulateBinary, ElfToSerial, Kbt, Steps
<1>4. CASE Opcodes \/ ReadSource \/ Emulate \/ WriteListing
  BY <1>1, <1>4 DEF Opcodes, ReadSource, Emulate, WriteListing, Steps, Task
<1>5. CASE WriteBinary \/ EndOfMain \/ TestList
  BY <1>1, <1>5 DEF WriteBinary, EndOfMain, TestList, Steps, AfterOutput
<1>6. CASE SuiteAssemble \/ ReadExpected \/ Upload \/ Judge \/ SuiteEnds
  BY <1>1, <1>6, Zenon DEF SuiteAssemble, ReadExpected, Upload, Judge, SuiteEnds, Skip, Steps
<1>7. CASE WriteToDevice \/ EmulateTest
  BY <1>1, <1>7 DEF WriteToDevice, EmulateTest, Steps
<1>8. CASE VerifyExpected \/ VerifyRun \/ VerifyEnds
  BY <1>1, <1>8 DEF VerifyExpected, VerifyRun, VerifyEnds, Steps
<1>9. CASE Invoke
  <2>1. errors' = errors
    BY <1>9 DEF Invoke
  <2>2. QED
    BY <1>1, <1>9, <2>1, InvokedMode DEF Steps
<1>10. CASE UNCHANGED vars
  BY <1>1, <1>10 DEF vars
<1>11. QED
  BY <1>2, <1>3, <1>4, <1>5, <1>6, <1>7, <1>8, <1>9, <1>10, Zenon DEF Next, Process

LEMMA GivenTyped ==
  ASSUME TypeOK, Touches
  PROVE  /\ args' \in {NoArgs} \cup CommandLines
         /\ file' \in Stems \cup {"none"}
         /\ list' \in {<< >>} \cup TestLists
         /\ loaded' \in Binaries \cup {NoBinary}
<1>1. /\ args \in {NoArgs} \cup CommandLines
      /\ file \in Stems \cup {"none"}
      /\ list \in {<< >>} \cup TestLists
      /\ loaded \in Binaries \cup {NoBinary}
  BY DEF TypeOK
<1>2. CASE Invoke
  <2>1. Named \subseteq Stems /\ BinaryStem \in Stems
    BY CommandsAssumption DEF Stems
  <2>2. /\ args' \in CommandLines
        /\ file' \in CASE args'.input = "kla" -> Named
                       [] args'.input = "kbt" -> Named \cup {BinaryStem}
                       [] args'.input = "binary" -> {BinaryStem}
                       [] OTHER -> {"none"}
        /\ list' \in {<< >>} \cup TestLists
        /\ loaded' = loaded
    BY <1>2 DEF Invoke, reading
  <2>3. file' \in Stems \cup {"none"}
    BY <2>1, <2>2
  <2>4. QED
    BY <1>1, <2>2, <2>3
<1>3. CASE Leave
  BY <1>3 DEF Leave
<1>4. loaded' \in Binaries \cup {NoBinary}
  <2>1. Flatten => loaded' = loaded \/ loaded' \in Binaries
    BY DEF Flatten
  <2>2. NetLoad \/ MemOut \/ EmulateBinary \/ ElfToSerial => loaded' = NoBinary
    BY DEF NetLoad, MemOut, EmulateBinary, ElfToSerial
  <2>3. QED
    BY <1>1, <1>2, <1>3, <2>1, <2>2 DEF Touches
<1>5. QED
  BY <1>1, <1>2, <1>3, <1>4 DEF Touches, given

(* A process that ends, ends where it is in its list.                      *)
LEMMA ExitsWhereItIs ==
  ASSUME [Next]_vars, at' = "exited"
  PROVE  index' = index /\ list' = list
<1> USE DEF given
<1>1. CASE Edit \/ Leave \/ Monitor \/ Flatten \/ NetLoad \/ MemOut \/ EmulateBinary
  BY <1>1 DEF Edit, Leave, Monitor, Flatten, NetLoad, MemOut, EmulateBinary
<1>2. CASE ElfToSerial \/ Kbt \/ Opcodes \/ ReadSource \/ Emulate \/ WriteListing
           \/ WriteBinary \/ EndOfMain \/ TestList \/ SuiteEnds \/ WriteToDevice
           \/ EmulateTest \/ VerifyEnds
  BY <1>2 DEF ElfToSerial, Kbt, Opcodes, ReadSource, Emulate, WriteListing, WriteBinary,
              EndOfMain, TestList, SuiteEnds, WriteToDevice, EmulateTest, VerifyEnds
<1>3. CASE SuiteAssemble \/ VerifyExpected \/ VerifyRun
  BY <1>3 DEF SuiteAssemble, VerifyExpected, VerifyRun, Skip, Continue
<1>4. CASE ReadExpected
  BY <1>4 DEF ReadExpected, Skip, Continue
<1>5. CASE Upload
  BY <1>5 DEF Upload, Skip, Continue
<1>6. CASE Judge
  BY <1>6 DEF Judge, Continue
<1>7. CASE UNCHANGED vars
  BY <1>7 DEF vars
<1>8. ~Invoke
  BY InvokedMode
<1>9. QED
  BY <1>1, <1>2, <1>3, <1>4, <1>5, <1>6, <1>7, <1>8, Zenon DEF Next, Process

LEMMA IndexTyped ==
  ASSUME IInv, TypeOK, [Next]_vars
  PROVE  index' \in 1..(Len(list') + 1)
<1>1. IInv'
  BY NextKeepsIInv
<1>2. list' \in Seq(Kla) /\ index' \in Nat \ {0}
  BY <1>1 DEF IInv, Typed
<1>3. Len(list') \in Nat
  BY <1>2
<1>4. CASE at' # "exited"
  <2>1. \/ index' = 1
        \/ index' <= Len(list') + 1
        \/ index' <= Len(list')
    <3>1. CASE at' \notin OnList
      BY <1>1, <1>4, <3>1, Zenon DEF IInv, Progress
    <3>2. CASE at' \in {"suite", "verify", "verify run"}
      BY <1>1, <3>2, Zenon DEF IInv, Progress
    <3>3. CASE at' \in {"expect", "upload", "judge"}
      BY <1>1, <3>3, Zenon DEF IInv, Progress
    <3>4. QED
      BY <3>1, <3>2, <3>3 DEF OnList
  <2>2. QED
    BY <1>2, <1>3, <2>1
<1>5. CASE at' = "exited"
  <2>1. index' = index /\ list' = list
    BY <1>5, ExitsWhereItIs
  <2>2. QED
    BY <2>1 DEF TypeOK
<1>6. QED
  BY <1>4, <1>5

(***************************************************************************)
(* TypeCorrect: in every history of commands and edits, whatever files and *)
(* command lines there are, each variable stays within its type; that no   *)
(* version exceeds MaxEdits rests on the sum of the versions.              *)
(***************************************************************************)
THEOREM TypeCorrect == Spec => []TypeOK
<1>1. Init => TypeOK
  <2> SUFFICES ASSUME Init PROVE TypeOK
    OBVIOUS
  <2>1. MaxEdits \in Nat /\ NoImage \in Image
    BY CommandsAssumption, ImageTypes
  <2>2. source \in [Kla -> Source]
    BY <2>1 DEF Init, Source, Outcomes
  <2>3. Stored
    BY <2>1, <2>2 DEF Init, Stored
  <2>4. Course
    <3>1. index \in 1..(Len(list) + 1)
      BY DEF Init
    <3>2. at \in Steps /\ exit \in 0..3 /\ errors \in BOOLEAN
      BY ExitCodes, Zenon DEF Init, Steps
    <3>3. QED
      BY <3>1, <3>2 DEF Init, Course
  <2>5. QED
    BY <2>3, <2>4, TypeSplit
<1>2. IInv /\ TypeOK /\ [Next]_vars => TypeOK'
  <2> SUFFICES ASSUME IInv, TypeOK, [Next]_vars PROVE TypeOK'
    OBVIOUS
  <2>1. Stored'
    BY StoredNext
  <2>2. exit' \in 0..3
    BY NextKeepsIInv DEF IInv, Typed
  <2>3. Course'
    BY <2>2, StepTouches, StepsTyped, GivenTyped, IndexTyped DEF Course
  <2>4. QED
    BY <2>1, <2>3 DEF TypeOK, Stored, Course
<1>3. QED
  BY <1>1, <1>2, IInvAlways, PTL DEF Spec

-----------------------------------------------------------------------------
(* Loading a binary: greatest and least elements.                          *)

LEMMA MaxOf ==
  ASSUME NEW S \in SUBSET Int, S # {}, NEW b \in Int, \A x \in S : x <= b
  PROVE  Max(S) \in S /\ \A y \in S : y <= Max(S)
<1> DEFINE T == {b - x : x \in S}
<1>1. T \subseteq Nat /\ T # {}
  <2>1. \A x \in S : b - x \in Nat /\ b - x \in T
    OBVIOUS
  <2>2. QED
    BY <2>1
<1>2. PICK d \in T : \A e \in T : d <= e
  BY <1>1, LeastOf
<1>3. PICK x \in S : d = b - x
  BY <1>2
<1>4. \A y \in S : x >= y
  <2>1. \A y \in S : b - y \in T
    OBVIOUS
  <2>2. QED
    BY <1>2, <1>3, <2>1
<1>5. QED
  BY <1>4 DEF Max

LEMMA MinOf ==
  ASSUME NEW S \in SUBSET Nat, NEW x \in S, \A y \in S : x <= y
  PROVE  Min(S) = x
<1>1. \A y \in S : (\A z \in S : y =< z) <=> y = x
  OBVIOUS
<1>2. Min(S) = CHOOSE y \in S : \A z \in S : y =< z
  BY DEF Min
<1>3. x = CHOOSE y \in S : \A z \in S : y =< z
  BY <1>1
<1>4. QED
  BY <1>2, <1>3, Zenon

LEMMA GreatestValue ==
  ASSUME NEW f, NEW m \in Nat, m > 0, \A k \in 1..m : f[k] \in Int
  PROVE  \E k \in 1..m : \A j \in 1..m : f[j] <= f[k]
<1> DEFINE N == {n \in Nat : n > 0 /\ n <= m => \E k \in 1..n : \A j \in 1..n : f[j] <= f[k]}
<1>1. 0 \in N
  OBVIOUS
<1>2. ASSUME NEW n \in Nat, n \in N
      PROVE  n + 1 \in N
  <2> SUFFICES ASSUME n + 1 <= m
               PROVE  \E k \in 1..(n + 1) : \A j \in 1..(n + 1) : f[j] <= f[k]
    OBVIOUS
  <2>1. CASE n = 0
    <3>1. 1 \in 1..(n + 1) /\ \A j \in 1..(n + 1) : j = 1
      BY <2>1
    <3>2. f[1] \in Int
      OBVIOUS
    <3>3. QED
      BY <3>1, <3>2
  <2>2. CASE n > 0
    <3>1. PICK k \in 1..n : \A j \in 1..n : f[j] <= f[k]
      BY <1>2, <2>2
    <3>2. f[n + 1] \in Int /\ f[k] \in Int /\ \A j \in 1..n : f[j] \in Int
      OBVIOUS
    <3>3. CASE f[n + 1] <= f[k]
      BY <3>1, <3>3
    <3>4. CASE f[k] <= f[n + 1]
      <4>1. \A j \in 1..(n + 1) : f[j] <= f[n + 1]
        BY <3>1, <3>2, <3>4
      <4>2. QED
        BY <4>1
    <3>5. QED
      BY <3>2, <3>3, <3>4
  <2>3. QED
    BY <2>1, <2>2
<1>3. \A n \in Nat : n \in N
  <2> HIDE DEF N
  <2>1. QED
    BY <1>1, <1>2, NumberInduction
<1>4. QED
  BY <1>3

-----------------------------------------------------------------------------
(* Segments in order of address: ranks count from zero, each once.         *)

LEMMA LoadableSegments ==
  ASSUME NEW input \in InputFile
  PROVE  /\ IsFiniteSet(Loadable(input)) /\ Cardinality(Loadable(input)) \in Nat
         /\ Loadable(input) \subseteq 1..Len(input.segments)
         /\ \A n \in Loadable(input) :
              /\ n \in Nat
              /\ input.segments[n] \in Segment
              /\ input.segments[n].addr \in Nat
              /\ input.segments[n].bytes \in Seq(Byte)
              /\ Len(input.segments[n].bytes) \in Nat /\ Len(input.segments[n].bytes) > 0
<1>1. input.segments \in Seq(Segment)
  BY DEF InputFile
<1>2. Len(input.segments) \in Nat /\ \A n \in 1..Len(input.segments) : input.segments[n] \in Segment
  BY <1>1
<1>3. Loadable(input) \subseteq 1..Len(input.segments)
  BY DEF Loadable
<1>4. IsFiniteSet(1..Len(input.segments))
  BY <1>2, FS_Interval
<1>5. IsFiniteSet(Loadable(input)) /\ Cardinality(Loadable(input)) \in Nat
  BY <1>3, <1>4, FS_Subset, FS_CardinalityType
<1>6. ASSUME NEW n \in Loadable(input)
      PROVE  /\ input.segments[n].addr \in Nat
             /\ input.segments[n].bytes \in Seq(Byte)
             /\ Len(input.segments[n].bytes) \in Nat /\ Len(input.segments[n].bytes) > 0
  <2>1. input.segments[n] \in Segment
    BY <1>2, <1>3
  <2>2. /\ input.segments[n].addr \in Nat
        /\ input.segments[n].bytes \in Seq(Byte)
    BY <2>1 DEF Segment
  <2>3. input.segments[n].bytes # << >>
    BY DEF Loadable
  <2>4. QED
    BY <2>2, <2>3
<1>7. QED
  BY <1>2, <1>3, <1>5, <1>6

LEMMA PrecedesIsAnOrder ==
  ASSUME NEW input \in InputFile
  PROVE  /\ \A n \in Loadable(input) : ~Precedes(input, n, n)
         /\ \A m, n \in Loadable(input) : m # n => Precedes(input, m, n) \/ Precedes(input, n, m)
         /\ \A l, m, n \in Loadable(input) :
              Precedes(input, l, m) /\ Precedes(input, m, n) => Precedes(input, l, n)
<1>1. \A n \in Loadable(input) : n \in Nat /\ input.segments[n].addr \in Nat
  BY LoadableSegments
<1>2. QED
  BY <1>1 DEF Precedes

LEMMA RankType ==
  ASSUME NEW input \in InputFile, NEW n \in Loadable(input)
  PROVE  Rank(input, n) \in 0..(Cardinality(Loadable(input)) - 1)
<1> DEFINE L == Loadable(input)
           below == {m \in L : Precedes(input, m, n)}
<1>1. IsFiniteSet(L \ {n}) /\ Cardinality(L \ {n}) = Cardinality(L) - 1 /\ Cardinality(L) \in Nat
  BY LoadableSegments, FS_RemoveElement
<1>2. below \in SUBSET (L \ {n})
  BY PrecedesIsAnOrder
<1>3. IsFiniteSet(below) /\ Cardinality(below) <= Cardinality(L \ {n}) /\ Cardinality(below) \in Nat
  BY <1>1, <1>2, FS_Subset, FS_CardinalityType
<1>4. Rank(input, n) = Cardinality(below)
  BY DEF Rank
<1> HIDE DEF below, L
<1>5. QED
  BY <1>1, <1>3, <1>4 DEF L

LEMMA RankFollowsOrder ==
  ASSUME NEW input \in InputFile, NEW m \in Loadable(input), NEW n \in Loadable(input),
         Precedes(input, m, n)
  PROVE  Rank(input, m) < Rank(input, n)
<1> DEFINE below(x) == {l \in Loadable(input) : Precedes(input, l, x)}
<1>1. /\ IsFiniteSet(below(m)) /\ Cardinality(below(m)) \in Nat
      /\ IsFiniteSet(below(n)) /\ Cardinality(below(n)) \in Nat
  BY LoadableSegments, FS_Subset, FS_CardinalityType
<1>2. m \notin below(m) /\ below(m) \cup {m} \in SUBSET below(n)
  BY PrecedesIsAnOrder
<1>3. Cardinality(below(m) \cup {m}) = Cardinality(below(m)) + 1
  BY <1>1, <1>2, FS_AddElement
<1>4. Cardinality(below(m) \cup {m}) <= Cardinality(below(n))
  BY <1>1, <1>2, FS_Subset
<1>5. Rank(input, m) = Cardinality(below(m)) /\ Rank(input, n) = Cardinality(below(n))
  BY DEF Rank
<1> HIDE DEF below
<1>6. QED
  BY <1>1, <1>3, <1>4, <1>5

LEMMA EveryRankIsTaken ==
  ASSUME NEW input \in InputFile, NEW i \in 1..Cardinality(Loadable(input))
  PROVE  \E n \in Loadable(input) : Rank(input, n) = i - 1
<1> DEFINE L == Loadable(input)
           size == Cardinality(L)
           ranks == 0..(size - 1)
           r == [n \in L |-> Rank(input, n)]
<1>1. IsFiniteSet(L) /\ size \in Nat
  BY LoadableSegments
<1>2. IsFiniteSet(ranks) /\ Cardinality(ranks) = size
  <2> HIDE DEF size
  <2>1. size - 1 \in Int /\ 0 \in Int
    BY <1>1
  <2>2. Cardinality(ranks) = IF 0 > size - 1 THEN 0 ELSE (size - 1) - 0 + 1
    BY <2>1, FS_Interval
  <2>3. QED
    BY <1>1, <2>1, <2>2, FS_Interval
<1>3. r \in [L -> ranks]
  BY RankType
<1>4. \A m, n \in L : r[m] = r[n] => m = n
  <2> SUFFICES ASSUME NEW m \in L, NEW n \in L, m # n
               PROVE  Rank(input, m) # Rank(input, n)
    OBVIOUS
  <2>1. Rank(input, m) \in Int /\ Rank(input, n) \in Int
    BY RankType, <1>1
  <2>2. Precedes(input, m, n) \/ Precedes(input, n, m)
    BY PrecedesIsAnOrder
  <2>3. QED
    BY <2>1, <2>2, RankFollowsOrder
<1>5. r \in Injection(L, ranks)
  BY <1>3, <1>4 DEF Injection, IsInjective
<1>6. r \in Surjection(L, ranks)
  <2> HIDE DEF r, ranks, L, size
  <2>1. QED
    BY <1>1, <1>2, <1>5, FS_Injection DEF size
<1>7. i - 1 \in ranks
  BY <1>1
<1>8. QED
  BY <1>6, <1>7 DEF Surjection

(* ByAddress puts every segment with bytes in order.                       *)
Place(input, i) == CHOOSE n \in Loadable(input) : Rank(input, n) = i - 1

LEMMA SegmentsInOrder ==
  ASSUME NEW input \in InputFile
  PROVE  LET size == Cardinality(Loadable(input))
             sorted == ByAddress(input)
         IN  /\ sorted \in Seq(Segment) /\ Len(sorted) = size /\ DOMAIN sorted = 1..size
             /\ \A i \in 1..size :
                  /\ Place(input, i) \in Loadable(input)
                  /\ sorted[i] = input.segments[Place(input, i)]
             /\ \A n \in Loadable(input) : \E i \in 1..size : Place(input, i) = n
             /\ \A i, j \in 1..size : i < j => Precedes(input, Place(input, i), Place(input, j))
<1> DEFINE L == Loadable(input)
           size == Cardinality(L)
           sorted == ByAddress(input)
<1>1. size \in Nat
  BY LoadableSegments
<1>2. sorted = [i \in 1..size |-> input.segments[Place(input, i)]]
  BY DEF ByAddress, Place
<1>3. \A i \in 1..size : Place(input, i) \in L /\ Rank(input, Place(input, i)) = i - 1
  <2> TAKE i \in 1..size
  <2>1. \E n \in L : Rank(input, n) = i - 1
    BY EveryRankIsTaken
  <2>2. QED
    BY <2>1 DEF Place
<1>4. \A i \in 1..size : input.segments[Place(input, i)] \in Segment
  BY <1>3, LoadableSegments
<1>5. sorted \in Seq(Segment) /\ Len(sorted) = size /\ DOMAIN sorted = 1..size
  BY <1>1, <1>2, <1>4
<1>6. ASSUME NEW i \in 1..size, NEW j \in 1..size, i < j
      PROVE  Precedes(input, Place(input, i), Place(input, j))
  <2> DEFINE m == Place(input, i)
             n == Place(input, j)
  <2>1. m \in L /\ n \in L /\ Rank(input, m) = i - 1 /\ Rank(input, n) = j - 1
    BY <1>3
  <2>2. m # n
    <3> HIDE DEF m, n
    <3>1. QED
      BY <1>1, <1>6, <2>1
  <2>3. ~Precedes(input, n, m)
    <3> HIDE DEF m, n
    <3>1. QED
      BY <1>1, <1>6, <2>1, RankFollowsOrder
  <2>4. QED
    BY <2>1, <2>2, <2>3, PrecedesIsAnOrder
<1>7. ASSUME NEW n \in L
      PROVE  \E i \in 1..size : Place(input, i) = n
  <2> DEFINE i == Rank(input, n) + 1
  <2>1. Rank(input, n) \in 0..(size - 1)
    BY RankType
  <2>2. i \in 1..size /\ i - 1 = Rank(input, n)
    BY <1>1, <2>1
  <2>3. Place(input, i) \in L /\ Rank(input, Place(input, i)) = Rank(input, n)
    BY <1>3, <2>2
  <2>4. Place(input, i) = n
    <3> DEFINE m == Place(input, i)
    <3>1. m \in L /\ Rank(input, m) = Rank(input, n)
      BY <2>3
    <3> HIDE DEF m
    <3>2. ~Precedes(input, m, n) /\ ~Precedes(input, n, m)
      BY <1>1, <2>1, <3>1, RankFollowsOrder
    <3>3. m = n
      BY <3>1, <3>2, PrecedesIsAnOrder
    <3>4. QED
      BY <3>3 DEF m
  <2>5. QED
    BY <2>2, <2>4
<1>8. QED
  BY <1>2, <1>3, <1>5, <1>6, <1>7

-----------------------------------------------------------------------------
(* The cluster is the longest beginning without too wide a gap.            *)
LEMMA ClusterIs ==
  ASSUME NEW input \in InputFile, Loadable(input) # {}
  PROVE  LET size == Cardinality(Loadable(input))
             sorted == ByAddress(input)
             cluster == Cluster(input)
         IN  /\ cluster \in Seq(Segment) /\ Len(cluster) \in 1..size
             /\ DOMAIN cluster = 1..Len(cluster)
             /\ \A k \in 1..Len(cluster) : cluster[k] = sorted[k]
             /\ \A i \in 2..Len(cluster) : Adjoins(sorted[i - 1], sorted[i])
             /\ Len(cluster) < size => ~Adjoins(sorted[Len(cluster)], sorted[Len(cluster) + 1])
<1> DEFINE size == Cardinality(Loadable(input))
           sorted == ByAddress(input)
           joined == {n \in 1..size : \A i \in 2..n : Adjoins(sorted[i - 1], sorted[i])}
           last == Max(joined)
<1>1. size \in Nat /\ size > 0
  BY LoadableSegments, FS_EmptySet
<1>2. sorted \in Seq(Segment) /\ Len(sorted) = size
  BY SegmentsInOrder
<1>3. Cluster(input) = SubSeq(sorted, 1, last)
  BY <1>2 DEF Cluster
<1>4. joined \in SUBSET Int /\ 1 \in joined /\ \A n \in joined : n <= size
  <2> HIDE DEF size, sorted
  <2>1. 1 \in 1..size /\ 2..1 = {}
    BY <1>1
  <2>2. QED
    BY <1>1, <2>1
<1>5. last \in joined /\ \A n \in joined : n <= last
  <2> HIDE DEF joined
  <2>1. QED
    BY <1>1, <1>4, MaxOf
<1>6. last \in 1..size
  BY <1>5
<1>7. last < size => ~Adjoins(sorted[last], sorted[last + 1])
  <2> SUFFICES ASSUME last < size, Adjoins(sorted[last], sorted[last + 1])
               PROVE  FALSE
    OBVIOUS
  <2>1. \A i \in 2..last : Adjoins(sorted[i - 1], sorted[i])
    BY <1>5
  <2> HIDE DEF last, size, sorted
  <2>2. \A i \in 2..(last + 1) : i \in 2..last \/ (i = last + 1 /\ i - 1 = last)
    BY <1>6
  <2>3. \A i \in 2..(last + 1) : Adjoins(sorted[i - 1], sorted[i])
    BY <2>1, <2>2
  <2>4. last + 1 \in joined
    BY <1>1, <1>6, <2>3
  <2>5. QED
    BY <1>1, <1>5, <1>6, <2>4
<1>8. \A i \in 2..last : Adjoins(sorted[i - 1], sorted[i])
  BY <1>5
<1> HIDE DEF last, size, sorted
<1>9. /\ Cluster(input) \in Seq(Segment) /\ Len(Cluster(input)) = last
      /\ DOMAIN Cluster(input) = 1..last
      /\ \A k \in 1..last : Cluster(input)[k] = sorted[k]
  BY <1>1, <1>2, <1>3, <1>6
<1>10. QED
  BY <1>6, <1>7, <1>8, <1>9 DEF size, sorted

LEMMA ClusterSegments ==
  ASSUME NEW input \in InputFile, Loadable(input) # {}
  PROVE  LET cluster == Cluster(input)
         IN  /\ Len(cluster) \in Nat /\ Len(cluster) > 0 /\ DOMAIN cluster = 1..Len(cluster)
             /\ \A k \in 1..Len(cluster) :
                  /\ Place(input, k) \in Loadable(input)
                  /\ cluster[k] = input.segments[Place(input, k)]
                  /\ cluster[k].addr \in Nat
                  /\ cluster[k].bytes \in Seq(Byte)
                  /\ Len(cluster[k].bytes) \in Nat /\ Len(cluster[k].bytes) > 0
             /\ \A j, k \in 1..Len(cluster) : j < k =>
                  Precedes(input, Place(input, j), Place(input, k))
             /\ \A k \in 1..Len(cluster) : Base(input) <= cluster[k].addr
             /\ Base(input) \in Nat
<1> DEFINE size == Cardinality(Loadable(input))
           cluster == Cluster(input)
<1>1. size \in Nat /\ size > 0
  BY LoadableSegments, FS_EmptySet
<1>2. Len(cluster) \in 1..size /\ DOMAIN cluster = 1..Len(cluster)
  BY ClusterIs
<1>3. \A k \in 1..Len(cluster) : k \in 1..size
  BY <1>1, <1>2
<1>4. \A k \in 1..Len(cluster) :
        Place(input, k) \in Loadable(input) /\ cluster[k] = input.segments[Place(input, k)]
  BY <1>3, ClusterIs, SegmentsInOrder
<1>5. \A k \in 1..Len(cluster) :
                  /\ cluster[k].addr \in Nat
                  /\ cluster[k].bytes \in Seq(Byte)
                  /\ Len(cluster[k].bytes) \in Nat /\ Len(cluster[k].bytes) > 0
  BY <1>4, LoadableSegments
<1>6. \A j, k \in 1..Len(cluster) : j < k => Precedes(input, Place(input, j), Place(input, k))
  BY <1>3, SegmentsInOrder
<1>7. 1 \in 1..Len(cluster)
  BY <1>1, <1>2
<1>8. ASSUME NEW k \in 1..Len(cluster)
      PROVE  Base(input) <= cluster[k].addr
  <2>1. Base(input) = cluster[1].addr
    BY DEF Base
  <2>2. CASE k = 1
    BY <1>5, <1>7, <2>1, <2>2
  <2>3. CASE k # 1
    <3>1. 1 < k
      BY <1>1, <1>2, <2>3
    <3>2. Precedes(input, Place(input, 1), Place(input, k))
      BY <1>6, <1>7, <3>1
    <3>3. cluster[1].addr < cluster[k].addr \/ cluster[1].addr = cluster[k].addr
      BY <1>4, <1>7, <3>2 DEF Precedes
    <3>4. QED
      BY <1>5, <1>7, <2>1, <3>3
  <2>4. QED
    BY <2>2, <2>3
<1>9. Base(input) \in Nat
  BY <1>5, <1>7 DEF Base
<1> HIDE DEF cluster, size
<1>10. QED
  BY <1>1, <1>2, <1>4, <1>5, <1>6, <1>8, <1>9 DEF cluster

(* The flat buffer reaches from the first address of the cluster to its    *)
(* last, and a byte in it is that of the last segment that covers it.      *)
FlatEnd(input, end) ==
  LET cluster == Cluster(input)
  IN  /\ \A k \in 1..Len(cluster) : SegmentEnd(cluster[k]) <= end
      /\ \E k \in 1..Len(cluster) : end = SegmentEnd(cluster[k])

IsLastOver(input, k, a) ==
  LET cluster == Cluster(input)
  IN  Covers(cluster[k], a) /\ \A j \in 1..Len(cluster) : Covers(cluster[j], a) => j <= k

LEMMA PlaceOfByte ==
  ASSUME NEW s, s.addr \in Nat, Len(s.bytes) \in Nat, NEW a \in Int, Covers(s, a)
  PROVE  a - s.addr + 1 \in 1..Len(s.bytes)
BY DEF Covers, SegmentEnd

LEMMA FlatBytesAre ==
  ASSUME NEW input \in InputFile, Loadable(input) # {}
  PROVE  LET cluster == Cluster(input)
             base == Base(input)
             flat == FlatBytes(input)
         IN  \E end \in Nat :
               /\ FlatEnd(input, end) /\ end > base
               /\ flat \in Seq(Byte) /\ Len(flat) = end - base
               /\ \A a \in base..(end - 1) :
                    /\ (\A k \in 1..Len(cluster) : ~Covers(cluster[k], a)) => flat[a - base + 1] = 0
                    /\ (\E k \in 1..Len(cluster) : Covers(cluster[k], a)) =>
                         \E k \in 1..Len(cluster) :
                           /\ IsLastOver(input, k, a)
                           /\ flat[a - base + 1] = cluster[k].bytes[a - cluster[k].addr + 1]
<1> DEFINE cluster == Cluster(input)
           m == Len(cluster)
           base == Base(input)
           ends == {SegmentEnd(cluster[k]) : k \in DOMAIN cluster}
           end == Max(ends)
           covering(a) == {k \in DOMAIN cluster : Covers(cluster[k], a)}
           ByteAt(a) ==
             LET covering_ == {k \in DOMAIN cluster : Covers(cluster[k], a)}
                 last == cluster[Max(covering_)]
             IN  IF covering_ = {} THEN 0 ELSE last.bytes[a - last.addr + 1]
<1>1. /\ m \in Nat /\ m > 0 /\ DOMAIN cluster = 1..m
      /\ \A k \in 1..m : /\ cluster[k].addr \in Nat
                         /\ cluster[k].bytes \in Seq(Byte)
                         /\ Len(cluster[k].bytes) \in Nat /\ Len(cluster[k].bytes) > 0
                         /\ base <= cluster[k].addr
      /\ base \in Nat
  BY ClusterSegments
<1>2. FlatBytes(input) = [i \in 1..(end - base) |-> ByteAt(base + i - 1)]
  BY DEF FlatBytes, Base
<1>3. \A k \in 1..m : SegmentEnd(cluster[k]) \in Nat
  BY <1>1 DEF SegmentEnd
<1>4. end \in ends /\ \A e \in ends : e <= end
  <2> DEFINE f == [k \in 1..m |-> SegmentEnd(cluster[k])]
  <2>1. \A k \in 1..m : f[k] \in Int
    BY <1>3
  <2> HIDE DEF f
  <2>2. PICK k \in 1..m : \A j \in 1..m : f[j] <= f[k]
    BY <1>1, <2>1, GreatestValue
  <2>3. \A j \in 1..m : f[j] = SegmentEnd(cluster[j])
    BY DEF f
  <2>4. ends \in SUBSET Int /\ ends # {} /\ \A e \in ends : e <= SegmentEnd(cluster[k])
    BY <1>1, <1>3, <2>2, <2>3
  <2>5. SegmentEnd(cluster[k]) \in Int
    BY <1>3
  <2> HIDE DEF ends
  <2>6. QED
    BY <2>4, <2>5, MaxOf
<1>5. \A k \in 1..m : SegmentEnd(cluster[k]) \in ends
  BY <1>1
<1>6. PICK k \in 1..m : end = SegmentEnd(cluster[k])
  BY <1>1, <1>4
<1>7. end \in Nat /\ FlatEnd(input, end)
  BY <1>3, <1>4, <1>5, <1>6 DEF FlatEnd
<1>8. end > base
  BY <1>1, <1>6 DEF SegmentEnd
<1> HIDE DEF end, ends
<1>9. \A a : /\ covering(a) = {} => ByteAt(a) = 0
             /\ covering(a) # {} => ByteAt(a)
                  = cluster[Max(covering(a))].bytes[a - cluster[Max(covering(a))].addr + 1]
  OBVIOUS
<1> HIDE DEF ByteAt
<1>10. ASSUME NEW a \in base..(end - 1), covering(a) # {}
       PROVE  /\ Max(covering(a)) \in 1..m
              /\ IsLastOver(input, Max(covering(a)), a)
  <2>1. covering(a) \in SUBSET Int /\ \A j \in covering(a) : j <= m
    BY <1>1
  <2>2. Max(covering(a)) \in covering(a) /\ \A j \in covering(a) : j <= Max(covering(a))
    <3> DEFINE C == covering(a)
    <3>1. C \in SUBSET Int /\ C # {} /\ m \in Int /\ \A j \in C : j <= m
      BY <1>1, <1>10, <2>1
    <3> HIDE DEF C, m
    <3>2. Max(C) \in C /\ \A j \in C : j <= Max(C)
      BY <3>1, MaxOf
    <3>3. QED
      BY <3>2 DEF C
  <2>3. QED
    BY <1>1, <2>2 DEF IsLastOver
<1>11. ASSUME NEW a \in base..(end - 1)
       PROVE  ByteAt(a) \in Byte
  <2>1. CASE covering(a) = {}
    BY <1>9, <2>1, ElfImageAssumption
  <2>2. CASE covering(a) # {}
    <3> DEFINE j == Max(covering(a))
    <3>1. j \in 1..m /\ Covers(cluster[j], a)
      BY <1>10, <2>2 DEF IsLastOver
    <3>2. ByteAt(a) = cluster[j].bytes[a - cluster[j].addr + 1]
      BY <1>9, <2>2
    <3> HIDE DEF j
    <3>3. a - cluster[j].addr + 1 \in 1..Len(cluster[j].bytes)
      <4>1. cluster[j].addr \in Nat /\ Len(cluster[j].bytes) \in Nat /\ a \in Int
        BY <1>1, <1>7, <3>1
      <4> HIDE DEF cluster
      <4>2. QED
        BY <3>1, <4>1, PlaceOfByte
    <3>4. cluster[j].bytes \in Seq(Byte)
      BY <1>1, <3>1
    <3>5. QED
      BY <3>2, <3>3, <3>4, ElementOfSeq
  <2>3. QED
    BY <2>1, <2>2
<1>12. \A i \in 1..(end - base) : base + i - 1 \in base..(end - 1)
  BY <1>1, <1>7
<1>13. \A i \in 1..(end - base) : ByteAt(base + i - 1) \in Byte
  BY <1>11, <1>12
<1>14. end - base \in Nat
  BY <1>1, <1>7, <1>8
<1>15. FlatBytes(input) \in Seq(Byte) /\ Len(FlatBytes(input)) = end - base
  BY <1>2, <1>13, <1>14
<1>16. \A a \in base..(end - 1) : FlatBytes(input)[a - base + 1] = ByteAt(a)
  <2> TAKE a \in base..(end - 1)
  <2>1. a - base + 1 \in 1..(end - base) /\ base + (a - base + 1) - 1 = a
    BY <1>1, <1>7
  <2>2. QED
    BY <1>2, <2>1
<1>17. ASSUME NEW a \in base..(end - 1)
       PROVE  /\ (\A j \in 1..m : ~Covers(cluster[j], a)) => FlatBytes(input)[a - base + 1] = 0
              /\ (\E j \in 1..m : Covers(cluster[j], a)) =>
                   \E j \in 1..m :
                     /\ IsLastOver(input, j, a)
                     /\ FlatBytes(input)[a - base + 1] = cluster[j].bytes[a - cluster[j].addr + 1]
  <2>1. covering(a) = {} <=> \A j \in 1..m : ~Covers(cluster[j], a)
    BY <1>1
  <2>2. QED
    BY <1>9, <1>10, <1>16, <2>1
<1> HIDE DEF cluster, base
<1>18. QED
  BY <1>7, <1>8, <1>15, <1>17 DEF cluster, base

-----------------------------------------------------------------------------
(* Padding.                                                                *)

LEMMA RoundUpIs ==
  ASSUME NEW n \in Nat
  PROVE  /\ RoundUp(n, 4) \in Nat /\ RoundUp(n, 4) >= n
         /\ RoundUp(RoundUp(n, 4), 4) = RoundUp(n, 4)
         /\ RoundUp(n, 8) \in Nat /\ RoundUp(n, 8) >= n
<1>1. \A k \in Nat : ((k + 4 - 1) \div 4) * 4 \in Nat /\ ((k + 4 - 1) \div 4) * 4 >= k
  OBVIOUS
<1>2. \A k \in Nat : ((((k + 4 - 1) \div 4) * 4 + 4 - 1) \div 4) * 4 = ((k + 4 - 1) \div 4) * 4
  OBVIOUS
<1>3. \A k \in Nat : ((k + 8 - 1) \div 8) * 8 \in Nat /\ ((k + 8 - 1) \div 8) * 8 >= k
  OBVIOUS
<1>4. QED
  BY <1>1, <1>2, <1>3 DEF RoundUp

LEMMA PadToIs ==
  ASSUME NEW bytes \in Seq(Byte), NEW n \in Int
  PROVE  /\ PadTo(bytes, n) \in Seq(Byte)
         /\ Len(PadTo(bytes, n)) = IF n > Len(bytes) THEN n ELSE Len(bytes)
         /\ \A i \in 1..Len(PadTo(bytes, n)) :
              PadTo(bytes, n)[i] = IF i <= Len(bytes) THEN bytes[i] ELSE 0
<1> DEFINE zeros == [i \in 1..(n - Len(bytes)) |-> 0]
           more == IF n > Len(bytes) THEN n - Len(bytes) ELSE 0
<1>1. Len(bytes) \in Nat /\ more \in Nat
  BY LenProperties
<1>2. 1..(n - Len(bytes)) = 1..more
  BY <1>1
<1>3. zeros \in Seq(Byte) /\ Len(zeros) = more /\ \A i \in 1..more : zeros[i] = 0
  <2>1. zeros = [i \in 1..more |-> 0]
    BY <1>2
  <2> HIDE DEF zeros, more
  <2>2. QED
    BY <1>1, <2>1, ElfImageAssumption
<1>4. PadTo(bytes, n) = bytes \o zeros
  BY DEF PadTo
<1> HIDE DEF zeros
<1>5. /\ bytes \o zeros \in Seq(Byte)
      /\ Len(bytes \o zeros) = Len(bytes) + more
      /\ \A i \in 1..(Len(bytes) + more) :
           (bytes \o zeros)[i] = IF i <= Len(bytes) THEN bytes[i] ELSE zeros[i - Len(bytes)]
  BY <1>3, ConcatProperties
<1>6. ASSUME NEW i \in 1..(Len(bytes) + more)
      PROVE  (bytes \o zeros)[i] = IF i <= Len(bytes) THEN bytes[i] ELSE 0
  <2>1. i > Len(bytes) => i - Len(bytes) \in 1..more
    <3> HIDE DEF more
    <3>1. QED
      BY <1>1
  <2>2. QED
    BY <1>1, <1>3, <1>5, <2>1
<1>7. Len(bytes) + more = IF n > Len(bytes) THEN n ELSE Len(bytes)
  BY <1>1
<1> HIDE DEF more
<1>8. QED
  BY <1>4, <1>5, <1>6, <1>7

LEMMA PadToTwice ==
  ASSUME NEW bytes \in Seq(Byte), NEW n \in Nat, NEW k \in Nat, n <= k, Len(bytes) <= n
  PROVE  PadTo(PadTo(bytes, n), k) = PadTo(bytes, k)
<1> DEFINE once == PadTo(bytes, n)
           twice == PadTo(once, k)
           all == PadTo(bytes, k)
<1>1. Len(bytes) \in Nat /\ n \in Int /\ k \in Int
  BY LenProperties
<1>2. /\ once \in Seq(Byte) /\ Len(once) = n
      /\ \A i \in 1..n : once[i] = IF i <= Len(bytes) THEN bytes[i] ELSE 0
  BY <1>1, PadToIs
<1>3. /\ all \in Seq(Byte) /\ Len(all) = k
      /\ \A i \in 1..k : all[i] = IF i <= Len(bytes) THEN bytes[i] ELSE 0
  BY <1>1, PadToIs
<1> HIDE DEF once
<1>4. /\ twice \in Seq(Byte) /\ Len(twice) = k
      /\ \A i \in 1..k : twice[i] = IF i <= n THEN once[i] ELSE 0
  BY <1>1, <1>2, PadToIs
<1>5. \A i \in 1..k : twice[i] = all[i]
  <2> TAKE i \in 1..k
  <2>1. CASE i <= n
    <3>1. i \in 1..n
      BY <1>1, <2>1
    <3>2. QED
      BY <1>2, <1>3, <1>4, <2>1, <3>1
  <2>2. CASE ~(i <= n)
    BY <1>1, <1>3, <1>4, <2>2
  <2>3. QED
    BY <2>1, <2>2
<1> HIDE DEF twice, all
<1>6. twice = all
  BY <1>1, <1>3, <1>4, <1>5, SeqEqual
<1>7. QED
  BY <1>6 DEF twice, all, once

LEMMA PadWordsIs ==
  ASSUME NEW bytes \in Seq(Byte)
  PROVE  /\ PadWords(bytes) \in Seq(Byte)
         /\ Len(PadWords(bytes)) = RoundUp(Len(bytes), 4)
         /\ \A i \in 1..Len(PadWords(bytes)) :
              PadWords(bytes)[i] = IF i <= Len(bytes) THEN bytes[i] ELSE 0
<1>1. Len(bytes) \in Nat
  BY LenProperties
<1>2. RoundUp(Len(bytes), 4) \in Nat /\ RoundUp(Len(bytes), 4) >= Len(bytes)
  BY <1>1, RoundUpIs
<1>3. Len(PadTo(bytes, RoundUp(Len(bytes), 4))) = RoundUp(Len(bytes), 4)
  BY <1>1, <1>2, PadToIs
<1>4. QED
  BY <1>2, <1>3, PadToIs DEF PadWords

HeapOf(bytes) == RoundUp(HEADER_BYTES + RoundUp(Len(bytes), 4), 8)

LEMMA DdrImageIs ==
  ASSUME NEW bytes \in Seq(Byte)
  PROVE  LET image == DdrImage(bytes)
         IN  /\ image = [heap_start |-> HeapOf(bytes),
                         bytes |-> PadTo(bytes, HeapOf(bytes) - HEADER_BYTES)]
             /\ HeapOf(bytes) - HEADER_BYTES \in Nat
             /\ HeapOf(bytes) - HEADER_BYTES >= RoundUp(Len(bytes), 4)
             /\ RoundUp(Len(bytes), 4) >= Len(bytes) /\ RoundUp(Len(bytes), 4) \in Nat
             /\ Len(bytes) \in Nat /\ HeapOf(bytes) \in Nat
             /\ image.heap_start = HeapOf(bytes)
             /\ image.bytes \in Seq(Byte) /\ Len(image.bytes) = HeapOf(bytes) - HEADER_BYTES
             /\ \A i \in 1..Len(image.bytes) :
                  image.bytes[i] = IF i <= Len(bytes) THEN bytes[i] ELSE 0
<1> DEFINE words == RoundUp(Len(bytes), 4)
           heap == HeapOf(bytes)
<1>1. Len(bytes) \in Nat
  BY LenProperties
<1>2. words \in Nat /\ words >= Len(bytes)
  BY <1>1, RoundUpIs
<1>3. HEADER_BYTES + words \in Nat /\ HEADER_BYTES = 32
  BY <1>2 DEF HEADER_BYTES
<1>4. heap = RoundUp(HEADER_BYTES + words, 8)
  BY DEF HeapOf
<1>5. heap \in Nat /\ heap >= HEADER_BYTES + words
  <2> HIDE DEF words, heap
  <2>1. QED
    BY <1>3, <1>4, RoundUpIs
<1>6. Len(PadWords(bytes)) = words
  BY PadWordsIs
<1>7. DdrImage(bytes) = [heap_start |-> heap, bytes |-> PadTo(bytes, heap - HEADER_BYTES)]
  BY <1>4, <1>6 DEF DdrImage
<1> HIDE DEF words, heap
<1>8. heap - HEADER_BYTES \in Nat /\ heap - HEADER_BYTES >= words
  BY <1>2, <1>3, <1>5
<1>9. /\ PadTo(bytes, heap - HEADER_BYTES) \in Seq(Byte)
      /\ Len(PadTo(bytes, heap - HEADER_BYTES)) = heap - HEADER_BYTES
      /\ \A i \in 1..(heap - HEADER_BYTES) :
           PadTo(bytes, heap - HEADER_BYTES)[i] = IF i <= Len(bytes) THEN bytes[i] ELSE 0
  <2>1. Len(PadTo(bytes, heap - HEADER_BYTES)) = heap - HEADER_BYTES
    <3>1. heap - HEADER_BYTES \in Int /\ heap - HEADER_BYTES >= Len(bytes)
      BY <1>1, <1>2, <1>8
    <3>2. Len(PadTo(bytes, heap - HEADER_BYTES)) =
            IF heap - HEADER_BYTES > Len(bytes) THEN heap - HEADER_BYTES ELSE Len(bytes)
      BY <3>1, PadToIs
    <3>3. QED
      BY <1>1, <3>1, <3>2
  <2>2. QED
    BY <1>8, <2>1, PadToIs
<1>10. QED
  BY <1>1, <1>2, <1>5, <1>7, <1>8, <1>9 DEF words, heap

(* Padding to words first changes nothing.                                 *)
LEMMA ImageOfPadded ==
  ASSUME NEW bytes \in Seq(Byte)
  PROVE  DdrImage(PadWords(bytes)) = DdrImage(bytes)
<1> DEFINE padded == PadWords(bytes)
           words == RoundUp(Len(bytes), 4)
           room == HeapOf(bytes) - HEADER_BYTES
<1>1. padded \in Seq(Byte) /\ Len(padded) = words /\ padded = PadTo(bytes, words)
  BY PadWordsIs DEF PadWords
<1>2. Len(bytes) \in Nat /\ words \in Nat /\ words >= Len(bytes)
  BY DdrImageIs
<1>3. RoundUp(words, 4) = words
  BY <1>2, RoundUpIs
<1>4. HeapOf(padded) = HeapOf(bytes)
  <2>1. RoundUp(Len(padded), 4) = RoundUp(Len(bytes), 4)
    BY <1>1, <1>3
  <2>2. QED
    BY <2>1 DEF HeapOf
<1>5. room \in Nat /\ room >= words
  BY DdrImageIs
<1>6. PadTo(padded, room) = PadTo(bytes, room)
  <2>1. PadTo(PadTo(bytes, words), room) = PadTo(bytes, room)
    <3> HIDE DEF words, room
    <3>1. QED
      BY <1>2, <1>5, PadToTwice
  <2>2. QED
    BY <1>1, <2>1
<1>7. DdrImage(bytes) = [heap_start |-> HeapOf(bytes), bytes |-> PadTo(bytes, room)]
  BY DdrImageIs
<1>8. DdrImage(padded) = [heap_start |-> HeapOf(padded),
                          bytes |-> PadTo(padded, HeapOf(padded) - HEADER_BYTES)]
  BY <1>1, DdrImageIs
<1>9. QED
  BY <1>4, <1>6, <1>7, <1>8

(* What memory holds of an image, and of the shorter one that goes over    *)
(* the serial line.                                                        *)
LEMMA MemoryOfImage ==
  ASSUME NEW bytes \in Seq(Byte), NEW a \in Nat
  PROVE  LET found == IF a \in HEADER_BYTES..(HEADER_BYTES + Len(bytes) - 1)
                      THEN bytes[a - HEADER_BYTES + 1] ELSE 0
         IN  MemoryAt(DdrImage(bytes), a) = found /\ MemoryAt(WireImage(bytes), a) = found
<1> DEFINE ddr == DdrImage(bytes).bytes
           wire == WireImage(bytes).bytes
<1>1. /\ ddr \in Seq(Byte) /\ Len(ddr) \in Nat /\ Len(ddr) >= Len(bytes) /\ Len(bytes) \in Nat
      /\ \A i \in 1..Len(ddr) : ddr[i] = IF i <= Len(bytes) THEN bytes[i] ELSE 0
  <2>1. /\ ddr \in Seq(Byte)
        /\ \A i \in 1..Len(ddr) : ddr[i] = IF i <= Len(bytes) THEN bytes[i] ELSE 0
    BY DdrImageIs
  <2>2. /\ Len(ddr) \in Nat /\ Len(ddr) >= RoundUp(Len(bytes), 4) /\ Len(bytes) \in Nat
        /\ RoundUp(Len(bytes), 4) >= Len(bytes) /\ RoundUp(Len(bytes), 4) \in Nat
    BY DdrImageIs
  <2> HIDE DEF ddr
  <2>3. Len(ddr) >= Len(bytes)
    BY <2>2
  <2>4. QED
    BY <2>1, <2>2, <2>3
<1>2. /\ wire \in Seq(Byte) /\ Len(wire) \in Nat /\ Len(wire) >= Len(bytes)
      /\ \A i \in 1..Len(wire) : wire[i] = IF i <= Len(bytes) THEN bytes[i] ELSE 0
  <2>1. wire = PadWords(bytes)
    BY DEF WireImage
  <2>2. RoundUp(Len(bytes), 4) \in Nat /\ RoundUp(Len(bytes), 4) >= Len(bytes)
    BY <1>1, RoundUpIs
  <2>3. QED
    BY <2>1, <2>2, PadWordsIs
<1>3. ASSUME NEW longer, Len(longer) \in Nat, Len(longer) >= Len(bytes),
             \A i \in 1..Len(longer) : longer[i] = IF i <= Len(bytes) THEN bytes[i] ELSE 0
      PROVE  (IF a \in HEADER_BYTES..(HEADER_BYTES + Len(longer) - 1)
              THEN longer[a - HEADER_BYTES + 1] ELSE 0)
                = IF a \in HEADER_BYTES..(HEADER_BYTES + Len(bytes) - 1)
                  THEN bytes[a - HEADER_BYTES + 1] ELSE 0
  <2>1. HEADER_BYTES = 32 /\ Len(bytes) \in Nat
    BY <1>1 DEF HEADER_BYTES
  <2>2. a \in HEADER_BYTES..(HEADER_BYTES + Len(bytes) - 1)
          <=> HEADER_BYTES <= a /\ a - HEADER_BYTES + 1 <= Len(bytes)
    BY <2>1
  <2>3. a \in HEADER_BYTES..(HEADER_BYTES + Len(longer) - 1)
          <=> HEADER_BYTES <= a /\ a - HEADER_BYTES + 1 <= Len(longer)
    BY <1>3, <2>1
  <2>4. HEADER_BYTES <= a => a - HEADER_BYTES + 1 \in Nat \ {0}
    BY <2>1
  <2>5. CASE HEADER_BYTES <= a /\ a - HEADER_BYTES + 1 <= Len(longer)
    <3>1. a - HEADER_BYTES + 1 \in 1..Len(longer)
      BY <1>3, <2>4, <2>5
    <3>2. longer[a - HEADER_BYTES + 1] =
            IF a - HEADER_BYTES + 1 <= Len(bytes) THEN bytes[a - HEADER_BYTES + 1] ELSE 0
      BY <1>3, <3>1
    <3>3. QED
      BY <2>2, <2>3, <2>5, <3>2
  <2>6. CASE ~(HEADER_BYTES <= a /\ a - HEADER_BYTES + 1 <= Len(longer))
    <3>1. ~(HEADER_BYTES <= a /\ a - HEADER_BYTES + 1 <= Len(bytes))
      BY <1>3, <2>1, <2>6
    <3>2. QED
      BY <2>2, <2>3, <2>6, <3>1
  <2>7. QED
    BY <2>5, <2>6
<1> HIDE DEF ddr, wire
<1>4. QED
  BY <1>1, <1>2, <1>3 DEF MemoryAt, ddr, wire

-----------------------------------------------------------------------------
(* An ELF file whose segments do not overlap.                              *)

(* Where the i-th segment in order of address starts and ends.             *)
First(input, i) == input.segments[Place(input, i)].addr
End(input, i) == SegmentEnd(input.segments[Place(input, i)])

LEMMA SortedSegments ==
  ASSUME NEW input \in InputFile, Loadable(input) # {}
  PROVE  LET size == Cardinality(Loadable(input))
         IN  /\ size \in Nat /\ size > 0
             /\ \A i \in 1..size :
                  /\ Place(input, i) \in Loadable(input)
                  /\ ByAddress(input)[i] = input.segments[Place(input, i)]
                  /\ First(input, i) \in Nat /\ End(input, i) \in Nat
                  /\ First(input, i) < End(input, i)
             /\ \A i, j \in 1..size : i < j => First(input, i) <= First(input, j)
             /\ \A i \in 1..size, a \in Int :
                  Covers(input.segments[Place(input, i)], a)
                    <=> First(input, i) <= a /\ a < End(input, i)
             /\ \A n \in Loadable(input) : \E i \in 1..size : Place(input, i) = n
<1> DEFINE size == Cardinality(Loadable(input))
<1>1. size \in Nat /\ size > 0
  BY LoadableSegments, FS_EmptySet
<1>2. /\ \A i \in 1..size :
           /\ Place(input, i) \in Loadable(input)
           /\ ByAddress(input)[i] = input.segments[Place(input, i)]
      /\ \A n \in Loadable(input) : \E i \in 1..size : Place(input, i) = n
      /\ \A i, j \in 1..size : i < j => Precedes(input, Place(input, i), Place(input, j))
  BY SegmentsInOrder
<1>3. \A i \in 1..size :
        /\ First(input, i) \in Nat /\ End(input, i) \in Nat /\ First(input, i) < End(input, i)
  <2> TAKE i \in 1..size
  <2> DEFINE s == input.segments[Place(input, i)]
  <2>1. s.addr \in Nat /\ Len(s.bytes) \in Nat /\ Len(s.bytes) > 0
    BY <1>2, LoadableSegments
  <2>2. First(input, i) = s.addr /\ End(input, i) = s.addr + Len(s.bytes)
    BY DEF First, End, SegmentEnd
  <2> HIDE DEF s
  <2>3. QED
    BY <2>1, <2>2
<1>4. \A i, j \in 1..size : i < j => First(input, i) <= First(input, j)
  <2> TAKE i, j \in 1..size
  <2> HAVE i < j
  <2>1. Precedes(input, Place(input, i), Place(input, j))
    BY <1>2
  <2>2. First(input, i) < First(input, j) \/ First(input, i) = First(input, j)
    BY <2>1 DEF Precedes, First
  <2>3. QED
    BY <1>3, <2>2
<1>5. \A i \in 1..size, a \in Int :
        Covers(input.segments[Place(input, i)], a) <=> First(input, i) <= a /\ a < End(input, i)
  BY <1>3 DEF Covers, First, End
<1> HIDE DEF size
<1>6. QED
  BY <1>1, <1>2, <1>3, <1>4, <1>5 DEF size

LEMMA SegmentsApart ==
  ASSUME NEW input \in InputFile, Loadable(input) # {}, NoOverlap(input),
         NEW i \in 1..Cardinality(Loadable(input)), NEW j \in 1..Cardinality(Loadable(input)),
         i < j
  PROVE  End(input, i) <= First(input, j)
<1> DEFINE m == Place(input, i)
           n == Place(input, j)
<1>1. /\ m \in Loadable(input) /\ n \in Loadable(input)
      /\ First(input, i) \in Nat /\ End(input, i) \in Nat
      /\ First(input, j) \in Nat /\ End(input, j) \in Nat /\ First(input, j) < End(input, j)
      /\ First(input, i) <= First(input, j)
  BY SortedSegments
<1>2. m # n
  BY <1>1, SegmentsInOrder, PrecedesIsAnOrder
<1>3. m \in 1..Len(input.segments) /\ n \in 1..Len(input.segments)
  BY <1>1, LoadableSegments
<1>4. ~Overlap(input.segments[m], input.segments[n])
  BY <1>2, <1>3 DEF NoOverlap
<1>5. ~(First(input, i) < End(input, j) /\ First(input, j) < End(input, i))
  BY <1>4 DEF Overlap, First, End
<1> HIDE DEF m, n
<1>6. QED
  BY <1>1, <1>5

LEMMA LowestIsBase ==
  ASSUME NEW input \in InputFile, Loadable(input) # {}
  PROVE  /\ Min({s.addr : s \in Segments(input)}) = Base(input)
         /\ Base(input) = First(input, 1) /\ Base(input) \in Nat
         /\ \A i \in 1..Cardinality(Loadable(input)) : Base(input) <= First(input, i)
<1> DEFINE size == Cardinality(Loadable(input))
           addresses == {s.addr : s \in Segments(input)}
<1>1. /\ size \in Nat /\ size > 0
      /\ \A i \in 1..size : Place(input, i) \in Loadable(input) /\ First(input, i) \in Nat
      /\ \A i, j \in 1..size : i < j => First(input, i) <= First(input, j)
      /\ \A n \in Loadable(input) : \E i \in 1..size : Place(input, i) = n
  BY SortedSegments
<1>2. Len(Cluster(input)) \in 1..size /\ \A k \in 1..Len(Cluster(input)) :
          Cluster(input)[k] = input.segments[Place(input, k)]
  BY ClusterIs, ClusterSegments
<1>3. 1 \in 1..size /\ 1 \in 1..Len(Cluster(input))
  BY <1>1, <1>2
<1>4. Base(input) = First(input, 1)
  BY <1>2, <1>3 DEF Base, First
<1>5. \A i \in 1..size : First(input, 1) <= First(input, i)
  <2> TAKE i \in 1..size
  <2>1. i = 1 \/ 1 < i
    BY <1>1
  <2>2. QED
    BY <1>1, <1>3, <2>1
<1>6. \A x \in addresses : \E i \in 1..size : x = First(input, i)
  <2> TAKE x \in addresses
  <2>1. PICK n \in Loadable(input) : x = input.segments[n].addr
    BY DEF Segments
  <2>2. PICK i \in 1..size : Place(input, i) = n
    BY <1>1
  <2>3. QED
    BY <2>1, <2>2 DEF First
<1>7. First(input, 1) \in addresses
  BY <1>1, <1>3 DEF First, Segments
<1> HIDE DEF addresses, size
<1>8. addresses \in SUBSET Nat /\ \A x \in addresses : First(input, 1) <= x
  BY <1>1, <1>5, <1>6
<1>9. Min(addresses) = First(input, 1)
  BY <1>7, <1>8, MinOf
<1>10. QED
  BY <1>1, <1>3, <1>4, <1>5, <1>9 DEF addresses, size

(* A segment belongs to the cluster exactly if its bytes are reachable.    *)
LEMMA ReachableInCluster ==
  ASSUME NEW input \in InputFile, Loadable(input) # {}, NoOverlap(input),
         NEW p \in 1..Cardinality(Loadable(input)), NEW a \in Int,
         Covers(input.segments[Place(input, p)], a)
  PROVE  Reachable(input, a) <=> p <= Len(Cluster(input))
<1> DEFINE size == Cardinality(Loadable(input))
           m == Len(Cluster(input))
           used(b) == \E s \in Segments(input) : Covers(s, b)
           unused(b) == \A c \in b..(b + MaxSegmentGap) : ~used(c)
<1>1. /\ size \in Nat /\ size > 0 /\ m \in 1..size
      /\ \A i \in 1..size :
           /\ Place(input, i) \in Loadable(input)
           /\ ByAddress(input)[i] = input.segments[Place(input, i)]
           /\ First(input, i) \in Nat /\ End(input, i) \in Nat
           /\ First(input, i) < End(input, i)
           /\ Base(input) <= First(input, i)
      /\ \A i, j \in 1..size : i < j => First(input, i) <= First(input, j)
      /\ Base(input) \in Nat /\ Base(input) = First(input, 1)
  BY SortedSegments, LowestIsBase, ClusterIs
<1>2. \A i, j \in 1..size : i < j => End(input, i) <= First(input, j)
  BY SegmentsApart
<1>3. First(input, p) <= a /\ a < End(input, p)
  BY SortedSegments
<1>4. \A b \in Int : used(b) <=> \E i \in 1..size : First(input, i) <= b /\ b < End(input, i)
  <2> TAKE b \in Int
  <2>1. ASSUME used(b)
        PROVE  \E i \in 1..size : First(input, i) <= b /\ b < End(input, i)
    <3>1. PICK n \in Loadable(input) : Covers(input.segments[n], b)
      BY <2>1 DEF Segments
    <3>2. PICK i \in 1..size : Place(input, i) = n
      BY SortedSegments
    <3>3. QED
      BY <3>1, <3>2, SortedSegments
  <2>2. ASSUME NEW i \in 1..size, First(input, i) <= b, b < End(input, i)
        PROVE  used(b)
    <3>1. Covers(input.segments[Place(input, i)], b)
      BY <2>2, SortedSegments
    <3>2. QED
      BY <1>1, <3>1 DEF Segments
  <2>3. QED
    BY <2>1, <2>2
<1>5. Reachable(input, a) <=> ~\E b \in Base(input)..(a - MaxSegmentGap - 1) : unused(b)
  BY LowestIsBase DEF Reachable
<1>6. \A i \in 1..size, j \in 1..size :
        Adjoins(ByAddress(input)[i], ByAddress(input)[j])
          <=> First(input, j) - End(input, i) <= MaxSegmentGap
  <2> TAKE i \in 1..size, j \in 1..size
  <2>1. First(input, j) \in Nat /\ End(input, i) \in Nat /\ MaxSegmentGap \in Nat
    BY <1>1, ElfImageAssumption
  <2>2. Adjoins(ByAddress(input)[i], ByAddress(input)[j]) <=>
          (IF First(input, j) > End(input, i) THEN First(input, j) - End(input, i) ELSE 0)
            <= MaxSegmentGap
    BY <1>1 DEF Adjoins, Gap, First, End
  <2>3. QED
    BY <2>1, <2>2
<1>7. MaxSegmentGap \in Nat
  BY ElfImageAssumption
<1> HIDE DEF used
<1>8. ASSUME p <= m, NEW b \in Base(input)..(a - MaxSegmentGap - 1), unused(b)
      PROVE  FALSE
  <2> DEFINE below == {i \in 1..size : First(input, i) <= b}
             i == Max(below)
  <2>1. b \in Int /\ Base(input) <= b /\ b + MaxSegmentGap < a
    BY <1>1, <1>7
  <2>2. below \in SUBSET Int /\ 1 \in below /\ size \in Int /\ \A k \in below : k <= size
    <3> HIDE DEF size
    <3>1. QED
      BY <1>1, <2>1
  <2>3. i \in below /\ \A k \in below : k <= i
    <3> HIDE DEF below, size
    <3>1. QED
      BY <2>2, MaxOf
  <2>4. i \in 1..size /\ First(input, i) <= b
    BY <2>3
  <2> HIDE DEF i
  <2>5. ~used(b)
    BY <1>7, <1>8, <2>1
  <2>6. End(input, i) <= b /\ End(input, i) \in Nat
    <3>1. ~(First(input, i) <= b /\ b < End(input, i))
      BY <1>4, <2>1, <2>4, <2>5
    <3>2. End(input, i) \in Nat
      BY <1>1, <2>4
    <3>3. QED
      BY <2>1, <2>4, <3>1, <3>2
  <2>7. i < p
    <3> SUFFICES ASSUME p <= i
                 PROVE  FALSE
      BY <1>1, <2>4
    <3>1. CASE p = i
      BY <1>1, <1>3, <1>7, <2>1, <2>6, <3>1
    <3>2. CASE p < i
      <4>1. End(input, p) <= First(input, i)
        BY <1>2, <2>4, <3>2
      <4>2. QED
        BY <1>1, <1>3, <1>7, <2>1, <2>4, <4>1
    <3>3. QED
      BY <1>1, <2>4, <3>1, <3>2
  <2>8. i + 1 \in 1..size /\ i + 1 \in 2..m /\ i + 1 - 1 = i
    <3> HIDE DEF size, m
    <3>1. QED
      BY <1>1, <1>8, <2>4, <2>7
  <2>9. Adjoins(ByAddress(input)[i], ByAddress(input)[i + 1])
    <3>1. PICK k \in 2..m : k = i + 1
      BY <2>8
    <3>2. k \in 2..Len(Cluster(input))
      OBVIOUS
    <3> HIDE DEF m
    <3>3. Adjoins(ByAddress(input)[k - 1], ByAddress(input)[k])
      BY <3>2, ClusterIs
    <3>4. k - 1 = i
      BY <2>4, <3>1
    <3>5. QED
      BY <3>1, <3>3, <3>4
  <2>10. First(input, i + 1) - End(input, i) <= MaxSegmentGap
    BY <1>6, <2>4, <2>8, <2>9
  <2>11. First(input, i + 1) > b
    <3> HIDE DEF size
    <3>1. i + 1 \notin below
      BY <1>1, <2>3, <2>4
    <3>2. ~(First(input, i + 1) <= b)
      BY <2>8, <3>1
    <3>3. First(input, i + 1) \in Nat
      BY <1>1, <2>8
    <3>4. QED
      BY <2>1, <3>2, <3>3
  <2>12. First(input, i + 1) \in b..(b + MaxSegmentGap)
    <3>1. First(input, i + 1) \in Nat
      BY <1>1, <2>8
    <3>2. QED
      BY <1>7, <2>1, <2>6, <2>10, <2>11, <3>1
  <2>13. used(First(input, i + 1))
    BY <1>1, <1>4, <2>8
  <2>14. QED
    BY <1>8, <2>12, <2>13
<1>9. ASSUME ~(p <= m)
      PROVE  \E b \in Base(input)..(a - MaxSegmentGap - 1) : unused(b)
  <2> DEFINE b == End(input, m)
  <2>1. m < size /\ m + 1 \in 1..size /\ m + 1 <= p
    BY <1>1, <1>9
  <2>2. ~Adjoins(ByAddress(input)[m], ByAddress(input)[m + 1])
    BY <2>1, ClusterIs
  <2>3. First(input, m + 1) - b > MaxSegmentGap /\ b \in Nat /\ First(input, m + 1) \in Nat
    <3> HIDE DEF size, m
    <3>1. ~(First(input, m + 1) - End(input, m) <= MaxSegmentGap)
      BY <1>1, <1>6, <2>1, <2>2
    <3>2. End(input, m) \in Nat /\ First(input, m + 1) \in Nat
      BY <1>1, <2>1
    <3>3. QED
      BY <1>7, <3>1, <3>2
  <2>4. \A q \in 1..size : m < q => First(input, m + 1) <= First(input, q)
    <3> TAKE q \in 1..size
    <3> HAVE m < q
    <3>1. q = m + 1 \/ m + 1 < q
      BY <1>1
    <3>2. QED
      BY <1>1, <2>1, <3>1
  <2>5. b <= a - MaxSegmentGap - 1
    <3>1. First(input, m + 1) <= First(input, p)
      BY <1>1, <1>9, <2>4
    <3>2. QED
      BY <1>1, <1>3, <1>7, <2>3, <3>1
  <2>6. Base(input) <= b
    BY <1>1
  <2>7. b \in Base(input)..(a - MaxSegmentGap - 1)
    BY <1>1, <1>7, <2>3, <2>5, <2>6
  <2>8. ASSUME NEW c \in b..(b + MaxSegmentGap)
        PROVE  ~used(c)
    <3>1. c \in Int /\ b <= c /\ c < First(input, m + 1)
      BY <1>7, <2>3
    <3>2. ASSUME NEW q \in 1..size, First(input, q) <= c, c < End(input, q)
          PROVE  FALSE
      <4> HIDE DEF b
      <4>1. /\ First(input, q) \in Nat /\ End(input, q) \in Nat
            /\ First(input, m) \in Nat /\ First(input, m) < b
        BY <1>1 DEF b
      <4>2. CASE m < q
        <5>1. First(input, m + 1) <= First(input, q)
          BY <2>4, <4>2
        <5>2. QED
          BY <2>3, <3>1, <3>2, <4>1, <5>1
      <4>3. CASE q = m
        <5>1. End(input, q) = b
          BY <4>3 DEF b
        <5>2. QED
          BY <2>3, <3>1, <3>2, <5>1
      <4>4. CASE q < m
        <5>1. End(input, q) <= First(input, m)
          BY <1>1, <1>2, <4>4
        <5>2. QED
          BY <2>3, <3>1, <3>2, <4>1, <5>1
      <4>5. QED
        BY <1>1, <4>2, <4>3, <4>4
    <3>3. QED
      BY <1>4, <3>1, <3>2
  <2>9. QED
    BY <2>7, <2>8
<1>10. QED
  BY <1>5, <1>8, <1>9

-----------------------------------------------------------------------------
(* What the board finds of a binary.                                       *)

LEMMA PayloadType ==
  ASSUME NEW input \in InputFile, CanFlatten(input)
  PROVE  Payload(input) \in Seq(Byte)
<1>1. input.magic \in BOOLEAN /\ input.bytes \in Seq(Byte)
  BY DEF InputFile
<1>2. CASE input.magic
  <2>1. Loadable(input) # {}
    BY <1>2 DEF CanFlatten
  <2>2. FlatBytes(input) \in Seq(Byte)
    BY <2>1, FlatBytesAre
  <2>3. QED
    BY <1>2, <2>2, Zenon DEF Payload
<1>3. CASE ~input.magic
  BY <1>1, <1>3, Zenon DEF Payload
<1>4. QED
  BY <1>1, <1>2, <1>3

(* A byte of a segment is in memory if its segment is in the cluster, and  *)
(* its place is empty if not.                                              *)
LEMMA ElfInMemory ==
  ASSUME NEW input \in InputFile, Loadable(input) # {}, NoOverlap(input),
         NEW p \in 1..Cardinality(Loadable(input)), NEW a \in Int,
         First(input, p) <= a, a < End(input, p)
  PROVE  MemoryAt(DdrImage(FlatBytes(input)), a - Base(input) + HEADER_BYTES) =
           IF p <= Len(Cluster(input))
           THEN input.segments[Place(input, p)].bytes[a - First(input, p) + 1] ELSE 0
<1> DEFINE size == Cardinality(Loadable(input))
           cluster == Cluster(input)
           m == Len(cluster)
           base == Base(input)
           flat == FlatBytes(input)
           place == a - base + HEADER_BYTES
<1>1. /\ size \in Nat /\ m \in 1..size
      /\ \A i \in 1..size :
           First(input, i) \in Nat /\ End(input, i) \in Nat /\ First(input, i) < End(input, i)
      /\ base \in Nat
      /\ \A i \in 1..size : base <= First(input, i)
  BY SortedSegments, ClusterIs, LowestIsBase
<1>2. \A k \in 1..m : /\ cluster[k] = input.segments[Place(input, k)]
                      /\ cluster[k].addr = First(input, k)
                      /\ SegmentEnd(cluster[k]) = End(input, k)
  BY ClusterSegments DEF First, End
<1>3. \A k \in 1..m, b \in Int : Covers(cluster[k], b) <=> First(input, k) <= b /\ b < End(input, k)
  <2> TAKE k \in 1..m, b \in Int
  <2>1. k \in 1..size
    BY <1>1
  <2>2. QED
    BY <1>2, <2>1, SortedSegments
<1>4. PICK end \in Nat :
        /\ FlatEnd(input, end) /\ end > base
        /\ flat \in Seq(Byte) /\ Len(flat) = end - base
        /\ \A b \in base..(end - 1) :
             /\ (\A k \in 1..m : ~Covers(cluster[k], b)) => flat[b - base + 1] = 0
             /\ (\E k \in 1..m : Covers(cluster[k], b)) =>
                  \E k \in 1..m :
                    /\ IsLastOver(input, k, b)
                    /\ flat[b - base + 1] = cluster[k].bytes[b - cluster[k].addr + 1]
  BY FlatBytesAre
<1>5. HEADER_BYTES = 32
  BY DEF HEADER_BYTES
<1>6. base <= a /\ place \in Nat
  BY <1>1, <1>5
<1>7. MemoryAt(DdrImage(flat), place) =
        IF place \in HEADER_BYTES..(HEADER_BYTES + Len(flat) - 1)
        THEN flat[place - HEADER_BYTES + 1] ELSE 0
  BY <1>4, <1>6, MemoryOfImage
<1>8. \A i, j \in 1..size : i < j => End(input, i) <= First(input, j)
  BY SegmentsApart
<1> HIDE DEF size, m, base, flat
<1>9. place - HEADER_BYTES + 1 = a - base + 1
  BY <1>1, <1>5
<1>10. place \in HEADER_BYTES..(HEADER_BYTES + Len(flat) - 1) <=> a < end
  BY <1>1, <1>4, <1>5, <1>6
<1>11. CASE p <= m
  <2>1. p \in 1..m
    BY <1>1, <1>11
  <2>2. Covers(cluster[p], a)
    BY <1>3, <2>1
  <2>3. SegmentEnd(cluster[p]) <= end
    BY <1>4, <2>1 DEF FlatEnd, m
  <2>4. a < end
    <3>1. End(input, p) <= end /\ End(input, p) \in Nat
      BY <1>1, <1>2, <2>1, <2>3
    <3>2. QED
      BY <1>4, <3>1
  <2>5. a \in base..(end - 1)
    BY <1>1, <1>4, <1>6, <2>4
  <2>6. PICK k \in 1..m :
          IsLastOver(input, k, a) /\ flat[a - base + 1] = cluster[k].bytes[a - cluster[k].addr + 1]
    BY <1>4, <2>1, <2>2, <2>5
  <2>7. First(input, k) <= a /\ a < End(input, k) /\ p <= k
    BY <1>3, <2>1, <2>2, <2>6 DEF IsLastOver, m
  <2>8. k \in 1..size
    BY <1>1, <2>6
  <2>9. ~(p < k)
    <3> SUFFICES ASSUME p < k PROVE FALSE
      OBVIOUS
    <3>1. p \in 1..size
      BY DEF size
    <3>2. End(input, p) <= First(input, k)
      BY <1>8, <2>8, <3>1
    <3>3. End(input, p) \in Nat /\ First(input, k) \in Nat
      BY <1>1, <2>8, <3>1
    <3>4. QED
      BY <2>7, <3>2, <3>3
  <2>10. k = p
    BY <1>1, <2>1, <2>6, <2>7, <2>9
  <2>11. flat[a - base + 1] = input.segments[Place(input, p)].bytes[a - First(input, p) + 1]
    BY <1>2, <2>1, <2>6, <2>10
  <2>12. QED
    BY <1>7, <1>9, <1>10, <1>11, <2>4, <2>11 DEF m, base, flat
<1>12. CASE ~(p <= m)
  <2>1. PICK k \in 1..m : end = SegmentEnd(cluster[k])
    BY <1>4 DEF FlatEnd, m
  <2>2. end = End(input, k) /\ k \in 1..size /\ k < p /\ p \in 1..size
    <3>1. p \in 1..size
      BY DEF size
    <3>2. QED
      BY <1>1, <1>2, <1>12, <2>1, <3>1
  <2>3. end <= First(input, p) /\ First(input, p) \in Nat
    BY <1>1, <1>8, <2>2
  <2>4. ~(a < end)
    BY <1>4, <2>3
  <2>5. QED
    BY <1>7, <1>10, <1>12, <2>4 DEF m, base, flat
<1>13. QED
  BY <1>11, <1>12

LEMMA EntryOfElf ==
  ASSUME NEW input \in InputFile, Loadable(input) # {}, input.magic,
         ElfEntry(input) \in Int, Base(input) <= ElfEntry(input)
  PROVE  Entry(input, NoOverride) = ElfEntry(input) - Base(input) + HEADER_BYTES
<1> DEFINE e == ElfEntry(input)
           base == Base(input)
<1>1. base \in Nat /\ e \in Int /\ base <= e
  BY LowestIsBase
<1>2. Entry(input, NoOverride) = BoardEntry(input)
  BY Zenon DEF Entry
<1>3. BoardEntry(input) = HEADER_BYTES + IF e > base THEN e - base ELSE 0
  BY DEF BoardEntry
<1> HIDE DEF e, base
<1>4. HEADER_BYTES + (IF e > base THEN e - base ELSE 0) = e - base + HEADER_BYTES
  BY <1>1 DEF HEADER_BYTES
<1>5. QED
  BY <1>2, <1>3, <1>4 DEF e, base

LEMMA ElfEntryType ==
  ASSUME NEW input \in InputFile, Loadable(input) # {}
  PROVE  ElfEntry(input) \in Nat
<1>1. input.e_entry \in Nat /\ input.start_symbols \in Seq(Nat) /\ Base(input) \in Nat
  BY LowestIsBase DEF InputFile
<1>2. input.start_symbols # << >> => input.start_symbols[1] \in Nat
  BY <1>1
<1>3. QED
  BY <1>1, <1>2 DEF ElfEntry

-----------------------------------------------------------------------------
(* What is loaded has been read and flattened.                             *)
CanBeLoaded == loaded # NoBinary => loaded \in InputFile /\ CanFlatten(loaded)

LEMMA AlwaysCanBeLoaded == Spec => []CanBeLoaded
<1>1. Init => CanBeLoaded
  BY DEF Init, CanBeLoaded
<1>2. CanBeLoaded /\ [Next]_vars => CanBeLoaded'
  <2> SUFFICES ASSUME CanBeLoaded, [Next]_vars PROVE CanBeLoaded'
    OBVIOUS
  <2>1. CASE loaded' = loaded
    BY <2>1 DEF CanBeLoaded, CanFlatten, InputFile
  <2>2. CASE Flatten
    <3>1. loaded' = loaded \/ loaded' \in {binary \in Binaries : CanFlatten(binary)}
      BY <2>2 DEF Flatten
    <3>2. CASE loaded' \in {binary \in Binaries : CanFlatten(binary)}
      <4>1. PICK binary \in Binaries : loaded' = binary /\ CanFlatten(binary)
        BY <3>2
      <4>2. binary \in InputFile
        BY <4>1, CommandsAssumption
      <4>3. QED
        BY <4>1, <4>2 DEF CanBeLoaded, CanFlatten, InputFile
    <3>3. QED
      BY <2>1, <3>1, <3>2
  <2>3. CASE Leave \/ NetLoad \/ MemOut \/ EmulateBinary \/ ElfToSerial
    <3>1. loaded' = NoBinary
      BY <2>3 DEF Leave, NetLoad, MemOut, EmulateBinary, ElfToSerial
    <3>2. QED
      BY <3>1 DEF CanBeLoaded
  <2>4. QED
    BY <2>1, <2>2, <2>3, StepTouches DEF Touches
<1>3. QED
  BY <1>1, <1>2, PTL DEF Spec

LEMMA LoadedAgrees ==
  ASSUME NEW input \in InputFile, CanFlatten(input)
  PROVE  LET net == NetImage(input)
             serial == SerialImage(input)
         IN  /\ RomImage(input) = net
             /\ EmulatedImage(input) = net
             /\ serial.heap_start = net.heap_start
             /\ \A a \in 0..(net.heap_start - 1) : MemoryAt(serial, a) = MemoryAt(net, a)
<1> DEFINE bytes == Payload(input)
           net == NetImage(input)
           serial == SerialImage(input)
<1>1. bytes \in Seq(Byte)
  BY PayloadType
<1>2. net = DdrImage(bytes)
  BY <1>1, ImageOfPadded DEF NetImage
<1>3. RomImage(input) = net /\ EmulatedImage(input) = net
  BY <1>2 DEF RomImage, NetImage, EmulatedImage
<1>4. serial = WireImage(bytes)
  BY DEF SerialImage
<1>5. serial.heap_start = net.heap_start
  <2>1. serial.heap_start = RoundUp(HEADER_BYTES + Len(PadWords(bytes)), 8)
    BY <1>4 DEF WireImage, WireHeapStart
  <2>2. net.heap_start = RoundUp(HEADER_BYTES + RoundUp(Len(bytes), 4), 8)
    BY <1>1, <1>2, DdrImageIs DEF HeapOf
  <2>3. QED
    BY <1>1, <2>1, <2>2, PadWordsIs
<1>6. \A a \in Nat : MemoryAt(serial, a) = MemoryAt(net, a)
  BY <1>1, <1>2, <1>4, MemoryOfImage
<1> HIDE DEF net, serial
<1>7. \A a \in 0..(net.heap_start - 1) : MemoryAt(serial, a) = MemoryAt(net, a)
  BY <1>6
<1>8. QED
  BY <1>3, <1>5, <1>7 DEF net, serial

(***************************************************************************)
(* LoadersAgreeAlways: whatever binary is loaded, an ELF file of any       *)
(* segments or a flat file of any length, the board, the boot ROM, the     *)
(* emulator and the serial loader give it the same heap_start and the same *)
(* bytes.                                                                  *)
(***************************************************************************)
THEOREM LoadersAgreeAlways == Spec => []LoadersAgree
<1>1. CanBeLoaded => LoadersAgree
  <2> SUFFICES ASSUME CanBeLoaded, loaded # NoBinary PROVE LoadersAgree
    BY DEF LoadersAgree
  <2>1. loaded \in InputFile /\ CanFlatten(loaded)
    BY DEF CanBeLoaded
  <2>2. QED
    BY <2>1, LoadedAgrees DEF LoadersAgree
<1>2. QED
  BY <1>1, AlwaysCanBeLoaded, PTL

LEMMA LoadedElf ==
  ASSUME NEW input \in InputFile, Loadable(input) # {}, NoOverlap(input), input.magic
  PROVE  LET segments == Segments(input)
             lowest == Min({s.addr : s \in segments})
             place(a) == a - lowest + HEADER_BYTES
             image == NetImage(input)
         IN  /\ \A s \in segments : \A i \in 1..Len(s.bytes) :
                  LET a == s.addr + i - 1 IN
                  IF Reachable(input, a) THEN MemoryAt(image, place(a)) = s.bytes[i]
                  ELSE MemoryAt(image, place(a)) = 0
             /\ \A s \in segments :
                  Covers(s, ElfEntry(input)) /\ Reachable(input, ElfEntry(input)) =>
                    /\ Entry(input, NoOverride) = place(ElfEntry(input))
                    /\ MemoryAt(image, Entry(input, NoOverride)) =
                         s.bytes[ElfEntry(input) - s.addr + 1]
<1> DEFINE size == Cardinality(Loadable(input))
           segments == Segments(input)
           lowest == Min({s.addr : s \in segments})
           place(a) == a - lowest + HEADER_BYTES
           image == NetImage(input)
<1>1. lowest = Base(input)
  BY LowestIsBase
<1>2. image = DdrImage(FlatBytes(input))
  <2>1. Payload(input) = FlatBytes(input)
    BY Zenon DEF Payload
  <2>2. FlatBytes(input) \in Seq(Byte)
    BY FlatBytesAre
  <2>3. QED
    BY <2>1, <2>2, ImageOfPadded DEF NetImage
<1>3. \A s \in segments : \E p \in 1..size :
        s = input.segments[Place(input, p)] /\ First(input, p) = s.addr
  <2> TAKE s \in segments
  <2>1. PICK n \in Loadable(input) : s = input.segments[n]
    BY DEF Segments
  <2>2. PICK p \in 1..size : Place(input, p) = n
    BY SortedSegments
  <2>3. QED
    BY <2>1, <2>2 DEF First
<1>4. ASSUME NEW s \in segments, NEW a \in Int, Covers(s, a)
      PROVE  /\ MemoryAt(image, place(a)) =
                  IF Reachable(input, a) THEN s.bytes[a - s.addr + 1] ELSE 0
             /\ Base(input) <= a
  <2>1. PICK p \in 1..size : s = input.segments[Place(input, p)] /\ First(input, p) = s.addr
    BY <1>3
  <2>2. First(input, p) <= a /\ a < End(input, p)
    BY <1>4, <2>1, SortedSegments
  <2>3. Reachable(input, a) <=> p <= Len(Cluster(input))
    BY <1>4, <2>1, ReachableInCluster
  <2>4. MemoryAt(DdrImage(FlatBytes(input)), a - Base(input) + HEADER_BYTES) =
          IF p <= Len(Cluster(input))
          THEN input.segments[Place(input, p)].bytes[a - First(input, p) + 1] ELSE 0
    BY <2>2, ElfInMemory
  <2>5. MemoryAt(image, place(a)) = IF Reachable(input, a) THEN s.bytes[a - s.addr + 1] ELSE 0
    BY <1>1, <1>2, <2>1, <2>3, <2>4
  <2>6. Base(input) <= First(input, p) /\ First(input, p) \in Nat /\ Base(input) \in Nat
    BY LowestIsBase, SortedSegments
  <2>7. QED
    BY <2>2, <2>5, <2>6
<1>5. ASSUME NEW s \in segments, NEW i \in 1..Len(s.bytes)
      PROVE  LET a == s.addr + i - 1 IN
             IF Reachable(input, a) THEN MemoryAt(image, place(a)) = s.bytes[i]
             ELSE MemoryAt(image, place(a)) = 0
  <2> DEFINE a == s.addr + i - 1
  <2>1. s.addr \in Nat /\ Len(s.bytes) \in Nat
    BY LoadableSegments DEF Segments
  <2>2. a \in Int /\ a - s.addr + 1 = i
    BY <2>1
  <2>3. Covers(s, a)
    BY <2>1 DEF Covers, SegmentEnd
  <2> HIDE DEF a
  <2>4. MemoryAt(image, place(a)) = IF Reachable(input, a) THEN s.bytes[a - s.addr + 1] ELSE 0
    BY <1>4, <2>2, <2>3
  <2> HIDE DEF image, place
  <2>5. IF Reachable(input, a) THEN MemoryAt(image, place(a)) = s.bytes[i]
        ELSE MemoryAt(image, place(a)) = 0
    BY <2>2, <2>4
  <2>6. QED
    BY <2>5 DEF a
<1>6. ASSUME NEW s \in segments, Covers(s, ElfEntry(input)), Reachable(input, ElfEntry(input))
      PROVE  /\ Entry(input, NoOverride) = place(ElfEntry(input))
             /\ MemoryAt(image, Entry(input, NoOverride)) = s.bytes[ElfEntry(input) - s.addr + 1]
  <2>1. ElfEntry(input) \in Int
    BY ElfEntryType
  <2>2. /\ MemoryAt(image, place(ElfEntry(input))) = s.bytes[ElfEntry(input) - s.addr + 1]
        /\ Base(input) <= ElfEntry(input)
    BY <1>4, <1>6, <2>1
  <2>3. Entry(input, NoOverride) = place(ElfEntry(input))
    BY <1>1, <2>1, <2>2, EntryOfElf
  <2>4. QED
    BY <2>2, <2>3
<1> HIDE DEF image, place, segments
<1>7. QED
  BY <1>5, <1>6 DEF image, place, segments

(***************************************************************************)
(* LoadedIsTheElfAlways: of every ELF file without overlaps, whatever its  *)
(* segments and gaps, the board has exactly the bytes that no wide gap     *)
(* separates from the lowest one, and starts at the file's entry.          *)
(***************************************************************************)
THEOREM LoadedIsTheElfAlways == Spec => []LoadedIsTheElf
<1>1. CanBeLoaded => LoadedIsTheElf
  <2> SUFFICES ASSUME CanBeLoaded, loaded.magic, NoOverlap(loaded) PROVE LoadedIsTheElf
    BY Zenon DEF LoadedIsTheElf
  <2>1. loaded # NoBinary
    <3>1. ~NoBinary.magic
      BY DEF NoBinary
    <3>2. QED
      BY <3>1, Zenon
  <2>2. loaded \in InputFile /\ CanFlatten(loaded)
    BY <2>1 DEF CanBeLoaded
  <2>3. Loadable(loaded) # {}
    BY <2>2, Zenon DEF CanFlatten
  <2>4. QED
    BY <2>2, <2>3, LoadedElf, Zenon DEF LoadedIsTheElf
<1>2. QED
  BY <1>1, AlwaysCanBeLoaded, PTL
================================================================================
