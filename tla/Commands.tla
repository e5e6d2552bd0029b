-------------------------------- MODULE Commands -------------------------------
(***************************************************************************)
(* One klausscc process after another: main() of main.rs decides from the  *)
(* command line what to do, the run_* functions of commands.rs do it.      *)
(* What outlives a process is the .kbt files it leaves on disk and the     *)
(* program it leaves on the board; the user edits the sources meanwhile,   *)
(* also while a process runs.                                              *)
(*                                                                         *)
(* A program is the file it was assembled from and the file's version.     *)
(* Assembly is Assembler.tla's, an upload and a test BoardUpload.tla's and *)
(* SerialTest.tla's; here only their outcomes count.                       *)
(***************************************************************************)
EXTENDS ElfImage

CONSTANTS
  Kla,            \* the assembly sources
  Binaries,       \* what the binary input file may hold, a set of InputFile
  BinaryStem,     \* the source beside it with the same stem, or "binary"
  CommandLines,   \* the command lines given
  Named,          \* bound: the sources that are edited, or given with -i, or their .kbt
  TestLists,      \* what a test list may name: sequences of sources
  Edited,         \* what an edit may leave: [outcome, expected]
  MaxEdits        \* bound: how often a source is edited

VARIABLES
  source,         \* source[f]: what the file holds
  kbt,            \* kbt[f]: the image in f's .kbt file
  board,          \* the program on the board
  at,             \* where the process is
  args,           \* its command line
  file,           \* the source it names
  list,           \* the sources of its test list
  index,          \* the next of them
  errors,         \* msg_list holds an Error
  assembling,     \* the source as it was read for assembly
  against,        \* the source as it was read for expected values
  loaded,         \* the binary input, until it is sent, written or run
  results,        \* verdicts, one per test
  shown,          \* the program the monitor was attached to
  exit,           \* the exit status
  wanted          \* the version of f last read to make its .kbt, or Failed
                  \* when that failed and left the old one (history)

files == << kbt, wanted >>
reading == << assembling, against, loaded >>
given == << args, file, list >>
vars == << source, kbt, board, at, args, file, list, index, errors, assembling,
           against, loaded, results, shown, exit, wanted >>

(* A source assembles without errors ("good"), with errors ("bad"), without*)
(* errors but with no or two _start lines, or cannot be read.              *)
Outcomes == {"good", "bad", "no start", "two starts", "unreadable"}
Source == [of : Kla, version : 0..MaxEdits, outcome : Outcomes, expected : BOOLEAN]
NoSource == [of |-> "none", version |-> 0, outcome |-> "unreadable", expected |-> FALSE]
HasExpected(src) == src.expected /\ src.outcome # "unreadable"

(* clean: assembled without errors from a source with one _start.          *)
Image == [of : Kla \cup {"binary", "torn", "none"}, version : 0..MaxEdits, clean : BOOLEAN]
NoImage == [of |-> "none", version |-> 0, clean |-> TRUE]
Torn == [of |-> "torn", version |-> 0, clean |-> TRUE]   \* a part of an image
BinaryImage == [of |-> "binary", version |-> 0, clean |-> TRUE]
ImageOf(src) == [of |-> src.of, version |-> src.version, clean |-> src.outcome = "good"]

NoBinary == [magic |-> FALSE, bytes |-> << >>, segments |-> << >>, e_entry |-> 0,
             start_symbols |-> << >>]

Failed == -1

Stems == Kla \cup {BinaryStem}   \* two files of one stem have one .kbt

(* A test that was not run, or how its run ended.                          *)
Verdict == [skipped : BOOLEAN, failed : BOOLEAN, timed_out : BOOLEAN]
Result == [of : Kla, assembled : Image, on_board : Image,
           against : 0..MaxEdits, verdict : Verdict]

Args == [input : {"none", "kla", "kbt", "binary"},
         load : {"none", "net", "mem"},
         opcode_file : BOOLEAN, table : BOOLEAN, emulate_test : BOOLEAN,
         test_list : BOOLEAN, serial : BOOLEAN, monitor : BOOLEAN,
         test : BOOLEAN, emulate : BOOLEAN]
NoArgs == [input |-> "none", load |-> "none", opcode_file |-> FALSE, table |-> FALSE,
           emulate_test |-> FALSE, test_list |-> FALSE, serial |-> FALSE,
           monitor |-> FALSE, test |-> FALSE, emulate |-> FALSE]

(* set_matches: what the command line parser lets through.                 *)
Accepted(a) ==
  /\ a.input = "none" => \/ a.table \/ a.test_list \/ a.load # "none"
                         \/ a.monitor \/ a.emulate_test
  /\ a.load # "none" => a.input = "none" /\ ~a.test_list /\ ~a.table
  /\ a.table => a.input = "none"
  /\ ~(a.monitor /\ a.test)
  /\ a.test_list => a.input = "none" /\ ~a.monitor

ASSUME CommandsAssumption ==
  /\ IsFiniteSet(Kla)
  /\ Kla \cap {"binary", "torn", "none"} = {}
  /\ Binaries \subseteq InputFile
  /\ CommandLines \subseteq {a \in Args : Accepted(a)}
  /\ TestLists \subseteq Seq(Kla)
  /\ Named \subseteq Kla
  /\ BinaryStem \in Kla \cup {"binary"}
  /\ Edited \subseteq [outcome : Outcomes, expected : BOOLEAN]
  /\ MaxEdits \in Nat

(* main()'s decisions, in its order.                                       *)
Mode(a) ==
  IF a.monitor /\ a.input = "none" /\ a.load = "none" /\ ~a.test_list /\ ~a.table
  THEN "monitor"
  ELSE IF a.load # "none" THEN a.load
  ELSE IF a.input = "binary" THEN "binary"
  ELSE IF a.input = "kbt" THEN "kbt"
  ELSE "opcodes"

Task(a) ==
  IF a.emulate_test THEN "emulate test"
  ELSE IF a.test_list THEN "test list"
  ELSE "read source"

Steps == {"idle", "exited", "monitor", "net", "mem", "binary", "kbt", "opcodes",
          "emulate test", "verify", "verify run", "test list", "suite",
          "read source", "listing", "binary output", "expect", "upload", "judge",
          "device", "tail"}

Init ==
  /\ source = [f \in Kla |-> [of |-> f, version |-> 0, outcome |-> "good", expected |-> TRUE]]
  /\ kbt = [f \in Stems |-> NoImage]
  /\ board = NoImage
  /\ at = "idle"
  /\ wanted = [f \in Stems |-> 0]
  /\ args = NoArgs
  /\ file = "none"
  /\ list = << >>
  /\ index = 1
  /\ errors = FALSE
  /\ assembling = NoSource
  /\ against = NoSource
  /\ loaded = NoBinary
  /\ results = << >>
  /\ shown = NoImage
  /\ exit = 0

-----------------------------------------------------------------------------
Exit(code) == at' = "exited" /\ exit' = code
Continue(step) == at' = step /\ exit' = exit
ExitWithError(code) == Exit(code) /\ errors' = TRUE

Invoke ==
  /\ at = "idle"
  /\ args' \in CommandLines
  /\ file' \in CASE args'.input = "kla" -> Named
                 [] args'.input = "kbt" -> Named \cup {BinaryStem}
                 [] args'.input = "binary" -> {BinaryStem}
                 [] OTHER -> {"none"}
  /\ list' \in IF args'.test_list \/ args'.emulate_test THEN TestLists ELSE {<< >>}
  /\ Continue(Mode(args'))
  /\ UNCHANGED << source, board, index, errors, results, shown, files, reading >>

(* The next process knows nothing of this one.                             *)
Leave ==
  /\ at = "exited"
  /\ at' = "idle"
  /\ args' = NoArgs
  /\ file' = "none"
  /\ list' = << >>
  /\ index' = 1
  /\ errors' = FALSE
  /\ assembling' = NoSource
  /\ against' = NoSource
  /\ loaded' = NoBinary
  /\ results' = << >>
  /\ shown' = NoImage
  /\ exit' = 0
  /\ UNCHANGED << source, board, files >>

Edits == SumFunction([f \in Kla |-> source[f].version])

(* The user edits, also while a process runs.                              *)
Edit ==
  /\ Edits < MaxEdits
  /\ \E f \in Named, edit \in Edited :
       source' = [source EXCEPT ![f] = [of |-> f, version |-> @.version + 1,
                    outcome |-> edit.outcome, expected |-> edit.expected]]
  /\ UNCHANGED << board, at, index, errors, results, shown, exit, given, files, reading >>

-----------------------------------------------------------------------------
(* What write_to_board_keep_port may do: deliver the image; say so although*)
(* the device went away (an error of bytes_to_write counts as delivered);  *)
(* fail, before or after the board has dropped its program.                *)
UploadSucceeds(image) == board' \in {image, Torn}
UploadFails == board' \in {board, Torn}

(* Mutated form: what is on disk is sent, not what was assembled.          *)
SentFromDisk ==
  kbt[IF args.test_list THEN list[index] ELSE file]

Outgoing ==
  IF args.input = "binary" \/ args.load = "net" THEN BinaryImage
  ELSE IF args.input = "kbt" THEN kbt[file]
  ELSE ImageOf(assembling)

(* monitor_serial and monitor_serial_port: whether or not the port can be  *)
(* opened and read, the exit is 0.  Without Ctrl+C and without a NUL from  *)
(* the board it never comes to that.                                       *)
Monitor ==
  /\ at = "monitor"
  /\ shown' \in {board, NoImage}
  /\ Exit(0)
  /\ UNCHANGED << source, board, index, errors, results, given, files, reading >>

(* The file is read and flattened; otherwise the exit is 1.                *)
Flatten ==
  /\ at \in {"net", "mem", "binary"}
  /\ loaded = NoBinary
  /\ \/ ExitWithError(1) /\ loaded' = loaded   \* also without --ip
     \/ /\ loaded' \in {binary \in Binaries : CanFlatten(binary)}
        /\ UNCHANGED << at, exit, errors >>
  /\ UNCHANGED << source, board, index, assembling, against, results, shown, given, files >>

(* run_netload.  net_load returns Ok also for an image the board rejects   *)
(* and for one whose checksum differs: an Error is shown, the exit is 0.   *)
NetLoad ==
  /\ at = "net"
  /\ loaded # NoBinary
  /\ \/ ExitWithError(1) /\ UploadFails
     \/ /\ IF args.monitor THEN Continue("monitor") ELSE Exit(0)
        /\ \/ errors' = errors /\ board' = BinaryImage
           \/ errors' = TRUE /\ UploadFails
  /\ loaded' = NoBinary
  /\ UNCHANGED << source, index, assembling, against, results, shown, given, files >>

(* run_mem_out: no command reads the $readmemh file.                       *)
MemOut ==
  /\ at = "mem"
  /\ loaded # NoBinary
  /\ \/ Exit(0) /\ errors' = errors
     \/ ExitWithError(1)
  /\ loaded' = NoBinary
  /\ UNCHANGED << source, board, index, assembling, against, results, shown, given, files >>

(* write_binary_file: a file that cannot be created stays as it was, one   *)
(* that cannot be written is cut off; both are Errors.                     *)
KbtWritten(f, image) ==
  kbt' = [kbt EXCEPT ![f] = image] /\ wanted' = [wanted EXCEPT ![f] = image.version]
KbtFails(f) ==
  kbt' \in {kbt, [kbt EXCEPT ![f] = Torn]} /\ wanted' = [wanted EXCEPT ![f] = Failed]

(* run_emulate_elf: however the emulation ends, and if its trace cannot be *)
(* written, the exit is 0.                                                 *)
EmulateBinary ==
  /\ at = "binary"
  /\ args.emulate
  /\ loaded # NoBinary
  /\ Exit(0)
  /\ errors' \in BOOLEAN
  /\ loaded' = NoBinary
  /\ UNCHANGED << source, board, index, assembling, against, results, shown, given, files >>

(* run_elf2serial: with a port no .kbt is written.                         *)
ElfToSerial ==
  /\ at = "binary"
  /\ ~args.emulate
  /\ loaded # NoBinary
  /\ \/ /\ args.serial
        /\ Continue(IF args.monitor THEN "upload" ELSE "device")
        /\ UNCHANGED << errors, files >>
     \/ /\ ~args.serial
        /\ Exit(0)
        /\ \/ KbtWritten(file, BinaryImage) /\ errors' = errors
           \/ KbtFails(file) /\ errors' = TRUE
  /\ loaded' = NoBinary
  /\ UNCHANGED << source, board, index, assembling, against, results, shown, given >>

(* run_kbt_send: the file goes out as it is.  -m alone finds a port.       *)
Kbt ==
  /\ at = "kbt"
  /\ \/ kbt[file] = NoImage /\ ExitWithError(1)
     \/ /\ kbt[file] # NoImage
        /\ IF args.monitor THEN Continue("upload")
           ELSE IF args.serial THEN Continue("device") ELSE Exit(0)
        /\ errors' = errors
  /\ UNCHANGED << source, board, index, results, shown, given, files, reading >>

-----------------------------------------------------------------------------
(* The opcode file: without one, or without both its lists, nothing goes   *)
(* on; a duplicate in it is an Error that does not stop main().            *)
Opcodes ==
  /\ at = "opcodes"
  /\ \/ ExitWithError(1)
     \/ /\ args.opcode_file
        /\ errors' \in BOOLEAN
        /\ IF args.table THEN Exit(0) ELSE Continue(Task(args))
  /\ UNCHANGED << source, board, index, results, shown, given, files, reading >>

(* main() reads the source and assembles it.                               *)
ReadSource ==
  /\ at = "read source"
  /\ \/ /\ source[file].outcome = "unreadable"
        /\ ExitWithError(1)
        /\ UNCHANGED << assembling, wanted >>
     \/ /\ source[file].outcome # "unreadable"
        /\ assembling' = source[file]
        /\ errors' = (errors \/ source[file].outcome = "bad")
        /\ Continue("listing")
        /\ wanted' = IF args.emulate THEN wanted
                     ELSE [wanted EXCEPT ![file] = source[file].version]
  /\ UNCHANGED << source, kbt, board, index, against, loaded, results, shown, given >>

(* build_flat_code takes the last of several _start lines.                 *)
CanEmulate(src) == src.outcome \in {"good", "two starts"}

(* run_emulate: the files on disk are not touched.                         *)
Emulate ==
  /\ at = "listing"
  /\ args.emulate
  /\ IF errors \/ ~CanEmulate(assembling)
     THEN ExitWithError(1)
     ELSE Exit(0) /\ errors' \in BOOLEAN
  /\ UNCHANGED << source, board, index, results, shown, given, files, reading >>

(* The .code listing; if it cannot be written an old .kbt stays.           *)
WriteListing ==
  /\ at = "listing"
  /\ ~args.emulate
  /\ \/ Continue("binary output") /\ UNCHANGED << errors, wanted >>
     \/ ExitWithError(1) /\ wanted' = [wanted EXCEPT ![file] = Failed]
  /\ UNCHANGED << source, board, index, results, shown, given, kbt, reading >>

(* Mutated form: the monitor starts without an upload.                     *)
MonitorAtOnce ==
  IF ~args.serial THEN "tail" ELSE IF args.test THEN "expect"
  ELSE IF args.monitor THEN "monitor" ELSE "device"

AfterOutput ==
  IF ~args.serial THEN "tail" ELSE IF args.test THEN "expect"
  ELSE IF args.monitor THEN "upload" ELSE "device"

(* Mutated form: an old .kbt is left alone.                                *)
KbtKept == kbt' = kbt

(* remove_file does nothing if there is no such file.                      *)
KbtRemoved == kbt' = [kbt EXCEPT ![file] = NoImage]

(* create_bin_string needs exactly one _start.                             *)
WriteBinary ==
  /\ at = "binary output"
  /\ \/ /\ errors \/ assembling.outcome # "good"
        /\ errors' = TRUE
        /\ KbtRemoved
        /\ wanted' = wanted
        /\ Continue("tail")
     \/ /\ ~errors /\ assembling.outcome = "good"
        /\ \/ KbtWritten(file, ImageOf(assembling)) /\ errors' = errors
           \/ KbtFails(file) /\ errors' = TRUE
        /\ Continue(AfterOutput)
  /\ UNCHANGED << source, board, index, results, shown, given, reading >>

(* The end of main(): with -m and a port, after errors, the monitor shows  *)
(* whatever program the board has.                                         *)
EndOfMain ==
  /\ at = "tail"
  /\ \/ /\ args.monitor
        /\ IF args.serial THEN Continue("monitor") /\ errors' = errors ELSE ExitWithError(1)
     \/ /\ ~args.monitor
        /\ IF args.test /\ ~args.serial THEN ExitWithError(1)
           ELSE Exit(0) /\ errors' = errors
  /\ UNCHANGED << source, board, index, results, shown, given, files, reading >>

-----------------------------------------------------------------------------
Current == IF args.test_list \/ args.emulate_test THEN list[index] ELSE file

(* Mutated form: a file is left out.                                       *)
IndexAfterNext == index + 2

NextIndex == index + 1

Skip ==
  /\ results' = Append(results, [of |-> list[index], assembled |-> NoImage,
       on_board |-> NoImage, against |-> 0,
       verdict |-> [skipped |-> TRUE, failed |-> FALSE, timed_out |-> FALSE]])
  /\ index' = NextIndex
  /\ assembling' = NoSource
  /\ against' = NoSource
  /\ Continue("suite")

(* run_test_list; an unreadable list is an empty one.  Each test has a     *)
(* message list of its own, and that of main() is not asked any more.      *)
TestList ==
  /\ at = "test list"
  /\ IF args.serial /\ list # << >> THEN Continue("suite") /\ errors' = FALSE
     ELSE ExitWithError(1)
  /\ UNCHANGED << source, board, index, results, shown, given, files, reading >>

(* Mutated form: assemble_file returns what it has although there were     *)
(* errors.                                                                 *)
HasOneStart(src) == src.outcome \in {"good", "bad"}

Assembles(src) == src.outcome = "good"

(* assemble_file, then the .kbt.  A source that cannot be read or has      *)
(* errors is skipped, and so is one whose listing cannot be written; an    *)
(* old .kbt stays, other than in main().                                   *)
SuiteAssemble ==
  /\ at = "suite"
  /\ index <= Len(list)
  /\ \/ /\ Skip
        /\ wanted' = IF source[Current].outcome = "unreadable" THEN wanted
                     ELSE [wanted EXCEPT ![Current] = Failed]
        /\ kbt' = kbt
     \/ /\ Assembles(source[Current])
        /\ assembling' = source[Current]
        /\ KbtWritten(Current, ImageOf(source[Current])) \/ KbtFails(Current)
        /\ Continue("expect")
        /\ UNCHANGED << index, results, against >>
  /\ UNCHANGED << source, board, errors, loaded, shown, given >>

(* run_test_mode and run_test_list read the source once more.              *)
ReadExpected ==
  /\ at = "expect"
  /\ \/ /\ HasExpected(source[Current])
        /\ against' = source[Current]
        /\ Continue("upload")
        /\ UNCHANGED << assembling, index, errors, results >>
     \/ /\ ~HasExpected(source[Current])
        /\ IF args.test_list
           THEN Skip /\ errors' = errors
           ELSE ExitWithError(1) /\ UNCHANGED << assembling, against, index, results >>
  /\ UNCHANGED << source, board, loaded, shown, given, files >>

Upload ==
  /\ at = "upload"
  /\ \/ /\ UploadSucceeds(Outgoing)
        /\ Continue(IF args.monitor THEN "monitor" ELSE "judge")
        /\ UNCHANGED << assembling, against, index, errors, results >>
     \/ /\ UploadFails
        /\ IF args.test_list
           THEN Skip /\ errors' = errors
           ELSE ExitWithError(1) /\ UNCHANGED << assembling, against, index, results >>
  /\ UNCHANGED << source, loaded, shown, given, files >>

(* Mutated form: a test that timed out is reported as one that failed.     *)
FailedFirst(verdict) ==
  IF verdict.failed THEN 2 ELSE IF verdict.timed_out THEN 3 ELSE 0

TestExit(verdict) ==
  IF verdict.timed_out THEN 3 ELSE IF verdict.failed THEN 2 ELSE 0

(* run_test_monitor.                                                       *)
Judge ==
  /\ at = "judge"
  /\ \E failed, timed_out \in BOOLEAN :
       LET verdict == [skipped |-> FALSE, failed |-> failed, timed_out |-> timed_out]
       IN  /\ results' = Append(results, [of |-> Current, assembled |-> ImageOf(assembling),
                            on_board |-> board, against |-> against.version,
                            verdict |-> verdict])
           /\ IF args.test_list
              THEN Continue("suite") /\ index' = NextIndex
              ELSE Exit(TestExit(verdict)) /\ index' = index
  /\ assembling' = NoSource
  /\ against' = NoSource
  /\ UNCHANGED << source, board, errors, loaded, shown, given, files >>

(* A skipped file does not make the suite fail.                            *)
Fails(result) == result.verdict.failed \/ result.verdict.timed_out

SuiteEnds ==
  /\ at = "suite"
  /\ index > Len(list)
  /\ Exit(IF \E i \in 1..Len(results) : Fails(results[i]) THEN 2 ELSE 0)
  /\ UNCHANGED << source, board, index, errors, results, shown, given, files, reading >>

(* write_to_device.                                                        *)
WriteToDevice ==
  /\ at = "device"
  /\ \/ errors /\ UNCHANGED << board, errors >>
     \/ ~errors /\ UploadSucceeds(Outgoing) /\ errors' = errors
     \/ ~errors /\ UploadFails /\ errors' = TRUE
  /\ IF args.input = "kla" THEN Continue("tail") ELSE Exit(0)
  /\ UNCHANGED << source, index, results, shown, given, files, reading >>

-----------------------------------------------------------------------------
(* Mutated form: the index stays where it is.                              *)
SameIndex == index

IndexWhenPassedOver == index + 1

(* run_emulate_test.                                                       *)
EmulateTest ==
  /\ at = "emulate test"
  /\ IF list # << >> THEN Continue("verify") /\ errors' = FALSE ELSE ExitWithError(1)
  /\ UNCHANGED << source, board, index, results, shown, given, files, reading >>

(* A file without expected values, or one that cannot be read, is passed   *)
(* over in silence.                                                        *)
VerifyExpected ==
  /\ at = "verify"
  /\ index <= Len(list)
  /\ IF HasExpected(source[Current])
     THEN against' = source[Current] /\ index' = index /\ Continue("verify run")
     ELSE against' = against /\ index' = IndexWhenPassedOver /\ Continue("verify")
  /\ UNCHANGED << source, board, errors, assembling, loaded, results, shown, given, files >>

VerifyRun ==
  /\ at = "verify run"
  /\ \E failed \in IF CanEmulate(source[Current]) THEN BOOLEAN ELSE {TRUE} :
       results' = Append(results, [of |-> Current, assembled |-> ImageOf(source[Current]),
                    on_board |-> NoImage, against |-> against.version,
                    verdict |-> [skipped |-> FALSE, failed |-> failed, timed_out |-> FALSE]])
  /\ index' = NextIndex
  /\ against' = NoSource
  /\ Continue("verify")
  /\ UNCHANGED << source, board, errors, assembling, loaded, shown, given, files >>

VerifyEnds ==
  /\ at = "verify"
  /\ index > Len(list)
  /\ Exit(IF \E i \in 1..Len(results) : Fails(results[i]) THEN 2 ELSE 0)
  /\ UNCHANGED << source, board, index, errors, results, shown, given, files, reading >>

-----------------------------------------------------------------------------
Process ==
  \/ Leave \/ Flatten \/ NetLoad \/ MemOut
  \/ EmulateBinary \/ ElfToSerial \/ Kbt
  \/ Opcodes \/ ReadSource \/ Emulate \/ WriteListing \/ WriteBinary \/ EndOfMain
  \/ TestList \/ SuiteAssemble \/ ReadExpected \/ Upload \/ Judge \/ SuiteEnds
  \/ WriteToDevice \/ EmulateTest \/ VerifyExpected \/ VerifyRun \/ VerifyEnds

Next == Invoke \/ Edit \/ Monitor \/ Process

(* Every process goes on, except that one which monitors the board may do  *)
(* so for ever: it waits for the user or for a NUL (SerialMonitor.tla).    *)
(* Tests and emulations end (SerialSession.tla, Emulator.tla).             *)
Spec == Init /\ [][Next]_vars /\ WF_vars(Process)

TypeOK ==
  /\ source \in [Kla -> Source]
  /\ kbt \in [Stems -> Image]
  /\ board \in Image
  /\ at \in Steps
  /\ args \in {NoArgs} \cup CommandLines
  /\ file \in Stems \cup {"none"}
  /\ list \in {<< >>} \cup TestLists
  /\ index \in 1..(Len(list) + 1)
  /\ errors \in BOOLEAN
  /\ assembling \in Source \cup {NoSource}
  /\ against \in Source \cup {NoSource}
  /\ loaded \in Binaries \cup {NoBinary}
  /\ \A i \in 1..Len(results) : results[i] \in Result
  /\ shown \in Image
  /\ exit \in 0..3
  /\ wanted \in [Stems -> 0..MaxEdits \cup {Failed}]

-----------------------------------------------------------------------------
(***************************************************************************)
(* NoStaleImage: between two processes, the .kbt beside a source is of the *)
(* version that was last assembled to make it, or there is none: sending   *)
(* it later with -i f.kbt does not bring back an older program (main()     *)
(* removes it after errors).  There are two exceptions, in which the old   *)
(* file stays and can be sent: an output file that could not be written    *)
(* (an Error), and a source that was skipped in a test list because it did *)
(* not assemble (commands.rs:962; the exit may be 0).  A binary of the     *)
(* same stem shares the file.                                              *)
(***************************************************************************)
NoStaleImage ==
  at \in {"idle", "exited"} =>
    \A f \in Kla :
      wanted[f] # Failed =>
        kbt[f] \in {NoImage, BinaryImage} \/ (kbt[f].of = f /\ kbt[f].version = wanted[f])

(***************************************************************************)
(* OnlyCleanPrograms: nothing that was assembled with errors, or without   *)
(* exactly one _start, is ever in a .kbt file or on the board, by any      *)
(* sequence of commands and edits.                                         *)
(***************************************************************************)
OnlyCleanPrograms == board.clean /\ \A f \in DOMAIN kbt : kbt[f].clean

(***************************************************************************)
(* JudgedOnBoard: -T and -L judge the output of the program they have just *)
(* assembled, or of no program at all when the upload was cut off without  *)
(* notice.  The expected values come from a second reading of the source:  *)
(* of that version or of a later one if it was edited in between.          *)
(***************************************************************************)
JudgedOnBoard ==
  \A i \in 1..Len(results) :
    LET r == results[i] IN
    ~r.verdict.skipped /\ ~args.emulate_test =>
      /\ r.on_board \in {r.assembled, Torn}
      /\ r.assembled.of = r.of
      /\ r.assembled.version <= r.against

(***************************************************************************)
(* MonitorShowsThisProgram: when a command that has sent a program, over   *)
(* the serial line or over TCP, goes on to monitor the board and has shown *)
(* no Error, the board has that program and not the one it was running     *)
(* before; or, over the serial line only, no program, when the upload was  *)
(* cut off without notice (bytes_to_write failed).  After an Error, of the *)
(* assembly or of a network load that the board rejected, the monitor may  *)
(* show anything.                                                          *)
(***************************************************************************)
Sends == args.input # "none" \/ args.load = "net"

MonitorShowsThisProgram ==
  at = "monitor" /\ Sends /\ ~errors =>
    board = Outgoing \/ (args.load # "net" /\ board = Torn)

(***************************************************************************)
(* ExitTellsResults: with -T the exit is 3 if the judged test timed out, 2 *)
(* if values differed and 0 only if neither; a run that judged nothing     *)
(* never exits with 2 or 3.  A batch that runs to its end has one result   *)
(* for every file of the list, in order (--emulate-test: for every file    *)
(* whose expected values it found), and exits with 2 if and only if one of *)
(* the files it ran failed.  With --opcodes the list is not run at all.    *)
(***************************************************************************)
ExitTellsResults ==
  at = "exited" =>
    LET failing == {i \in 1..Len(results) : Fails(results[i])}
        timed_out == {i \in 1..Len(results) : results[i].verdict.timed_out}
        batch == Mode(args) = "opcodes" /\ Task(args) # "read source" /\ ~args.table
    IN  /\ exit = 2 <=> failing # {} /\ (batch \/ timed_out = {})
        /\ exit = 3 <=> timed_out # {} /\ ~batch
        /\ batch /\ args.test_list /\ ~args.emulate_test /\ exit # 1 =>
             /\ Len(results) = Len(list)
             /\ \A i \in 1..Len(list) : results[i].of = list[i]

(***************************************************************************)
(* CommandEnds: every command returns to the shell or comes to monitor the *)
(* board, which goes on until Ctrl+C or a NUL (serial.rs:316); once that   *)
(* is over the command returns too.                                        *)
(***************************************************************************)
CommandEnds == at # "idle" ~> at \in {"idle", "monitor"}

(***************************************************************************)
(* LoadersAgree: whichever way a binary is loaded, over TCP, from the boot *)
(* ROM, in the emulator or as a wire image over the serial line, the board *)
(* finds the same heap_start and the same byte at every address below it.  *)
(***************************************************************************)
LoadersAgree ==
  loaded # NoBinary =>
    LET net == NetImage(loaded)
        serial == SerialImage(loaded)
    IN  /\ RomImage(loaded) = net
        /\ EmulatedImage(loaded) = net
        /\ serial.heap_start = net.heap_start
        /\ \A a \in 0..(net.heap_start - 1) : MemoryAt(serial, a) = MemoryAt(net, a)

(***************************************************************************)
(* LoadedIsTheElf: of an ELF file whose segments do not overlap, every     *)
(* byte that no gap of more than MAX_SEGMENT_GAP separates from the lowest *)
(* one is in memory, all at the same distance from its own address, the    *)
(* place of the others is empty, and if the entry is among the bytes in    *)
(* memory the board starts at it.                                          *)
(***************************************************************************)
LoadedIsTheElf ==
  loaded.magic /\ NoOverlap(loaded) =>
    LET segments == Segments(loaded)
        lowest == Min({s.addr : s \in segments})
        place(a) == a - lowest + HEADER_BYTES
        image == NetImage(loaded)
    IN  /\ \A s \in segments : \A i \in 1..Len(s.bytes) :
             LET a == s.addr + i - 1 IN
             IF Reachable(loaded, a) THEN MemoryAt(image, place(a)) = s.bytes[i]
             ELSE MemoryAt(image, place(a)) = 0
        /\ \A s \in segments :
             Covers(s, ElfEntry(loaded)) /\ Reachable(loaded, ElfEntry(loaded)) =>
               /\ Entry(loaded, NoOverride) = place(ElfEntry(loaded))
               /\ MemoryAt(image, Entry(loaded, NoOverride)) =
                    s.bytes[ElfEntry(loaded) - s.addr + 1]

(***************************************************************************)
(* AssemblyErrorExits1: the exit codes of --test as the ISA reference      *)
(* gives them: "1 -- assembly error or no expected values found"           *)
(* (doc/klauss_isa_reference.md:844).                                      *)
(***************************************************************************)
AssemblyErrorExits1 ==
  at = "exited" /\ args.test /\ assembling.outcome = "bad" => exit = 1
================================================================================
