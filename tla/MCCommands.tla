------------------------------- MODULE MCCommands ------------------------------
(* Two sources, of which one is edited once, a gap limit of two bytes,     *)
(* every kind of command line.                                             *)
EXTENDS Commands

a == "a.kla"
b == "b.kla"
MCKla == {a, b}
MCNamed == {a}
MCTestLists == { << >>, << b, a >>, << a >> }
MCByte == 0..4

Elf(segments, entry, symbols) ==
  [magic |-> TRUE, bytes |-> << >>, segments |-> segments, e_entry |-> entry,
   start_symbols |-> symbols]
At(addr, bytes) == [addr |-> addr, bytes |-> bytes]

(* A flat binary; segments out of order, one of them empty; gaps of 1, 2   *)
(* and 3 bytes and an entry that only a symbol gives; nothing to load.     *)
MCBinaries ==
  { [magic |-> FALSE, bytes |-> << 1, 2, 3 >>, segments |-> << >>,
     e_entry |-> 0, start_symbols |-> << >>],
    Elf(<< At(9, << 3, 4 >>), At(4, << 1, 2, 3, 4 >>), At(20, << >>) >>, 9, << >>),
    Elf(<< At(4, << 1, 2 >>), At(8, << 3 >>), At(12, << 4 >>), At(13, << 1 >>) >>, 0, << 8 >>),
    Elf(<< >>, 4, << >>) }

MCEdited ==
  { [outcome |-> "good", expected |-> TRUE], [outcome |-> "good", expected |-> FALSE],
    [outcome |-> "bad", expected |-> TRUE], [outcome |-> "two starts", expected |-> TRUE],
    [outcome |-> "unreadable", expected |-> FALSE] }

Kla1 == [NoArgs EXCEPT !.input = "kla", !.opcode_file = TRUE]
Input(name) == [NoArgs EXCEPT !.input = name]

MCCommandLines ==
  { [NoArgs EXCEPT !.monitor = TRUE],
    [NoArgs EXCEPT !.load = "net"],
    [NoArgs EXCEPT !.load = "net", !.monitor = TRUE],
    [NoArgs EXCEPT !.load = "mem"],
    [NoArgs EXCEPT !.table = TRUE, !.opcode_file = TRUE],
    [NoArgs EXCEPT !.table = TRUE, !.test_list = TRUE, !.opcode_file = TRUE],
    [NoArgs EXCEPT !.emulate_test = TRUE, !.opcode_file = TRUE],
    [NoArgs EXCEPT !.test_list = TRUE, !.opcode_file = TRUE],
    [NoArgs EXCEPT !.test_list = TRUE, !.opcode_file = TRUE, !.serial = TRUE],
    Input("binary"),
    [Input("binary") EXCEPT !.emulate = TRUE],
    [Input("binary") EXCEPT !.serial = TRUE],
    [Input("binary") EXCEPT !.serial = TRUE, !.monitor = TRUE],
    Input("kbt"),
    [Input("kbt") EXCEPT !.serial = TRUE],
    [Input("kbt") EXCEPT !.monitor = TRUE],
    Input("kla"),
    Kla1,
    [Kla1 EXCEPT !.emulate = TRUE],
    [Kla1 EXCEPT !.monitor = TRUE],
    [Kla1 EXCEPT !.test = TRUE],
    [Kla1 EXCEPT !.serial = TRUE],
    [Kla1 EXCEPT !.serial = TRUE, !.monitor = TRUE],
    [Kla1 EXCEPT !.serial = TRUE, !.test = TRUE] }
================================================================================
