-------------------------- MODULE AssemblerRefinement --------------------------
(***************************************************************************)
(* The assembler as an implementation of AssemblerContract: the source is  *)
(* the lines of pass 0, the result is what the run produced.               *)
(***************************************************************************)
EXTENDS Assembler

Contract == INSTANCE AssemblerContract WITH source <- pass0, result <- outcome

(* ImplementsContract: two passes, deferral, look-ups and two builders do  *)
(* together what the contract does in one step, for the .kbt and for the   *)
(* emulator's image.                                                       *)
ImplementsContract == Contract!Spec
================================================================================
