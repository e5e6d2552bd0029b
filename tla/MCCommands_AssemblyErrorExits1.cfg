SPECIFICATION Spec
CONSTANTS
  MaxSegmentGap = 2
  Byte <- MCByte
  Kla <- MCKla
  Binaries <- MCBinaries
  CommandLines <- MCCommandLines
  BinaryStem <- a
  Edited <- MCEdited
  Named <- MCNamed
  TestLists <- MCTestLists
  MaxEdits = 1
INVARIANT
  AssemblyErrorExits1
