\* The assembler stops when it is done.
CHECK_DEADLOCK FALSE
SPECIFICATION FairSpec
CONSTANTS
  Names <- MCNames
  Upper <- MCUpper
  Mnemonics <- MCMnemonics
  Variables <- MCVariables
  Programs <- MCPrograms
  MaxLines = 3
  MaxSectionLines = 4
INVARIANTS
  TypeOK
  ImagePlacement
  ReferencesAgree
  HeapAboveProgram
  LabelOwnsNextItem
  LinesSurviveDeferral
PROPERTIES
  EveryRunEnds
  ImplementsContract
