SPECIFICATION Spec
CONSTANTS
  Word <- MCWord
  FileName <- MCFileName
  MainFile = "main"
  MacroName <- MCMacroName
  Placeholder <- MCPlaceholder
  NumberOf <- MCNumberOf
  OpcodeName <- MCOpcodeName
  MaxPasses = 10
  Inputs <- MCInputs
INVARIANTS
  TypeOK
  IncludesInPlace
  CommentsRemoved
  MacrosFullyExpanded
PROPERTY
  SourceEnds
CHECK_DEADLOCK FALSE
