CHECK_DEADLOCK FALSE
SPECIFICATION Spec
CONSTANTS
  Names <- MCNames
  Upper <- MCUpper
  Mnemonics <- MCMnemonics
  Variables <- MCVariables
  Programs <- MCPrograms
  MaxLines = 3
  MaxSectionLines = 3
INVARIANT OneLabelRuleHolds
