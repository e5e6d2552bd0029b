\* A run is over when its result is known.
CHECK_DEADLOCK FALSE
SPECIFICATION FairSpec
CONSTANTS
  ByteBits = 2
  MemSize = 112
  MaxInstructions = 10
  Programs <- MCPrograms
INVARIANT
  TypeOK
PROPERTIES
  FlagsTellArithmetic
  BranchesFollowCompare
  CallsReturn
  TraceTellsWrites
  RunsEnd
