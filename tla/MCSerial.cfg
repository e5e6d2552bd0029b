\* The session is over when the program has its verdict or the monitor has ended.
CHECK_DEADLOCK FALSE
SPECIFICATION FairSpec
CONSTANTS
  Char <- MCChar
  HexDigits <- MCDigits
  ValueWidth = 2
  OldOutputs <- MCOldOutputs
  ProgramOutputs <- MCProgramOutputs
  Answers <- MCAnswers
  Expectations <- MCExpectations
  ReadSize = 3
  Chunks = 2
  MaxKeys = 2
INVARIANTS
  TypeOK
  CountsFollowOutput
  OnlyThisProgramIsJudged
  NoOutputMissed
  TerminalRestored
PROPERTIES
  EveryTestEnds
  CtrlCStops
  HaltStops
