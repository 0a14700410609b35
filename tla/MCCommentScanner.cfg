SPECIFICATION ScannerSpec
CONSTANTS
  Words <- MCWords
  SourceRanges <- MCSourceRanges
  WhitespaceKind = "Other"
  MaxText = 5
INVARIANTS
  LinesAreOrdered
  EndsAtFirstCloser
  StagesAgree
  TokensKeepTheContent
PROPERTY ScanTerminates
CHECK_DEADLOCK FALSE
