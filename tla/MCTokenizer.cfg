SPECIFICATION Spec
CONSTANTS
  Words <- MCWords
  Documents <- MCDocuments
  MaxText = 4
  MaxLines = 2
INVARIANTS
  TypeOK
  TokensTileTheLines
CHECK_DEADLOCK FALSE
