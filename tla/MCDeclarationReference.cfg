SPECIFICATION Spec
CONSTANTS
  Meanings <- MCMeanings
  Texts <- MCTexts
  Sources <- MCSources
  Navigations <- MCNavigations
  Components <- MCComponents
  Paths <- MCPaths
  Indexes <- MCIndexes
  MaxCalls = 3
  Extra = 0
INVARIANTS
  AcceptsTheGrammar
  PrintedReferencesReadBack
CHECK_DEADLOCK FALSE
