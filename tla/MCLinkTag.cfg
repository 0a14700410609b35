SPECIFICATION EmitSpec
CONSTANTS
  Words <- MCWords
  NonNames <- MCNonNames
  Schemes <- MCSchemes
  SystemSelectors <- MCSystemSelectors
  Selectors <- MCSelectors
  Contents <- MCContents
  Built <- MCBuilt
  Extra = 0
INVARIANTS
  ExcerptsCoverTheContent
  ErrorsAreExplained
  AcceptsTheGrammar
  EmittedTagsReadBack
PROPERTY Terminates
CHECK_DEADLOCK FALSE
