SPECIFICATION Spec
CONSTANTS
  Words <- MCWords
  NonNames <- MCNonNames
  Inputs <- MCInputs
  Configurations <- MCConfigurations
  Extra = 0
INVARIANTS
  OnlyMissingLabelsThrow
  ContentBelongsToItsBlock
  NodesAreWellFormed
  ErrorsAreWarranted
PROPERTIES
  CoversTokens
  Terminates
CHECK_DEADLOCK FALSE
