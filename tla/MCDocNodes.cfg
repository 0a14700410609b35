SPECIFICATION Spec
CONSTANTS
  InvalidKinds <- MCInvalidKinds
  Configurations = {"c", "d"}
  Extended = {"c"}
  DefinitionLists <- MCDefinitionLists
  ChildLists <- MCChildLists
  Made <- MCMade
  Containers <- MCContainers
  MaxNodes = 3
  MaxChildren = 3
INVARIANTS
  RegistrationsAgree
  TreesCanBeWalked
PROPERTY AppendedTextComesLast
CHECK_DEADLOCK FALSE
