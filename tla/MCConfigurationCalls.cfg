SPECIFICATION Spec
CONSTANTS
  Names <- MCNames
  UpperCase <- MCUpperCase
  StandardTags <- MCStandardTags
  HtmlElements = {"p", "b"}
  Definitions <- MCDefinitions
  CallLists <- MCCallLists
INVARIANTS
  TypeOK
  CollectionsAgree
  ClearStartsOver
PROPERTY DefinitionsStay
