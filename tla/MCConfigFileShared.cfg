SPECIFICATION CallsSpec
CONSTANTS
  Names <- MCNames
  UpperCase <- MCUpperCase
  StandardTags <- MCStandardTags
  HtmlElements = {"p"}
  Paths <- MCPaths
  RealPath <- MCRealPath
  NoPath = "none"
  InvalidNames <- MCInvalidNames
  Disks <- FinalGraphs
  Contents = {}
  EditedDisks = {}
  Objects <- MCObjects
  Parameters <- MCParameters
  MaxCalls = 0
  MaxFiles = 6
  MaxVersions = 1
INVARIANT OnlyCyclesAreCircular
CHECK_DEADLOCK FALSE
