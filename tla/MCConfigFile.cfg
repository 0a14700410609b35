SPECIFICATION CallsSpec
CONSTANTS
  Names <- MCNames
  UpperCase <- MCUpperCase
  StandardTags <- MCStandardTags
  HtmlElements = {"p"}
  Paths <- MCPaths
  RealPath <- MCRealPath
  NoPath = "none"
  InvalidNames <- MCInvalidNames
  Disks <- MCDisks
  Contents <- MCContents
  EditedDisks <- MCEditedDisks
  Objects <- MCObjects
  Parameters <- MCParameters
  MaxCalls = 3
  MaxFiles = 6
  MaxVersions = 2
INVARIANT ErrorsReachTheRoot
INVARIANT LoadsReachableFiles
INVARIANT SettingsFollowTraversal
INVARIANT ParserRoundTrip
INVARIANT SavedFilesReadBack
PROPERTY LoadEnds
CHECK_DEADLOCK FALSE
