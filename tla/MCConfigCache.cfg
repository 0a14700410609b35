SPECIFICATION CacheSpec
CONSTANTS
  Names <- MCNames
  UpperCase <- MCUpperCase
  StandardTags <- MCStandardTags
  HtmlElements = {"p"}
  Paths <- MCPaths
  RealPath <- MCRealPath
  NoPath = "none"
  InvalidNames = {}
  Disks <- MCDisks
  Contents <- MCContents
  MaxFiles = 7
  MaxVersions = 2
  Parent <- MCParent
  Projects = {"project"}
  TSDocJson <- MCTSDocJson
  SourceFolders = {"src", "other", "/"}
  NoFolder = "none"
  RootDirs = {"none", "project"}
  CheckInterval = 1
  Expire = 2
  MaxSize = 1
  Horizon = 3
  MaxLog = 2
INVARIANT AnswersAreFresh
INVARIANT EntriesAreWholeLoads
INVARIANT LintReportsErrors
CHECK_DEADLOCK FALSE
