--------------------------- MODULE MCConfigCache ---------------------------
EXTENDS ConfigCache

MCPaths == {"a", "b"}
MCRealPath == [p \in MCPaths |-> p]
\* a project with a folder in it, and two folders that are in no project
MCParent == [f \in {"/", "project", "src", "other"} |->
               CASE f = "src" -> "project" [] OTHER -> "/"]
MCTSDocJson == [f \in DOMAIN MCParent |-> "a"]

MCNames == {"@remarks", "@x"}
MCUpperCase == [n \in MCNames |-> IF n = "@x" THEN "@X" ELSE "@REMARKS"]
MCStandardTags ==
  <<[tagName |-> "@remarks", syntaxKind |-> "BlockTag", allowMultiple |-> FALSE, id |-> <<0, 1>>]>>

Settings(paths, support) ==
  [json |-> "settings", extends |-> paths, noStandardTags |-> "unset", tagDefinitions |-> <<>>,
   supportForTags |-> support, supportedHtmlElements |-> <<>>,
   reportUnsupportedHtmlElements |-> "unset"]
Base == Settings(<<>>, <<>>)

\* A file that refers to a tag that it does not define
Undefining(paths) == Settings(paths, <<[tagName |-> "@x", supported |-> TRUE]>>)

\* The base file is there, or not yet; or it, or the file itself, has errors and stays so.
MCDisks ==
  {[a |-> <<Settings(<<"b">>, <<>>)>>, b |-> <<x>>] : x \in {Base, Absent}}
    \union {[a |-> <<Absent, x>>, b |-> <<Absent, y>>] :
              x \in {Settings(<<"b">>, <<>>), Undefining(<<"b">>)},
              y \in {[json |-> "garbage"], Undefining(<<>>)}}
MCContents == {Base}
=============================================================================
