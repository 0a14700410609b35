---------------------------- MODULE MCConfigFile ----------------------------
(***************************************************************************)
(* Disks for TLC: three files, "link" a symbolic link to "b", and          *)
(* references to a file that is not there; and the calls of a program on    *)
(* the files that it has.                                                  *)
(***************************************************************************)
EXTENDS ConfigFileCalls

MCPaths == {"a", "b", "c", "link"}
MCRealPath == [p \in MCPaths |-> IF p = "link" THEN "b" ELSE p]

\* Two spellings of one name, and a name that is none
MCNames == {"@remarks", "@x", "@X", "@y", "bad"}
MCInvalidNames == {"bad"}
MCUpperCase ==
  [n \in MCNames |-> CASE n = "@remarks" -> "@REMARKS" [] n \in {"@x", "@X"} -> "@X"
                       [] n = "@y" -> "@Y" [] OTHER -> "BAD"]
MCStandardTags ==
  <<[tagName |-> "@remarks", syntaxKind |-> "BlockTag", allowMultiple |-> FALSE, id |-> <<0, 1>>]>>

Json(kind) == [json |-> kind]
Extending(paths) ==
  [json |-> "settings", extends |-> paths, noStandardTags |-> "unset", tagDefinitions |-> <<>>,
   supportForTags |-> <<>>, supportedHtmlElements |-> <<>>,
   reportUnsupportedHtmlElements |-> "unset"]
Tag(name) == [tagName |-> name, syntaxKind |-> "block", allowMultiple |-> "unset"]
Inline(name) == [tagName |-> name, syntaxKind |-> "inline", allowMultiple |-> "true"]
Support(name, b) == [tagName |-> name, supported |-> b]

\* Disks that differ in which file extends which, and in what is wrong with them
GraphDisks ==
  {[a |-> Extending(x), b |-> Extending(y), c |-> z] :
     x \in {<<>>, <<"b">>, <<"b", "c">>, <<"b", "link">>, <<"gone", "c">>, <<"c", "gone">>},
     y \in {<<>>, <<"a">>, <<"c">>, <<"link">>},
     z \in {Extending(<<>>), Extending(<<"a">>), Absent, Json("garbage"), Json("null"),
            Json("otherSchema"), Json("invalid")}}

Settings(base) ==
  {base,
   [base EXCEPT !.noStandardTags = "true"],
   [base EXCEPT !.noStandardTags = "false", !.tagDefinitions = <<Inline("@y")>>],
   [base EXCEPT !.tagDefinitions = <<Tag("@x"), Tag("bad")>>, !.supportForTags = <<Support("@X", TRUE)>>],
   [base EXCEPT !.tagDefinitions = <<Tag("@x"), Tag("@X")>>],
   [base EXCEPT !.supportForTags = <<Support("@x", FALSE), Support("@remarks", TRUE)>>],
   [base EXCEPT !.supportForTags = <<Support("@remarks", FALSE), Support("@y", TRUE)>>],
   [base EXCEPT !.supportedHtmlElements = <<{"p"}>>],
   [base EXCEPT !.supportedHtmlElements = <<{}>>, !.reportUnsupportedHtmlElements = "false"],
   [base EXCEPT !.reportUnsupportedHtmlElements = "true"]}

\* Disks that differ in what the files say
SettingsDisks ==
  {[a |-> x, b |-> y, c |-> z] :
     x \in Settings(Extending(<<"b", "c">>)), y \in Settings(Extending(<<>>)),
     z \in Settings(Extending(<<>>))}
    \union {[a |-> x, b |-> y, c |-> z] :
              x \in Settings(Extending(<<"b">>)), y \in Settings(Extending(<<"c">>)),
              z \in Settings(Extending(<<>>))}

\* A disk that has been written MaxVersions times, so that it stays as it is
Final(d) == [p \in DOMAIN d |-> [v \in 1 .. MaxVersions |-> IF v < MaxVersions THEN Absent ELSE d[p]]]
Fresh(d) == [p \in DOMAIN d |-> <<d[p]>>]
FinalGraphs == {Final(d) : d \in GraphDisks}

\* Disks for files that change while they are loaded
FreshDisks ==
  {Fresh([a |-> Extending(<<"b">>), b |-> y, c |-> Json("garbage")]) :
     y \in {Extending(<<"c">>), Absent}}
\* One file that is loaded, edited and saved as "c", and objects that are loaded
MCEditedDisks ==
  {[Final([a |-> [Extending(<<"b">>) EXCEPT !.tagDefinitions = <<Tag("@x")>>],
           b |-> Extending(<<>>), c |-> Absent]) EXCEPT !.c = <<Absent>>]}
MCObjects ==
  {Json("null"), Json("otherSchema"), Extending(<<"a">>),
   [Extending(<<>>) EXCEPT !.tagDefinitions = <<Tag("@X"), Tag("@x"), Tag("bad")>>],
   [Extending(<<>>) EXCEPT !.supportForTags = <<Support("bad", TRUE), Support("@x", FALSE)>>,
                           !.supportedHtmlElements = <<{}>>]}
MCParameters ==
  {[tagName |-> n, syntaxKind |-> "InlineTag", allowMultiple |-> FALSE] : n \in {"@x", "@X", "bad"}}
    \union {[tagName |-> "@y", syntaxKind |-> "ModifierTag", allowMultiple |-> TRUE],
            [tagName |-> "@remarks", syntaxKind |-> "BlockTag", allowMultiple |-> FALSE]}
MCDisks == FinalGraphs \union {Final(d) : d \in SettingsDisks} \union FreshDisks \union MCEditedDisks
MCContents == {Extending(<<"a">>)}
=============================================================================
