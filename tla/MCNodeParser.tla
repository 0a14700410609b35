---------------------------- MODULE MCNodeParser ----------------------------
(***************************************************************************)
(* Token streams for TLC: a family is every stream that continues one of   *)
(* some prefixes with up to n tokens of an alphabet and ends its line.     *)
(***************************************************************************)
EXTENDS NodeParser, SequencesExt

CONSTANT Extra     \* lengthens every family

MCWords == {"x", "9", "param", "remarks", "deprecated", "public", "inheritDoc", "link"}
MCNonNames == {"9"}

Family(prefixes, alphabet, n) ==
  {s \in {p \o t \o <<"Newline">> : p \in prefixes, t \in BoundedSeq(alphabet, n + Extra)} :
     IsTokenStream(s)}

Tick3 == <<"Backtick", "Backtick", "Backtick">>

TextInputs ==
  {<<>>} \union
  Family({<<>>}, {"Backslash", "Backtick", "Newline", "Spacing", "x", "RightCurlyBracket",
                  "GreaterThan"}, 4)
FenceInputs ==
  Family({Tick3, <<"x">> \o Tick3, <<"Newline">> \o Tick3 \o <<"x", "Newline">>},
         {"Backtick", "Newline", "Spacing", "x"}, 5)
HtmlInputs ==
  Family({<<"LessThan">>}, {"x", "9", "Hyphen", "Period", "Spacing", "GreaterThan", "Slash",
                            "LessThan"}, 3)
    \union Family({<<"LessThan", "x", "Newline", "x">>, <<"LessThan", "x", "Spacing", "link">>},
                  {"Equals", "DoubleQuote", "SingleQuote", "x", "Spacing", "GreaterThan"}, 4)
TagInputs ==
  Family({<<>>}, {"AtSign", "Spacing", "x", "9", "remarks", "deprecated", "public", "Slash"}, 4)
    \union Family({<<"AtSign", "remarks", "Spacing">>, <<"AtSign", "deprecated", "Newline">>,
                   <<"AtSign", "public", "Spacing">>},
                  {"AtSign", "Spacing", "inheritDoc", "remarks", "public", "x"}, 3)
ParamInputs ==
  Family({<<"AtSign", "param">>, <<"AtSign", "param", "Spacing", "x", "Spacing", "Hyphen">>},
         {"x", "9", "LeftCurlyBracket", "RightCurlyBracket", "Spacing", "Hyphen", "Period"}, 3)
    \union Family({<<"AtSign", "param", "Spacing">>}, {"x", "LeftSquareBracket",
                   "RightSquareBracket", "Spacing", "Hyphen"}, 4)
    \union Family({<<"AtSign", "param", "Spacing", "LeftCurlyBracket", "DoubleQuote">>},
                  {"DoubleQuote", "SingleQuote", "Backslash", "LeftCurlyBracket",
                   "RightCurlyBracket"}, 3)
InlineInputs ==
  Family({<<"LeftCurlyBracket">>, <<"LeftCurlyBracket", "AtSign", "inheritDoc">>,
          <<"LeftCurlyBracket", "AtSign", "inheritDoc", "RightCurlyBracket",
            "LeftCurlyBracket", "AtSign", "inheritDoc">>,
          <<"AtSign", "remarks", "Newline", "LeftCurlyBracket", "AtSign", "link">>},
         {"AtSign", "x", "9", "Spacing", "Backslash", "LeftCurlyBracket", "RightCurlyBracket"}, 3)
    \union Family({<<"LeftCurlyBracket", "AtSign", "link", "Spacing", "LeftParenthesis">>,
                   <<"x", "Spacing", "LeftCurlyBracket", "AtSign", "inheritDoc", "Newline",
                     "LeftParenthesis">>},
                  {"x", "Colon", "Spacing", "RightCurlyBracket"}, 4)

LexicalInputs == TextInputs \union FenceInputs \union HtmlInputs
BlockInputs == TagInputs \union ParamInputs \union InlineInputs
MCInputs == LexicalInputs \union BlockInputs

MCDefinitions ==
  [w \in {"param", "remarks", "deprecated", "public", "inheritDoc", "link"} |->
     CASE w \in {"param", "remarks", "deprecated"} -> "BlockTag"
       [] w = "public" -> "ModifierTag"
       [] OTHER -> "InlineTag"]

Standard ==
  [tagDefinitions |-> MCDefinitions, ignoreUndefinedTags |-> FALSE,
   reportUnsupportedTags |-> FALSE, supportedTags |-> {},
   reportUnsupportedHtmlElements |-> FALSE, supportedHtmlElements |-> {}]
Strict ==
  [Standard EXCEPT !.ignoreUndefinedTags = TRUE, !.reportUnsupportedTags = TRUE,
                   !.supportedTags = {"param", "remarks", "link"},
                   !.reportUnsupportedHtmlElements = TRUE, !.supportedHtmlElements = {"x"}]
MCConfigurations == {Standard, Strict}
=============================================================================
