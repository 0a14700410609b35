----------------------------- MODULE MCLinkTag -----------------------------
EXTENDS LinkGrammar, LinkEmitter

CONSTANT Extra     \* lengthens every family

MCWords == {"a", "9", "static", "LABEL"}
MCNonNames == {"9"}
MCSchemes == {"a", "static"}
MCSystemSelectors == {"static"}
MCSelectors == {"9", "static", "LABEL"}

\* Every content that continues a prefix with up to n tokens of an alphabet
Family(prefixes, alphabet, n) ==
  {s \in {p \o t : p \in prefixes, t \in BoundedSeq(alphabet, n + Extra)} : IsContent(s)}

UrlInputs ==
  Family({<<>>, <<"a", "Colon", "Slash", "Slash">>},
         {"a", "Period", "Colon", "Slash", "PoundSymbol", "Spacing", "Pipe"}, 4)
TextInputs ==
  Family({<<"a", "Pipe">>, <<"a", "Spacing", "Pipe">>},
         {"a", "Spacing", "Newline", "Pipe", "Backslash", "RightCurlyBracket",
          "LeftCurlyBracket"}, 4)
ImportInputs ==
  Family({<<>>, <<"AtSign", "a", "Slash">>},
         {"a", "AtSign", "Slash", "Period", "PoundSymbol", "Comma", "Spacing"}, 4)
MemberInputs ==
  Family({<<>>}, {"a", "9", "static", "Period", "Colon", "LeftParenthesis", "RightParenthesis",
                  "DoubleQuote", "DollarSign"}, 4)
    \union Family({<<"LeftParenthesis", "a", "Colon">>, <<"a", "Period", "LeftParenthesis">>,
                   <<"LeftParenthesis", "a", "Colon", "static", "RightParenthesis", "Period">>},
                  {"a", "static", "LABEL", "Colon", "RightParenthesis", "Spacing", "Newline"}, 4)
SymbolInputs ==
  Family({<<"LeftSquareBracket">>, <<"LeftParenthesis", "LeftSquareBracket", "a", "PoundSymbol">>},
         {"a", "LeftSquareBracket", "RightSquareBracket", "Period", "Spacing", "Colon"}, 4)
    \union Family({<<"LeftSquareBracket">>, <<"a", "PoundSymbol">>},
                  {"a", "DollarSign", "DoubleQuote", "RightSquareBracket", "Spacing"}, 4)

MCContents == UrlInputs \union TextInputs \union ImportInputs \union MemberInputs
                \union SymbolInputs

\* Tags that a program builds: a name alone, after another, in brackets and after an import,
\* with and without a selector
NamesBuilt ==
  {<<>>, <<"a">>, <<"9">>, <<"static">>, <<"DollarSign">>, <<"DollarSign", "a">>, <<"a", "DollarSign">>,
   <<"a", "Spacing", "a">>, <<"a", "Period">>, <<"a", "DoubleQuote">>}
Members(hasDot) ==
  {BuiltMember(hasDot, name, selector) : name \in NamesBuilt, selector \in {<<>>, <<"static">>}}
Symbol(m) == [NoMember EXCEPT !.symbol = <<Reference(<<>>, <<>>, <<m>>)>>]
ScopedPackage == <<"AtSign", "a", "Slash", "a">>
BuiltReferences ==
  {Reference(package, <<>>, <<m>>) : package \in {<<>>, ScopedPackage}, m \in Members(FALSE)}
    \union {Reference(<<>>, <<>>, <<Symbol(m)>>) : m \in Members(FALSE)}
    \union {Reference(<<>>, <<>>, <<BuiltMember(FALSE, <<"a">>, <<>>), n>>) : n \in Members(TRUE)}
    \union {Reference(ScopedPackage, path, <<>>) : path \in {<<>>, <<"Slash", "a">>}}
MCBuilt ==
  [name : {"link", "inheritDoc"},
   tag : {[NoTag EXCEPT !.code = <<r>>] : r \in BuiltReferences}]
    \union [name : {"link"},
            tag : [url : {<<"a", "Colon", "Slash", "Slash", "a">>}, code : {<<>>},
                   text : {<<>>, <<"a">>, <<"a", "Newline", "a">>, <<"Backslash", "Pipe">>}]]
=============================================================================
