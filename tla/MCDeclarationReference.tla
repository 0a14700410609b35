---------------------- MODULE MCDeclarationReference ----------------------
EXTENDS DeclarationGrammar

CONSTANT Extra        \* lengthens every family of texts

MCMeanings == {"class"}

Family(prefixes, alphabet, n, suffixes) ==
  {p \o t \o s : p \in prefixes, t \in BoundedSeq(alphabet, n + Extra), s \in suffixes}

SymbolTexts ==
  Family({<<>>}, {"n", "[", "]", "!", ".", "~", ":", "0", Quote}, 4, {<<>>})
BracketTexts ==
  Family({<<>>, <<"n", "!", "[">>, <<"n", "!", "[", "n">>}, {"n", "[", "]", "!", "."}, 4,
         {<<>>, <<"]">>})
MeaningTexts ==
  Family({<<"n">>, <<"!">>, <<"n", "!", "~">>},
         {":", "class", "(", ")", "0", "1"}, 3, {<<>>, <<"1">>, <<"0", ")">>})
StringTexts ==
  Family({<<Quote>>, <<Quote, Backslash>>, <<Quote, "n", Quote, "#">>},
         {Backslash, "x", "u", "0", "n", LF, Quote}, 3, {<<>>, <<Quote>>, <<Quote, "!">>})
CodeTexts ==
  Family({<<Quote, Backslash, "u", "0", "0">>, <<Quote, Backslash, "u", "{">>,
          <<Quote, Backslash, "u", "{", "1", "1", "0", "0">>,
          <<Quote, Backslash, "u", "{", "1", "0", "a", "a">>, <<Quote, Backslash, "x">>},
         {"0", "a", "}", "n"}, 3, {<<Quote>>, <<"}", Quote, "!">>})
\* Spaces and line breaks in components and module sources
SpacedTexts ==
  Family({<<>>, <<"n", "!">>}, {"n", SP, LF, ".", Quote}, 3, {<<>>, <<"!">>, <<"!", "n">>})
MCTexts == SpacedTexts \union SymbolTexts \union BracketTexts \union MeaningTexts \union StringTexts
             \union CodeTexts

MCPackages ==
  {q \in {<<>>, <<"n">>, <<"@", "n">>} \X {<<"n">>, <<"n", ".", "0">>}
           \X {<<>>, <<"x">>, <<"x", "/", "x">>, <<"!">>, <<".", "x">>} :
     CanNamePackage(q[1], q[2], q[3])}
MCSources ==
  {GlobalSource, NoSource} \union {FromScopedPackage(q[1], q[2], q[3]) : q \in MCPackages}
    \union {ModuleSource(t) : t \in {<<>>, <<"n", "!">>, <<"@", "n", "/", "x", "!">>, <<Quote>>}}
MCNavigations == {Exports, Members, Locals}
MCReferences ==
  {EmptyReference, AddNavigationStep(EmptyReference, Exports, ComponentString(<<"n">>)),
   AddNavigationStep(WithSource(EmptyReference, ModuleSource(<<"n">>)), Locals,
                     ComponentString(<<"x">>)),
   WithMeaning(WithSource(EmptyReference, GlobalSource), "class")}
MCComponents ==
  {ComponentString(EscapeComponent(t)) : t \in {<<"n">>, <<"[", "n">>, <<"n", "!">>}}
    \union {ComponentString(t) : t \in {<<>>, <<Quote, "n">>}}
    \union {ComponentReference(r) : r \in MCReferences}
MCPaths == {<<Step("root", component)>> : component \in MCComponents}
MCIndexes == {<<>>, <<"0">>, <<"1", "0">>}
=============================================================================
