----------------------- MODULE DeclarationReference -----------------------
(***************************************************************************)
(* The values of src/tsdoc/src/beta/DeclarationReference.ts: how they are  *)
(* made, escaped, changed and printed.  All of them are immutable.  An     *)
(* absent part is the empty sequence; a component path is the sequence of  *)
(* its steps, the first of which has the navigation "root".                *)
(***************************************************************************)
EXTENDS DeclarationScanner, SequencesExt

------------------------------ \* Escaping

\* JSON.stringify() and JSON.parse().  A character written by its code is "U".
JSONEscape(ch) ==
  CASE ch = LF -> <<Backslash, "n">>
    [] ch \in {Quote, Backslash} -> <<Backslash, ch>>
    [] OTHER -> <<ch>>
Stringify(text) ==
  <<Quote>> \o FlattenSeq([k \in DOMAIN text |-> JSONEscape(text[k])]) \o <<Quote>>
Unparsable == [throws |-> TRUE, text |-> <<>>]
ParseJSON(text) ==
  LET From[p \in 2 .. Len(text) + 5] ==
        LET next == At(text, p + 1)
            then(ch, n) == LET rest == From[p + n]
                           IN IF rest.throws THEN Unparsable ELSE [rest EXCEPT !.text = <<ch>> \o @]
        IN CASE p = Len(text) -> [throws |-> FALSE, text |-> <<>>]
             [] p > Len(text) \/ At(text, p) \in {Quote, LF} -> Unparsable
             [] At(text, p) # Backslash -> then(text[p], 1)
             [] next = "n" -> then(LF, 2)
             [] next \in {Quote, Backslash, "b"} -> then(next, 2)
             [] next = "u" /\ \A k \in 2 .. 5 : At(text, p + k) \in HexDigit -> then("U", 6)
             [] OTHER -> Unparsable
  IN From[2]

\* isWellFormedComponentString(): one string, terminated or not, or one text
IsWellFormedComponent(text) ==
  LET first == Scan(NewScanner(text))
  IN first.token \in {"eof", "string", "text"} /\ Eof(first)
\* A module source, up to the "!" that is added to the text
IsWellFormedModuleSource(text) ==
  LET source == RescanModuleSource(NewScanner(Append(text, "!")))
  IN source.token = "source" /\ ~source.unterminated /\ source.pos = Len(text) + 1
EscapeComponent(text) ==
  IF text = <<>> \/ At(text, 1) \in {"[", Quote} \/ ~IsWellFormedComponent(text)
    THEN Stringify(text) ELSE text
EscapeModuleSource(text) ==
  IF text = <<>> \/ At(text, 1) = Quote \/ ~IsWellFormedModuleSource(text)
    THEN Stringify(text) ELSE text
Unescape(text, wellFormed(_)) ==
  IF Len(text) >= 2 /\ text[1] = Quote /\ Last(text) = Quote THEN ParseJSON(text)
  ELSE IF wellFormed(text) THEN [throws |-> FALSE, text |-> text] ELSE Unparsable
UnescapeComponent(text) == Unescape(text, IsWellFormedComponent)
UnescapeModuleSource(text) == Unescape(text, IsWellFormedModuleSource)

------------------------------ \* Module sources

\* The position after the segment of a path that starts at p
SegmentEnd(path, p) == Min({q \in p .. Len(path) : path[q] = "/"} \union {Len(path) + 1})
NameCharacters == {".", "-", "n", "x", "u"} \union Meanings \union HexDigit
\* packageNameRegExp with its optional scope, and without it
HasName(path, p) == LET end == SegmentEnd(path, p) IN end > p /\ end # Len(path)
HasScope(path) ==
  LET slash == SegmentEnd(path, 1)
  IN At(path, 1) = "@" /\ slash > 2 /\ slash <= Len(path) /\ HasName(path, slash + 1)
\* explainIfInvalidPackageName()
IsPackageName(name) ==
  LET allowed(part) == part # <<>> /\ \A k \in DOMAIN part : part[k] \in NameCharacters
      slash == SegmentEnd(name, 1)
  IN \/ allowed(name)
     \/ /\ At(name, 1) = "@" /\ allowed(SubSeq(name, 2, slash - 1))
        /\ allowed(SubSeq(name, slash + 1, Len(name)))
\* parsePackageName() of a text it matches
ParsePackageName(path) ==
  LET slash == SegmentEnd(path, 1)
      start == IF HasScope(path) THEN slash + 1 ELSE 1
      end == SegmentEnd(path, start)
  IN [packageName |-> SubSeq(path, 1, end - 1),
      scopeName |-> IF HasScope(path) THEN SubSeq(path, 2, slash - 1) ELSE <<>>,
      unscopedPackageName |-> SubSeq(path, start, end - 1),
      importPath |-> SubSeq(path, end + 1, Len(path))]
IsPackagePath(path) ==
  /\ HasScope(path) \/ HasName(path, 1)
  /\ IsPackageName(ParsePackageName(path).packageName)

NoSource == [kind |-> "none", escapedPath |-> <<>>, parts |-> <<>>]
GlobalSource == [NoSource EXCEPT !.kind = "global"]
ParsedModuleSource(path) == [kind |-> "module", escapedPath |-> path, parts |-> <<>>]
ModuleSource(path) == ParsedModuleSource(EscapeModuleSource(path))

\* ModuleSource.fromScopedPackage(), which keeps the parts it was made of
IsInvalidImportPath(path) ==
  LET slash(k) == At(path, k) \in {"/", Backslash}
      ends(k) == k = Len(path) + 1 \/ slash(k)
  IN \/ slash(1)
     \/ At(path, 1) = "." /\ (ends(2) \/ (At(path, 2) = "." /\ ends(3)))
PackageName(scope, unscoped) ==
  IF scope = <<>> THEN unscoped
  ELSE (IF scope[1] = "@" THEN scope ELSE <<"@">> \o scope) \o <<"/">> \o unscoped
PackagePath(scope, unscoped, importPath) ==
  PackageName(scope, unscoped) \o (IF importPath = <<>> THEN <<>> ELSE <<"/">> \o importPath)
CanNamePackage(scope, unscoped, importPath) ==
  /\ IsPackageName(PackageName(scope, unscoped)) /\ ~IsInvalidImportPath(importPath)
  /\ IsWellFormedModuleSource(PackagePath(scope, unscoped, importPath))
FromScopedPackage(scope, unscoped, importPath) ==
  [kind |-> "module", escapedPath |-> PackagePath(scope, unscoped, importPath),
   parts |-> <<[packageName |-> PackageName(scope, unscoped),
                scopeName |-> IF At(scope, 1) = "@" THEN Tail(scope) ELSE scope,
                unscopedPackageName |-> unscoped, importPath |-> importPath]>>]

\* _getOrParsePathComponents() of a path that was not split into its parts
PathParts(path) ==
  IF IsPackagePath(path) THEN <<ParsePackageName(path)>>
  ELSE <<[packageName |-> <<>>, scopeName |-> <<>>, unscopedPackageName |-> <<>>,
          importPath |-> path]>>

------------------------------ \* References

Undefined == ""       \* an undefined navigation or meaning
Exports == "."
Members == "#"
Locals == "~"
EmptyReference == [source |-> NoSource, navigation |-> Undefined, symbol |-> <<>>]
\* An overload index is the numeral that prints it, <<>> when undefined
EmptySymbol == [path |-> <<>>, meaning |-> Undefined, overloadIndex |-> <<>>]
ComponentString(text) == [text |-> text, reference |-> <<>>]
ComponentReference(reference) == [text |-> <<>>, reference |-> <<reference>>]
Step(navigation, component) == [navigation |-> navigation, component |-> component]

\* The getter of navigation
NavigationOf(r) ==
  IF r.source.kind = "none" \/ r.symbol = <<>> THEN Undefined
  ELSE IF r.source.kind = "global" THEN Locals
  ELSE IF r.navigation = Undefined THEN Exports
  ELSE r.navigation

WithSource(r, source) == [r EXCEPT !.source = source]
WithNavigation(r, navigation) == [r EXCEPT !.navigation = navigation]
WithSymbol(r, symbol) == [r EXCEPT !.symbol = symbol]
SymbolOf(r) == IF r.symbol = <<>> THEN EmptySymbol ELSE r.symbol[1]
\* The same calls on a symbol, and on the path of one
SymbolWithComponentPath(symbol, path) == [symbol EXCEPT !.path = path]
SymbolWithMeaning(symbol, meaning) == [symbol EXCEPT !.meaning = meaning]
SymbolWithOverloadIndex(symbol, index) == [symbol EXCEPT !.overloadIndex = index]
SymbolAddNavigationStep(symbol, navigation, component) ==
  [EmptySymbol EXCEPT !.path = Append(symbol.path, Step(navigation, component))]
PathAddNavigationStep(path, navigation, component) == Append(path, Step(navigation, component))
PathWithComponent(path, component) == [path EXCEPT ![Len(path)].component = component]
PathWithNavigation(path, navigation) == [path EXCEPT ![Len(path)].navigation = navigation]
PathWithParent(path, parent) == Append(parent, Last(path))

WithComponentPath(r, path) == WithSymbol(r, <<SymbolWithComponentPath(SymbolOf(r), path)>>)
WithMeaning(r, meaning) ==
  IF r.symbol = <<>> /\ meaning = Undefined THEN r
  ELSE WithSymbol(r, <<SymbolWithMeaning(SymbolOf(r), meaning)>>)
WithOverloadIndex(r, index) ==
  IF r.symbol = <<>> /\ index = <<>> THEN r
  ELSE WithSymbol(r, <<SymbolWithOverloadIndex(SymbolOf(r), index)>>)

\* addNavigationStep() throws on a symbol without a path; it starts a symbol
\* where there is none, and drops the meaning and the index where there is one
CanAddNavigationStep(r) == r.symbol = <<>> \/ SymbolOf(r).path # <<>>
\* mutant: the first step keeps its navigation
AddRootStep(r, navigation, component) ==
  LET step == Step(IF r.symbol = <<>> THEN "root" ELSE navigation, component)
  IN [r EXCEPT !.navigation = IF r.symbol = <<>> THEN navigation ELSE @,
               !.symbol = <<[EmptySymbol EXCEPT !.path = Append(SymbolOf(r).path, step)]>>]
AddNavigationStep(r, navigation, component) ==
  IF r.symbol # <<>>
    THEN WithSymbol(r, <<SymbolAddNavigationStep(r.symbol[1], navigation, component)>>)
    ELSE [r EXCEPT !.navigation = IF navigation = Members THEN Exports ELSE navigation,
                   !.symbol = <<[EmptySymbol EXCEPT !.path = <<Step("root", component)>>]>>]

------------------------------ \* Printing

SourceText(source) ==
  CASE source.kind = "none" -> <<>>
    [] source.kind = "global" -> <<"!">>
    [] source.kind = "module" -> Append(source.escapedPath, "!")
MeaningText(symbol) ==
  LET meaning == IF symbol.meaning = Undefined THEN <<>> ELSE <<symbol.meaning>>
  IN CASE meaning # <<>> /\ symbol.overloadIndex # <<>> ->
            <<":">> \o meaning \o <<"(">> \o symbol.overloadIndex \o <<")">>
       [] meaning = <<>> /\ symbol.overloadIndex = <<>> -> <<>>
       [] OTHER -> <<":">> \o meaning \o symbol.overloadIndex
NavigationText(r) ==
  IF r.source.kind = "module" /\ r.symbol # <<>> /\ NavigationOf(r) = Locals THEN <<"~">> ELSE <<>>

RECURSIVE ReferenceText(_)
StepText(step) ==
  (IF step.navigation = "root" THEN <<>> ELSE <<step.navigation>>)
    \o (IF step.component.reference = <<>> THEN step.component.text
        ELSE <<"[">> \o ReferenceText(step.component.reference[1]) \o <<"]">>)
PathText(path) == FlattenSeq([k \in DOMAIN path |-> StepText(path[k])])
SymbolText(symbol) == PathText(symbol.path) \o MeaningText(symbol)
\* toString()
ReferenceText(r) ==
  SourceText(r.source) \o NavigationText(r)
    \o (IF r.symbol = <<>> THEN <<>> ELSE SymbolText(r.symbol[1]))
=============================================================================
