------------------------- MODULE DeclarationCalls -------------------------
(***************************************************************************)
(* A program that uses src/tsdoc/src/beta/DeclarationReference.ts: it      *)
(* makes a reference, by parsing a text or by calls that each return a     *)
(* changed copy, prints it, and parses what it printed.                    *)
(***************************************************************************)
EXTENDS DeclarationParser

CONSTANTS
  Sources, Navigations, Components, Paths, Indexes,   \* the arguments of the calls
  MaxCalls                                            \* the bound on the number of calls
ASSUME CallsAssumption ==
  /\ MaxCalls \in Nat
  /\ Navigations \subseteq {Exports, Members, Locals}
  /\ \A index \in Indexes : index = <<>> \/ IsDigits(index)

VARIABLES
  calls,       \* the calls made so far
  printed      \* the reference that was printed, or <<>>

vars == <<parserVars, calls, printed>>

\* DeclarationReference.empty()
CallsInit ==
  /\ reference = <<EmptyReference>> /\ pc = "build"
  /\ text = <<>> /\ scanner = NewScanner(<<>>) /\ frames = <<>> /\ failed = FALSE
ProgramInit ==
  /\ CallsInit \/ Init
  /\ calls = 0 /\ printed = <<>>

built == reference[1]
Call(result) ==
  /\ pc = "build" /\ calls < MaxCalls
  /\ reference' = <<result>>
  /\ calls' = calls + 1
  /\ UNCHANGED <<text, scanner, frames, pc, failed, printed>>

CallWithSource == \E source \in Sources : Call(WithSource(built, source))
CallWithNavigation ==
  \E navigation \in Navigations \ {Members} : Call(WithNavigation(built, navigation))
CallWithComponentPath == \E root \in Paths : Call(WithComponentPath(built, root))
CallWithMeaning == \E meaning \in Meanings \union {Undefined} : Call(WithMeaning(built, meaning))
CallWithOverloadIndex == \E index \in Indexes : Call(WithOverloadIndex(built, index))
CallAddNavigationStep ==
  \E navigation \in Navigations, component \in Components :
    pc = "build" /\ CanAddNavigationStep(built)
      /\ Call(AddNavigationStep(built, navigation, component))
CallWithSymbol == \E symbol \in {<<>>, <<EmptySymbol>>} : Call(WithSymbol(built, symbol))

\* Calls on the path of the reference, which is then given back to it
path == SymbolOf(built).path
CallPathAddNavigationStep ==
  /\ pc = "build" /\ path # <<>>
  /\ \E navigation \in Navigations, component \in Components :
       Call(WithComponentPath(built, PathAddNavigationStep(path, navigation, component)))
CallPathWithComponent ==
  /\ pc = "build" /\ path # <<>>
  /\ \E component \in Components : Call(WithComponentPath(built, PathWithComponent(path, component)))
CallPathWithNavigation ==
  /\ pc = "build" /\ Len(path) > 1
  /\ \E navigation \in Navigations : Call(WithComponentPath(built, PathWithNavigation(path, navigation)))
CallPathWithParent ==
  /\ pc = "build" /\ Len(path) > 1
  /\ \E parent \in Paths : Call(WithComponentPath(built, PathWithParent(path, parent)))
\* The reference becomes a component of a new one
CallComponentReference ==
  \E navigation \in Navigations :
    Call(AddNavigationStep(EmptyReference, navigation, ComponentReference(built)))

\* toString(), and the parse of what it returns
PrintAndParse ==
  /\ pc = "build" \/ Accepted
  /\ printed = <<>>
  /\ printed' = reference
  /\ text' = ReferenceText(built)
  /\ scanner' = Scan(NewScanner(text'))
  /\ frames' = <<NewFrame>> /\ pc' = "reference" /\ failed' = FALSE /\ reference' = <<>>
  /\ UNCHANGED calls

Next ==
  \/ CallWithSource \/ CallWithNavigation \/ CallWithComponentPath \/ CallWithMeaning
  \/ CallWithOverloadIndex \/ CallAddNavigationStep \/ CallComponentReference
  \/ CallWithSymbol \/ CallPathAddNavigationStep \/ CallPathWithComponent
  \/ CallPathWithNavigation \/ CallPathWithParent
  \/ PrintAndParse
  \/ Parse /\ UNCHANGED <<calls, printed>>

Spec == ProgramInit /\ [][Next]_vars

-----------------------------------------------------------------------------
\* What a caller sees of a reference: its getters, all the way down.  An empty
\* symbol is none, and a symbol without a path is one with an empty component.
RECURSIVE Observed(_)
ObservedStep(step) ==
  [step EXCEPT !.component.reference = IF @ = <<>> THEN <<>> ELSE <<Observed(@[1])>>]
ObservedPath(steps) ==
  IF steps = <<>> THEN <<Step("root", ComponentString(<<>>))>>
  ELSE [k \in DOMAIN steps |-> ObservedStep(steps[k])]
Observed(r) ==
  LET none == SymbolOf(r) = EmptySymbol
  IN [kind |-> r.source.kind, escapedPath |-> r.source.escapedPath,
      navigation |-> IF none THEN Undefined ELSE NavigationOf(r),
      symbol |-> IF none THEN <<>> ELSE <<[r.symbol[1] EXCEPT !.path = ObservedPath(@)]>>]
\* The parts that fromScopedPackage() keeps are those of the path
HasItsParts(source) ==
  source.parts # <<>> =>
    \A module \in {UnescapeModuleSource(source.escapedPath)} :
      ~module.throws /\ source.parts = PathParts(module.text)

ReadBack == pc = "done" /\ printed # <<>>
SameAsPrinted ==
  Accepted /\ Observed(built) = Observed(printed[1]) /\ HasItsParts(printed[1].source)

-----------------------------------------------------------------------------
\* A reference without a source, printed at the start of t, is taken for a
\* module source when a "!" follows it with no quote in between
IsCaptured(t) ==
  \E k \in 2 .. Len(t) : t[k] = "!" /\ \A j \in 1 .. k - 1 : t[j] \notin {"!", Quote}
\* A component string that the caller escaped, wrongly
IsUnterminated(t) == At(t, 1) = Quote /\ StringEnd(t, 2).unterminated
EmptyRoot(symbol) ==
  /\ symbol.path # <<>> /\ symbol.path[1].component = ComponentString(<<>>)
  /\ Len(symbol.path) > 1 \/ MeaningText(symbol) = <<>>

\* IsLost(r, after): r, printed with the text "after" behind it, is not read back
RECURSIVE IsLost(_, _)
IsLost(r, after) ==
  LET symbol == SymbolOf(r)
      steps == symbol.path
      behind(k) == PathText(SubSeq(steps, k + 1, Len(steps))) \o MeaningText(symbol) \o after
  IN \/ r.source.kind = "none" /\ IsCaptured(ReferenceText(r) \o after)
     \/ EmptyRoot(symbol)
     \/ \E k \in DOMAIN steps :
          LET component == steps[k].component
          IN IF component.reference = <<>> THEN IsUnterminated(component.text)
             ELSE IsLost(component.reference[1], <<"]">> \o behind(k))

\* Any text can be made a component or a module source: escaped, it stays one token
\* whatever follows it, is accepted as user-escaped, and is recovered
EscapedTextIsRecovered ==
  \A component \in {EscapeComponent(text)}, source \in {EscapeModuleSource(text)} :
    LET recovered == [throws |-> FALSE, text |-> text]
    IN /\ IsWellFormedComponent(component) /\ UnescapeComponent(component) = recovered
       /\ \A ch \in Punctuators : TokenText(Scan(NewScanner(Append(component, ch)))) = component
       /\ IsWellFormedModuleSource(source) /\ UnescapeModuleSource(source) = recovered

(***************************************************************************)
(* What toString() prints reads back as a reference with the same source,  *)
(* package, navigation, components, meaning and index, whatever it leaves  *)
(* out or writes differently: always, if the reference was parsed.  One    *)
(* that was made by calls is lost exactly if parse() takes a part without  *)
(* a source for a module source, or if a component that the caller escaped *)
(* is empty or unterminated; toString() has no way to tell.  A name that   *)
(* is escaped by the library is recovered, whatever its characters.        *)
(***************************************************************************)
PrintedReferencesReadBack ==
  /\ ReadBack => (SameAsPrinted <=> calls = 0 \/ ~IsLost(printed[1], <<>>))
  /\ pc = "done" /\ printed = <<>> => EscapedTextIsRecovered
=============================================================================
