------------------------- MODULE DeclarationParser -------------------------
(***************************************************************************)
(* DeclarationReference.parse() in                                         *)
(* src/tsdoc/src/beta/DeclarationReference.ts: the recursive descent of    *)
(* its Parser, one action per kind of construct.  A frame holds what       *)
(* parseDeclarationReference() has read of a reference; a bracketed        *)
(* component pushes one.                                                   *)
(***************************************************************************)
EXTENDS DeclarationReference

CONSTANT Texts        \* the texts that are parsed
ASSUME TextsAssumption == Texts # {}

VARIABLES
  text,        \* the text to parse
  scanner,
  frames,      \* the references being read, the innermost last
  pc,          \* what is read next
  failed,      \* parser.errors is not empty
  reference    \* what parse() returned: <<>> until then and when it throws

parserVars == <<text, scanner, frames, pc, failed, reference>>

NewFrame ==
  [source |-> NoSource, sourceNavigation |-> Undefined, symbol |-> <<>>,
   navigation |-> "root", parenthesized |-> FALSE]

\* The constructor of Parser, which scans the first token
Init ==
  /\ text \in Texts
  /\ scanner = Scan(NewScanner(text))
  /\ frames = <<NewFrame>>
  /\ pc = "reference"
  /\ failed = FALSE
  /\ reference = <<>>

frame == Last(frames)
SetFrame(f) == frames' = ReplaceAt(frames, Len(frames), f)
Go(to) == pc' = to /\ UNCHANGED <<text, reference>>
\* Every one of these is an optionalToken() or an expected one that is there
Consume == scanner' = Scan(scanner)

------------------------------ \* parseDeclarationReference()

GlobalReference ==
  /\ pc = "reference" /\ scanner.token = "!"
  /\ SetFrame([frame EXCEPT !.source = GlobalSource])
  /\ Consume /\ Go("symbol") /\ UNCHANGED failed
LookForSource ==
  /\ pc = "reference" /\ scanner.token # "!"
  /\ scanner' = RescanModuleSource(scanner)
  /\ Go("source") /\ UNCHANGED <<frames, failed>>
NoModuleSource ==
  /\ pc = "source" /\ scanner.token # "source"
  /\ Go("symbol") /\ UNCHANGED <<scanner, frames, failed>>
\* parseModuleSource(): the "!" is there, or there would be no module source
ReadModuleSource ==
  /\ pc = "source" /\ scanner.token = "source"
  /\ SetFrame([frame EXCEPT !.source = ParsedModuleSource(TokenText(scanner))])
  /\ scanner' = Scan(Scan(scanner))
  /\ failed' = (failed \/ scanner.unterminated)
  /\ Go("navigation")
SourceNavigation ==
  /\ pc = "navigation"
  /\ \/ /\ scanner.token = "~"
        /\ SetFrame([frame EXCEPT !.sourceNavigation = Locals])
        /\ Consume
     \/ scanner.token # "~" /\ UNCHANGED <<frames, scanner>>
  /\ Go("symbol") /\ UNCHANGED failed
\* A symbol that starts with its ":" has a path of one empty string
StartSymbol ==
  /\ pc = "symbol"
  /\ \/ /\ scanner.token \in {"text", "string", "["}
        /\ SetFrame([frame EXCEPT !.symbol = <<EmptySymbol>>])
        /\ Go("component")
     \/ /\ scanner.token = ":"
        /\ SetFrame([frame EXCEPT !.symbol = <<[EmptySymbol EXCEPT
                       !.path = <<Step("root", ComponentString(<<>>))>>]>>])
        /\ Go("meaning")
     \/ /\ scanner.token \notin {"text", "string", "[", ":"}
        /\ Go("end") /\ UNCHANGED frames
  /\ UNCHANGED <<scanner, failed>>

------------------------------ \* parseSymbol()

AddComponent(f, component) ==
  [f EXCEPT !.symbol[1].path = Append(@, Step(f.navigation, component))]

\* parseComponentString(): a string, or text that may be empty
Component ==
  LET read == scanner.token \in {"string", "text"}
  IN /\ pc = "component" /\ scanner.token # "["
     /\ SetFrame(AddComponent(frame, ComponentString(IF read THEN TokenText(scanner) ELSE <<>>)))
     /\ IF read THEN Consume ELSE UNCHANGED scanner
     /\ failed' = (failed \/ (read /\ scanner.unterminated))
     /\ Go("rest")
BracketedComponent ==
  /\ pc = "component" /\ scanner.token = "["
  /\ frames' = Append(frames, NewFrame)
  /\ Consume /\ Go("reference") /\ UNCHANGED failed

\* parseComponentRest() reads one more component, or ends the path
Navigate ==
  /\ pc = "rest" /\ scanner.token \in {Exports, Members, Locals}
  /\ SetFrame([frame EXCEPT !.navigation = scanner.token])
  /\ Consume /\ Go("component") /\ UNCHANGED failed
EndOfPath ==
  /\ pc = "rest" /\ scanner.token \notin {Exports, Members, Locals}
  /\ Go("meaning") /\ UNCHANGED <<scanner, frames, failed>>

Colon ==
  /\ pc = "meaning"
  /\ IF scanner.token = ":" THEN Consume /\ Go("keyword") ELSE Go("end") /\ UNCHANGED scanner
  /\ UNCHANGED <<frames, failed>>
\* tryParseMeaning()
Meaning ==
  /\ pc = "keyword"
  /\ \/ /\ IsMeaning(scanner)
        /\ SetFrame([frame EXCEPT !.symbol[1].meaning = TokenText(scanner)[1]])
        /\ Consume
     \/ ~IsMeaning(scanner) /\ UNCHANGED <<frames, scanner>>
  /\ Go("overload") /\ UNCHANGED failed
\* tryParseOverloadIndex(): without a meaning there must be an index
OverloadIndex ==
  /\ pc = "overload"
  /\ \/ /\ scanner.token = "("
        /\ SetFrame([frame EXCEPT !.parenthesized = TRUE])
        /\ Consume /\ Go("index")
     \/ /\ scanner.token # "("
        /\ Go(IF frame.symbol[1].meaning = Undefined THEN "index" ELSE "end")
        /\ UNCHANGED <<frames, scanner>>
  /\ UNCHANGED failed

\* The number that digits denote, as the numeral that prints it
Numeral(digits) ==
  LET significant == {k \in DOMAIN digits : digits[k] # "0"}
  IN IF significant = {} THEN <<"0">> ELSE SubSeq(digits, Min(significant), Len(digits))
\* parseDecimalDigits() falls back to 0
Index ==
  /\ pc = "index"
  /\ SetFrame([frame EXCEPT !.symbol[1].overloadIndex =
                 IF IsDecimalDigits(scanner) THEN Numeral(TokenText(scanner)) ELSE <<"0">>])
  /\ IF IsDecimalDigits(scanner) THEN Consume ELSE UNCHANGED scanner
  /\ failed' = (failed \/ ~IsDecimalDigits(scanner))
  /\ Go(IF frame.parenthesized THEN "close" ELSE "end")
\* expectToken()
Expect(token) ==
  /\ IF scanner.token = token THEN Consume ELSE UNCHANGED scanner
  /\ failed' = (failed \/ scanner.token # token)
CloseIndex ==
  /\ pc = "close"
  /\ Expect(")") /\ Go("end") /\ UNCHANGED frames

------------------------------ \* The end of a reference

Read(f) == [source |-> f.source, navigation |-> f.sourceNavigation, symbol |-> f.symbol]

\* parseBracketedComponent() expects a "]"
EndOfBracket ==
  /\ pc = "end" /\ Len(frames) > 1
  /\ LET outer == Front(frames)
     IN frames' = Append(Front(outer), AddComponent(Last(outer), ComponentReference(Read(frame))))
  /\ Expect("]") /\ Go("rest")

\* parse() throws when there were errors, and when something is left
Return ==
  /\ pc = "end" /\ Len(frames) = 1
  /\ reference' = IF failed \/ scanner.token # "eof" THEN <<>> ELSE <<Read(frame)>>
  /\ pc' = "done"
  /\ UNCHANGED <<text, scanner, frames, failed>>

Parse ==
  \/ GlobalReference \/ LookForSource \/ NoModuleSource \/ ReadModuleSource
  \/ SourceNavigation \/ StartSymbol
  \/ Component \/ BracketedComponent \/ Navigate \/ EndOfPath
  \/ Colon \/ Meaning \/ OverloadIndex \/ Index \/ CloseIndex
  \/ EndOfBracket \/ Return

Accepted == pc = "done" /\ reference # <<>>
=============================================================================
