------------------------------ MODULE LinkTag ------------------------------
(***************************************************************************)
(* The second parse of an inline tag: NodeParser._parseLinkTag() and       *)
(* _parseInheritDocTag() read the content of a "{@link}" or "{@inheritDoc}"*)
(* with a TokenReader of its own, for which EndOfInput is the closing "}". *)
(* "tokens" is that content alone.                                         *)
(*                                                                         *)
(* A declaration reference may hold others in square brackets.  The stack  *)
(* "references" has a record for each one that is being read, innermost    *)
(* last; when one fails, every enclosing one logs a message of its own.    *)
(***************************************************************************)
EXTENDS TokenReader, SequencesExt

CONSTANTS
  Contents,          \* the contents to parse
  NonNames,          \* the words that begin with a digit
  Schemes,           \* the words that can be the scheme of a URL
  SystemSelectors,   \* StringChecks._systemSelectors
  Selectors          \* the words for which DocMemberSelector has no error

\* What is left between the tag name and the first unescaped "}"
Escaped(s, i) ==
  \E m \in 1 .. i - 1 : /\ m % 2 = 1
                        /\ \A j \in i - m .. i - 1 : s[j] = "Backslash"
                        /\ m < i - 1 => s[i - m - 1] # "Backslash"
IsContent(s) ==
  /\ s # <<>> => s[1] \notin {"Spacing", "Newline"}
  /\ \A i \in 1 .. Len(s) :
       /\ s[i] \in {"LeftCurlyBracket", "RightCurlyBracket"} => Escaped(s, i)
       /\ s[i] = "Backslash" /\ ~Escaped(s, i)
            => i < Len(s) /\ s[i + 1] \in PunctuationKinds
  /\ IsTokenStream(s \o <<"RightCurlyBracket", "Newline">>)

ASSUME ContentsAssumption == \A s \in Contents : s \in Seq(Token) /\ IsContent(s)
ASSUME SpellingsAssumption ==
  /\ Schemes \subseteq Words \ NonNames /\ NonNames \subseteq Words
  /\ SystemSelectors \subseteq Selectors /\ Selectors \subseteq Words

VARIABLES
  tagName,
  reader,
  references,
  tag,        \* the parts of the tag
  log,
  pc          \* the function that runs; finally the kind of node returned

vars == <<tokens, tagName, reader, references, tag, log, pc>>
input == <<tokens, tagName>>

Outcomes == {"LinkTag", "InheritDocTag", "InlineTag"}

\* Spans [from, to) of tokens.  The tag name lies before the content.
TagName == <<0, 0>>
None == <<>>
\* The messages of TSDocMessageId that it logs
MessageId ==
  {"InheritDocTagSyntax", "LinkTagEmpty", "LinkTagUnescapedText",
   "LinkTagDestinationSyntax", "LinkTagInvalidUrl", "ReferenceMissingHash",
   "ReferenceHashSyntax", "ReferenceMalformedPackageName", "ReferenceMalformedImportPath",
   "MissingReference", "ReferenceMissingDot", "ReferenceSelectorMissingParens",
   "ReferenceMissingColon", "ReferenceMissingRightParen", "ReferenceSymbolSyntax",
   "ReferenceMissingRightBracket", "ReferenceMissingQuote", "ReferenceEmptyIdentifier",
   "ReferenceMissingIdentifier", "ReferenceUnquotedIdentifier", "ReferenceMissingLabel",
   "ReferenceSelectorSyntax"}
Message(id, span) == [id |-> id, span |-> span]

\* The text of a part, as tokens
Text(from, to) == SubSeq(tokens, from + 1, to)
\* What a tag holds: a url or a reference, if any, and a text; what is not there is empty
NoTag == [url |-> <<>>, code |-> <<>>, text |-> <<>>]
NoMember ==
  [hasDot |-> FALSE, symbol |-> <<>>, identifier |-> <<>>, hasQuotes |-> FALSE, selector |-> <<>>]

\* "context" is tokenSequenceForErrorContext: the tag name, or the bracket that opened
\* it.  "member" is the one that is being read.
NewReference(context) ==
  [context |-> context, packageName |-> <<>>, importPath |-> <<>>, memberReferences |-> <<>>,
   leftParenthesis |-> None, member |-> NoMember]
Reference(packageName, importPath, memberReferences) ==
  [packageName |-> packageName, importPath |-> importPath, memberReferences |-> memberReferences]
current == references[Len(references)]
Parsed == Reference(current.packageName, current.importPath, current.memberReferences)
hasImport == current.packageName # <<>> \/ current.importPath # <<>>
Enclosing == SubSeq(references, 1, Len(references) - 1)
UpdateCurrent(new) == Append(Enclosing, new)
UpdateMember(new) == UpdateCurrent([current EXCEPT !.member = new])

Init ==
  /\ tokens \in Contents
  /\ tagName \in {"link", "inheritDoc"}
  /\ reader = NewReader
  /\ references = <<>>
  /\ tag = NoTag
  /\ log = <<>>
  /\ pc = "Start"

-----------------------------------------------------------------------------
Here == reader.currentIndex
Next1(r) == TryReadSpacingAndNewlines(Extract(ReadTokens(r, 1)))

ContinueWith(parts, r, stack, next) ==
  /\ tag' = parts
  /\ reader' = r
  /\ references' = stack
  /\ pc' = next
  /\ UNCHANGED <<input, log>>
Continue(r, stack, next) == ContinueWith(tag, r, stack, next)

\* mutant: the messages of the brackets come from the outside in
FailOutsideIn(messages, stack) ==
  /\ log' = log \o messages
              \o [k \in 1 .. Len(stack) - 1 |->
                    Message("ReferenceSymbolSyntax", stack[k + 1].context)]
  /\ references' = <<>>
  /\ pc' = "InlineTag"
  /\ UNCHANGED <<input, reader, tag>>

\* Return an error tag: undefined propagates through _parseMemberSymbol(), which
\* logs a message at each bracket of the stack, from the inside out
FailWith(messages, stack) ==
  LET n == Len(stack) IN
  /\ log' = log \o messages
              \o [k \in 1 .. n - 1 |-> Message("ReferenceSymbolSyntax", stack[n + 1 - k].context)]
  /\ references' = <<>>
  /\ pc' = "InlineTag"
  /\ UNCHANGED <<input, reader, tag>>
Fail(id, span) == FailWith(<<Message(id, span)>>, references)

\* An exception of the parser, which nothing catches
Throw(messages) ==
  /\ log' = log \o messages
  /\ pc' = "Thrown"
  /\ UNCHANGED <<input, reader, references, tag>>

-----------------------------------------------------------------------------
\* _parseInheritDocTag() and _parseLinkTag()

TwoSlashesAt(i) == KindAt(i) = "Slash" /\ KindAt(i + 1) = "Slash"
LooksLikeUrl ==
  LET scheme == Skip(0, {"AsciiWord", "Period", "Hyphen", "Plus"})
  IN TwoSlashesAt(0) \/ (KindAt(scheme) = "Colon" /\ TwoSlashesAt(scheme + 1))

\* mutant: only {@inheritDoc} may be empty
EmptyInheritDoc ==
  /\ pc = "Start" /\ tokens = <<>> /\ tagName = "inheritDoc"
  /\ Continue(reader, references, "InheritDocTag")

EmptyContent ==
  /\ pc = "Start" /\ tokens = <<>>
  /\ IF tagName = "link" THEN Fail("LinkTagEmpty", TagName)
                         ELSE Continue(reader, references, "InheritDocTag")

StartReference ==
  /\ pc = "Start" /\ tokens # <<>>
  /\ ~(tagName = "link" /\ LooksLikeUrl)
  /\ Continue(reader, <<NewReference(TagName)>>, "DeclarationReference")

IsUrl(to) == TextAt(0) \in Schemes /\ KindAt(1) = "Colon" /\ TwoSlashesAt(2) /\ to > 4

UrlDestination ==
  LET end == SkipTo(0, {"Spacing", "Newline", "Pipe", "RightCurlyBracket"}) IN
  /\ pc = "Start" /\ tagName = "link" /\ LooksLikeUrl
  /\ IF end = 0 THEN Throw(<<>>)
     ELSE IF ~IsUrl(end) THEN Fail("LinkTagInvalidUrl", <<0, end>>)
     ELSE ContinueWith([tag EXCEPT !.url = Text(0, end)],
                       TryReadSpacingAndNewlines(Extract(ReadTo(reader, end))), <<>>,
                       "AfterDestination")

AfterDestination ==
  /\ pc = "AfterDestination"
  /\ IF Peek(reader) = "EndOfInput"
       THEN Continue(reader, <<>>, IF tagName = "link" THEN "LinkTag" ELSE "InheritDocTag")
     ELSE IF tagName = "inheritDoc" THEN Fail("InheritDocTagSyntax", <<Here, Here + 1>>)
     ELSE IF Peek(reader) = "Spacing" THEN Throw(<<>>)
     ELSE IF Peek(reader) = "Pipe" THEN Continue(Next1(reader), <<>>, "LinkText")
     ELSE Fail("LinkTagDestinationSyntax", <<Here, Here + 1>>)

\* The text is split from the spacing after it
LinkText ==
  LET end == SkipTo(Here, {"Pipe", "LeftCurlyBracket"})
      textEnd == CHOOSE j \in Here .. end :
                   /\ \A k \in j .. end - 1 : KindAt(k) \in {"Spacing", "Newline"}
                   /\ j > Here => KindAt(j - 1) \notin {"Spacing", "Newline"}
  IN /\ pc = "LinkText"
     /\ IF KindAt(end) = "EndOfInput"
          THEN ContinueWith([tag EXCEPT !.text = Text(Here, textEnd)],
                            TryExtract(ReadTo(TryExtract(ReadTo(reader, textEnd)), end)), <<>>,
                            "LinkTag")
          ELSE Fail("LinkTagUnescapedText", <<Here, end + 1>>)

-----------------------------------------------------------------------------
\* _parseDeclarationReference(): is there a "#" before anything that ends an import?

ImportKinds == {"AsciiWord", "Period", "Hyphen"}
ScanStops ==
  {"DoubleQuote", "LeftCurlyBracket", "LeftParenthesis", "LeftSquareBracket", "Newline", "Pipe",
   "RightCurlyBracket", "RightParenthesis", "RightSquareBracket", "SingleQuote", "Spacing"}
ScanEnd == SkipTo(Here, ScanStops \union {"PoundSymbol"})
HasHash == KindAt(ScanEnd) = "PoundSymbol"
SawImportCharacters ==
  \E i \in Here .. ScanEnd - 1 :
    /\ KindAt(i) \in {"Slash", "AtSign"}
    /\ \A j \in Here .. i - 1 : KindAt(j) \in ImportKinds \union {"Slash", "AtSign"}

ScanForHash ==
  /\ pc = "DeclarationReference"
  /\ IF ~HasHash /\ SawImportCharacters
       THEN Fail("ReferenceMissingHash", <<Here, ScanEnd>>)
       ELSE Continue(reader, references, IF HasHash THEN "Import" ELSE "Members")

IsPackageName(from, to) ==
  LET name == IF KindAt(from) = "AtSign" THEN SkipTo(from, {"Slash"}) + 1 ELSE from
      isName(i, j) == i < j /\ \A k \in i .. j - 1 : KindAt(k) \in ImportKinds
  IN isName(name, to) /\ (name > from => isName(from + 1, name - 1))

IsImportPath(from, to, hasPackage) ==
  /\ \A i \in from .. to - 2 : ~TwoSlashesAt(i)
  /\ KindAt(to - 1) # "Slash"
  /\ KindAt(from) = "Slash" => hasPackage

\* A package name ends at its first slash, a scoped one at its second
Import ==
  LET firstStop == SkipTo(Here, {"Slash", "PoundSymbol"})
      packageEnd ==
        CASE Peek(reader) = "Period" -> Here
          [] Peek(reader) = "AtSign" /\ KindAt(firstStop) = "Slash" ->
               SkipTo(firstStop + 1, {"Slash", "PoundSymbol"})
          [] OTHER -> firstStop
      hash == SkipTo(packageEnd, {"PoundSymbol"})
      named == TryExtract(ReadTo(reader, packageEnd))
      pathed == TryExtract(ReadTo(named, hash))
  IN /\ pc = "Import"
     /\ IF KindAt(hash) = "EndOfInput" THEN Throw(<<>>)
        ELSE IF packageEnd > Here /\ ~IsPackageName(Here, packageEnd)
          THEN Fail("ReferenceMalformedPackageName", <<Here, packageEnd>>)
        ELSE IF hash > packageEnd /\ ~IsImportPath(packageEnd, hash, packageEnd > Here)
          THEN Fail("ReferenceMalformedImportPath", <<packageEnd, hash>>)
        ELSE IF hash = Here THEN Fail("ReferenceHashSyntax", <<hash, hash + 1>>)
        ELSE Continue(Next1(pathed),
                      UpdateCurrent([current EXCEPT !.packageName = Text(Here, packageEnd),
                                                    !.importPath = Text(packageEnd, hash)]),
                      "Members")

MemberStart ==
  {"Period", "LeftParenthesis", "AsciiWord", "Colon", "LeftSquareBracket", "DoubleQuote"}

EndReference ==
  /\ pc = "Members" /\ Peek(reader) \notin MemberStart
  /\ IF ~hasImport /\ current.memberReferences = <<>>
       THEN Fail("MissingReference", current.context)
     ELSE IF Enclosing = <<>>
       THEN ContinueWith([tag EXCEPT !.code = <<Parsed>>], reader, <<>>, "AfterDestination")
     ELSE IF Peek(reader) # "RightSquareBracket"
       THEN FailWith(<<Message("ReferenceMissingRightBracket", current.context)>>, Enclosing)
     ELSE Continue(Next1(reader), [Enclosing EXCEPT ![Len(Enclosing)].member.symbol = <<Parsed>>],
                   "AfterMember")

-----------------------------------------------------------------------------
\* _parseMemberReference()

StartMember ==
  LET first == current.memberReferences = <<>>
      dotted == IF first THEN reader ELSE Next1(reader)
      begun == [current EXCEPT !.member.hasDot = ~first]
      paren == <<dotted.currentIndex, dotted.currentIndex + 1>>
  IN /\ pc = "Members" /\ Peek(reader) \in MemberStart
     /\ IF ~first /\ Peek(reader) # "Period"
          THEN Fail("ReferenceMissingDot", current.context)
        ELSE IF Peek(dotted) = "LeftParenthesis"
          THEN Continue(Next1(dotted), UpdateCurrent([begun EXCEPT !.leftParenthesis = paren]),
                        "Member")
        ELSE Continue(dotted, UpdateCurrent(begun), "Member")

\* _parseMemberSymbol(), up to the reference in the brackets
OpenSymbol ==
  /\ pc = "Member" /\ Peek(reader) = "LeftSquareBracket"
  /\ Continue(Next1(reader), Append(references, NewReference(<<Here, Here + 1>>)),
              "DeclarationReference")

\* _parseMemberIdentifier()
QuotedIdentifier ==
  LET open == Extract(ReadTokens(reader, 1))
      close == SkipTo(open.currentIndex, {"DoubleQuote"})
  IN /\ pc = "Member" /\ Peek(reader) = "DoubleQuote"
     /\ IF KindAt(close) = "EndOfInput" THEN Fail("ReferenceMissingQuote", <<Here, Here + 1>>)
        ELSE IF close = Here + 1 THEN Fail("ReferenceEmptyIdentifier", <<Here, Here + 1>>)
        ELSE Continue(Next1(Extract(ReadTo(open, close))),
                      UpdateMember([current.member EXCEPT !.identifier = Text(Here + 1, close),
                                                          !.hasQuotes = TRUE]), "AfterMember")

\* mutant: a system selector needs no quotes
IsAnyIdentifier(text) == text # <<>> /\ text[1] \notin NonNames
IsIdentifier(text) ==
  /\ text # <<>> /\ ToSet(text) \subseteq Words \union {"DollarSign"}
  /\ text[1] \notin NonNames
  /\ Len(text) = 1 => text[1] \notin SystemSelectors

Identifier ==
  LET end == Skip(Here, {"AsciiWord", "DollarSign"}) IN
  /\ pc = "Member" /\ Peek(reader) \notin {"LeftSquareBracket", "DoubleQuote"}
  /\ IF end = Here THEN Fail("ReferenceMissingIdentifier", current.context)
     ELSE IF ~IsIdentifier(Text(Here, end)) THEN Fail("ReferenceUnquotedIdentifier", <<Here, end>>)
     ELSE Continue(TryReadSpacingAndNewlines(Extract(ReadTo(reader, end))),
                   UpdateMember([current.member EXCEPT !.identifier = Text(Here, end)]),
                   "AfterMember")

MemberRead ==
  [current EXCEPT !.memberReferences = Append(@, current.member), !.member = NoMember,
                  !.leftParenthesis = None]

AfterMember ==
  /\ pc = "AfterMember"
  /\ IF Peek(reader) = "Colon"
       THEN IF current.leftParenthesis = None
              THEN Fail("ReferenceSelectorMissingParens", <<Here, Here + 1>>)
              ELSE Continue(Next1(reader), references, "Selector")
       ELSE IF current.leftParenthesis # None
              THEN Fail("ReferenceMissingColon", current.leftParenthesis)
              ELSE Continue(reader, UpdateCurrent(MemberRead), "Members")

\* _parseMemberSelector() logs a missing label, and goes on to read the label
Selector ==
  LET colon == CHOOSE i \in 0 .. Here - 1 :
                 KindAt(i) = "Colon" /\ Skip(i + 1, {"Spacing", "Newline"}) = Here
      missing == IF Peek(reader) = "AsciiWord" THEN <<>>
                   ELSE <<Message("ReferenceMissingLabel", <<colon, colon + 1>>)>>
      bad == <<Message("ReferenceSelectorSyntax", <<Here, Here + 1>>)>>
  IN /\ pc = "Selector"
     /\ IF Peek(reader) = "EndOfInput" THEN Throw(missing)
        ELSE IF TextAt(Here) \notin Selectors THEN FailWith(missing \o bad, references)
        ELSE Continue(Next1(reader),
                      UpdateMember([current.member EXCEPT !.selector = Text(Here, Here + 1)]),
                      "RightParenthesis")

RightParenthesis ==
  /\ pc = "RightParenthesis"
  /\ IF Peek(reader) # "RightParenthesis"
       THEN Fail("ReferenceMissingRightParen", current.leftParenthesis)
       ELSE Continue(Next1(reader), UpdateCurrent(MemberRead), "Members")

-----------------------------------------------------------------------------
ParseTag == EmptyContent \/ StartReference \/ UrlDestination \/ AfterDestination \/ LinkText
ParseReference == ScanForHash \/ Import \/ EndReference
ParseMember ==
  StartMember \/ OpenSymbol \/ QuotedIdentifier \/ Identifier \/ AfterMember \/ Selector
    \/ RightParenthesis

Next == ParseTag \/ ParseReference \/ ParseMember

\* The parse runs on one thread and is never abandoned half-way
Spec == Init /\ [][Next]_vars /\ WF_vars(Next)

-----------------------------------------------------------------------------
Span == {None} \union (Nat \X Nat)

TypeOK ==
  /\ reader \in Reader
  /\ \A k \in DOMAIN references :
       /\ references[k].context \in Nat \X Nat /\ references[k].leftParenthesis \in Span
       /\ \A m \in DOMAIN references[k].memberReferences :
            references[k].memberReferences[m].identifier \in Seq(Token)
  /\ tag.url \in Seq(Token) /\ tag.text \in Seq(Token) /\ Len(tag.code) <= 1
  /\ log \in Seq([id : MessageId, span : Nat \X Nat])
  /\ pc \in Outcomes \union {"Start", "AfterDestination", "LinkText", "DeclarationReference",
                             "Import", "Members", "Member", "AfterMember", "Selector",
                             "RightParenthesis", "Thrown"}

(***************************************************************************)
(* A tag that is accepted owns its whole content: the excerpts of its      *)
(* parts follow one another from the first token to the last, whatever     *)
(* scanning ahead, backtracking and nesting went before.                   *)
(***************************************************************************)
ExcerptsCoverTheContent ==
  /\ TypeOK
  /\ pc \in {"LinkTag", "InheritDocTag"} =>
       LET e == reader.excerpts IN
       /\ \A k \in 1 .. Len(e) :
             e[k][1] < e[k][2] /\ e[k][1] = IF k = 1 THEN 0 ELSE e[k - 1][2]
       /\ Len(tokens) = IF e = <<>> THEN 0 ELSE e[Len(e)][2]

(***************************************************************************)
(* The generic tag stands for an error, and an error is explained: one     *)
(* message for the cause (two if a label is missing and what is there is   *)
(* no label), then one for each enclosing symbol reference that fails      *)
(* with it, from the inside out.  An accepted tag logs nothing.            *)
(* The only assertion of the parser that the content of a tag can trip is  *)
(* the one in readToken(), after a message about a missing label ("If this *)
(* happens, it's a parser bug").                                           *)
(***************************************************************************)
ErrorsAreExplained ==
  /\ pc = "InlineTag" => log # <<>>
  /\ pc \notin {"InlineTag", "Thrown"} => log = <<>>
  /\ \A m \in 1 .. Len(log) :
       /\ log[m].id = "ReferenceSymbolSyntax" =>
            /\ m > 1
            /\ KindAt(log[m].span[1]) = "LeftSquareBracket"
            /\ log[m - 1].id = "ReferenceSymbolSyntax" => log[m].span[1] < log[m - 1].span[1]
       /\ log[m].id # "ReferenceSymbolSyntax" =>
            m = 1 \/ (m = 2 /\ log[1].id = "ReferenceMissingLabel")
  /\ pc = "Thrown" => /\ log # <<>> /\ log[Len(log)].id = "ReferenceMissingLabel"
                      /\ Peek(reader) = "EndOfInput"

\* The parse ends for every content.
Terminates == <>[](pc \in Outcomes \union {"Thrown"})
=============================================================================
