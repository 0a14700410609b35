----------------------------- MODULE NodeParser -----------------------------
(***************************************************************************)
(* NodeParser.parse(): the recursive-descent parser that turns the token   *)
(* stream of one comment into the nodes of a DocComment.                   *)
(*                                                                         *)
(* An action is the straight-line part of a parse function up to its next  *)
(* loop; a loop that only reads is summarised by where it stops (Skip).    *)
(* The nodes are kept in the order in which they are created, each with    *)
(* the tokens it owns and the block whose section holds it.  The content   *)
(* of "{@link}" and "{@inheritDoc}" is parsed again by a second reader:    *)
(* here that parse succeeds or fails nondeterministically, and may throw   *)
(* where LinkTag, the model of it, says that it can.                       *)
(***************************************************************************)
EXTENDS TokenReader

CONSTANTS
  Inputs,           \* the token streams to parse
  Configurations,   \* the TSDocConfigurations to parse them with
  NonNames          \* the words that begin with a digit

\* The part of a TSDocConfiguration that the parser consults
ConfigurationType ==
  [tagDefinitions : UNION {[D -> {"BlockTag", "ModifierTag", "InlineTag"}] : D \in SUBSET Words},
   ignoreUndefinedTags : BOOLEAN,
   reportUnsupportedTags : BOOLEAN,
   supportedTags : SUBSET Words,
   reportUnsupportedHtmlElements : BOOLEAN,
   supportedHtmlElements : SUBSET Words]

ASSUME InputsAssumption == \A s \in Inputs : s \in Seq(Token) /\ IsTokenStream(s)
ASSUME ConfigurationsAssumption == Configurations \subseteq ConfigurationType
ASSUME NonNamesAssumption == NonNames \subseteq Words

VARIABLES
  configuration,
  reader,
  nodes,            \* what has been created, in order
  log,
  docComment,
  currentSection,   \* the block node whose section is being filled; 0: the summary
  rest,             \* the locals of _tryParseJSDocTypeOrValueRest
  pc

vars == <<tokens, configuration, reader, nodes, log, docComment, currentSection, rest, pc>>
input == <<tokens, configuration>>
tree == <<docComment, currentSection>>

NodeKind ==
  {"PlainText", "SoftBreak", "EscapedText", "ErrorText", "CodeSpan", "FencedCode",
   "HtmlStartTag", "HtmlEndTag", "InlineTag", "LinkTag", "InheritDocTag",
   "BlockTag", "ModifierTag", "Block", "ParamBlock"}

ParamTags == {"param", "typeParam"}
SingleBlocks == {"remarks", "privateRemarks", "deprecated", "returns"}
TypePoints == {"TypeBeforeName", "TypeAfterName", "TypeAfterHyphen"}
NameKinds == {"AsciiWord", "Period", "DollarSign"}

NoRest == [openCount |-> 0, quoteKind |-> "none", startMarker |-> 0, resume |-> "none"]

Init ==
  /\ tokens \in Inputs
  /\ configuration \in Configurations
  /\ reader = NewReader
  /\ nodes = <<>>
  /\ log = <<>>
  /\ docComment = [singles |-> [w \in SingleBlocks |-> 0], blocks |-> <<>>,
                   modifierTags |-> <<>>, inheritDocTag |-> 0]
  /\ currentSection = 0
  /\ rest = NoRest
  /\ pc = "Main"

-----------------------------------------------------------------------------
\* The messages of TSDocMessageId that it logs; EmbeddedSyntax stands for those of LinkTag
MessageId ==
  {"ExtraInheritDocTag", "EscapeRightBrace", "EscapeGreaterThan",
   "MissingDeprecationMessage", "InheritDocIncompatibleTag",
   "InheritDocIncompatibleSummary", "InlineTagMissingBraces", "TagShouldNotHaveBraces",
   "UnsupportedTag", "UndefinedTag", "ParamTagWithInvalidType",
   "ParamTagWithInvalidOptionalName", "ParamTagWithInvalidName", "ParamTagMissingHyphen",
   "UnnecessaryBackslash", "AtSignInWord", "AtSignWithoutTagName", "MalformedInlineTag",
   "CharactersAfterBlockTag", "MalformedTagName", "CharactersAfterInlineTag",
   "InlineTagMissingRightBrace", "InlineTagUnescapedBrace", "HtmlTagMissingGreaterThan",
   "HtmlTagMissingEquals", "HtmlTagMissingString", "HtmlStringMissingQuote",
   "TextAfterHtmlString", "MalformedHtmlName", "UnsupportedHtmlElementName",
   "CodeFenceOpeningIndent", "CodeFenceSpecifierSyntax", "CodeFenceClosingIndent",
   "CodeFenceMissingDelimiter", "CodeFenceClosingSyntax", "CodeSpanEmpty",
   "CodeSpanMissingDelimiter", "EmbeddedSyntax"}

\* The tokens [from, to) that a message is about
Message(id, from, to) == [id |-> id, from |-> from, to |-> to]

\* The first token of the construct being parsed
Marker(r) == IF r.excerpts = <<>> THEN r.accumulatedStartIndex ELSE r.excerpts[1][1]

\* A node that owns everything extracted since its construct began
NewNode(kind, r, text) ==
  [kind |-> kind, from |-> Marker(r), to |-> r.accumulatedStartIndex,
   section |-> currentSection, text |-> text]

\* PlainTextEmitter._countNonSpaceCharacters() of these tokens is not zero
Visible(from, to) == \E i \in from .. to - 1 : KindAt(i) \notin {"Spacing", "Newline"}

\* mutant: the plain text before a construct is dropped
NothingPushed == nodes
\* _pushAccumulatedPlainText(): what it leaves in nodes and in the reader
Pushed ==
  IF IsEmpty(reader) THEN nodes
    ELSE Append(nodes, NewNode("PlainText", Extract(reader),
                               Visible(reader.accumulatedStartIndex, reader.currentIndex)))
Start == [reader EXCEPT !.accumulatedStartIndex = reader.currentIndex]

\* _pushNode() of a complete construct, after the nodes "before"
Place(before, kind, r, text) ==
  /\ nodes' = Append(before, NewNode(kind, r, text))
  /\ reader' = [r EXCEPT !.excerpts = <<>>]
  /\ pc' = "Main"

\* _backtrackAndCreateErrorRange[ForFailure](): rewind to the start of the
\* construct and make its first "count" tokens an ErrorText
Fail(before, r, count, failure) ==
  /\ Place(before, "ErrorText",
           Extract(ReadTokens(Backtrack(r, Marker(r), 0), count)), FALSE)
  /\ log' = Append(log, failure)

\* mutant: an error always takes one token
FailAtFirst(before, r, count, id) ==
  Fail(before, r, 1, Message(id, Marker(r), Marker(r) + count))
\* ... when the error is located at the ErrorText itself
FailHere(before, r, count, id) ==
  Fail(before, r, count, Message(id, Marker(r), Marker(r) + count))

\* _createFailureForToken, _createFailureForTokensSince
FailureAt(id, i) == <<Message(id, i, i + 1)>>
FailureSince(id, from, to) == <<Message(id, from, IF to = from THEN from + 1 ELSE to)>>
NoFailure == <<>>

IsValidTagName(i) == TextAt(i) \notin NonNames

\* _validateTagDefinition(): the messages it logs
TagMessages(tag, expectingInlineTag, from, to) ==
  LET c == configuration
      report(id) == <<Message(id, from, to)>>
  IN IF tag \in DOMAIN c.tagDefinitions
       THEN IF (c.tagDefinitions[tag] = "InlineTag") # expectingInlineTag
              THEN report(IF expectingInlineTag THEN "TagShouldNotHaveBraces"
                                                ELSE "InlineTagMissingBraces")
              ELSE IF c.reportUnsupportedTags /\ tag \notin c.supportedTags
                     THEN report("UnsupportedTag") ELSE <<>>
       ELSE IF c.ignoreUndefinedTags THEN <<>> ELSE report("UndefinedTag")

-----------------------------------------------------------------------------
\* The main loop: tokens that are a construct of their own

ReadPlainText ==
  /\ pc = "Main"
  /\ Peek(reader) \notin {"EndOfInput", "Newline", "Backslash", "AtSign", "LeftCurlyBracket",
                          "RightCurlyBracket", "LessThan", "GreaterThan", "Backtick"}
  /\ reader' = ReadTokens(reader, 1)
  /\ UNCHANGED <<input, nodes, log, tree, rest, pc>>

SoftBreak ==
  /\ pc = "Main" /\ Peek(reader) = "Newline"
  /\ Place(Pushed, "SoftBreak", Extract(ReadTokens(Start, 1)), FALSE)
  /\ UNCHANGED <<input, log, tree, rest>>

UnescapedDelimiter ==
  /\ pc = "Main" /\ Peek(reader) \in {"RightCurlyBracket", "GreaterThan"}
  /\ FailHere(Pushed, Start, 1, IF Peek(reader) = "GreaterThan" THEN "EscapeGreaterThan"
                                                                ELSE "EscapeRightBrace")
  /\ UNCHANGED <<input, tree, rest>>

BackslashEscape ==
  /\ pc = "Main" /\ Peek(reader) = "Backslash"
  /\ IF PeekAfter(reader) \in PunctuationKinds
       THEN /\ Place(Pushed, "EscapedText", Extract(ReadTokens(Start, 2)), TRUE)
            /\ UNCHANGED log
       ELSE FailHere(Pushed, Start, 1, "UnnecessaryBackslash")
  /\ UNCHANGED <<input, tree, rest>>

\* mutant: a code span may go on in the next line
NextBacktick(i) == SkipTo(i, {"Backtick"})
CodeEnd(i) == SkipTo(i, {"Backtick", "Newline"})

CodeSpan ==
  LET open == Extract(ReadTokens(Start, 1))
      close == CodeEnd(open.currentIndex)
  IN /\ pc = "Main" /\ Peek(reader) = "Backtick"
     /\ ~(PeekAfter(reader) = "Backtick" /\ PeekAfterAfter(reader) = "Backtick")
     /\ CASE KindAt(close) # "Backtick" ->
               FailHere(Pushed, open, 1, "CodeSpanMissingDelimiter")
          [] KindAt(close) = "Backtick" /\ close = open.currentIndex ->
               FailHere(Pushed, open, 2, "CodeSpanEmpty")
          [] OTHER ->
               /\ Place(Pushed, "CodeSpan",
                        Extract(ReadTokens(Extract(ReadTo(open, close)), 1)),
                        Visible(open.currentIndex, close))
               /\ UNCHANGED log
     /\ UNCHANGED <<input, tree, rest>>

\* _performValidationChecks(), on the complete list of nodes
SectionHasText(all, section) ==
  \E k \in 1 .. Len(all) : all[k].section = section /\ all[k].text

ValidationMessages(all) ==
  LET deprecated == docComment.singles["deprecated"]
      remarks == docComment.singles["remarks"]
      at(id, k) == <<Message(id, all[k].from, all[k].to)>>
  IN (IF deprecated # 0 /\ ~SectionHasText(all, deprecated)
        THEN at("MissingDeprecationMessage", deprecated) ELSE <<>>)
     \o (IF docComment.inheritDocTag # 0 /\ remarks # 0
           THEN at("InheritDocIncompatibleTag", remarks) ELSE <<>>)
     \o (IF docComment.inheritDocTag # 0 /\ SectionHasText(all, 0)
           THEN <<Message("InheritDocIncompatibleSummary", 0, Len(tokens))>> ELSE <<>>)

Finish ==
  /\ pc = "Main" /\ Peek(reader) = "EndOfInput"
  /\ nodes' = Pushed
  /\ reader' = Start
  /\ log' = log \o ValidationMessages(Pushed)
  /\ pc' = "Done"
  /\ UNCHANGED <<input, tree, rest>>

-----------------------------------------------------------------------------
\* Block tags

AfterTagName == Skip(reader.currentIndex + 1, {"AsciiWord"})

BlockTagFailure ==
  LET name == reader.currentIndex + 1
      here(id) == FailureAt(id, reader.currentIndex)
  IN IF PeekPrevious(reader) \notin {"EndOfInput", "Spacing", "Newline"} THEN here("AtSignInWord")
     ELSE IF KindAt(name) # "AsciiWord" THEN here("AtSignWithoutTagName")
     ELSE IF KindAt(AfterTagName) \notin {"Spacing", "Newline", "EndOfInput"}
       THEN here("CharactersAfterBlockTag")
     ELSE IF ~IsValidTagName(name) THEN FailureSince("MalformedTagName", name, AfterTagName)
     ELSE NoFailure

RejectBlockTag ==
  /\ pc = "Main" /\ Peek(reader) = "AtSign"
  /\ BlockTagFailure # NoFailure
  /\ Fail(Pushed, Start, 1, BlockTagFailure[1])
  /\ UNCHANGED <<input, tree, rest>>

\* _parseBlockTag() succeeds, and the tag is logged as _validateTagDefinition() says
BlockTagIs(tag, syntaxKind) ==
  /\ pc = "Main" /\ Peek(reader) = "AtSign"
  /\ BlockTagFailure = NoFailure
  /\ tag = TextAt(reader.currentIndex + 1)
  /\ syntaxKind = IF tag \in DOMAIN configuration.tagDefinitions
                    THEN configuration.tagDefinitions[tag] ELSE "undefined"
  /\ log' = log \o TagMessages(tag, FALSE, reader.currentIndex, AfterTagName)

TagExtracted == Extract(ReadTo(Start, AfterTagName))
NextNode == Len(Pushed) + 1

ParamTag ==
  \E tag \in ParamTags :
    /\ BlockTagIs(tag, "BlockTag")
    /\ nodes' = Pushed
    /\ reader' = TagExtracted
    /\ pc' = "TypeBeforeName"
    /\ UNCHANGED <<input, tree, rest>>

\* _addBlockToDocComment(): a block that can only be kept once replaces the earlier one
BlockTag ==
  \E tag \in Words \ ParamTags :
    /\ BlockTagIs(tag, "BlockTag")
    /\ Place(Pushed, "Block", TagExtracted, FALSE)
    /\ docComment' = IF tag \in SingleBlocks
                       THEN [docComment EXCEPT !.singles[tag] = NextNode]
                       ELSE [docComment EXCEPT !.blocks = Append(@, NextNode)]
    /\ currentSection' = NextNode
    /\ UNCHANGED <<input, rest>>

\* ModifierTagSet.addTag() ignores a tag that the set has already
ModifierTag ==
  \E tag \in Words :
    /\ BlockTagIs(tag, "ModifierTag")
    /\ Place(Pushed, "ModifierTag", TagExtracted, FALSE)
    /\ docComment' =
         IF \E k \in 1 .. Len(docComment.modifierTags) :
               TextAt(nodes[docComment.modifierTags[k]].from + 1) = tag
           THEN docComment
           ELSE [docComment EXCEPT !.modifierTags = Append(@, NextNode)]
    /\ UNCHANGED <<input, currentSection, rest>>

\* An undefined tag, or an inline tag without braces, is content
UnrecognizedBlockTag ==
  \E tag \in Words :
    /\ BlockTagIs(tag, "undefined") \/ BlockTagIs(tag, "InlineTag")
    /\ Place(Pushed, "BlockTag", TagExtracted, FALSE)
    /\ UNCHANGED <<input, tree, rest>>

-----------------------------------------------------------------------------
\* _parseParamBlock(), entered with the tag as the only excerpt

TagEnd == reader.excerpts[1][2]
AtTag(id) == Message(id, Marker(reader), TagEnd)

\* What follows each point where a JSDoc type or value may have to be skipped
AfterRest(point) ==
  CASE point = "TypeBeforeName" -> "Name"
    [] point = "OptionalNameRest" -> "TypeAfterName"
    [] point = "TypeAfterName" -> "Hyphen"
    [] point = "TypeAfterHyphen" -> "EndOfParam"

\* mutant: the section of the param block does not become the current one
PlaceParamBlockOnly(r) ==
  /\ Place(nodes, "ParamBlock", r, FALSE)
  /\ docComment' = [docComment EXCEPT !.blocks = Append(@, Len(nodes) + 1)]
  /\ UNCHANGED currentSection
\* The param block is complete and its section becomes the current one
PlaceParamBlock(r) ==
  /\ Place(nodes, "ParamBlock", r, FALSE)
  /\ docComment' = [docComment EXCEPT !.blocks = Append(@, Len(nodes) + 1)]
  /\ currentSection' = Len(nodes) + 1

TryParseUnsupportedJSDocType ==
  LET r == TryReadSpacingAndNewlines(reader) IN
  /\ pc \in TypePoints
  /\ IF Peek(r) = "LeftCurlyBracket" /\ PeekAfter(r) # "AtSign"
       THEN /\ reader' = ReadTokens(r, 1)
            /\ rest' = [openCount |-> 1, quoteKind |-> "none",
                        startMarker |-> r.currentIndex, resume |-> pc]
            /\ pc' = "JSDocRest"
       ELSE /\ reader' = r
            /\ pc' = AfterRest(pc)
            /\ UNCHANGED rest
  /\ UNCHANGED <<input, nodes, log, tree>>

ParamName ==
  LET bracket == Peek(reader) = "LeftSquareBracket"
      r == IF bracket THEN Extract(ReadTokens(reader, 1)) ELSE reader
      end == Skip(r.currentIndex, NameKinds)
      isValid == /\ end > r.currentIndex
                 /\ TextAt(r.currentIndex) \notin NonNames
                 /\ \A i \in r.currentIndex .. end - 1 : KindAt(i) # "Period"
  IN /\ pc = "Name"
     /\ IF ~isValid
          THEN /\ PlaceParamBlock(Backtrack(r, TagEnd, 1))
               /\ log' = Append(log, AtTag("ParamTagWithInvalidName"))
               /\ UNCHANGED rest
          ELSE /\ reader' = Extract(ReadTo(r, end))
               /\ IF bracket
                    THEN /\ rest' = [openCount |-> 1, quoteKind |-> "none",
                                     startMarker |-> end, resume |-> "OptionalNameRest"]
                         /\ pc' = "JSDocRest"
                    ELSE /\ pc' = "TypeAfterName"
                         /\ UNCHANGED rest
               /\ UNCHANGED <<nodes, log, tree>>
     /\ UNCHANGED input

\* One token of _tryParseJSDocTypeOrValueRest(); a backslash in a string takes the next along
RestOpen == IF rest.resume = "OptionalNameRest" THEN "LeftSquareBracket" ELSE "LeftCurlyBracket"
RestClose == IF rest.resume = "OptionalNameRest" THEN "RightSquareBracket" ELSE "RightCurlyBracket"
InString == rest.quoteKind # "none"
RestToken == reader.currentIndex + (IF InString /\ Peek(reader) = "Backslash" THEN 1 ELSE 0)

OpenCountAfter ==
  IF InString THEN rest.openCount
    ELSE rest.openCount + (CASE Peek(reader) = RestOpen -> 1
                             [] Peek(reader) = RestClose -> -1
                             [] OTHER -> 0)

QuoteKindAfter ==
  IF Peek(reader) \notin {"DoubleQuote", "SingleQuote", "Backtick"} THEN rest.quoteKind
  ELSE IF rest.quoteKind = Peek(reader) THEN "none"
  ELSE IF rest.quoteKind = "none" THEN Peek(reader)
  ELSE rest.quoteKind

ReadJSDocRest ==
  /\ pc = "JSDocRest"
  /\ KindAt(RestToken) # "EndOfInput" /\ OpenCountAfter > 0
  /\ reader' = ReadTo(reader, RestToken + 1)
  /\ rest' = [rest EXCEPT !.openCount = OpenCountAfter, !.quoteKind = QuoteKindAfter]
  /\ UNCHANGED <<input, nodes, log, tree, pc>>

\* The spacing after a type is merged into the excerpt of the type
CloseJSDocRest ==
  LET r == Extract(ReadTo(reader, RestToken + 1))
      optional == rest.resume = "OptionalNameRest"
  IN /\ pc = "JSDocRest"
     /\ KindAt(RestToken) # "EndOfInput" /\ OpenCountAfter = 0
     /\ log' = Append(log, IF optional
                 THEN Message("ParamTagWithInvalidOptionalName",
                              r.excerpts[Len(r.excerpts) - 2][1], r.currentIndex)
                 ELSE Message("ParamTagWithInvalidType", rest.startMarker, r.currentIndex))
     /\ reader' = IF optional THEN r ELSE TryReadSpacingAndNewlines(r)
     /\ pc' = AfterRest(rest.resume)
     /\ rest' = NoRest
     /\ UNCHANGED <<input, nodes, tree>>

GiveUpJSDocRest ==
  LET bracket == reader.excerpts[Len(reader.excerpts) - 1] IN
  /\ pc = "JSDocRest"
  /\ KindAt(RestToken) = "EndOfInput"
  /\ reader' = Backtrack(reader, rest.startMarker, Len(reader.excerpts))
  /\ log' = IF rest.resume = "OptionalNameRest"
              THEN Append(log, Message("ParamTagWithInvalidOptionalName", bracket[1], bracket[2]))
              ELSE log
  /\ pc' = AfterRest(rest.resume)
  /\ rest' = NoRest
  /\ UNCHANGED <<input, nodes, tree>>

Hyphen ==
  /\ pc = "Hyphen"
  /\ IF Peek(reader) = "Hyphen"
       THEN /\ reader' = Extract(ReadTokens(reader, 1))
            /\ pc' = "TypeAfterHyphen"
            /\ UNCHANGED <<nodes, log, tree>>
       ELSE /\ PlaceParamBlock(reader)
            /\ log' = Append(log, AtTag("ParamTagMissingHyphen"))
  /\ UNCHANGED <<input, rest>>

EndOfParam ==
  /\ pc = "EndOfParam"
  /\ PlaceParamBlock(reader)
  /\ UNCHANGED <<input, log, rest>>

-----------------------------------------------------------------------------
\* _parseInlineTag(): an error takes "{" and "@", so that "@" is not read as a block tag

OpenInlineTag ==
  LET open == Extract(ReadTokens(Start, 1))
      at == open.currentIndex
      end == Skip(at + 1, {"AsciiWord"})
      named == Extract(ReadTo(open, end))
      r == TryReadSpacingAndNewlines(named)
      failure == IF end = at + 1 THEN FailureSince("MalformedInlineTag", at, end)
                 ELSE IF ~IsValidTagName(at + 1) THEN FailureSince("MalformedTagName", at, end)
                 ELSE IF r = named /\ Peek(r) # "RightCurlyBracket"
                   THEN FailureAt("CharactersAfterInlineTag", end)
                 ELSE NoFailure
  IN /\ pc = "Main" /\ Peek(reader) = "LeftCurlyBracket"
     /\ CASE KindAt(at) # "AtSign" -> FailHere(Pushed, open, 1, "MalformedInlineTag")
          [] KindAt(at) = "AtSign" /\ failure # NoFailure -> Fail(Pushed, open, 2, failure[1])
          [] OTHER -> /\ nodes' = Pushed
                      /\ reader' = r
                      /\ pc' = "InlineTag"
                      /\ UNCHANGED log
     /\ UNCHANGED <<input, tree, rest>>

ReadInlineTag ==
  /\ pc = "InlineTag"
  /\ \/ /\ Peek(reader) \notin {"EndOfInput", "Backslash", "LeftCurlyBracket", "RightCurlyBracket"}
        /\ reader' = ReadTokens(reader, 1)
     \/ /\ Peek(reader) = "Backslash" /\ PeekAfter(reader) \in PunctuationKinds
        /\ reader' = ReadTokens(reader, 2)
  /\ UNCHANGED <<input, nodes, log, tree, rest, pc>>

RejectInlineTag ==
  /\ pc = "InlineTag"
  /\ \/ /\ Peek(reader) = "EndOfInput"
        /\ FailHere(nodes, reader, 2, "InlineTagMissingRightBrace")
     \/ /\ Peek(reader) = "Backslash" /\ PeekAfter(reader) \notin PunctuationKinds
        /\ Fail(nodes, reader, 2, FailureAt("UnnecessaryBackslash", reader.currentIndex + 1)[1])
     \/ /\ Peek(reader) = "LeftCurlyBracket"
        /\ Fail(nodes, reader, 2, FailureAt("InlineTagUnescapedBrace", reader.currentIndex)[1])
  /\ UNCHANGED <<input, tree, rest>>

\* What _parseInheritDocTag() and _parseLinkTag() can make of the content: the tag
\* they are for, or a generic InlineTag when they log an error
EmbeddedResults(tag, hasContent) ==
  CASE tag = "inheritDoc" -> {"InheritDocTag"} \union (IF hasContent THEN {"InlineTag"} ELSE {})
    [] tag = "link" -> {"InlineTag"} \union (IF hasContent THEN {"LinkTag"} ELSE {})
    [] OTHER -> {"InlineTag"}

CloseInlineTag ==
  LET content == TryExtract(reader)
      r == Extract(ReadTokens(content, 1))
      name == Marker(reader) + 2
      tag == TextAt(name)
      messages(kind) ==
        (IF kind = "InlineTag" /\ tag \in {"inheritDoc", "link"}
           THEN FailureAt("EmbeddedSyntax", name) ELSE <<>>)
        \o TagMessages(tag, TRUE, name - 1, r.excerpts[2][2])
  IN /\ pc = "InlineTag" /\ Peek(reader) = "RightCurlyBracket"
     /\ \E kind \in EmbeddedResults(tag, content # reader) :
          IF kind = "InheritDocTag" /\ docComment.inheritDocTag # 0
            THEN \* the tag is read again, up to its "}", as an error
                 /\ Place(nodes, "ErrorText",
                          Extract(ReadTo(Backtrack(r, Marker(r), 0), r.currentIndex)), FALSE)
                 /\ log' = log \o messages(kind)
                               \o <<Message("ExtraInheritDocTag", Marker(r), r.currentIndex)>>
                 /\ UNCHANGED docComment
            ELSE /\ \E linkText \in {FALSE} \union (IF kind = "LinkTag" THEN {TRUE} ELSE {}) :
                      Place(nodes, kind, r, linkText)
                 /\ log' = log \o messages(kind)
                 /\ docComment' = IF kind = "InheritDocTag"
                      THEN [docComment EXCEPT !.inheritDocTag = Len(nodes) + 1] ELSE docComment
     /\ UNCHANGED <<input, currentSection, rest>>

\* ... or the second reader throws, and nothing in parse() catches it: the label of a
\* selector is missing at the end of the content
ThrowInInlineTag ==
  LET name == Marker(reader) + 2 IN
  /\ pc = "InlineTag" /\ Peek(reader) = "RightCurlyBracket"
  /\ TextAt(name) \in {"inheritDoc", "link"}
  /\ LacksALabel(reader.accumulatedStartIndex, reader.currentIndex)
  /\ reader' = Extract(ReadTokens(TryExtract(reader), 1))
  /\ log' = log \o FailureAt("EmbeddedSyntax", name)
  /\ pc' = "Thrown"
  /\ UNCHANGED <<input, nodes, tree, rest>>

-----------------------------------------------------------------------------
\* HTML

\* _parseHtmlName(): the reader after the name, and the failure if there is one
HtmlName(r) ==
  LET named == TryExtract(ReadWhile(r, {"Hyphen", "Period", "AsciiWord"}))
      from == r.currentIndex
      to == named.currentIndex
      isValid == /\ KindAt(from) = "AsciiWord" /\ TextAt(from) \notin NonNames
                 /\ \A i \in from .. to - 1 : KindAt(i) # "Period"
      isSupported == to = from + 1 /\ TextAt(from) \in configuration.supportedHtmlElements
  IN [reader |-> named,
      failure |-> IF to = from THEN FailureAt("MalformedHtmlName", from)
                  ELSE IF ~isValid THEN FailureSince("MalformedHtmlName", from, to)
                  ELSE IF configuration.reportUnsupportedHtmlElements /\ ~isSupported
                    THEN FailureAt("UnsupportedHtmlElementName", from)
                  ELSE NoFailure]

\* _parseHtmlString(): a quoted string on one line, read up to its closing quote
HtmlString(r) == ReadTo(r, SkipTo(r.currentIndex + 1, {Peek(r), "Newline"}) + 1)
HtmlStringFailure(r) ==
  IF Peek(r) \notin {"DoubleQuote", "SingleQuote"}
    THEN FailureAt("HtmlTagMissingString", r.currentIndex)
  ELSE IF KindAt(HtmlString(r).currentIndex - 1) # Peek(r)
    THEN FailureAt("HtmlStringMissingQuote", r.currentIndex)
  ELSE IF Peek(HtmlString(r)) = "AsciiWord"
    THEN FailureAt("TextAfterHtmlString", HtmlString(r).currentIndex)
  ELSE NoFailure

OpenHtmlStartTag ==
  LET name == HtmlName(Extract(ReadTokens(Start, 1))) IN
  /\ pc = "Main" /\ Peek(reader) = "LessThan" /\ PeekAfter(reader) # "Slash"
  /\ IF name.failure # NoFailure
       THEN Fail(Pushed, name.reader, 1, name.failure[1])
       ELSE /\ nodes' = Pushed
            /\ reader' = TryReadSpacingAndNewlines(name.reader)
            /\ pc' = "HtmlAttributes"
            /\ UNCHANGED log
  /\ UNCHANGED <<input, tree, rest>>

\* _parseHtmlAttribute(), in three parts: the name, the equals sign, the value
HtmlAttributeName ==
  LET name == HtmlName(reader) IN
  /\ pc = "HtmlAttributes" /\ Peek(reader) = "AsciiWord"
  /\ IF name.failure # NoFailure
       THEN Fail(nodes, reader, 1, name.failure[1])
       ELSE /\ reader' = TryReadSpacingAndNewlines(name.reader)
            /\ pc' = "HtmlEquals"
            /\ UNCHANGED <<nodes, log>>
  /\ UNCHANGED <<input, tree, rest>>

HtmlEquals ==
  /\ pc = "HtmlEquals"
  /\ IF Peek(reader) # "Equals"
       THEN Fail(nodes, reader, 1, FailureAt("HtmlTagMissingEquals", reader.currentIndex)[1])
       ELSE /\ reader' = TryReadSpacingAndNewlines(Extract(ReadTokens(reader, 1)))
            /\ pc' = "HtmlValue"
            /\ UNCHANGED <<nodes, log>>
  /\ UNCHANGED <<input, tree, rest>>

HtmlValue ==
  /\ pc = "HtmlValue"
  /\ IF HtmlStringFailure(reader) # NoFailure
       THEN Fail(nodes, reader, 1, HtmlStringFailure(reader)[1])
       ELSE /\ reader' = TryReadSpacingAndNewlines(Extract(HtmlString(reader)))
            /\ pc' = "HtmlAttributes"
            /\ UNCHANGED <<nodes, log>>
  /\ UNCHANGED <<input, tree, rest>>

CloseHtmlStartTag ==
  LET slashed == IF Peek(reader) = "Slash" THEN ReadTokens(reader, 1) ELSE reader IN
  /\ pc = "HtmlAttributes" /\ Peek(reader) # "AsciiWord"
  /\ IF Peek(slashed) = "GreaterThan"
       THEN /\ Place(nodes, "HtmlStartTag", Extract(ReadTokens(slashed, 1)), FALSE)
            /\ UNCHANGED log
       ELSE Fail(nodes, reader, 1,
                 FailureSince("HtmlTagMissingGreaterThan", reader.currentIndex,
                              slashed.currentIndex)[1])
  /\ UNCHANGED <<input, tree, rest>>

HtmlEndTag ==
  LET name == HtmlName(Extract(ReadTokens(Start, 2)))
      r == TryReadSpacingAndNewlines(name.reader)
      failure == IF name.failure # NoFailure THEN name.failure
                 ELSE IF Peek(r) # "GreaterThan"
                   THEN FailureAt("HtmlTagMissingGreaterThan", r.currentIndex)
                 ELSE NoFailure
  IN /\ pc = "Main" /\ Peek(reader) = "LessThan" /\ PeekAfter(reader) = "Slash"
     /\ IF failure # NoFailure
          THEN Fail(Pushed, Start, 1, failure[1])
          ELSE /\ Place(Pushed, "HtmlEndTag", Extract(ReadTokens(r, 1)), FALSE)
               /\ UNCHANGED log
     /\ UNCHANGED <<input, tree, rest>>

-----------------------------------------------------------------------------
\* _parseFencedCode(): an error takes the three backticks

OpenFence ==
  LET open == Extract(ReadTokens(Start, 3))
      spaced == TryExtract(ReadWhile(open, {"Spacing"}))
      end == SkipTo(spaced.currentIndex, {"Newline", "Backtick"})
  IN /\ pc = "Main" /\ Peek(reader) = "Backtick"
     /\ PeekAfter(reader) = "Backtick" /\ PeekAfterAfter(reader) = "Backtick"
     /\ CASE PeekPrevious(reader) \notin {"Newline", "EndOfInput"} ->
               FailHere(Pushed, Start, 3, "CodeFenceOpeningIndent")
          [] PeekPrevious(reader) \in {"Newline", "EndOfInput"} /\ KindAt(end) # "Newline" ->
               Fail(Pushed, open, 3,
                    FailureAt(IF KindAt(end) = "Backtick" THEN "CodeFenceSpecifierSyntax"
                                                          ELSE "CodeFenceMissingDelimiter", end)[1])
          [] OTHER ->
               \* the language and the padding after it are one run of tokens
               /\ reader' = Extract(ReadTo(spaced, end + 1))
               /\ nodes' = Pushed
               /\ pc' = "FencedCode"
               /\ UNCHANGED log
     /\ UNCHANGED <<input, tree, rest>>

\* The code goes on up to a newline; the next line may be the closing fence
LineEnd == SkipTo(reader.currentIndex, {"Newline"})
FenceStart == Skip(LineEnd + 1, {"Spacing"})
Ticks == CHOOSE n \in 0 .. 3 :
           /\ \A i \in 0 .. n - 1 : KindAt(FenceStart + i) = "Backtick"
           /\ n < 3 => KindAt(FenceStart + n) # "Backtick"

ReadCode ==
  /\ pc = "FencedCode"
  /\ KindAt(LineEnd) = "Newline" /\ Ticks < 3
  /\ reader' = ReadTo(reader, FenceStart + Ticks)
  /\ UNCHANGED <<input, nodes, log, tree, rest, pc>>

\* mutant: only an empty last line can be the end
UnclosedFenceAtLineStart ==
  /\ pc = "FencedCode"
  /\ KindAt(reader.currentIndex) = "EndOfInput" /\ LineEnd > reader.accumulatedStartIndex
  /\ Fail(nodes, reader, 3, FailureAt("CodeFenceMissingDelimiter", LineEnd)[1])
  /\ UNCHANGED <<input, tree, rest>>

UnclosedFence ==
  /\ pc = "FencedCode"
  /\ KindAt(LineEnd) = "EndOfInput"
  /\ Fail(nodes, reader, 3, FailureAt("CodeFenceMissingDelimiter", LineEnd)[1])
  /\ UNCHANGED <<input, tree, rest>>

CloseFence ==
  LET code == Extract(ReadTo(reader, FenceStart + 3))
      after == Skip(code.currentIndex, {"Spacing"})
      end == IF KindAt(after) = "Newline" THEN after + 1 ELSE after
  IN /\ pc = "FencedCode"
     /\ KindAt(LineEnd) = "Newline" /\ Ticks = 3
     /\ Place(nodes, "FencedCode", TryExtract(ReadTo(code, end)),
              Visible(reader.accumulatedStartIndex, LineEnd + 1))
     /\ log' = log
          \o (IF FenceStart # LineEnd + 1 THEN FailureAt("CodeFenceClosingIndent", FenceStart - 1)
                                          ELSE <<>>)
          \o (IF KindAt(after) \notin {"Newline", "EndOfInput"}
                THEN FailureAt("CodeFenceClosingSyntax", after) ELSE <<>>)
     /\ UNCHANGED <<input, tree, rest>>

-----------------------------------------------------------------------------
ParseText == ReadPlainText \/ SoftBreak \/ UnescapedDelimiter \/ BackslashEscape \/ CodeSpan
ParseBlockTag ==
  RejectBlockTag \/ ParamTag \/ BlockTag \/ ModifierTag \/ UnrecognizedBlockTag
ParseParamBlock ==
  TryParseUnsupportedJSDocType \/ ParamName \/ ReadJSDocRest \/ CloseJSDocRest
    \/ GiveUpJSDocRest \/ Hyphen \/ EndOfParam
ParseInlineTag ==
  OpenInlineTag \/ ReadInlineTag \/ RejectInlineTag \/ CloseInlineTag \/ ThrowInInlineTag
ParseHtml ==
  OpenHtmlStartTag \/ HtmlAttributeName \/ HtmlEquals \/ HtmlValue \/ CloseHtmlStartTag
    \/ HtmlEndTag
ParseFencedCode == OpenFence \/ ReadCode \/ UnclosedFence \/ CloseFence

Next ==
  ParseText \/ ParseBlockTag \/ ParseParamBlock \/ ParseInlineTag \/ ParseHtml
    \/ ParseFencedCode \/ Finish

\* parse() is one loop on one thread: it is never abandoned half-way
Spec == Init /\ [][Next]_vars /\ WF_vars(Next)

-----------------------------------------------------------------------------
NodeType ==
  [kind : NodeKind, from : Nat, to : Nat, section : Nat, text : BOOLEAN]

TypeOK ==
  /\ reader \in Reader
  /\ nodes \in Seq(NodeType)
  /\ log \in Seq([id : MessageId, from : Nat, to : Nat])
  /\ docComment \in [singles : [SingleBlocks -> Nat], blocks : Seq(Nat),
                     modifierTags : Seq(Nat), inheritDocTag : Nat]
  /\ currentSection \in Nat
  /\ rest \in [openCount : Nat, quoteKind : {"none", "DoubleQuote", "SingleQuote", "Backtick"},
               startMarker : Nat, resume : {"none", "OptionalNameRest"} \union TypePoints]
  /\ pc \in {"Main", "Name", "JSDocRest", "Hyphen", "EndOfParam", "InlineTag",
             "HtmlAttributes", "HtmlEquals", "HtmlValue", "FencedCode", "Done", "Thrown"}
            \union TypePoints

\* The last thing read is a link without the label of a selector, and a message says so
LabelIsMissing ==
  /\ log # <<>> /\ log[Len(log)].id = "EmbeddedSyntax"
  /\ TextAt(Marker(reader) + 2) \in {"inheritDoc", "link"}
  /\ LacksALabel(Marker(reader) + 2, reader.currentIndex - 1)

(***************************************************************************)
(* Of the assertions of the parser ("if this happens, it's a parser bug")  *)
(* one can fire, in one way: in the second parse of a "{@link}" or an      *)
(* "{@inheritDoc}" whose content ends where the label of a selector should *)
(* be, as in "{@link (a:}".  No other does: nothing is read past the end   *)
(* of the comment, no empty sequence is extracted, a marker never lies     *)
(* ahead of the reader, nothing is left over where                         *)
(* assertAccumulatedSequenceIsEmpty() is called, and every message is      *)
(* about tokens that exist, EndOfInput included.                           *)
(***************************************************************************)
OnlyMissingLabelsThrow ==
  /\ pc = "Thrown" => LabelIsMissing
  /\ TypeOK
  /\ reader.accumulatedStartIndex <= reader.currentIndex
  /\ reader.currentIndex <= Len(tokens)
  /\ \A k \in 1 .. Len(reader.excerpts) : reader.excerpts[k][1] < reader.excerpts[k][2]
  /\ \A k \in 1 .. Len(nodes) : nodes[k].from < nodes[k].to
  /\ pc \in {"Name", "Hyphen", "EndOfParam", "HtmlAttributes", "HtmlEquals", "HtmlValue"}
       => IsEmpty(reader)
  /\ pc = "JSDocRest" => rest.startMarker <= reader.currentIndex
  /\ \A k \in 1 .. Len(log) : log[k].from < log[k].to /\ log[k].to <= Len(tokens) + 1

(***************************************************************************)
(* The parser implements TokenCoverage: backtracking never takes back or   *)
(* re-reads the tokens of a finished node, and none is skipped.            *)
(***************************************************************************)
Spans == [k \in 1 .. Len(nodes) |-> <<nodes[k].from, nodes[k].to>>]
Coverage == INSTANCE TokenCoverage WITH
  length <- Len(tokens), spans <- Spans, finished <- pc = "Done"
CoversTokens == Coverage!Spec

Blocks == {"Block", "ParamBlock"}
LastBlockBefore(k) ==
  CHOOSE b \in 0 .. k - 1 :
    /\ b > 0 => nodes[b].kind \in Blocks
    /\ \A j \in b + 1 .. k - 1 : nodes[j].kind \notin Blocks

NodesWhere(Has(_)) == {k \in 1 .. Len(nodes) : Has(k)}
TagAt(k) == TextAt(nodes[k].from + 1)
IsSingleBlock(k) == nodes[k].kind = "Block" /\ TagAt(k) \in SingleBlocks

\* s has the members of S, in ascending order, and k is the last of them
Lists(s, S) ==
  /\ \A j \in 1 .. Len(s) : s[j] \in S
  /\ \A k \in S : \E j \in 1 .. Len(s) : s[j] = k
  /\ \A i, j \in 1 .. Len(s) : i < j => s[i] < s[j]
IsLastOf(k, S) == IF S = {} THEN k = 0 ELSE k \in S /\ \A j \in S : j <= k

\* The DocComment has every block and every modifier, in order, and no other:
\* of the blocks that it keeps once, the last, and of a modifier the first
CommentHasItsTags ==
  /\ Lists(docComment.blocks,
           NodesWhere(LAMBDA k : nodes[k].kind \in Blocks /\ ~IsSingleBlock(k)))
  /\ \A tag \in SingleBlocks :
       IsLastOf(docComment.singles[tag],
                NodesWhere(LAMBDA k : IsSingleBlock(k) /\ TagAt(k) = tag))
  /\ Lists(docComment.modifierTags,
           NodesWhere(LAMBDA k : /\ nodes[k].kind = "ModifierTag"
                                 /\ \A j \in 1 .. k - 1 : ~(/\ nodes[j].kind = "ModifierTag"
                                                            /\ TagAt(j) = TagAt(k))))
  /\ LET inheritDoc == NodesWhere(LAMBDA k : nodes[k].kind = "InheritDocTag")
     IN IsLastOf(docComment.inheritDocTag, inheritDoc) /\ \A j, k \in inheritDoc : j = k

(***************************************************************************)
(* Content belongs to the block tag that precedes it in the comment,       *)
(* across modifier tags, undefined tags, malformed param blocks and        *)
(* recovered errors; content before any block tag is the summary.  No      *)
(* block is lost, but one: of two "@remarks" the first, with its content,  *)
(* which no message tells.                                                 *)
(***************************************************************************)
ContentBelongsToItsBlock ==
  /\ CommentHasItsTags
  /\ \A k \in 1 .. Len(nodes) :
       nodes[k].kind \notin Blocks => nodes[k].section = LastBlockBefore(k)

InnerKinds(n) == {KindAt(i) : i \in n.from + 1 .. n.to - 2}
Begins(n, kinds) == \A j \in 1 .. Len(kinds) : KindAt(n.from + j - 1) = kinds[j]
EndsWith(n, kind) == KindAt(n.to - 1) = kind

\* an odd number of backslashes precede i
Escaped(i) ==
  \E m \in 0 .. i : /\ m % 2 = 1
                    /\ \A j \in i - m .. i - 1 : KindAt(j) = "Backslash"
                    /\ m < i => KindAt(i - m - 1) # "Backslash"

\* i is between two quotes of one kind on one line
Quoted(n, i) ==
  \E a \in n.from .. i - 1, b \in i + 1 .. n.to - 1 :
    /\ KindAt(a) = KindAt(b) /\ KindAt(a) \in {"DoubleQuote", "SingleQuote"}
    /\ \A j \in a .. b : KindAt(j) # "Newline"

IsFence(i) == \A j \in i .. i + 2 : KindAt(j) = "Backtick"
\* The line after the newline at i starts with a fence, spacing aside
FenceFollows(i) ==
  /\ KindAt(i) = "Newline"
  /\ IsFence(Skip(i + 1, {"Spacing"}))

IsCodeSpan(n) ==
  /\ n.to - n.from >= 3
  /\ Begins(n, <<"Backtick">>) /\ EndsWith(n, "Backtick")
  /\ InnerKinds(n) \intersect {"Backtick", "Newline"} = {}

\* The closing fence is on the last line, and is the only one after a line of code.  There
\* is such a line: a fence right after the opening line is code itself.
IsFencedCode(n) ==
  LET firstLineEnd == SkipTo(n.from, {"Newline"}) IN
  /\ n.from > 0 => KindAt(n.from - 1) = "Newline"
  /\ IsFence(n.from)
  /\ \E i \in firstLineEnd + 1 .. n.to - 4 :
       /\ FenceFollows(i)
       /\ \A j \in i + 1 .. n.to - 2 : KindAt(j) # "Newline"
       /\ \A j \in firstLineEnd + 1 .. i - 1 : ~FenceFollows(j)

IsInlineTag(n) ==
  /\ Begins(n, <<"LeftCurlyBracket", "AtSign", "AsciiWord">>) /\ EndsWith(n, "RightCurlyBracket")
  /\ \A i \in n.from + 1 .. n.to - 2 :
       KindAt(i) \in {"LeftCurlyBracket", "RightCurlyBracket"} => Escaped(i)

IsHtmlTag(n) ==
  /\ Begins(n, IF n.kind = "HtmlEndTag" THEN <<"LessThan", "Slash", "AsciiWord">>
                                        ELSE <<"LessThan", "AsciiWord">>)
  /\ EndsWith(n, "GreaterThan")
  /\ \A i \in n.from + 2 .. n.to - 3 :
       KindAt(i) \notin {"AsciiWord", "Hyphen", "Spacing", "Newline", "Equals",
                         "DoubleQuote", "SingleQuote"} => Quoted(n, i)
  \* one switch is for the names of elements and of attributes
  /\ configuration.reportUnsupportedHtmlElements =>
       \A i \in n.from .. n.to - 1 :
         KindAt(i) = "AsciiWord" /\ ~Quoted(n, i) =>
           TextAt(i) \in configuration.supportedHtmlElements

IsPlainText(n) ==
  \A i \in n.from .. n.to - 1 :
    KindAt(i) \notin {"Newline", "Backslash", "AtSign", "LeftCurlyBracket", "RightCurlyBracket",
                      "LessThan", "GreaterThan", "Backtick"}

IsBlockTag(n) ==
  /\ Begins(n, <<"AtSign", "AsciiWord">>)
  /\ n.from > 0 => KindAt(n.from - 1) \in {"Spacing", "Newline"}

IsWellFormed(n) ==
  /\ n.kind = "PlainText" => IsPlainText(n)
  /\ n.kind = "CodeSpan" => IsCodeSpan(n)
  /\ n.kind = "FencedCode" => IsFencedCode(n)
  /\ n.kind \in {"InlineTag", "LinkTag", "InheritDocTag"} => IsInlineTag(n)
  /\ n.kind \in {"HtmlStartTag", "HtmlEndTag"} => IsHtmlTag(n)
  /\ n.kind \in {"BlockTag", "ModifierTag"} \union Blocks => IsBlockTag(n)

(***************************************************************************)
(* What a node may own, stated on the tokens alone: whichever construct    *)
(* was tried and abandoned before it, and however the loops that read it   *)
(* interact (escapes, quotes, fences), a finished node is one well-formed  *)
(* construct of its kind.                                                  *)
(***************************************************************************)
NodesAreWellFormed == \A k \in 1 .. Len(nodes) : IsWellFormed(nodes[k])

\* Error recovery takes the whole opening delimiter and nothing else: what follows is
\* parsed again, but the "@" of a bad inline tag never as a block tag, and the
\* backticks of a bad fence never as a code span
TakesTheDelimiter(all, n) ==
  \/ n.to - n.from = 1
     /\ ~(KindAt(n.from) = "LeftCurlyBracket" /\ KindAt(n.to) = "AtSign")
     /\ ~IsFence(n.from)
  \/ KindAt(n.from) = "LeftCurlyBracket" /\ KindAt(n.from + 1) = "AtSign"
     /\ \/ n.to - n.from = 2
        \/ /\ TextAt(n.from + 2) = "inheritDoc"
           /\ \E j \in 1 .. Len(all) : all[j].kind = "InheritDocTag" /\ all[j].to <= n.from
  \/ IsFence(n.from) /\ n.to - n.from = 3
  \/ KindAt(n.from) = "Backtick" /\ KindAt(n.from + 1) = "Backtick" /\ n.to - n.from = 2

\* A code fence "starts and ends with a line comprised of three backticks" (DocFencedCode.ts:35):
\* it is broken if it does not start a line, if no later line can end it, or if a backtick
\* is in its language
FenceIsUnclosed(n) ==
  LET firstLineEnd == SkipTo(n.from, {"Newline"}) IN
  \/ n.from > 0 /\ KindAt(n.from - 1) # "Newline"
  \/ \E i \in n.from + 3 .. firstLineEnd - 1 : KindAt(i) = "Backtick"
  \/ \A i \in firstLineEnd .. Len(tokens) - 1 : ~FenceFollows(i)

\* The code departs from that sentence for a fence with no line of code in it: a line of three
\* backticks right after the opening line is read as code, and no other one follows
FenceIsEmpty(n) ==
  LET firstLineEnd == SkipTo(n.from, {"Newline"}) IN
  /\ FenceFollows(firstLineEnd)
  /\ \A i \in firstLineEnd + 1 .. Len(tokens) - 1 : ~FenceFollows(i)

\* No other backtick follows on the line
SpanIsUnclosed(n) == KindAt(SkipTo(n.to, {"Backtick", "Newline"})) # "Backtick"

IsWarranted(all, n) ==
  /\ TakesTheDelimiter(all, n)
  /\ KindAt(n.from) = "Backtick" /\ n.to - n.from = 1 => SpanIsUnclosed(n)
  /\ IsFence(n.from) => FenceIsUnclosed(n) \/ FenceIsEmpty(n)

(***************************************************************************)
(* An ErrorText is the delimiter of a construct that is really broken, all *)
(* of it and nothing else, whatever was tried and abandoned before it.  A  *)
(* code span that could be closed is never reported.  Of the code fences   *)
(* that are closed, only an empty one is: it is not broken by what         *)
(* DocFencedCode.ts says, and the parser reports it all the same.          *)
(***************************************************************************)
ErrorsAreWarranted ==
  \A k \in 1 .. Len(nodes) : nodes[k].kind = "ErrorText" => IsWarranted(nodes, nodes[k])

\* parse() ends for every token stream, at its last token or by the one exception.
Terminates == <>(pc \in {"Done", "Thrown"})
=============================================================================
