---------------------------- MODULE EmittedText -----------------------------
(***************************************************************************)
(* What a reader can expect of the text that TSDocEmitter writes: that it  *)
(* says what the comment says.  Reading it is defined here from the rules  *)
(* of the format, not from the parser.                                     *)
(***************************************************************************)
EXTENDS TSDocEmitter, PlainTextEmitter, FiniteSets

Modifiers == {"@public", "@internal"}
BlockTags == HangingTags \union {"@remarks", "@param", "@typeParam", "@example", "@see"}
Invisible == {Space, NewlineChar, "name", "-"}

IsComment == "summary" \in DOMAIN source
isEmitted == work = <<>>

\* The text between the delimiters, without the stars
Content ==
  LET o == writer.output
      isFraming(i) == \/ o[i] \in {"/**", " *", "/"}
                      \/ o[i] = Space /\ o[i - 1] = " *"
      kept == SelectSeq([i \in DOMAIN o |-> i], LAMBDA i : ~isFraming(i))
  IN [k \in DOMAIN kept |-> o[kept[k]]]

-----------------------------------------------------------------------------
\* Reading, on r = [sections, modifiers, inheritDoc, inCode]
AddNode(nodes, piece) ==
  LET node == CASE piece = NewlineChar -> SoftBreak
                [] piece = Space -> PlainText(<<Space>>)
                [] OTHER -> [kind |-> "Inline", text |-> <<piece>>]
  IN IF nodes # <<>> /\ Last(nodes).kind = "Paragraph"
       THEN Append(Front(nodes), [Last(nodes) EXCEPT !.nodes = Append(@, node)])
       ELSE Append(nodes, [kind |-> "Paragraph", nodes |-> <<node>>])

InSection(r, Change(_)) ==
  [r EXCEPT !.sections = Append(Front(@), [Last(@) EXCEPT !.nodes = Change(@)])]

Opening == <<"~~~">>
\* The line break after the opening fence is not code
AddCode(nodes, piece) ==
  Append(Front(nodes), [Last(nodes) EXCEPT !.code = IF @ = Opening THEN <<>> ELSE Append(@, piece)])

ReadPiece(r, piece) ==
  CASE r.inCode /\ piece # "~~~" -> InSection(r, LAMBDA nodes : AddCode(nodes, piece))
    [] r.inCode /\ piece = "~~~" -> [r EXCEPT !.inCode = FALSE]
    [] piece = "~~~" ->
         [InSection(r, LAMBDA nodes :
            Append(nodes, [kind |-> "FencedCode", code |-> Opening])) EXCEPT !.inCode = TRUE]
    [] piece \in BlockTags -> [r EXCEPT !.sections = Append(@, [tag |-> piece, nodes |-> <<>>])]
    [] piece \in Modifiers -> [r EXCEPT !.modifiers = Append(@, piece)]
    [] piece = "{@inheritDoc}" -> [r EXCEPT !.inheritDoc = TRUE]
    [] OTHER -> InSection(r, LAMBDA nodes : AddNode(nodes, piece))

Read ==
  FoldLeft(ReadPiece, [sections |-> <<[tag |-> "summary", nodes |-> <<>>]>>, modifiers |-> <<>>,
                       inheritDoc |-> FALSE, inCode |-> FALSE], Content)

\* The comment that was asked for, in the same form
Asked ==
  [sections |-> <<[tag |-> "summary", nodes |-> source.summary]>>
                  \o FlattenSeq([i \in DOMAIN Categories |-> source.blocks[Categories[i]]]),
   modifiers |-> source.modifiers, inheritDoc |-> source.inheritDocTag # <<>>, inCode |-> FALSE]

-----------------------------------------------------------------------------
\* Paragraphs as Markdown has them: they begin where a line follows a blank one
TextOf(node) ==
  CASE node.kind \in {"PlainText", "CodeSpan", "EscapedText", "LinkTag", "Inline"} -> node.text
    [] node.kind = "SoftBreak" -> <<NewlineChar>>
    [] node.kind = "HtmlStartTag" ->
         <<"<p">> \o node.spacingAfterName
           \o FlattenSeq([i \in DOMAIN node.attributes |-> <<"a=v">> \o node.attributes[i]]) \o <<">">>
Flat(nodes) == FlattenSeq([i \in DOMAIN nodes |-> TextOf(nodes[i])])
Seen(text) == SelectSeq(text, LAMBDA piece : piece \notin Invisible)
IsBlank(text) == \A i \in DOMAIN text : text[i] \in {Space, NewlineChar}

TextParagraphs(text) ==
  LET lines == CutAfter(text, LAMBDA piece : piece = NewlineChar)
      groups == CutAfter(lines, IsBlank)
  IN SelectSeq([g \in DOMAIN groups |-> Seen(FlattenSeq(groups[g]))], LAMBDA text2 : text2 # <<>>)

Meaning(nodes) ==
  LET parts(node) == IF node.kind = "FencedCode" THEN <<<<node>>>> ELSE TextParagraphs(Flat(node.nodes))
  IN FlattenSeq([i \in DOMAIN nodes |-> parts(nodes[i])])
CommentMeaning(r) ==
  [r EXCEPT !.sections = [i \in DOMAIN @ |-> [@[i] EXCEPT !.nodes = Meaning(@)]]]

(***************************************************************************)
(* What is emitted reads as the comment that was asked for: the same       *)
(* blocks with the same paragraphs and code, the same modifiers, and the   *)
(* {@inheritDoc} tag, wherever the comment has line breaks, blank lines,   *)
(* empty paragraphs or empty blocks.  The attributes of an HTML tag do not *)
(* run together.                                                           *)
(***************************************************************************)
EmittedTextIsRead ==
  isEmitted =>
    IF IsComment THEN CommentMeaning(Read) = CommentMeaning(Asked)
    ELSE LET o == writer.output IN
         /\ Seen(o) = Seen(TextOf(source))
         /\ \A i \in 2 .. Len(o) : o[i] = "a=v" => o[i - 1] \in {Space, NewlineChar}

-----------------------------------------------------------------------------
Leaves(nodes) ==
  FlattenSeq([i \in DOMAIN nodes |->
    IF nodes[i].kind = "Paragraph" THEN nodes[i].nodes ELSE <<nodes[i]>>])

IsSplit(before, after) ==
  LET isParagraph(k) == k \in DOMAIN after /\ after[k].kind = "Paragraph"
  IN /\ Leaves(after) = Leaves(before)
     /\ \A k \in DOMAIN after : isParagraph(k) =>
          LET lines == CutAfter(after[k].nodes, IsSoftBreak)
              filled == {i \in DOMAIN lines : ~IsBlankLine(lines[i])}
          IN /\ isParagraph(k - 1) => 1 \in filled
             /\ isParagraph(k + 1) => filled # {} /\ Len(lines) \notin filled
             /\ \A i, j \in filled : i .. j \subseteq filled

(***************************************************************************)
(* Paragraphs are split exactly at their blank lines, in every section: no *)
(* node is lost or moved; the lines with text of a paragraph follow one    *)
(* another; blank lines come after them, or before those of the first.     *)
(***************************************************************************)
ParagraphsFollowBlankLines ==
  (IsComment /\ work # <<>> /\ next.kind = "Comment") =>
    /\ IsSplit(source.summary, object.summary)
    /\ \A c \in DOMAIN source.blocks : \A i \in DOMAIN source.blocks[c] :
         IsSplit(source.blocks[c][i].nodes, object.blocks[c][i].nodes)

-----------------------------------------------------------------------------
\* A paragraph as a list of characters, other nodes being one each
Marks(nodes) ==
  FlattenSeq([i \in DOMAIN nodes |-> CASE nodes[i].kind = "PlainText" -> nodes[i].text
                                       [] nodes[i].kind = "SoftBreak" -> <<NewlineChar>>
                                       [] OTHER -> <<"node">>])
\* ... and the spacing before each of those that are seen, and at the end
Spacings(marks) ==
  LET cut == CutAfter(marks, LAMBDA c : c \notin {Space, NewlineChar})
  IN [k \in DOMAIN cut |-> SelectSeq(cut[k], LAMBDA c : c \in {Space, NewlineChar})]
IsTrimming == work # <<>> /\ next.kind = "Paragraph"

\* The departure from the example at DocNodeTransforms.ts:36, which keeps the line break
\* before {@inheritDoc}: TrimSpacesTransform.ts:29 leaves out the lines without text, and with
\* the last of them every line break alone before a node that is not text
BreakIsLost(mark, spacing) == mark = "node" /\ ToSet(spacing) = {NewlineChar}


-----------------------------------------------------------------------------
\* The characters that hasAnyTextContent() is about: those that a reader of the page sees,
\* without the backslashes of escapes and the destinations of links
SeenField ==
  [PlainText |-> "text", CodeSpan |-> "text", FencedCode |-> "code",
   EscapedText |-> "decodedText", LinkTag |-> "linkText"]
TextCount(nodes) ==
  LET read == SelectSeq(nodes, LAMBDA node : node.kind \in DOMAIN SeenField)
      text == FlattenSeq([i \in DOMAIN read |-> read[i][SeenField[read[i].kind]]])
  IN Cardinality({i \in DOMAIN text : text[i] \notin {Space, NewlineChar}})
Requirements == -1 .. 4

(***************************************************************************)
(* A comment that has text is never taken for one that has none, nor the   *)
(* other way round, and one that has the required number of characters is  *)
(* never found too short, whether it was parsed or built by a program.     *)
(***************************************************************************)
TextIsNeverMissed ==
  IsComment =>
    LET count == TextCount(Leaves(source.summary)) IN
    \A isParsed \in BOOLEAN, required \in Requirements :
      LET answer == HasAnyTextContent(Section(source.summary), required, isParsed) IN
      /\ required <= 1 => (answer <=> count > 0)
      /\ count >= required /\ count > 0 => answer

(***************************************************************************)
(* hasAnyTextContent() says yes only "if at least this many non-spacing    *)
(* characters are found".                                                  *)
(***************************************************************************)
TextIsCountedOnce ==
  IsComment =>
    \A isParsed \in BOOLEAN, required \in Requirements :
      HasAnyTextContent(Section(source.summary), required, isParsed)
        => TextCount(Leaves(source.summary)) >= required
=============================================================================
