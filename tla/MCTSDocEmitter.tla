--------------------------- MODULE MCTSDocEmitter ---------------------------
EXTENDS EmittedText

Inline(text) == [kind |-> "Inline", text |-> text]
Paragraph(nodes) == [kind |-> "Paragraph", nodes |-> nodes]
FencedCode(code) == [kind |-> "FencedCode", code |-> code]
Html(spacing, attributes) ==
  [kind |-> "HtmlStartTag", spacingAfterName |-> spacing, attributes |-> attributes]

\* The backticks of a code span are not told apart from its one character
CodeSpan == [kind |-> "CodeSpan", text |-> <<"c">>]
LongTag == Inline(<<"{@t", NewlineChar, "}">>)
x == PlainText(<<"x">>)
Escaped == [kind |-> "EscapedText", text |-> <<"\\@">>, decodedText |-> <<"@">>]

\* Links to a URL, and to a declaration with one member reference; with a text of two
\* characters, or without
Reference ==
  [kind |-> "DeclarationReference",
   nodes |-> <<[kind |-> "MemberReference", nodes |-> <<[kind |-> "MemberIdentifier"]>>]>>]
Link(destination, linkText) ==
  [kind |-> "LinkTag", codeDestination |-> destination, linkText |-> linkText,
   text |-> <<"{@link", Space, "to">> \o (IF linkText = <<>> THEN <<>> ELSE <<Space, "|", Space>>)
              \o linkText \o <<"}">>]
Links == {Link(d, t) : d \in {<<>>, <<Reference>>}, t \in {<<>>, <<"t", Space, "t">>}}

\* NodeParser never makes two DocPlainTexts in a row
IsParsed(nodes) ==
  \A i \in 2 .. Len(nodes) : nodes[i].kind # "PlainText" \/ nodes[i - 1].kind # "PlainText"

Comment(summary, blocks, inheritDoc, modifiers) ==
  [summary |-> summary, inheritDocTag |-> inheritDoc, modifiers |-> modifiers,
   blocks |-> [c \in ToSet(Categories) |-> IF c \in DOMAIN blocks THEN blocks[c] ELSE <<>>]]

\* One paragraph of up to five nodes
Texts == {x, PlainText(<<Space>>), PlainText(<<Space, "x", Space, Space, "y", Space>>)}
ParagraphComments ==
  {Comment(<<Paragraph(nodes)>>, <<>>, <<>>, <<>>) :
     nodes \in {n \in SeqOf(Texts \union {SoftBreak, CodeSpan, LongTag}, 5)
                        \union SeqOf(Texts \union {SoftBreak, Escaped} \union Links, 3) :
                n # <<>> /\ IsParsed(n)}}

\* Sections with code, with several paragraphs, and with nothing to see
Sections ==
  {<<>>, <<Paragraph(<<SoftBreak>>)>>,
   <<Paragraph(<<PlainText(<<Space, "x">>), SoftBreak>>)>>,
   <<Paragraph(<<SoftBreak>>), FencedCode(<<"x", NewlineChar, NewlineChar, "y", NewlineChar>>)>>,
   <<Paragraph(<<x, SoftBreak, SoftBreak, CodeSpan, SoftBreak>>), FencedCode(<<"x", NewlineChar>>),
     Paragraph(<<SoftBreak, Html(<<>>, <<<<>>>>), SoftBreak>>)>>}

\* No block or one of a kind
Block(tag, nodes) == [tag |-> tag, nodes |-> nodes]
Optional(tag) == {<<>>} \union {<<Block(tag, s)>> : s \in Sections}
NoTag == <<>>
InheritDocTag == <<Inline(<<"{@inheritDoc}">>)>>
BlockComments ==
  {Comment(s, [remarks |-> a, param |-> b, returns |-> c], i, m) :
     s \in Sections, a \in Optional("@remarks"), b \in Optional("@param"), c \in Optional("@returns"),
     i \in {NoTag, InheritDocTag}, m \in {<<>>, <<"@public", "@internal">>}}
    \union
  {Comment(<<>>, [typeParam |-> <<Block("@typeParam", s), Block("@typeParam", t)>>,
                  custom |-> <<Block("@defaultValue", u), Block("@example", s)>>,
                  see |-> <<Block("@see", t), Block("@see", u)>>], NoTag, <<"@public">>) :
     s \in Sections, t \in Sections, u \in Sections}

MCComments == ParagraphComments \union BlockComments

Spacing == {<<>>, <<Space>>, <<NewlineChar>>}
MCHtmlTags ==
  {Html(s, <<>>) : s \in Spacing} \union {Html(s, <<t>>) : s \in Spacing, t \in Spacing}
    \union {Html(s, <<t, u>>) : s \in Spacing, t \in Spacing, u \in Spacing}
=============================================================================
