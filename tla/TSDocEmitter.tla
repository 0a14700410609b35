---------------------------- MODULE TSDocEmitter ----------------------------
(***************************************************************************)
(* TSDocEmitter: from a DocComment, or a single HTML tag, to text, after   *)
(* ParagraphSplitter has been over the comment.                            *)
(*                                                                         *)
(* The output is the list of pieces that were appended.  A piece is a      *)
(* character, a line break, framing, or a part of a node that is never     *)
(* looked into.  "work" is what the recursion of _renderNode() has still   *)
(* to do; besides nodes it holds what a function does after its calls.     *)
(***************************************************************************)
EXTENDS Paragraphs

CONSTANTS
  Comments,           \* DocComments as NodeParser leaves them
  HtmlTags            \* for renderHtmlTag()

VARIABLES
  source,             \* what was asked for: nothing in the code
  object,             \* ... as the emitter gets it
  work,
  writer              \* _output and the state of the lines

vars == <<source, object, work, writer>>

\* The collections of blocks, in the order in which a comment is rendered
Categories == <<"remarks", "privateRemarks", "deprecated", "param", "typeParam", "returns",
                "custom", "see">>
ParamCollections == {"param", "typeParam"}
HangingTags == {"@returns", "@defaultValue"}

-----------------------------------------------------------------------------
\* The writer functions
NewWriter(framing) ==
  [output |-> <<>>, emitCommentFraming |-> framing, lineState |-> "Closed",
   previousLineHadContent |-> FALSE, hangingParagraph |-> FALSE]

Put(w, pieces) == [w EXCEPT !.output = @ \o pieces]
PutFraming(w, pieces) == IF w.emitCommentFraming THEN Put(w, pieces) ELSE w

OpenComment(w) ==
  IF w.lineState = "Closed"
    THEN [PutFraming(w, <<"/**", NewlineChar, " *">>) EXCEPT !.lineState = "StartOfLine"]
    ELSE w

WriteNewline(w) ==
  LET opened == OpenComment(w)
  IN [PutFraming(Put(opened, <<NewlineChar>>), <<" *">>) EXCEPT
        !.previousLineHadContent = opened.lineState = "MiddleOfLine",
        !.lineState = "StartOfLine", !.hangingParagraph = FALSE]

WritePiece(w, piece) ==
  LET opened == OpenComment(w)
      begun == IF opened.lineState = "StartOfLine" THEN PutFraming(opened, <<" ">>) ELSE opened
  IN [Put(begun, <<piece>>) EXCEPT !.lineState = "MiddleOfLine", !.previousLineHadContent = TRUE]

\* _writeContent(): the content is split at its line breaks
WriteContent(w, content) ==
  FoldLeft(LAMBDA v, piece : IF piece = NewlineChar THEN WriteNewline(v) ELSE WritePiece(v, piece),
           w, content)

EnsureAtStartOfLine(w) == IF w.lineState = "MiddleOfLine" THEN WriteNewline(w) ELSE w
\* mutant: the state of the line is not looked at after the first line break
EnsureNewline(w) == WriteNewline(EnsureAtStartOfLine(w))
EnsureLineSkipped(w) ==
  LET started == EnsureAtStartOfLine(w)
  IN IF started.previousLineHadContent THEN WriteNewline(started) ELSE started

WriteEnd(w) ==
  LET ended == IF w.lineState = "MiddleOfLine" /\ w.emitCommentFraming THEN WriteNewline(w) ELSE w
  IN IF ended.lineState = "Closed" THEN ended
     ELSE [PutFraming(ended, <<"/", NewlineChar>>) EXCEPT !.lineState = "Closed"]

-----------------------------------------------------------------------------
Do(what) == [kind |-> what]
Section(nodes) == [kind |-> "Section", nodes |-> nodes]

\* mutant: the stage is left out
SplitNothing(nodes) == nodes
\* splitParagraphsForSection(), on the nodes of a section
SplitParagraphs(nodes) ==
  FlattenSeq([i \in DOMAIN nodes |->
    IF nodes[i].kind = "Paragraph"
      THEN LET paragraphs == SplitParagraph(nodes[i].nodes)
           IN [k \in DOMAIN paragraphs |-> [nodes[i] EXCEPT !.nodes = paragraphs[k]]]
      ELSE <<nodes[i]>>])

SplitComment(comment) ==
  [comment EXCEPT !.summary = SplitParagraphs(@),
                  !.blocks = [c \in DOMAIN @ |-> 
                    [i \in DOMAIN @[c] |-> [@[c][i] EXCEPT !.nodes = SplitParagraphs(@)]]]]

Init ==
  \/ /\ source \in Comments
     /\ object = SplitComment(source)
     /\ work = <<Do("Comment"), Do("End")>>
     /\ writer = NewWriter(TRUE)
  \/ /\ source \in HtmlTags
     /\ object = source
     /\ work = <<source, Do("End")>>
     /\ writer = NewWriter(FALSE)

next == Head(work)
Done(nodes, w) == /\ work' = nodes \o Tail(work)
                  /\ writer' = w
                  /\ UNCHANGED <<source, object>>

BlocksOf(category) ==
  LET kind == IF category \in ParamCollections THEN "ParamBlock" ELSE "Block"
      blocks == object.blocks[category]
  IN [i \in DOMAIN blocks |-> [kind |-> kind, tag |-> blocks[i].tag, nodes |-> blocks[i].nodes]]

RenderComment ==
  /\ next.kind = "Comment"
  /\ Done(<<Section(object.summary)>>
            \o FlattenSeq([i \in DOMAIN Categories |-> BlocksOf(Categories[i])])
            \o object.inheritDocTag
            \o (IF object.modifiers = <<>> THEN <<>> ELSE <<Do("SkipLine")>>)
            \o [i \in DOMAIN object.modifiers |-> [kind |-> "BlockTag", tag |-> object.modifiers[i]]],
          writer)

SkipLine ==
  /\ next.kind = "SkipLine"
  /\ Done(<<>>, EnsureLineSkipped(writer))

WriteBlockTag(w, tag) ==
  WriteContent(w, IF w.lineState = "MiddleOfLine" THEN <<Space, tag>> ELSE <<tag>>)

RenderBlockTag ==
  /\ next.kind = "BlockTag"
  /\ Done(<<>>, WriteBlockTag(writer, next.tag))

RenderBlock ==
  LET tagged == WriteBlockTag(EnsureLineSkipped(writer), next.tag)
  IN /\ next.kind = "Block"
     /\ Done(<<Section(next.nodes)>>,
             IF next.tag \in HangingTags
               THEN [WriteContent(tagged, <<Space>>) EXCEPT !.hangingParagraph = TRUE]
               ELSE tagged)

RenderParamBlock ==
  LET tagged == WriteBlockTag(EnsureLineSkipped(writer), next.tag)
  IN /\ next.kind = "ParamBlock"
     /\ Done(<<Section(next.nodes), Do("EndParamBlock")>>,
             [WriteContent(tagged, <<Space, "name", Space, "-", Space>>) EXCEPT
                !.hangingParagraph = TRUE])

EndParamBlock ==
  /\ next.kind = "EndParamBlock"
  /\ Done(<<>>, [writer EXCEPT !.hangingParagraph = FALSE])

RenderSection ==
  /\ next.kind = "Section"
  /\ Done(next.nodes, writer)

RenderParagraph ==
  /\ next.kind = "Paragraph" /\ TrimSpaces(next.nodes) # <<>>
  /\ Done(TrimSpaces(next.nodes) \o <<Do("EndParagraph")>>,
          IF writer.hangingParagraph THEN [writer EXCEPT !.hangingParagraph = FALSE]
          ELSE EnsureLineSkipped(writer))

RenderEmptyParagraph ==
  /\ next.kind = "Paragraph" /\ TrimSpaces(next.nodes) = <<>>
  /\ Done(<<>>, writer)

EndParagraph ==
  /\ next.kind = "EndParagraph"
  /\ Done(<<>>, WriteNewline(writer))

RenderSoftBreak ==
  /\ next.kind = "SoftBreak"
  /\ Done(<<>>, EnsureAtStartOfLine(writer))

RenderPlainText ==
  /\ next.kind = "PlainText"
  /\ Done(<<>>, WriteContent(writer, next.text))

\* The nodes that are written as they are; "Inline" stands for ErrorText, HtmlEndTag, and the
\* inline tags but for LinkTag.  "text" is what is written.
RenderInline ==
  /\ next.kind \in {"CodeSpan", "EscapedText", "LinkTag", "Inline"}
  /\ Done(<<>>, WriteContent(writer, next.text))

RenderFencedCode ==
  /\ next.kind = "FencedCode"
  /\ LET opened == WriteNewline(WriteContent(EnsureAtStartOfLine(writer), <<"~~~">>))
         closed == WriteContent(WriteContent(opened, next.code), <<"~~~">>)
     IN Done(<<>>, WriteNewline(WriteNewline(closed)))

\* An attribute is the spacing after its value; the spacing before it decides about a space
Attributes(tag) ==
  LET before(i) == IF i = 1 THEN tag.spacingAfterName ELSE tag.attributes[i - 1]
  IN FlattenSeq([i \in DOMAIN tag.attributes |->
       (IF before(i) = <<>> THEN <<Space>> ELSE <<>>) \o <<"a=v">> \o tag.attributes[i]])

RenderHtmlStartTag ==
  /\ next.kind = "HtmlStartTag"
  /\ Done(<<>>, WriteContent(writer, <<"<p">> \o next.spacingAfterName \o Attributes(next) \o <<">">>))

RenderEnd ==
  /\ next.kind = "End"
  /\ Done(<<>>, WriteEnd(writer))

Render ==
  \/ RenderComment \/ SkipLine \/ RenderBlockTag \/ RenderBlock \/ RenderParamBlock \/ EndParamBlock
  \/ RenderSection \/ RenderParagraph \/ RenderEmptyParagraph \/ EndParagraph \/ RenderSoftBreak
  \/ RenderPlainText \/ RenderInline \/ RenderFencedCode \/ RenderHtmlStartTag \/ RenderEnd

Next == work # <<>> /\ Render

Spec == Init /\ [][Next]_vars
=============================================================================
