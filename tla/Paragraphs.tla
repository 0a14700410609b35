----------------------------- MODULE Paragraphs -----------------------------
(***************************************************************************)
(* ParagraphSplitter and TrimSpacesTransform: what happens to the          *)
(* paragraphs of a section after parsing, and before they are emitted.     *)
(*                                                                         *)
(* A DocPlainText has a text, a sequence of characters; the other nodes of *)
(* a paragraph are one piece each for both stages.                         *)
(***************************************************************************)
EXTENDS Naturals, SequencesExt

Space == " "
NewlineChar == "\n"

PlainText(text) == [kind |-> "PlainText", text |-> text]
SoftBreak == [kind |-> "SoftBreak"]
IsSoftBreak(node) == node.kind = "SoftBreak"

\* Cut a sequence after each element that satisfies Ends
CutAfter(s, Ends(_)) ==
  FoldLeft(LAMBDA cut, e : LET whole == cut = <<>> \/ Ends(Last(Last(cut)))
                           IN IF whole THEN Append(cut, <<e>>)
                              ELSE Append(Front(cut), Append(Last(cut), e)),
           <<>>, s)

-----------------------------------------------------------------------------
\* ParagraphSplitter._isWhitespace()
IsWhitespace(node) ==
  node.kind = "PlainText" /\ \A i \in DOMAIN node.text : node.text[i] = Space
IsBlankLine(line) == \A i \in DOMAIN line : IsSoftBreak(line[i]) \/ IsWhitespace(line[i])

\* One line of the paragraph, on s = [state, paragraphs]
\* mutant: blank lines at the start are taken for a trailer
SplitAtFirstBlank(s, line) ==
  LET starts == s.state = "ReadingTrailer" /\ ~IsBlankLine(line)
  IN [state |-> IF IsBlankLine(line) THEN "ReadingTrailer" ELSE "AwaitingTrailer",
      paragraphs |-> IF starts THEN Append(s.paragraphs, line)
                     ELSE Append(Front(s.paragraphs), Last(s.paragraphs) \o line)]
SplitLine(s, line) ==
  LET starts == s.state = "ReadingTrailer" /\ ~IsBlankLine(line)
  IN [state |-> CASE ~IsBlankLine(line) -> "AwaitingTrailer"
                  [] s.state = "AwaitingTrailer" -> "ReadingTrailer"
                  [] OTHER -> s.state,
      paragraphs |-> IF starts THEN Append(s.paragraphs, line)
                     ELSE Append(Front(s.paragraphs), Last(s.paragraphs) \o line)]

\* _splitParagraph(), on the nodes of a paragraph
SplitParagraph(nodes) ==
  FoldLeft(SplitLine, [state |-> "Start", paragraphs |-> << <<>> >>],
           CutAfter(nodes, IsSoftBreak)).paragraphs

-----------------------------------------------------------------------------
\* text.replace(/\s+/g, ' ').trim()
Collapse(text) ==
  LET isKept(i) == text[i] # Space
                     \/ (i > 1 /\ text[i - 1] # Space /\ \E j \in i .. Len(text) : text[j] # Space)
      kept == SelectSeq([i \in DOMAIN text |-> i], isKept)
  IN [k \in DOMAIN kept |-> text[kept[k]]]

\* s = [nodes, chunks, pendingSpace, finishedSkippingLeadingSpaces]; nothing on an
\* empty list of chunks, as in the code
PushAccumulatedText(s) ==
  LET lines == CutAfter(s.chunks, LAMBDA c : c = NewlineChar)
      textOf(line) == SelectSeq(line, LAMBDA c : c # NewlineChar)
      nodesOf(i) == IF textOf(lines[i]) = <<>> THEN <<>>
                    ELSE (IF i = 1 THEN <<>> ELSE <<SoftBreak>>) \o <<PlainText(textOf(lines[i]))>>
  IN [s EXCEPT !.nodes = @ \o FlattenSeq([i \in DOMAIN lines |-> nodesOf(i)]), !.chunks = <<>>]

PushSpace(s) ==
  IF s.pendingSpace THEN [s EXCEPT !.chunks = Append(@, Space), !.pendingSpace = FALSE] ELSE s

\* A space is pending only after some content
Pend(s, b) == [s EXCEPT !.pendingSpace = @ \/ (b /\ s.finishedSkippingLeadingSpaces)]

TrimText(s, text) ==
  LET started == Pend(s, text # <<>> /\ text[1] = Space)
      pushed == IF Collapse(text) = <<>> THEN started
                ELSE [PushSpace(started) EXCEPT !.chunks = @ \o Collapse(text),
                                                !.finishedSkippingLeadingSpaces = TRUE]
  IN Pend(pushed, text # <<>> /\ Last(text) = Space)

TrimNode(s, node) ==
  CASE node.kind = "PlainText" -> TrimText(s, node.text)
    [] node.kind = "SoftBreak" -> [s EXCEPT !.chunks = Append(@, NewlineChar)]
    [] OTHER -> [PushAccumulatedText(PushSpace(s)) EXCEPT !.nodes = Append(@, node),
                                                          !.finishedSkippingLeadingSpaces = TRUE]

\* TrimSpacesTransform.transform(), on the nodes of a paragraph
TrimSpaces(nodes) ==
  PushAccumulatedText(FoldLeft(TrimNode,
    [nodes |-> <<>>, chunks |-> <<>>, pendingSpace |-> FALSE,
     finishedSkippingLeadingSpaces |-> FALSE], nodes)).nodes
=============================================================================
