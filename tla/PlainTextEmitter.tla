-------------------------- MODULE PlainTextEmitter --------------------------
(***************************************************************************)
(* PlainTextEmitter.hasAnyTextContent(): whether the nodes of a section    *)
(* have a required number of characters that are not spacing.              *)
(***************************************************************************)
EXTENDS Paragraphs

\* _countNonSpaceCharacters()
NonSpaceCharacters(text) == Len(SelectSeq(text, LAMBDA c : c \notin {Space, NewlineChar}))

\* The text of a node itself: that of other kinds does not count.  A link without a text
\* has the linkText <<>>, for undefined.
OwnText(node) ==
  CASE node.kind \in {"PlainText", "CodeSpan"} -> node.text
    [] node.kind = "FencedCode" -> node.code
    [] node.kind = "EscapedText" -> node.decodedText
    [] node.kind = "LinkTag" -> node.linkText
    [] OTHER -> <<>>

\* The DocExcerpts of a node that was parsed are children too
ExcerptsOf ==
  [PlainText |-> 1, SoftBreak |-> 1, CodeSpan |-> 3, FencedCode |-> 5, MemberIdentifier |-> 1]
Excerpts(n, isParsed) == [i \in 1 .. (IF isParsed THEN n ELSE 0) |-> [kind |-> "Excerpt"]]

\* "{@link", the destination, "|" with the text if there is one, and "}"
LinkChildren(link, isParsed) ==
  Excerpts(3, isParsed)
    \o (IF link.codeDestination = <<>> THEN Excerpts(1, isParsed) ELSE link.codeDestination)
    \o (IF link.linkText = <<>> THEN <<>> ELSE Excerpts(2, isParsed)) \o Excerpts(1, isParsed)

\* getChildNodes(); a DocEscapedText is always one that was parsed
ChildNodes(node, isParsed) ==
  CASE "nodes" \in DOMAIN node -> node.nodes
    [] node.kind \in DOMAIN ExcerptsOf -> Excerpts(ExcerptsOf[node.kind], isParsed)
    [] node.kind = "EscapedText" -> Excerpts(1, TRUE)
    [] node.kind = "LinkTag" -> LinkChildren(node, isParsed)
    [] OTHER -> <<>>

RECURSIVE ForgetEarlierText(_, _, _, _)
RECURSIVE ScanTextContent(_, _, _, _)
\* mutant: the children of a node replace what was found before
ForgetEarlierText(nodes, required, found, isParsed) ==
  FoldLeft(LAMBDA sofar, node :
             LET own == sofar + NonSpaceCharacters(OwnText(node))
                 children == ChildNodes(node, isParsed)
             IN IF sofar >= required THEN sofar
                ELSE IF own >= required \/ children = <<>> THEN own
                ELSE ForgetEarlierText(children, required, 0, isParsed),
           found, nodes)
\* _scanTextContent(): what was found is passed down, comes back, and is added again
ScanTextContent(nodes, required, found, isParsed) ==
  FoldLeft(LAMBDA sofar, node :
             LET own == sofar + NonSpaceCharacters(OwnText(node))
             IN IF sofar >= required THEN sofar
                ELSE IF own >= required THEN own
                ELSE own + ScanTextContent(ChildNodes(node, isParsed), required, own, isParsed),
           found, nodes)

HasAnyTextContent(node, requiredCharacters, isParsed) ==
  LET required == IF requiredCharacters < 1 THEN 1 ELSE requiredCharacters
  IN ScanTextContent(<<node>>, required, 0, isParsed) >= required
=============================================================================
