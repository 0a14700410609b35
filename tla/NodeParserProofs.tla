-------------------------- MODULE NodeParserProofs --------------------------
(***************************************************************************)
(* Proofs about NodeParser, for every token stream and configuration: one  *)
(* assertion of the parser fires, in one way, and no other; the parser     *)
(* implements TokenCoverage; every node is well formed or a warranted      *)
(* error; and content belongs to the block before it.                      *)
(*                                                                         *)
(* OnlyMissingLabelsThrow is not inductive: that an error can take the     *)
(* first tokens of a construct again, and that a message has tokens to be  *)
(* about, rest on which excerpts have been extracted at each point of a    *)
(* construct, and on the nodes ending where the construct begins.  Inv     *)
(* says both.                                                              *)
(* CommentInv is what the comment keeps of those nodes: each list is the   *)
(* one its tags make, and content is in the section of the last block.     *)
(* WellInv, near the end, is what has been read of a construct so far.     *)
(***************************************************************************)
EXTENDS NodeParser, TokenReaderProofs

\* The nodes follow one another from the first token up to "end", and none is empty.
NodesOK(ns, end) ==
  /\ ns \in Seq(NodeType)
  /\ \A k \in 1 .. Len(ns) :
       /\ ns[k].from < ns[k].to /\ ns[k].to <= end
       /\ ns[k].from = IF k = 1 THEN 0 ELSE ns[k - 1].to
  /\ end = IF ns = <<>> THEN 0 ELSE ns[Len(ns)].to

\* more has the nodes of ns, in their places
Keeps(ns, more) ==
  /\ Len(ns) <= Len(more)
  /\ \A k \in 1 .. Len(ns) : more[k] = ns[k]

\* A message about tokens that exist, EndOfInput included
GoodMessage ==
  {m \in [id : MessageId, from : Nat, to : Nat] : m.from < m.to /\ m.to <= Len(tokens) + 1}
IsFailure(f) == f = NoFailure \/ \E m \in GoodMessage : f = <<m>>

\* The nodes that the comment refers to are among the first n.
TreeOK(comment, n) ==
  /\ comment \in [singles : [SingleBlocks -> Nat], blocks : Seq(Nat),
                  modifierTags : Seq(Nat), inheritDocTag : Nat]
  /\ \A w \in SingleBlocks : comment.singles[w] <= n
  /\ comment.inheritDocTag <= n

RestType ==
  [openCount : Nat, quoteKind : {"none", "DoubleQuote", "SingleQuote", "Backtick"},
   startMarker : Nat, resume : {"none", "OptionalNameRest"} \union TypePoints]
Points ==
  {"Main", "Name", "JSDocRest", "Hyphen", "EndOfParam", "InlineTag",
   "HtmlAttributes", "HtmlEquals", "HtmlValue", "FencedCode", "Done", "Thrown"}
  \union TypePoints
\* Where assertAccumulatedSequenceIsEmpty() is called
EmptyPoints == {"Name", "Hyphen", "EndOfParam", "HtmlAttributes", "HtmlEquals", "HtmlValue"}

(***************************************************************************)
(* What has been extracted at each point: nothing between constructs, and  *)
(* otherwise at least the opening delimiter or the tag; two excerpts in an *)
(* inline tag ("{" and "@name"); all three backticks in a code fence; the  *)
(* tag, the bracket and the name in the rest of an optional name.          *)
(***************************************************************************)
PointOK(point, r, rst) ==
  /\ point \in {"Main", "Done"} => r.excerpts = <<>>
  /\ point \notin {"Main", "Done"} => r.excerpts # <<>>
  /\ point = "Done" => r.accumulatedStartIndex = Len(tokens)
  /\ point \in EmptyPoints => IsEmpty(r)
  /\ point = "InlineTag" => Len(r.excerpts) >= 2
  /\ point = "FencedCode" => r.excerpts[1][2] = r.excerpts[1][1] + 3
  /\ point = "JSDocRest" =>
       /\ rst.openCount > 0 /\ rst.resume # "none"
       /\ rst.startMarker = r.accumulatedStartIndex
       /\ rst.resume = "OptionalNameRest" => Len(r.excerpts) >= 2

Inv ==
  /\ StreamOK
  /\ GoodReader(reader)
  /\ NodesOK(nodes, Begin(reader))
  /\ log \in Seq(GoodMessage)
  /\ TreeOK(docComment, Len(nodes))
  /\ currentSection \in Nat
  /\ rest \in RestType
  /\ pc \in Points
  /\ PointOK(pc, reader, rest)

\* At first there are no nodes, and the reader is at the first token.
LEMMA InitInv == Init => Inv
<1> SUFFICES ASSUME Init PROVE Inv
  OBVIOUS
<1>1. StreamOK
  BY InputsAssumption DEF Init, StreamOK
<1>2. reader = NewReader /\ reader.excerpts = <<>> /\ reader.currentIndex = 0
      /\ reader.accumulatedStartIndex = 0
  BY DEF Init, NewReader
<1>3. GoodReader(reader) /\ Begin(reader) = 0
  <2>1. reader \in Reader
    BY EmptySeq DEF Init, NewReader, Reader
  <2>2. Len(tokens) \in Nat /\ Len(reader.excerpts) = 0
    BY <1>1, <1>2, EmptySeq DEF StreamOK
  <2> QED  BY <1>2, <2>1, <2>2 DEF GoodReader, Begin
<1>4. nodes = <<>> /\ Len(nodes) = 0 /\ nodes \in Seq(NodeType) /\ log \in Seq(GoodMessage)
  BY EmptySeq DEF Init
<1>5. NodesOK(nodes, Begin(reader))
  BY <1>3, <1>4 DEF NodesOK
<1>6. TreeOK(docComment, Len(nodes))
  BY <1>4, EmptySeq DEF Init, TreeOK
<1>7. currentSection \in Nat /\ rest \in RestType /\ pc \in Points
  BY DEF Init, NoRest, RestType, Points, TypePoints
<1>8. PointOK(pc, reader, rest)
  BY <1>2 DEF Init, PointOK, EmptyPoints
<1> QED  BY <1>1, <1>3, <1>4, <1>5, <1>6, <1>7, <1>8 DEF Inv

\* The invariant is what OnlyMissingLabelsThrow asks of the assertions, and more.
LEMMA InvImpliesOnlyMissingLabelsThrow ==
  Inv /\ (pc = "Thrown" => LabelIsMissing) => OnlyMissingLabelsThrow
<1> SUFFICES ASSUME Inv, pc = "Thrown" => LabelIsMissing PROVE OnlyMissingLabelsThrow
  OBVIOUS
<1>1. log \in Seq([id : MessageId, from : Nat, to : Nat])
      /\ \A k \in 1 .. Len(log) : log[k].from < log[k].to /\ log[k].to <= Len(tokens) + 1
  <2>1. log \in Seq(GoodMessage)
    BY DEF Inv
  <2>2. GoodMessage \subseteq [id : MessageId, from : Nat, to : Nat]
    BY DEF GoodMessage
  <2>3. log \in Seq([id : MessageId, from : Nat, to : Nat])
    BY <2>1, <2>2, SeqMonotonic
  <2>4. \A k \in 1 .. Len(log) : log[k] \in GoodMessage
    BY <2>1, ElementOfSeq
  <2> QED  BY <2>3, <2>4 DEF GoodMessage
<1>2. TypeOK
  BY <1>1 DEF Inv, TypeOK, GoodReader, NodesOK, TreeOK, RestType, Points
<1>3. \A k \in 1 .. Len(reader.excerpts) : reader.excerpts[k][1] < reader.excerpts[k][2]
  BY DEF Inv, GoodReader, ExcerptOK
<1>4. \A k \in 1 .. Len(nodes) : nodes[k].from < nodes[k].to
  BY DEF Inv, NodesOK
<1>5. pc \in EmptyPoints => IsEmpty(reader)
  BY DEF Inv, PointOK
<1>6. pc = "JSDocRest" => rest.startMarker <= reader.currentIndex
  BY DEF Inv, PointOK, GoodReader
<1> QED
  BY <1>1, <1>2, <1>3, <1>4, <1>5, <1>6 DEF Inv, GoodReader, OnlyMissingLabelsThrow, EmptyPoints

-----------------------------------------------------------------------------
\* Messages

LEMMA Singleton == ASSUME NEW S, NEW x \in S PROVE <<x>> \in Seq(S)
<1> QED  OBVIOUS

\* A message about tokens that exist is a good one
LEMMA MessageIsGood ==
  ASSUME StreamOK, NEW id \in MessageId, NEW from \in Nat, NEW to \in from + 1 .. Len(tokens) + 1
  PROVE  Message(id, from, to) \in GoodMessage
<1>1. Len(tokens) \in Nat
  BY DEF StreamOK
<1> QED  BY <1>1 DEF Message, GoodMessage

\* ... and so is one that tells where a construct went wrong.
LEMMA FailureIsGood ==
  ASSUME StreamOK, NEW id \in MessageId, NEW i \in 0 .. Len(tokens)
  PROVE  /\ IsFailure(FailureAt(id, i))
         /\ \A to \in i .. Len(tokens) + 1 : IsFailure(FailureSince(id, i, to))
<1>1. Len(tokens) \in Nat
  BY DEF StreamOK
<1>2. ASSUME NEW to \in i .. Len(tokens) + 1
      PROVE  IsFailure(FailureSince(id, i, to))
  <2> DEFINE end == IF to = i THEN i + 1 ELSE to
  <2>1. i \in Nat /\ end \in i + 1 .. Len(tokens) + 1
    BY <1>1
  <2> HIDE DEF end
  <2>2. Message(id, i, end) \in GoodMessage
    BY <2>1, MessageIsGood
  <2> QED  BY <2>2 DEF FailureSince, IsFailure, end
<1>3. Message(id, i, i + 1) \in GoodMessage
  <2>1. i \in Nat /\ i + 1 \in i + 1 .. Len(tokens) + 1
    BY <1>1
  <2> QED  BY <2>1, MessageIsGood
<1> QED  BY <1>2, <1>3 DEF FailureAt, IsFailure

\* The first message of a failure, and its messages added to a log
LEMMA FailureFacts ==
  ASSUME NEW f, IsFailure(f)
  PROVE  /\ f # NoFailure => f[1] \in GoodMessage
         /\ f \in Seq(GoodMessage)
<1>1. CASE f = NoFailure
  BY <1>1, EmptySeq DEF NoFailure
<1>2. CASE f # NoFailure
  <2>1. PICK m \in GoodMessage : f = <<m>>
    BY <1>2 DEF IsFailure
  <2> QED  BY <2>1
<1> QED  BY <1>1, <1>2

\* The messages about a tag are about the tokens of its name.
LEMMA TagMessagesAreGood ==
  ASSUME StreamOK, NEW tag, NEW inline,
         NEW from \in Nat, NEW to \in from + 1 .. Len(tokens) + 1
  PROVE  TagMessages(tag, inline, from, to) \in Seq(GoodMessage)
<1> DEFINE ids == {"TagShouldNotHaveBraces", "InlineTagMissingBraces", "UnsupportedTag",
                   "UndefinedTag"}
           messages == TagMessages(tag, inline, from, to)
<1>1. messages = <<>> \/ \E id \in ids : messages = <<Message(id, from, to)>>
  <2> DEFINE isInline == configuration.tagDefinitions[tag] = "InlineTag"
             isKnown == tag \in DOMAIN configuration.tagDefinitions
             isUnsupported == /\ configuration.reportUnsupportedTags
                              /\ tag \notin configuration.supportedTags
  <2>1. CASE isKnown /\ isInline # inline
    BY <2>1 DEF TagMessages
  <2>2. CASE isKnown /\ ~(isInline # inline)
    BY <2>2 DEF TagMessages
  <2>3. CASE ~isKnown
    BY <2>3 DEF TagMessages
  <2> QED  BY <2>1, <2>2, <2>3
<1>2. \A id \in ids : Message(id, from, to) \in GoodMessage
  <2> TAKE id \in ids
  <2>1. id \in MessageId
    BY DEF MessageId
  <2> QED  BY <2>1, MessageIsGood
<1> HIDE DEF messages
<1>3. CASE messages = <<>>
  BY <1>3, EmptySeq DEF messages
<1>4. ASSUME NEW id \in ids, messages = <<Message(id, from, to)>>
      PROVE  messages \in Seq(GoodMessage)
  BY <1>2, <1>4, Singleton
<1> QED  BY <1>1, <1>3, <1>4 DEF messages

-----------------------------------------------------------------------------
\* Nodes

LEMMA MarkerIsBegin == ASSUME NEW r PROVE Marker(r) = Begin(r)
<1> QED  BY DEF Marker, Begin

\* Nodes that are kept by two steps in turn are kept
LEMMA KeepsTransitive ==
  ASSUME NEW a \in Seq(NodeType), NEW b \in Seq(NodeType), NEW c \in Seq(NodeType),
         Keeps(a, b), Keeps(b, c)
  PROVE  Keeps(a, c)
<1>1. Len(a) \in Nat /\ Len(b) \in Nat /\ Len(c) \in Nat
  OBVIOUS
<1> QED  BY <1>1 DEF Keeps

\* ... and so are those no step has touched.
LEMMA KeepsReflexive == ASSUME NEW a \in Seq(NodeType) PROVE Keeps(a, a)
<1>1. Len(a) \in Nat
  OBVIOUS
<1> QED  BY <1>1 DEF Keeps

(***************************************************************************)
(* A node that owns everything extracted since its construct began follows *)
(* the nodes before it, and ends where the reader accumulates.             *)
(***************************************************************************)
LEMMA AppendNode ==
  ASSUME StreamOK, currentSection \in Nat, NEW before, NEW r, GoodReader(r), r.excerpts # <<>>,
         NodesOK(before, Begin(r)), NEW kind \in NodeKind, NEW text \in BOOLEAN
  PROVE  LET ns == Append(before, NewNode(kind, r, text)) IN
         /\ NodesOK(ns, r.accumulatedStartIndex) /\ Keeps(before, ns)
         /\ Len(ns) = Len(before) + 1 /\ ns[Len(before) + 1] = NewNode(kind, r, text)
         /\ NewNode(kind, r, text).from = Begin(r)
         /\ NewNode(kind, r, text).to = r.accumulatedStartIndex
         /\ NewNode(kind, r, text).kind = kind
         /\ NewNode(kind, r, text).section = currentSection
<1> DEFINE n == NewNode(kind, r, text)
           ns == Append(before, n)
           end == r.accumulatedStartIndex
<1>1. Begin(r) \in Nat /\ end \in Nat /\ Begin(r) < end
  BY ReaderFacts
<1>2. n = [kind |-> kind, from |-> Begin(r), to |-> end, section |-> currentSection, text |-> text]
  BY MarkerIsBegin DEF NewNode
<1>3. /\ n \in NodeType /\ n.from = Begin(r) /\ n.to = end /\ n.kind = kind
      /\ n.section = currentSection
  BY <1>1, <1>2 DEF NodeType
<1> HIDE DEF n, end
<1>4. before \in Seq(NodeType) /\ Len(before) \in Nat /\ (before = <<>> <=> Len(before) = 0)
  BY EmptySeq DEF NodesOK
<1>5. /\ ns \in Seq(NodeType) /\ ns # <<>> /\ Len(ns) = Len(before) + 1
      /\ \A k \in 1 .. Len(before) : ns[k] = before[k]
      /\ ns[Len(before) + 1] = n
  BY <1>3, <1>4, AppendProperties
<1> HIDE DEF ns
<1>6. \A k \in 1 .. Len(before) : before[k].to \in Nat /\ before[k].from \in Nat
  <2>1. \A k \in 1 .. Len(before) : before[k] \in NodeType
    BY <1>4, ElementOfSeq
  <2> QED  BY <2>1 DEF NodeType
<1>7. ASSUME NEW k \in 1 .. Len(ns)
      PROVE  /\ ns[k].from < ns[k].to /\ ns[k].to <= end
             /\ ns[k].from = IF k = 1 THEN 0 ELSE ns[k - 1].to
  <2>1. CASE k = Len(before) + 1
    <3>1. ns[k] = n
      BY <1>5, <2>1
    <3>2. CASE before = <<>>
      BY <1>1, <1>3, <1>4, <2>1, <3>1, <3>2 DEF NodesOK
    <3>3. CASE before # <<>>
      <4>1. k # 1 /\ k - 1 = Len(before) /\ k - 1 \in 1 .. Len(before)
        BY <1>4, <2>1, <3>3
      <4>2. ns[k - 1] = before[Len(before)]
        BY <1>5, <4>1
      <4>3. before[Len(before)].to = Begin(r)
        BY <3>3 DEF NodesOK
      <4> QED  BY <1>1, <1>3, <3>1, <4>1, <4>2, <4>3
    <3> QED  BY <3>2, <3>3
  <2>2. CASE k # Len(before) + 1
    <3>1. k \in 1 .. Len(before)
      BY <1>4, <1>5, <2>2
    <3>2. ns[k] = before[k] /\ (k # 1 => ns[k - 1] = before[k - 1])
      <4>1. k # 1 => k - 1 \in 1 .. Len(before)
        BY <1>4, <3>1
      <4> QED  BY <1>5, <3>1, <4>1
    <3>3. /\ before[k].from < before[k].to /\ before[k].to <= Begin(r)
          /\ before[k].from = IF k = 1 THEN 0 ELSE before[k - 1].to
      BY <3>1 DEF NodesOK
    <3>4. before[k].to <= end
      BY <1>1, <1>6, <3>1, <3>3
    <3> QED  BY <3>2, <3>3, <3>4
  <2> QED  BY <2>1, <2>2
<1>8. NodesOK(ns, end)
  BY <1>3, <1>5, <1>7 DEF NodesOK
<1>9. Keeps(before, ns)
  BY <1>4, <1>5 DEF Keeps
<1> QED  BY <1>3, <1>5, <1>8, <1>9 DEF ns, n, end

-----------------------------------------------------------------------------
\* The ends of a construct

(***************************************************************************)
(* A complete construct of the reader r becomes a node after the nodes     *)
(* "before", and the main loop goes on behind it.                          *)
(***************************************************************************)
LEMMA PlaceInv ==
  ASSUME Inv, tokens' = tokens, rest' = rest,
         NEW before, NEW r, NEW kind \in NodeKind, NEW text \in BOOLEAN,
         Keeps(nodes, before), NodesOK(before, Begin(r)),
         GoodReader(r), r.excerpts # <<>>, r.accumulatedStartIndex = r.currentIndex,
         Place(before, kind, r, text),
         log' \in Seq(GoodMessage),
         TreeOK(docComment', Len(before) + 1), currentSection' \in Nat
  PROVE  Inv' /\ Keeps(nodes, nodes')
<1> DEFINE n == NewNode(kind, r, text)
           s == [r EXCEPT !.excerpts = <<>>]
<1>1. /\ NodesOK(nodes', r.accumulatedStartIndex) /\ Keeps(before, nodes')
      /\ Len(nodes') = Len(before) + 1
  BY AppendNode DEF Inv, Place
<1>2. reader' = s /\ pc' = "Main"
  BY DEF Place
<1>3. /\ r \in Reader /\ r.currentIndex \in 0 .. Len(tokens)
      /\ r.accumulatedStartIndex \in 0 .. r.currentIndex
  BY ReaderFacts DEF Inv
<1>4. /\ s \in Reader /\ s.excerpts = <<>> /\ s.currentIndex = r.currentIndex
      /\ s.accumulatedStartIndex = r.accumulatedStartIndex
  BY <1>3, EmptySeq DEF Reader
<1> HIDE DEF s
<1>5. GoodReader(s) /\ Begin(s) = r.accumulatedStartIndex
  <2>1. Len(s.excerpts) = 0
    BY <1>4, EmptySeq
  <2> QED  BY <1>3, <1>4, <2>1 DEF GoodReader, Begin
<1>6. PointOK("Main", s, rest)
  BY <1>4 DEF PointOK, EmptyPoints
<1>7. Keeps(nodes, nodes')
  BY <1>1, KeepsTransitive DEF Inv, NodesOK
<1>8. StreamOK' /\ (GoodReader(reader))' /\ (GoodMessage)' = GoodMessage
  BY <1>2, <1>5 DEF Inv, StreamOK, GoodReader, ExcerptOK, Begin, GoodMessage
<1>9. (NodesOK(nodes, Begin(reader)))'
  BY <1>1, <1>2, <1>5 DEF NodesOK, Begin
<1> QED  BY <1>1, <1>2, <1>6, <1>7, <1>8, <1>9 DEF Inv, TreeOK, PointOK, IsEmpty, Points

(***************************************************************************)
(* An error takes the first tokens of the construct again; there are that  *)
(* many, and the construct begins where the nodes before it end.           *)
(***************************************************************************)
LEMMA FailInv ==
  ASSUME Inv, UNCHANGED <<input, tree, rest>>,
         NEW before, NEW r, NEW count \in Nat \ {0}, NEW failure \in GoodMessage,
         Keeps(nodes, before), NodesOK(before, Begin(r)),
         GoodReader(r), Begin(r) + count <= Len(tokens),
         Fail(before, r, count, failure)
  PROVE  Inv' /\ Keeps(nodes, nodes')
<1> DEFINE b == Backtrack(r, Marker(r), 0)
           s == Extract(ReadTokens(b, count))
           j == Begin(r) + count
<1>1. StreamOK /\ Begin(r) \in Nat /\ Len(tokens) \in Nat
  BY ReaderFacts DEF Inv
<1>2. j \in Begin(r) + 1 .. Len(tokens)
  BY <1>1
<1>3. s = Extract(ReadTo(Backtrack(r, Begin(r), 0), j))
  BY MarkerIsBegin DEF ReadTokens, Backtrack
<1> HIDE DEF s, j
<1>4. /\ GoodReader(s) /\ s.excerpts = <<<<Begin(r), j>>>> /\ Begin(s) = Begin(r)
      /\ s.currentIndex = j /\ s.accumulatedStartIndex = j
  BY <1>1, <1>2, <1>3, BacktrackToBegin
<1>5. s.excerpts # <<>>
  BY <1>4
<1>6. Place(before, "ErrorText", s, FALSE) /\ log' = Append(log, failure)
  BY DEF Fail, s
<1>7. log' \in Seq(GoodMessage)
  BY <1>6, AppendProperties DEF Inv
<1>8. /\ tokens' = tokens /\ rest' = rest
      /\ docComment' = docComment /\ currentSection' = currentSection
  BY DEF input, tree
<1>9. TreeOK(docComment', Len(before) + 1) /\ currentSection' \in Nat
  <2>1. Len(nodes) \in Nat /\ Len(before) \in Nat /\ Len(nodes) <= Len(before)
    BY DEF Inv, NodesOK, Keeps
  <2> QED  BY <1>8, <2>1 DEF Inv, TreeOK
<1>10. "ErrorText" \in NodeKind
  BY DEF NodeKind
<1> QED  BY <1>4, <1>5, <1>6, <1>7, <1>8, <1>9, <1>10, PlaceInv

\* A construct that fails is given up for an error node that takes its first tokens.
LEMMA FailHereInv ==
  ASSUME Inv, UNCHANGED <<input, tree, rest>>,
         NEW before, NEW r, NEW count \in Nat \ {0}, NEW id \in MessageId,
         Keeps(nodes, before), NodesOK(before, Begin(r)),
         GoodReader(r), Begin(r) + count <= Len(tokens),
         FailHere(before, r, count, id)
  PROVE  Inv' /\ Keeps(nodes, nodes')
<1>1. Begin(r) \in Nat /\ Len(tokens) \in Nat /\ StreamOK
  BY ReaderFacts DEF Inv
<1>2. Begin(r) + count \in Begin(r) + 1 .. Len(tokens) + 1
  BY <1>1
<1>3. Message(id, Begin(r), Begin(r) + count) \in GoodMessage
  BY <1>1, <1>2, MessageIsGood
<1>4. Fail(before, r, count, Message(id, Begin(r), Begin(r) + count))
  BY MarkerIsBegin DEF FailHere
<1> QED  BY <1>3, <1>4, FailInv

\* A construct goes on: its nodes, its log and its tree are left alone.
LEMMA ContinueInv ==
  ASSUME Inv, UNCHANGED <<input, tree>>,
         GoodReader(reader'), Keeps(nodes, nodes'), NodesOK(nodes', Begin(reader')),
         log' \in Seq(GoodMessage), rest' \in RestType, pc' \in Points,
         PointOK(pc', reader', rest')
  PROVE  Inv' /\ Keeps(nodes, nodes')
<1>1. /\ tokens' = tokens
      /\ docComment' = docComment /\ currentSection' = currentSection
  BY DEF input, tree
<1>2. StreamOK' /\ (GoodReader(reader))' /\ (GoodMessage)' = GoodMessage
  BY <1>1 DEF Inv, StreamOK, GoodReader, ExcerptOK, Begin, GoodMessage
<1>3. (NodesOK(nodes, Begin(reader)))'
  BY DEF NodesOK, Begin
<1>4. (TreeOK(docComment, Len(nodes)))'
  <2>1. Len(nodes) \in Nat /\ Len(nodes') \in Nat /\ Len(nodes) <= Len(nodes')
    BY DEF Inv, NodesOK, Keeps
  <2> QED  BY <1>1, <2>1 DEF Inv, TreeOK
<1>5. (PointOK(pc, reader, rest))'
  BY <1>1 DEF PointOK, IsEmpty
<1> QED  BY <1>1, <1>2, <1>3, <1>4, <1>5 DEF Inv, RestType, Points

-----------------------------------------------------------------------------
\* The beginnings of a construct

\* The plain text before a construct, if there is any, is a node of its own.
LEMMA PushedFacts ==
  ASSUME Inv, pc = "Main"
  PROVE  /\ NodesOK(Pushed, reader.currentIndex) /\ Keeps(nodes, Pushed)
         /\ GoodReader(Start) /\ Start.excerpts = <<>> /\ Len(Start.excerpts) = 0
         /\ Start.currentIndex = reader.currentIndex
         /\ Start.accumulatedStartIndex = reader.currentIndex
         /\ Begin(Start) = reader.currentIndex
         /\ Begin(reader) = reader.accumulatedStartIndex
         /\ reader.currentIndex \in 0 .. Len(tokens)
         /\ Len(Pushed) \in Nat /\ Len(nodes) <= Len(Pushed)
<1>1. /\ StreamOK /\ GoodReader(reader) /\ reader.excerpts = <<>>
      /\ NodesOK(nodes, Begin(reader)) /\ currentSection \in Nat
  BY DEF Inv, PointOK
<1>2. /\ reader \in Reader /\ reader.currentIndex \in 0 .. Len(tokens) /\ Len(tokens) \in Nat
      /\ reader.accumulatedStartIndex \in 0 .. reader.currentIndex
      /\ Begin(reader) = reader.accumulatedStartIndex
  BY <1>1, ReaderFacts
<1>3. /\ Start \in Reader /\ Start.excerpts = <<>> /\ Len(Start.excerpts) = 0
      /\ Start.currentIndex = reader.currentIndex
      /\ Start.accumulatedStartIndex = reader.currentIndex
  BY <1>1, <1>2, EmptySeq DEF Start, Reader
<1>4. GoodReader(Start) /\ Begin(Start) = reader.currentIndex
  BY <1>2, <1>3 DEF GoodReader, Begin
<1>5. NodesOK(Pushed, reader.currentIndex) /\ Keeps(nodes, Pushed)
  <2>1. CASE IsEmpty(reader)
    BY <1>1, <1>2, <2>1, KeepsReflexive DEF Pushed, IsEmpty, NodesOK
  <2>2. CASE ~IsEmpty(reader)
    <3> DEFINE r == Extract(reader)
               text == Visible(reader.accumulatedStartIndex, reader.currentIndex)
    <3>1. reader.accumulatedStartIndex < reader.currentIndex
      BY <1>2, <2>2 DEF IsEmpty
    <3>2. /\ Advances(reader, r) /\ r.excerpts # <<>>
          /\ r.accumulatedStartIndex = reader.currentIndex
      BY <1>1, <3>1, ExtractAdvances
    <3>3. GoodReader(r) /\ Begin(r) = Begin(reader)
      BY <3>2 DEF Advances
    <3>4. text \in BOOLEAN /\ "PlainText" \in NodeKind
      BY DEF Visible, NodeKind
    <3>5. Pushed = Append(nodes, NewNode("PlainText", r, text))
      BY <2>2 DEF Pushed
    <3> HIDE DEF r, text
    <3> QED  BY <1>1, <3>2, <3>3, <3>4, <3>5, AppendNode
  <2> QED  BY <2>1, <2>2
<1> QED  BY <1>2, <1>3, <1>4, <1>5 DEF NodesOK, Keeps

\* The opening delimiter of a construct, which is there, is read and extracted.
LEMMA StartReads ==
  ASSUME Inv, pc = "Main", NEW n \in Nat \ {0}, reader.currentIndex + n <= Len(tokens)
  PROVE  LET s == Extract(ReadTokens(Start, n)) IN
         /\ GoodReader(s) /\ s.excerpts # <<>> /\ Len(s.excerpts) = 1
         /\ s.excerpts[1] = <<reader.currentIndex, reader.currentIndex + n>>
         /\ Begin(s) = reader.currentIndex
         /\ s.currentIndex = reader.currentIndex + n
         /\ s.accumulatedStartIndex = reader.currentIndex + n
<1> DEFINE j == Start.currentIndex + n
           s == Extract(ReadTo(Start, j))
<1>1. /\ GoodReader(Start) /\ Len(Start.excerpts) = 0 /\ Start.currentIndex = reader.currentIndex
      /\ Start.accumulatedStartIndex = reader.currentIndex
      /\ Begin(Start) = reader.currentIndex /\ reader.currentIndex \in Nat
  BY PushedFacts
<1>2. StreamOK /\ Len(tokens) \in Nat
  BY ReaderFacts DEF Inv
<1>3. j \in Start.currentIndex .. Len(tokens) /\ Start.accumulatedStartIndex < j
  BY <1>1, <1>2
<1> HIDE DEF j
<1>4. /\ Advances(Start, s) /\ s.currentIndex = j /\ s.accumulatedStartIndex = j
      /\ Len(s.excerpts) = Len(Start.excerpts) + 1
      /\ s.excerpts[Len(Start.excerpts) + 1] = <<Start.accumulatedStartIndex, j>>
      /\ s.excerpts # <<>>
  BY <1>1, <1>2, <1>3, ReadAndExtract
<1> QED  BY <1>1, <1>4 DEF Advances, ReadTokens, j

\* A token that is not EndOfInput exists.
LEMMA TokenExists ==
  ASSUME Inv, NEW i \in Nat, KindAt(i) # "EndOfInput"
  PROVE  i + 1 <= Len(tokens) /\ Len(tokens) \in Nat
<1>1. i < Len(tokens) /\ Len(tokens) \in Nat
  BY TokenFacts DEF Inv
<1> QED  BY <1>1

\* What every step that leaves the tree alone keeps of it
LEMMA TreeKept ==
  ASSUME Inv, UNCHANGED <<input, tree, rest>>, NEW before, Keeps(nodes, before),
         NEW to, NodesOK(before, to)
  PROVE  /\ tokens' = tokens /\ rest' = rest /\ currentSection' \in Nat
         /\ TreeOK(docComment', Len(before) + 1)
<1>1. /\ tokens' = tokens /\ rest' = rest
      /\ docComment' = docComment /\ currentSection' = currentSection
  BY DEF input, tree
<1>2. Len(nodes) \in Nat /\ Len(before) \in Nat /\ Len(nodes) <= Len(before)
  BY DEF Inv, NodesOK, Keeps
<1> QED  BY <1>1, <1>2 DEF Inv, TreeOK

\* The comment may refer to a new node, the last.
LEMMA TreeExtends ==
  ASSUME NEW c, NEW n \in Nat, TreeOK(c, n), NEW m \in Nat, n < m
  PROVE  /\ TreeOK(c, m)
         /\ \A tag \in SingleBlocks : TreeOK([c EXCEPT !.singles[tag] = m], m)
         /\ TreeOK([c EXCEPT !.blocks = Append(@, m)], m)
         /\ TreeOK([c EXCEPT !.modifierTags = Append(@, m)], m)
         /\ TreeOK([c EXCEPT !.inheritDocTag = m], m)
<1> DEFINE Comments == [singles : [SingleBlocks -> Nat], blocks : Seq(Nat),
                        modifierTags : Seq(Nat), inheritDocTag : Nat]
<1>1. /\ c \in Comments /\ c.singles \in [SingleBlocks -> Nat] /\ c.blocks \in Seq(Nat)
      /\ c.modifierTags \in Seq(Nat) /\ c.inheritDocTag \in Nat
      /\ \A w \in SingleBlocks : c.singles[w] <= n
      /\ c.inheritDocTag <= n
  BY DEF TreeOK
<1>2. c.inheritDocTag <= m /\ \A w \in SingleBlocks : c.singles[w] <= m
  BY <1>1
<1>3. TreeOK(c, m)
  BY <1>1, <1>2 DEF TreeOK
<1>4. ASSUME NEW f \in [SingleBlocks -> Nat], \A w \in SingleBlocks : f[w] <= m
      PROVE  TreeOK([c EXCEPT !.singles = f], m)
  <2> DEFINE d == [c EXCEPT !.singles = f]
  <2>1. d \in Comments /\ d.singles = f /\ d.inheritDocTag = c.inheritDocTag
    BY <1>1
  <2> HIDE DEF d
  <2>2. TreeOK(d, m)
    BY <1>2, <1>4, <2>1 DEF TreeOK
  <2> QED  BY <2>2 DEF d
<1>5. ASSUME NEW tag \in SingleBlocks PROVE TreeOK([c EXCEPT !.singles[tag] = m], m)
  <2> DEFINE f == [c.singles EXCEPT ![tag] = m]
  <2>1. f \in [SingleBlocks -> Nat] /\ \A w \in SingleBlocks : f[w] <= m
    BY <1>1, <1>2
  <2> HIDE DEF f
  <2>2. TreeOK([c EXCEPT !.singles = f], m)
    BY <1>4, <2>1
  <2> QED  BY <2>2 DEF f
<1>6. ASSUME NEW f \in Seq(Nat) PROVE TreeOK([c EXCEPT !.blocks = f], m)
  <2> DEFINE d == [c EXCEPT !.blocks = f]
  <2>1. d \in Comments /\ d.singles = c.singles /\ d.inheritDocTag = c.inheritDocTag
    BY <1>1
  <2> HIDE DEF d
  <2>2. TreeOK(d, m)
    BY <1>2, <2>1 DEF TreeOK
  <2> QED  BY <2>2 DEF d
<1>7. ASSUME NEW f \in Seq(Nat) PROVE TreeOK([c EXCEPT !.modifierTags = f], m)
  <2> DEFINE d == [c EXCEPT !.modifierTags = f]
  <2>1. d \in Comments /\ d.singles = c.singles /\ d.inheritDocTag = c.inheritDocTag
    BY <1>1
  <2> HIDE DEF d
  <2>2. TreeOK(d, m)
    BY <1>2, <2>1 DEF TreeOK
  <2> QED  BY <2>2 DEF d
<1>8. TreeOK([c EXCEPT !.inheritDocTag = m], m)
  <2> DEFINE d == [c EXCEPT !.inheritDocTag = m]
  <2>1. d \in Comments /\ d.singles = c.singles /\ d.inheritDocTag = m
    BY <1>1
  <2> HIDE DEF d
  <2>2. TreeOK(d, m)
    BY <1>2, <2>1 DEF TreeOK
  <2> QED  BY <2>2 DEF d
<1>9. Append(c.blocks, m) \in Seq(Nat) /\ Append(c.modifierTags, m) \in Seq(Nat)
  BY <1>1, AppendProperties
<1> QED  BY <1>3, <1>5, <1>6, <1>7, <1>8, <1>9

-----------------------------------------------------------------------------
\* Plain text, and tokens that are a construct of their own

\* One more token of plain text is read.
LEMMA ReadPlainTextInv ==
  ASSUME Inv, ReadPlainText
  PROVE  Inv' /\ Keeps(nodes, nodes')
<1>1. /\ pc = "Main" /\ KindAt(reader.currentIndex) # "EndOfInput"
      /\ reader' = ReadTo(reader, reader.currentIndex + 1)
      /\ UNCHANGED <<input, nodes, log, tree, rest, pc>>
  BY DEF ReadPlainText, Peek, ReadTokens
<1>2. GoodReader(reader) /\ StreamOK /\ reader.currentIndex \in Nat
  BY ReaderFacts DEF Inv
<1>3. reader.currentIndex + 1 \in reader.currentIndex .. Len(tokens)
  BY <1>1, <1>2, TokenExists
<1>4. Advances(reader, reader') /\ reader'.excerpts = reader.excerpts
  BY <1>1, <1>2, <1>3, ReadToAdvances
<1>5. GoodReader(reader') /\ Begin(reader') = Begin(reader)
  BY <1>4 DEF Advances
<1>6. PointOK(pc', reader', rest')
  BY <1>1, <1>4 DEF Inv, PointOK, EmptyPoints
<1>7. Keeps(nodes, nodes') /\ NodesOK(nodes', Begin(reader')) /\ log' \in Seq(GoodMessage)
      /\ rest' \in RestType /\ pc' \in Points
  BY <1>1, <1>5, KeepsReflexive DEF Inv, NodesOK
<1> QED  BY <1>1, <1>5, <1>6, <1>7, ContinueInv

\* A newline is a node of its own.
LEMMA SoftBreakInv ==
  ASSUME Inv, SoftBreak
  PROVE  Inv' /\ Keeps(nodes, nodes')
<1> DEFINE r == Extract(ReadTokens(Start, 1))
<1>1. /\ pc = "Main" /\ KindAt(reader.currentIndex) # "EndOfInput"
      /\ Place(Pushed, "SoftBreak", r, FALSE) /\ log' = log
      /\ UNCHANGED <<input, tree, rest>>
  BY DEF SoftBreak, Peek
<1>2. /\ NodesOK(Pushed, reader.currentIndex) /\ Keeps(nodes, Pushed)
      /\ reader.currentIndex \in Nat
  BY <1>1, PushedFacts
<1>3. /\ GoodReader(r) /\ r.excerpts # <<>> /\ Begin(r) = reader.currentIndex
      /\ r.accumulatedStartIndex = r.currentIndex
  BY <1>1, <1>2, TokenExists, StartReads
<1> HIDE DEF r
<1>4. log' \in Seq(GoodMessage) /\ "SoftBreak" \in NodeKind
  BY <1>1 DEF Inv, NodeKind
<1> QED  BY <1>1, <1>2, <1>3, <1>4, TreeKept, PlaceInv

\* An error at the first token of the main loop
LEMMA FailAtStart ==
  ASSUME Inv, pc = "Main", UNCHANGED <<input, tree, rest>>,
         NEW count \in Nat \ {0}, reader.currentIndex + count <= Len(tokens)
  PROVE  /\ \A id \in MessageId :
              FailHere(Pushed, Start, count, id) => Inv' /\ Keeps(nodes, nodes')
         /\ \A m \in GoodMessage :
              Fail(Pushed, Start, count, m) => Inv' /\ Keeps(nodes, nodes')
<1>1. /\ NodesOK(Pushed, reader.currentIndex) /\ Keeps(nodes, Pushed)
      /\ GoodReader(Start) /\ Begin(Start) = reader.currentIndex
  BY PushedFacts
<1> QED  BY <1>1, FailHereInv, FailInv

\* A delimiter where it has no meaning is an error node of one token.
LEMMA UnescapedDelimiterInv ==
  ASSUME Inv, UnescapedDelimiter
  PROVE  Inv' /\ Keeps(nodes, nodes')
<1> DEFINE id == IF Peek(reader) = "GreaterThan" THEN "EscapeGreaterThan" ELSE "EscapeRightBrace"
<1>1. /\ pc = "Main" /\ KindAt(reader.currentIndex) # "EndOfInput"
      /\ FailHere(Pushed, Start, 1, id) /\ UNCHANGED <<input, tree, rest>>
  BY DEF UnescapedDelimiter, Peek
<1>2. id \in MessageId
  BY DEF MessageId
<1> HIDE DEF id
<1>3. reader.currentIndex + 1 <= Len(tokens)
  BY <1>1, TokenExists, PushedFacts
<1> QED  BY <1>1, <1>2, <1>3, FailAtStart

\* A backslash takes the punctuation that follows it, or fails alone.
LEMMA BackslashEscapeInv ==
  ASSUME Inv, BackslashEscape
  PROVE  Inv' /\ Keeps(nodes, nodes')
<1> DEFINE i == reader.currentIndex
           r == Extract(ReadTokens(Start, 2))
<1>1. /\ pc = "Main" /\ KindAt(i) # "EndOfInput"
      /\ UNCHANGED <<input, tree, rest>>
      /\ \/ KindAt(i + 1) \in PunctuationKinds /\ Place(Pushed, "EscapedText", r, TRUE) /\ log' = log
         \/ FailHere(Pushed, Start, 1, "UnnecessaryBackslash")
  BY DEF BackslashEscape, Peek, PeekAfter
<1>2. /\ NodesOK(Pushed, i) /\ Keeps(nodes, Pushed) /\ i \in Nat /\ i + 1 <= Len(tokens)
      /\ Len(tokens) \in Nat
  BY <1>1, PushedFacts, TokenExists
<1>3. CASE FailHere(Pushed, Start, 1, "UnnecessaryBackslash")
  BY <1>1, <1>2, <1>3, FailAtStart DEF MessageId
<1>4. CASE KindAt(i + 1) \in PunctuationKinds /\ Place(Pushed, "EscapedText", r, TRUE) /\ log' = log
  <2>1. i + 2 <= Len(tokens)
    <3>1. KindAt(i + 1) # "EndOfInput" /\ i + 1 \in Nat
      BY <1>2, <1>4 DEF PunctuationKinds
    <3>2. (i + 1) + 1 <= Len(tokens)
      BY <3>1, TokenExists
    <3> QED  BY <1>2, <3>2
  <2>2. /\ GoodReader(r) /\ r.excerpts # <<>> /\ Begin(r) = i
        /\ r.accumulatedStartIndex = r.currentIndex
    BY <1>1, <2>1, StartReads
  <2> HIDE DEF r
  <2>3. log' \in Seq(GoodMessage) /\ "EscapedText" \in NodeKind
    BY <1>4 DEF Inv, NodeKind
  <2> QED  BY <1>1, <1>2, <1>4, <2>2, <2>3, TreeKept, PlaceInv
<1> QED  BY <1>1, <1>3, <1>4

\* A code span ends with the backtick of its line, or fails at its own.
LEMMA CodeSpanInv ==
  ASSUME Inv, CodeSpan
  PROVE  Inv' /\ Keeps(nodes, nodes')
<1> DEFINE i == reader.currentIndex
           open == Extract(ReadTokens(Start, 1))
           close == CodeEnd(open.currentIndex)
           code == Extract(ReadTo(open, close))
           r == Extract(ReadTokens(code, 1))
           text == Visible(open.currentIndex, close)
<1>1. /\ pc = "Main" /\ KindAt(i) # "EndOfInput"
      /\ UNCHANGED <<input, tree, rest>>
      /\ \/ FailHere(Pushed, open, 1, "CodeSpanMissingDelimiter")
         \/ /\ KindAt(close) = "Backtick" /\ close = open.currentIndex
            /\ FailHere(Pushed, open, 2, "CodeSpanEmpty")
         \/ /\ KindAt(close) = "Backtick" /\ close # open.currentIndex
            /\ Place(Pushed, "CodeSpan", r, text) /\ log' = log
  BY DEF CodeSpan, Peek
<1>2. /\ NodesOK(Pushed, i) /\ Keeps(nodes, Pushed) /\ i \in Nat /\ i + 1 <= Len(tokens)
      /\ Len(tokens) \in Nat /\ StreamOK
  BY <1>1, PushedFacts, TokenExists DEF Inv
<1>3. /\ GoodReader(open) /\ open.excerpts # <<>> /\ Begin(open) = i
      /\ open.accumulatedStartIndex = i + 1 /\ open.currentIndex = i + 1
  BY <1>1, <1>2, StartReads
<1> HIDE DEF open
<1>4. close \in i + 1 .. Len(tokens)
  <2>1. i + 1 \in 0 .. Len(tokens)
    BY <1>2
  <2> QED  BY <1>2, <1>3, <2>1, SkipToStops DEF CodeEnd
<1> HIDE DEF close
<1>5. CASE FailHere(Pushed, open, 1, "CodeSpanMissingDelimiter")
  BY <1>1, <1>2, <1>3, <1>5, FailHereInv DEF MessageId
<1>6. CASE /\ KindAt(close) = "Backtick" /\ close = open.currentIndex
           /\ FailHere(Pushed, open, 2, "CodeSpanEmpty")
  <2>1. i + 2 <= Len(tokens)
    <3>1. close + 1 <= Len(tokens)
      BY <1>4, <1>6, TokenExists
    <3> QED  BY <1>2, <1>3, <1>6, <3>1
  <2> QED  BY <1>1, <1>2, <1>3, <1>6, <2>1, FailHereInv DEF MessageId
<1>7. CASE /\ KindAt(close) = "Backtick" /\ close # open.currentIndex
           /\ Place(Pushed, "CodeSpan", r, text) /\ log' = log
  <2>1. close + 1 <= Len(tokens)
    BY <1>4, <1>7, TokenExists
  <2>2. /\ close \in open.currentIndex .. Len(tokens)
        /\ open.accumulatedStartIndex < close
    BY <1>2, <1>3, <1>4, <1>7
  <2>3. /\ Advances(open, code) /\ code.currentIndex = close /\ code.accumulatedStartIndex = close
    BY <1>2, <1>3, <2>2, ReadAndExtract
  <2>4. GoodReader(code)
    BY <2>3 DEF Advances
  <2> HIDE DEF code
  <2>5. close + 1 \in code.currentIndex .. Len(tokens) /\ code.accumulatedStartIndex < close + 1
    BY <1>2, <1>4, <2>1, <2>3
  <2>6. r = Extract(ReadTo(code, close + 1))
    BY <2>3 DEF ReadTokens
  <2> HIDE DEF r
  <2>7. /\ Advances(code, r) /\ r.excerpts # <<>> /\ r.accumulatedStartIndex = r.currentIndex
    BY <1>2, <2>4, <2>5, <2>6, ReadAndExtract
  <2>8. GoodReader(r) /\ Begin(r) = i
    BY <1>3, <2>3, <2>7 DEF Advances
  <2>9. log' \in Seq(GoodMessage) /\ "CodeSpan" \in NodeKind /\ text \in BOOLEAN
    BY <1>7 DEF Inv, NodeKind, Visible
  <2> HIDE DEF text
  <2> QED  BY <1>1, <1>2, <1>7, <2>7, <2>8, <2>9, TreeKept, PlaceInv
<1> QED  BY <1>1, <1>5, <1>6, <1>7

\* A message of the final checks is about a block the comment refers to, or about all of
\* a comment that has at least the tag which the message is about.
LEMMA ValidationMessagesAreGood ==
  ASSUME Inv, NEW all, NEW end \in 0 .. Len(tokens), Keeps(nodes, all), NodesOK(all, end)
  PROVE  ValidationMessages(all) \in Seq(GoodMessage)
<1> DEFINE deprecated == docComment.singles["deprecated"]
           remarks == docComment.singles["remarks"]
           inheritDoc == docComment.inheritDocTag
           at(id, k) == <<Message(id, all[k].from, all[k].to)>>
           m1 == IF deprecated # 0 /\ ~SectionHasText(all, deprecated)
                   THEN at("MissingDeprecationMessage", deprecated) ELSE <<>>
           m2 == IF inheritDoc # 0 /\ remarks # 0
                   THEN at("InheritDocIncompatibleTag", remarks) ELSE <<>>
           m3 == IF inheritDoc # 0 /\ SectionHasText(all, 0)
                   THEN <<Message("InheritDocIncompatibleSummary", 0, Len(tokens))>> ELSE <<>>
<1>1. /\ StreamOK /\ Len(tokens) \in Nat /\ Len(nodes) \in Nat /\ Len(all) \in Nat
      /\ Len(nodes) <= Len(all) /\ all \in Seq(NodeType)
  BY ReaderFacts DEF Inv, NodesOK, Keeps
<1>2. /\ deprecated \in 0 .. Len(all) /\ remarks \in 0 .. Len(all) /\ inheritDoc \in 0 .. Len(all)
  <2>1. "deprecated" \in SingleBlocks /\ "remarks" \in SingleBlocks
    BY DEF SingleBlocks
  <2>2. /\ deprecated \in Nat /\ remarks \in Nat /\ inheritDoc \in Nat
        /\ deprecated <= Len(nodes) /\ remarks <= Len(nodes) /\ inheritDoc <= Len(nodes)
    BY <2>1 DEF Inv, TreeOK
  <2> QED  BY <1>1, <2>2
<1>3. ASSUME NEW k \in 0 .. Len(all), k # 0
      PROVE  /\ all[k].from \in Nat /\ all[k].to \in all[k].from + 1 .. Len(tokens) + 1
             /\ Len(tokens) > 0
  <2>1. k \in 1 .. Len(all)
    BY <1>1, <1>3
  <2>2. all[k] \in NodeType
    BY <1>1, <2>1, ElementOfSeq
  <2>3. all[k].from < all[k].to /\ all[k].to <= end
    BY <2>1 DEF NodesOK
  <2> QED  BY <1>1, <2>2, <2>3 DEF NodeType
<1> HIDE DEF deprecated, remarks, inheritDoc
<1>4. m1 \in Seq(GoodMessage)
  <2>1. CASE deprecated # 0 /\ ~SectionHasText(all, deprecated)
    <3>1. Message("MissingDeprecationMessage", all[deprecated].from, all[deprecated].to)
            \in GoodMessage
      BY <1>1, <1>2, <1>3, <2>1, MessageIsGood DEF MessageId
    <3> QED  BY <2>1, <3>1, Singleton
  <2>2. CASE ~(deprecated # 0 /\ ~SectionHasText(all, deprecated))
    BY <2>2, EmptySeq
  <2> QED  BY <2>1, <2>2
<1>5. m2 \in Seq(GoodMessage)
  <2>1. CASE inheritDoc # 0 /\ remarks # 0
    <3>1. Message("InheritDocIncompatibleTag", all[remarks].from, all[remarks].to)
            \in GoodMessage
      BY <1>1, <1>2, <1>3, <2>1, MessageIsGood DEF MessageId
    <3> QED  BY <2>1, <3>1, Singleton
  <2>2. CASE ~(inheritDoc # 0 /\ remarks # 0)
    BY <2>2, EmptySeq
  <2> QED  BY <2>1, <2>2
<1>6. m3 \in Seq(GoodMessage)
  <2>1. CASE inheritDoc # 0 /\ SectionHasText(all, 0)
    <3>1. Len(tokens) \in 0 + 1 .. Len(tokens) + 1
      BY <1>1, <1>2, <1>3, <2>1
    <3>2. Message("InheritDocIncompatibleSummary", 0, Len(tokens)) \in GoodMessage
      BY <1>1, <3>1, MessageIsGood DEF MessageId
    <3> QED  BY <2>1, <3>2, Singleton
  <2>2. CASE ~(inheritDoc # 0 /\ SectionHasText(all, 0))
    BY <2>2, EmptySeq
  <2> QED  BY <2>1, <2>2
<1>7. ValidationMessages(all) = m1 \o m2 \o m3
  BY DEF ValidationMessages, deprecated, remarks, inheritDoc
<1> HIDE DEF m1, m2, m3
<1> QED  BY <1>4, <1>5, <1>6, <1>7, ConcatProperties

\* The parser finishes when no token is left.
LEMMA FinishInv ==
  ASSUME Inv, Finish
  PROVE  Inv' /\ Keeps(nodes, nodes')
<1>1. /\ pc = "Main" /\ KindAt(reader.currentIndex) = "EndOfInput" /\ pc' = "Done"
      /\ nodes' = Pushed /\ reader' = Start /\ log' = log \o ValidationMessages(Pushed)
      /\ UNCHANGED <<input, tree, rest>>
  BY DEF Finish, Peek
<1>2. /\ NodesOK(Pushed, reader.currentIndex) /\ Keeps(nodes, Pushed)
      /\ reader.currentIndex \in 0 .. Len(tokens)
      /\ GoodReader(Start) /\ Start.excerpts = <<>> /\ Begin(Start) = reader.currentIndex
      /\ Start.accumulatedStartIndex = reader.currentIndex
      /\ Start.currentIndex = reader.currentIndex
  BY <1>1, PushedFacts
<1>3. reader.currentIndex = Len(tokens)
  <2>1. ~(reader.currentIndex < Len(tokens)) /\ Len(tokens) \in Nat
    BY <1>1, <1>2, TokenFacts DEF Inv
  <2> QED  BY <1>2, <2>1
<1>4. log' \in Seq(GoodMessage)
  BY <1>1, <1>2, ValidationMessagesAreGood, ConcatProperties DEF Inv
<1>5. PointOK(pc', reader', rest')
  BY <1>1, <1>2, <1>3 DEF PointOK, EmptyPoints
<1>6. rest' \in RestType /\ pc' \in Points
  BY <1>1 DEF Inv, Points
<1> QED  BY <1>1, <1>2, <1>4, <1>5, <1>6, ContinueInv

-----------------------------------------------------------------------------
\* Block tags

LEMMA AfterTagNameFacts ==
  ASSUME Inv, pc = "Main", Peek(reader) = "AtSign"
  PROVE  /\ AfterTagName \in reader.currentIndex + 1 .. Len(tokens)
         /\ reader.currentIndex \in Nat /\ reader.currentIndex + 1 <= Len(tokens)
         /\ Len(tokens) \in Nat /\ StreamOK
<1>1. reader.currentIndex \in Nat /\ Len(tokens) \in Nat /\ StreamOK
  BY ReaderFacts DEF Inv
<1>2. reader.currentIndex + 1 <= Len(tokens)
  BY <1>1, TokenExists DEF Peek
<1>3. reader.currentIndex + 1 \in 0 .. Len(tokens)
  BY <1>1, <1>2
<1> QED  BY <1>1, <1>2, <1>3, SkipStops DEF AfterTagName

\* An at-sign that begins no tag is an error node.
LEMMA RejectBlockTagInv ==
  ASSUME Inv, RejectBlockTag
  PROVE  Inv' /\ Keeps(nodes, nodes')
<1> DEFINE i == reader.currentIndex
<1>1. /\ pc = "Main" /\ Peek(reader) = "AtSign" /\ BlockTagFailure # NoFailure
      /\ Fail(Pushed, Start, 1, BlockTagFailure[1]) /\ UNCHANGED <<input, tree, rest>>
  BY DEF RejectBlockTag
<1>2. /\ AfterTagName \in i + 1 .. Len(tokens) /\ i \in Nat /\ i + 1 <= Len(tokens)
      /\ Len(tokens) \in Nat /\ StreamOK
  BY <1>1, AfterTagNameFacts
<1>3. IsFailure(BlockTagFailure)
  <2>1. /\ IsFailure(FailureAt("AtSignInWord", i))
        /\ IsFailure(FailureAt("AtSignWithoutTagName", i))
        /\ IsFailure(FailureAt("CharactersAfterBlockTag", i))
    BY <1>2, FailureIsGood DEF MessageId
  <2>2. IsFailure(FailureSince("MalformedTagName", i + 1, AfterTagName))
    <3>1. i + 1 \in 0 .. Len(tokens) /\ AfterTagName \in i + 1 .. Len(tokens) + 1
      BY <1>2
    <3> QED  BY <1>2, <3>1, FailureIsGood DEF MessageId
  <2>3. IsFailure(NoFailure)
    BY DEF IsFailure
  <2> QED  BY <2>1, <2>2, <2>3 DEF BlockTagFailure
<1>4. BlockTagFailure[1] \in GoodMessage
  BY <1>1, <1>3, FailureFacts
<1> QED  BY <1>1, <1>2, <1>4, FailAtStart

\* A tag is extracted whole, and what is logged about it is about its tokens.
LEMMA BlockTagFacts ==
  ASSUME Inv, NEW tag, NEW syntaxKind, BlockTagIs(tag, syntaxKind)
  PROVE  /\ pc = "Main" /\ log' \in Seq(GoodMessage)
         /\ GoodReader(TagExtracted) /\ TagExtracted.excerpts # <<>>
         /\ Begin(TagExtracted) = reader.currentIndex
         /\ TagExtracted.accumulatedStartIndex = TagExtracted.currentIndex
         /\ NodesOK(Pushed, Begin(TagExtracted)) /\ Keeps(nodes, Pushed)
         /\ Len(Pushed) \in Nat /\ Len(nodes) <= Len(Pushed) /\ Len(nodes) \in Nat
<1> DEFINE i == reader.currentIndex
<1>1. /\ pc = "Main" /\ Peek(reader) = "AtSign"
      /\ log' = log \o TagMessages(tag, FALSE, i, AfterTagName)
  BY DEF BlockTagIs
<1>2. /\ AfterTagName \in i + 1 .. Len(tokens) /\ i \in Nat /\ Len(tokens) \in Nat /\ StreamOK
  BY <1>1, AfterTagNameFacts
<1>3. log' \in Seq(GoodMessage)
  <2>1. AfterTagName \in i + 1 .. Len(tokens) + 1
    BY <1>2
  <2>2. TagMessages(tag, FALSE, i, AfterTagName) \in Seq(GoodMessage)
    BY <1>2, <2>1, TagMessagesAreGood
  <2> QED  BY <1>1, <2>2, ConcatProperties DEF Inv
<1>4. /\ NodesOK(Pushed, i) /\ Keeps(nodes, Pushed) /\ Len(Pushed) \in Nat
      /\ Len(nodes) <= Len(Pushed) /\ Len(nodes) \in Nat
      /\ GoodReader(Start) /\ Start.currentIndex = i /\ Start.accumulatedStartIndex = i
      /\ Begin(Start) = i
  BY <1>1, PushedFacts DEF Inv, NodesOK
<1>5. AfterTagName \in Start.currentIndex .. Len(tokens)
      /\ Start.accumulatedStartIndex < AfterTagName
  BY <1>2, <1>4
<1>6. /\ Advances(Start, TagExtracted) /\ TagExtracted.excerpts # <<>>
      /\ TagExtracted.currentIndex = AfterTagName
      /\ TagExtracted.accumulatedStartIndex = AfterTagName
  BY <1>2, <1>4, <1>5, ReadAndExtract DEF TagExtracted
<1> QED  BY <1>1, <1>3, <1>4, <1>6 DEF Advances

\* The tag of a param block is its first excerpt.
LEMMA ParamTagInv ==
  ASSUME Inv, ParamTag
  PROVE  Inv' /\ Keeps(nodes, nodes')
<1>1. PICK tag \in ParamTags : BlockTagIs(tag, "BlockTag")
  BY DEF ParamTag
<1>2. /\ nodes' = Pushed /\ reader' = TagExtracted /\ pc' = "TypeBeforeName"
      /\ UNCHANGED <<input, tree, rest>>
  BY DEF ParamTag
<1>3. /\ log' \in Seq(GoodMessage)
      /\ GoodReader(TagExtracted) /\ TagExtracted.excerpts # <<>>
      /\ NodesOK(Pushed, Begin(TagExtracted)) /\ Keeps(nodes, Pushed)
  BY <1>1, BlockTagFacts
<1>4. PointOK(pc', reader', rest') /\ rest' \in RestType /\ pc' \in Points
  BY <1>2, <1>3 DEF PointOK, EmptyPoints, Inv, Points, TypePoints
<1> QED  BY <1>2, <1>3, <1>4, ContinueInv

\* The single blocks and the others refer to the new node, which is in the list.
LEMMA BlockTagInv ==
  ASSUME Inv, BlockTag
  PROVE  Inv' /\ Keeps(nodes, nodes')
<1>1. PICK tag \in Words \ ParamTags :
        /\ BlockTagIs(tag, "BlockTag")
        /\ docComment' = IF tag \in SingleBlocks
                           THEN [docComment EXCEPT !.singles[tag] = NextNode]
                           ELSE [docComment EXCEPT !.blocks = Append(@, NextNode)]
  BY DEF BlockTag
<1>2. /\ Place(Pushed, "Block", TagExtracted, FALSE)
      /\ currentSection' = NextNode
      /\ tokens' = tokens /\ rest' = rest
  BY DEF BlockTag, input
<1>3. /\ log' \in Seq(GoodMessage)
      /\ GoodReader(TagExtracted) /\ TagExtracted.excerpts # <<>>
      /\ TagExtracted.accumulatedStartIndex = TagExtracted.currentIndex
      /\ NodesOK(Pushed, Begin(TagExtracted)) /\ Keeps(nodes, Pushed)
      /\ Len(Pushed) \in Nat /\ Len(nodes) <= Len(Pushed) /\ Len(nodes) \in Nat
  BY <1>1, BlockTagFacts
<1>4. TreeOK(docComment', Len(Pushed) + 1)
  <2>1. /\ TreeOK(docComment, Len(nodes)) /\ NextNode \in Nat /\ NextNode = Len(Pushed) + 1
        /\ Len(nodes) < NextNode
    BY <1>3 DEF Inv, NextNode
  <2> QED  BY <1>1, <1>3, <2>1, TreeExtends
<1>5. currentSection' \in Nat /\ "Block" \in NodeKind
  BY <1>2, <1>3 DEF NextNode, NodeKind
<1> QED  BY <1>2, <1>3, <1>4, <1>5, PlaceInv

\* A modifier tag is a node.
LEMMA ModifierTagInv ==
  ASSUME Inv, ModifierTag
  PROVE  Inv' /\ Keeps(nodes, nodes')
<1>1. PICK tag \in Words : BlockTagIs(tag, "ModifierTag")
  BY DEF ModifierTag
<1>2. /\ Place(Pushed, "ModifierTag", TagExtracted, FALSE)
      /\ \/ docComment' = docComment
         \/ docComment' = [docComment EXCEPT !.modifierTags = Append(@, NextNode)]
      /\ tokens' = tokens /\ rest' = rest /\ currentSection' = currentSection
  BY DEF ModifierTag, input
<1>3. /\ log' \in Seq(GoodMessage)
      /\ GoodReader(TagExtracted) /\ TagExtracted.excerpts # <<>>
      /\ TagExtracted.accumulatedStartIndex = TagExtracted.currentIndex
      /\ NodesOK(Pushed, Begin(TagExtracted)) /\ Keeps(nodes, Pushed)
      /\ Len(Pushed) \in Nat /\ Len(nodes) <= Len(Pushed) /\ Len(nodes) \in Nat
  BY <1>1, BlockTagFacts
<1>4. TreeOK(docComment', Len(Pushed) + 1)
  <2>1. /\ TreeOK(docComment, Len(nodes)) /\ NextNode \in Nat /\ NextNode = Len(Pushed) + 1
        /\ Len(nodes) < NextNode
    BY <1>3 DEF Inv, NextNode
  <2> QED  BY <1>2, <1>3, <2>1, TreeExtends
<1>5. currentSection' \in Nat /\ "ModifierTag" \in NodeKind
  BY <1>2 DEF Inv, NodeKind
<1> QED  BY <1>2, <1>3, <1>4, <1>5, PlaceInv

\* An undefined tag is a node.
LEMMA UnrecognizedBlockTagInv ==
  ASSUME Inv, UnrecognizedBlockTag
  PROVE  Inv' /\ Keeps(nodes, nodes')
<1>1. PICK tag \in Words : BlockTagIs(tag, "undefined") \/ BlockTagIs(tag, "InlineTag")
  BY DEF UnrecognizedBlockTag
<1>2. Place(Pushed, "BlockTag", TagExtracted, FALSE) /\ UNCHANGED <<input, tree, rest>>
  BY DEF UnrecognizedBlockTag
<1>3. /\ log' \in Seq(GoodMessage)
      /\ GoodReader(TagExtracted) /\ TagExtracted.excerpts # <<>>
      /\ TagExtracted.accumulatedStartIndex = TagExtracted.currentIndex
      /\ NodesOK(Pushed, Begin(TagExtracted)) /\ Keeps(nodes, Pushed)
  BY <1>1, BlockTagFacts
<1>4. "BlockTag" \in NodeKind
  BY DEF NodeKind
<1> QED  BY <1>2, <1>3, <1>4, TreeKept, PlaceInv

-----------------------------------------------------------------------------
\* Param blocks

\* A construct that has begun has an excerpt, and keeps it.
LEMMA BegunFacts ==
  ASSUME Inv, pc \notin {"Main", "Done"}
  PROVE  /\ StreamOK /\ GoodReader(reader) /\ reader.excerpts # <<>>
         /\ 1 \in 1 .. Len(reader.excerpts) /\ Len(reader.excerpts) \in Nat
         /\ reader.currentIndex \in 0 .. Len(tokens) /\ Len(tokens) \in Nat
         /\ reader.accumulatedStartIndex \in 0 .. reader.currentIndex
         /\ Begin(reader) \in Nat /\ Begin(reader) < reader.accumulatedStartIndex
         /\ NodesOK(nodes, Begin(reader)) /\ Keeps(nodes, nodes)
         /\ \A s : Advances(reader, s) =>
              /\ GoodReader(s) /\ s.excerpts # <<>> /\ Begin(s) = Begin(reader)
              /\ NodesOK(nodes, Begin(s))
              /\ Len(s.excerpts) >= Len(reader.excerpts)
<1>1. /\ StreamOK /\ GoodReader(reader) /\ reader.excerpts # <<>>
      /\ NodesOK(nodes, Begin(reader)) /\ nodes \in Seq(NodeType)
  BY DEF Inv, PointOK, NodesOK
<1>2. /\ 1 \in 1 .. Len(reader.excerpts) /\ Len(reader.excerpts) \in Nat
      /\ reader.currentIndex \in 0 .. Len(tokens) /\ Len(tokens) \in Nat
      /\ reader.accumulatedStartIndex \in 0 .. reader.currentIndex
      /\ Begin(reader) \in Nat /\ Begin(reader) < reader.accumulatedStartIndex
  BY <1>1, ReaderFacts
<1>3. ASSUME NEW s, Advances(reader, s)
      PROVE  /\ GoodReader(s) /\ s.excerpts # <<>> /\ Begin(s) = Begin(reader)
             /\ Len(s.excerpts) >= Len(reader.excerpts)
  <2>1. GoodReader(s) /\ Begin(s) = Begin(reader) /\ Len(reader.excerpts) <= Len(s.excerpts)
    BY <1>3 DEF Advances
  <2>2. Len(s.excerpts) # 0 /\ (s.excerpts = <<>> <=> Len(s.excerpts) = 0)
        /\ Len(s.excerpts) \in Nat
    BY <1>1, <1>2, <2>1, ReaderFacts
  <2> QED  BY <1>2, <2>1, <2>2
<1> QED  BY <1>1, <1>2, <1>3, KeepsReflexive

\* A param block is placed with a reader that still has its tag.
LEMMA ParamBlockInv ==
  ASSUME Inv, UNCHANGED <<input, rest>>, NEW r, GoodReader(r), r.excerpts # <<>>,
         NodesOK(nodes, Begin(r)), r.accumulatedStartIndex = r.currentIndex,
         PlaceParamBlock(r), log' \in Seq(GoodMessage)
  PROVE  Inv' /\ Keeps(nodes, nodes')
<1>1. /\ Place(nodes, "ParamBlock", r, FALSE)
      /\ docComment' = [docComment EXCEPT !.blocks = Append(@, Len(nodes) + 1)]
      /\ currentSection' = Len(nodes) + 1 /\ tokens' = tokens /\ rest' = rest
  BY DEF PlaceParamBlock, input
<1>2. nodes \in Seq(NodeType) /\ Len(nodes) \in Nat /\ TreeOK(docComment, Len(nodes))
  BY DEF Inv, NodesOK
<1>3. TreeOK(docComment', Len(nodes) + 1) /\ currentSection' \in Nat
  <2> DEFINE m == Len(nodes) + 1
  <2>1. m \in Nat /\ Len(nodes) < m
    BY <1>2
  <2> HIDE DEF m
  <2>2. TreeOK([docComment EXCEPT !.blocks = Append(@, m)], m)
    BY <1>2, <2>1, TreeExtends
  <2> QED  BY <1>1, <2>1, <2>2 DEF m
<1>4. Keeps(nodes, nodes) /\ "ParamBlock" \in NodeKind
  BY <1>2, KeepsReflexive DEF NodeKind
<1> QED  BY <1>1, <1>3, <1>4, PlaceInv

\* A message about the tag that is being read is a good one.
LEMMA AtTagIsGood ==
  ASSUME Inv, pc \notin {"Main", "Done"}, NEW id \in MessageId
  PROVE  Append(log, AtTag(id)) \in Seq(GoodMessage)
<1>1. /\ StreamOK /\ GoodReader(reader) /\ reader.excerpts # <<>>
      /\ 1 \in 1 .. Len(reader.excerpts)
      /\ reader.currentIndex \in 0 .. Len(tokens) /\ Len(tokens) \in Nat
      /\ reader.accumulatedStartIndex \in 0 .. reader.currentIndex
  BY BegunFacts
<1>2. /\ Marker(reader) = reader.excerpts[1][1] /\ Marker(reader) \in Nat /\ TagEnd \in Nat
      /\ Marker(reader) < TagEnd /\ TagEnd <= reader.accumulatedStartIndex
  BY <1>1, ReaderFacts, MarkerIsBegin DEF TagEnd
<1>3. TagEnd \in Marker(reader) + 1 .. Len(tokens) + 1
  BY <1>1, <1>2
<1>4. AtTag(id) \in GoodMessage
  BY <1>1, <1>2, <1>3, MessageIsGood DEF AtTag
<1> QED  BY <1>4, AppendProperties DEF Inv

\* A brace after the tag begins a JSDoc type, which is skipped if it is closed.
LEMMA TryParseUnsupportedJSDocTypeInv ==
  ASSUME Inv, TryParseUnsupportedJSDocType
  PROVE  Inv' /\ Keeps(nodes, nodes')
<1> DEFINE r == TryReadSpacingAndNewlines(reader)
           i == r.currentIndex
<1>1. /\ pc \in TypePoints /\ UNCHANGED <<input, nodes, log, tree>>
      /\ \/ /\ KindAt(i) = "LeftCurlyBracket"
            /\ reader' = ReadTo(r, i + 1)
            /\ rest' = [openCount |-> 1, quoteKind |-> "none", startMarker |-> i, resume |-> pc]
            /\ pc' = "JSDocRest"
         \/ reader' = r /\ pc' = AfterRest(pc) /\ rest' = rest
  BY DEF TryParseUnsupportedJSDocType, Peek, ReadTokens
<1>2. pc \notin {"Main", "Done"}
  BY <1>1 DEF TypePoints
<1>3. Advances(reader, r) /\ r.accumulatedStartIndex = r.currentIndex
  BY <1>2, BegunFacts, SpacingAdvances
<1> HIDE DEF r
<1>4. /\ StreamOK /\ GoodReader(r) /\ r.excerpts # <<>> /\ NodesOK(nodes, Begin(r))
      /\ Keeps(nodes, nodes)
  BY <1>2, <1>3, BegunFacts
<1>5. i \in 0 .. Len(tokens) /\ Len(tokens) \in Nat
  BY <1>4, ReaderFacts
<1>6. log' \in Seq(GoodMessage) /\ nodes' = nodes
  BY <1>1 DEF Inv
<1>7. CASE /\ KindAt(i) = "LeftCurlyBracket"
           /\ reader' = ReadTo(r, i + 1)
           /\ rest' = [openCount |-> 1, quoteKind |-> "none", startMarker |-> i, resume |-> pc]
           /\ pc' = "JSDocRest"
  <2>1. i + 1 \in r.currentIndex .. Len(tokens)
    BY <1>5, <1>7, TokenExists
  <2>2. /\ Advances(r, reader') /\ reader'.excerpts = r.excerpts
        /\ reader'.accumulatedStartIndex = i
    BY <1>3, <1>4, <1>7, <2>1, ReadToAdvances
  <2>3. GoodReader(reader') /\ Begin(reader') = Begin(r)
    BY <2>2 DEF Advances
  <2>4. PointOK(pc', reader', rest')
    BY <1>1, <1>4, <1>7, <2>2 DEF PointOK, EmptyPoints, TypePoints
  <2>5. rest' \in RestType /\ pc' \in Points
    BY <1>1, <1>5, <1>7 DEF RestType, Points
  <2> QED  BY <1>1, <1>4, <1>6, <2>3, <2>4, <2>5, ContinueInv
<1>8. CASE reader' = r /\ pc' = AfterRest(pc) /\ rest' = rest
  <2>1. pc' \in {"Name", "Hyphen", "EndOfParam"}
    BY <1>1, <1>8 DEF AfterRest, TypePoints
  <2>2. PointOK(pc', reader', rest')
    BY <1>3, <1>4, <1>8, <2>1 DEF PointOK, EmptyPoints, IsEmpty
  <2>3. rest' \in RestType /\ pc' \in Points
    BY <1>8, <2>1 DEF Inv, Points
  <2> QED  BY <1>1, <1>4, <1>6, <1>8, <2>2, <2>3, ContinueInv
<1> QED  BY <1>1, <1>7, <1>8

\* The name of a parameter, optional or not; without one the block is incomplete.
LEMMA ParamNameInv ==
  ASSUME Inv, ParamName
  PROVE  Inv' /\ Keeps(nodes, nodes')
<1> DEFINE bracket == Peek(reader) = "LeftSquareBracket"
           r == IF bracket THEN Extract(ReadTokens(reader, 1)) ELSE reader
           end == Skip(r.currentIndex, NameKinds)
           b == Backtrack(r, TagEnd, 1)
           s == Extract(ReadTo(r, end))
<1>1. /\ pc = "Name" /\ tokens' = tokens /\ UNCHANGED input
      /\ \/ /\ PlaceParamBlock(b)
            /\ log' = Append(log, AtTag("ParamTagWithInvalidName"))
            /\ rest' = rest
         \/ /\ end > r.currentIndex /\ reader' = s /\ UNCHANGED <<nodes, log, tree>>
            /\ \/ /\ bracket
                  /\ rest' = [openCount |-> 1, quoteKind |-> "none", startMarker |-> end,
                              resume |-> "OptionalNameRest"]
                  /\ pc' = "JSDocRest"
               \/ pc' = "TypeAfterName" /\ rest' = rest
  BY DEF ParamName, input
<1>2. /\ StreamOK /\ GoodReader(reader) /\ reader.excerpts # <<>>
      /\ 1 \in 1 .. Len(reader.excerpts) /\ Len(reader.excerpts) \in Nat
      /\ reader.currentIndex \in 0 .. Len(tokens) /\ Len(tokens) \in Nat
      /\ reader.accumulatedStartIndex = reader.currentIndex
  BY <1>1, BegunFacts DEF Inv, PointOK, EmptyPoints, IsEmpty
<1>3. /\ Advances(reader, r) /\ r.accumulatedStartIndex = r.currentIndex
      /\ bracket => Len(r.excerpts) = Len(reader.excerpts) + 1
  <2>1. CASE bracket
    <3> DEFINE j == reader.currentIndex + 1
    <3>1. j \in reader.currentIndex .. Len(tokens) /\ reader.accumulatedStartIndex < j
      BY <1>2, <2>1, TokenExists DEF Peek
    <3>2. r = Extract(ReadTo(reader, j))
      BY <2>1 DEF ReadTokens
    <3> HIDE DEF r, j
    <3> QED  BY <1>2, <3>1, <3>2, ReadAndExtract
  <2>2. CASE ~bracket
    BY <1>2, <2>2, AdvancesReflexive
  <2> QED  BY <2>1, <2>2
<1> HIDE DEF r
<1>4. /\ GoodReader(r) /\ r.excerpts # <<>> /\ NodesOK(nodes, Begin(r)) /\ Begin(r) = Begin(reader)
      /\ Keeps(nodes, nodes) /\ Len(r.excerpts) >= Len(reader.excerpts)
  BY <1>1, <1>3, BegunFacts
<1>5. r.excerpts[1] = reader.excerpts[1]
  BY <1>2, <1>3 DEF Advances
<1>6. CASE /\ PlaceParamBlock(b)
           /\ log' = Append(log, AtTag("ParamTagWithInvalidName"))
           /\ rest' = rest
  <2>1. b = Backtrack(r, r.excerpts[1][2], 1)
    BY <1>5 DEF TagEnd
  <2> HIDE DEF b
  <2>2. /\ GoodReader(b) /\ b.excerpts = <<r.excerpts[1]>> /\ Begin(b) = Begin(r)
        /\ b.currentIndex = b.accumulatedStartIndex
    BY <1>2, <1>4, <2>1, BacktrackToFirst
  <2>3. b.excerpts # <<>>
    BY <2>2
  <2>4. log' \in Seq(GoodMessage)
    BY <1>1, <1>6, AtTagIsGood DEF MessageId
  <2> QED  BY <1>1, <1>4, <1>6, <2>2, <2>3, <2>4, ParamBlockInv
<1>7. CASE /\ end > r.currentIndex /\ reader' = s /\ UNCHANGED <<nodes, log, tree>>
           /\ \/ /\ bracket
                 /\ rest' = [openCount |-> 1, quoteKind |-> "none", startMarker |-> end,
                             resume |-> "OptionalNameRest"]
                 /\ pc' = "JSDocRest"
              \/ pc' = "TypeAfterName" /\ rest' = rest
  <2>1. r.currentIndex \in 0 .. Len(tokens)
    BY <1>2, <1>4, ReaderFacts
  <2>2. end \in r.currentIndex .. Len(tokens)
    BY <1>2, <2>1, SkipStops DEF NameKinds
  <2> HIDE DEF end
  <2>3. r.accumulatedStartIndex < end
    BY <1>3, <1>7, <2>1, <2>2
  <2>4. /\ Advances(r, s) /\ s.accumulatedStartIndex = end /\ s.excerpts # <<>>
        /\ Len(s.excerpts) = Len(r.excerpts) + 1
    BY <1>2, <1>4, <2>2, <2>3, ReadAndExtract
  <2>5. GoodReader(s) /\ Begin(s) = Begin(r)
    BY <2>4 DEF Advances
  <2> HIDE DEF s
  <2>6. Len(r.excerpts) \in Nat /\ Len(r.excerpts) >= 1
    BY <1>2, <1>4, ReaderFacts
  <2>7. PointOK(pc', reader', rest')
    BY <1>7, <2>4, <2>6 DEF PointOK, EmptyPoints
  <2>8. rest' \in RestType /\ pc' \in Points
    BY <1>7, <2>1, <2>2 DEF Inv, RestType, Points, TypePoints
  <2>9. log' \in Seq(GoodMessage) /\ nodes' = nodes
    BY <1>7 DEF Inv
  <2> QED  BY <1>1, <1>4, <1>7, <2>5, <2>7, <2>8, <2>9, ContinueInv
<1> QED  BY <1>1, <1>6, <1>7

\* The rest of a type or value: what is accumulated begins at its marker.
LEMMA RestFacts ==
  ASSUME Inv, pc = "JSDocRest"
  PROVE  /\ rest.startMarker = reader.accumulatedStartIndex
         /\ rest.resume \in {"OptionalNameRest"} \union TypePoints
         /\ rest.openCount \in Nat /\ rest.openCount > 0
         /\ rest.quoteKind \in {"none", "DoubleQuote", "SingleQuote", "Backtick"}
         /\ rest.resume = "OptionalNameRest" => Len(reader.excerpts) >= 2
         /\ RestToken \in reader.currentIndex .. reader.currentIndex + 1
         /\ AfterRest(rest.resume) \in {"Name", "TypeAfterName", "Hyphen", "EndOfParam"}
<1>1. /\ rest \in RestType /\ rest.openCount > 0 /\ rest.resume # "none"
      /\ rest.startMarker = reader.accumulatedStartIndex
      /\ rest.resume = "OptionalNameRest" => Len(reader.excerpts) >= 2
  BY DEF Inv, PointOK
<1>2. /\ rest.resume \in {"OptionalNameRest"} \union TypePoints
      /\ rest.openCount \in Nat
      /\ rest.quoteKind \in {"none", "DoubleQuote", "SingleQuote", "Backtick"}
  BY <1>1 DEF RestType
<1>3. RestToken \in reader.currentIndex .. reader.currentIndex + 1
  BY BegunFacts DEF RestToken
<1>4. AfterRest(rest.resume) \in {"Name", "TypeAfterName", "Hyphen", "EndOfParam"}
  BY <1>2 DEF AfterRest, TypePoints
<1> QED  BY <1>1, <1>2, <1>3, <1>4

\* One token of a type or of a default value
LEMMA ReadJSDocRestInv ==
  ASSUME Inv, ReadJSDocRest
  PROVE  Inv' /\ Keeps(nodes, nodes')
<1>1. /\ pc = "JSDocRest" /\ pc' = pc
      /\ KindAt(RestToken) # "EndOfInput" /\ OpenCountAfter > 0
      /\ reader' = ReadTo(reader, RestToken + 1)
      /\ rest' = [rest EXCEPT !.openCount = OpenCountAfter, !.quoteKind = QuoteKindAfter]
      /\ UNCHANGED <<input, nodes, log, tree>>
  BY DEF ReadJSDocRest
<1>2. /\ StreamOK /\ GoodReader(reader) /\ reader.excerpts # <<>>
      /\ reader.currentIndex \in 0 .. Len(tokens) /\ Len(tokens) \in Nat
  BY <1>1, BegunFacts
<1>3. RestToken \in reader.currentIndex .. reader.currentIndex + 1
  BY <1>1, RestFacts
<1>4. RestToken + 1 \in reader.currentIndex .. Len(tokens)
  <2>1. RestToken \in Nat
    BY <1>2, <1>3
  <2> QED  BY <1>1, <1>2, <1>3, <2>1, TokenExists
<1>5. /\ Advances(reader, reader') /\ reader'.excerpts = reader.excerpts
      /\ reader'.accumulatedStartIndex = reader.accumulatedStartIndex
  BY <1>1, <1>2, <1>4, ReadToAdvances
<1>6. GoodReader(reader') /\ NodesOK(nodes, Begin(reader')) /\ Keeps(nodes, nodes)
  BY <1>1, <1>5, BegunFacts
<1>7. OpenCountAfter \in Nat
  BY <1>1, RestFacts DEF OpenCountAfter
<1>8. QuoteKindAfter \in {"none", "DoubleQuote", "SingleQuote", "Backtick"}
  <2> DEFINE kind == Peek(reader)
             Quotes == {"DoubleQuote", "SingleQuote", "Backtick"}
  <2>1. rest.quoteKind \in {"none"} \union Quotes
    BY <1>1, RestFacts
  <2>2. QuoteKindAfter \in {rest.quoteKind, "none"} \/ (kind \in Quotes /\ QuoteKindAfter = kind)
    BY DEF QuoteKindAfter
  <2> HIDE DEF kind
  <2> QED  BY <2>1, <2>2
<1>9. /\ rest' \in RestType /\ rest'.openCount = OpenCountAfter /\ rest'.resume = rest.resume
      /\ rest'.startMarker = rest.startMarker
  BY <1>1, <1>7, <1>8 DEF Inv, RestType
<1>10. PointOK(pc', reader', rest')
  BY <1>1, <1>5, <1>9 DEF Inv, PointOK, EmptyPoints
<1>11. log' \in Seq(GoodMessage) /\ nodes' = nodes /\ pc' \in Points
  BY <1>1 DEF Inv
<1> QED  BY <1>1, <1>6, <1>9, <1>10, <1>11, ContinueInv

\* Its last bracket
LEMMA CloseJSDocRestInv ==
  ASSUME Inv, CloseJSDocRest
  PROVE  Inv' /\ Keeps(nodes, nodes')
<1> DEFINE r == Extract(ReadTo(reader, RestToken + 1))
           optional == rest.resume = "OptionalNameRest"
           message == IF optional
                        THEN Message("ParamTagWithInvalidOptionalName",
                                     r.excerpts[Len(r.excerpts) - 2][1], r.currentIndex)
                        ELSE Message("ParamTagWithInvalidType", rest.startMarker, r.currentIndex)
<1>1. /\ pc = "JSDocRest" /\ KindAt(RestToken) # "EndOfInput"
      /\ log' = Append(log, message)
      /\ reader' = IF optional THEN r ELSE TryReadSpacingAndNewlines(r)
      /\ pc' = AfterRest(rest.resume) /\ rest' = NoRest
      /\ UNCHANGED <<input, nodes, tree>>
  BY DEF CloseJSDocRest
<1>2. /\ StreamOK /\ GoodReader(reader) /\ reader.excerpts # <<>> /\ Len(reader.excerpts) \in Nat
      /\ reader.currentIndex \in 0 .. Len(tokens) /\ Len(tokens) \in Nat
      /\ reader.accumulatedStartIndex \in 0 .. reader.currentIndex
  BY <1>1, BegunFacts
<1>3. /\ RestToken \in reader.currentIndex .. reader.currentIndex + 1
      /\ rest.startMarker = reader.accumulatedStartIndex
      /\ optional => Len(reader.excerpts) >= 2
      /\ pc' \in {"Name", "TypeAfterName", "Hyphen", "EndOfParam"}
  BY <1>1, RestFacts
<1>4. /\ RestToken \in Nat /\ RestToken + 1 \in reader.currentIndex .. Len(tokens)
      /\ reader.accumulatedStartIndex < RestToken + 1
  <2>1. RestToken \in Nat
    BY <1>2, <1>3
  <2> QED  BY <1>1, <1>2, <1>3, <2>1, TokenExists
<1>5. /\ Advances(reader, r) /\ r.currentIndex = RestToken + 1
      /\ r.accumulatedStartIndex = RestToken + 1
      /\ Len(r.excerpts) = Len(reader.excerpts) + 1
  BY <1>2, <1>4, ReadAndExtract
<1> HIDE DEF r
<1>6. GoodReader(r)
  BY <1>5 DEF Advances
<1>7. log' \in Seq(GoodMessage)
  <2>1. CASE optional
    <3> DEFINE k == Len(r.excerpts) - 2
    <3>1. k \in 1 .. Len(r.excerpts)
      BY <1>2, <1>3, <1>5, <2>1
    <3> HIDE DEF k
    <3>2. /\ r.excerpts[k][1] \in Nat /\ r.excerpts[k][2] \in Nat
          /\ r.excerpts[k][1] < r.excerpts[k][2]
          /\ r.excerpts[k][2] <= r.accumulatedStartIndex
      BY <1>2, <1>6, <3>1, ReaderFacts
    <3>3. r.currentIndex \in r.excerpts[k][1] + 1 .. Len(tokens) + 1
      BY <1>2, <1>4, <1>5, <3>2
    <3>4. Message("ParamTagWithInvalidOptionalName", r.excerpts[k][1], r.currentIndex)
            \in GoodMessage
      BY <1>2, <3>2, <3>3, MessageIsGood DEF MessageId
    <3>5. message \in GoodMessage
      BY <2>1, <3>4 DEF k
    <3> HIDE DEF message
    <3> QED  BY <1>1, <3>5, AppendProperties DEF Inv
  <2>2. CASE ~optional
    <3>1. rest.startMarker \in Nat /\ r.currentIndex \in rest.startMarker + 1 .. Len(tokens) + 1
      BY <1>2, <1>3, <1>4, <1>5
    <3>2. Message("ParamTagWithInvalidType", rest.startMarker, r.currentIndex) \in GoodMessage
      BY <1>2, <3>1, MessageIsGood DEF MessageId
    <3>3. message \in GoodMessage
      BY <2>2, <3>2
    <3> HIDE DEF message
    <3> QED  BY <1>1, <3>3, AppendProperties DEF Inv
  <2> QED  BY <2>1, <2>2
<1>8. Advances(reader, reader') /\ reader'.accumulatedStartIndex = reader'.currentIndex
  <2>1. CASE optional
    BY <1>1, <1>5, <2>1
  <2>2. CASE ~optional
    <3>1. reader' = TryReadSpacingAndNewlines(r)
      BY <1>1, <2>2
    <3>2. Advances(r, reader') /\ reader'.accumulatedStartIndex = reader'.currentIndex
      BY <1>2, <1>6, <3>1, SpacingAdvances
    <3> QED  BY <1>2, <1>5, <3>2, AdvancesTransitive
  <2> QED  BY <2>1, <2>2
<1>9. /\ GoodReader(reader') /\ reader'.excerpts # <<>> /\ NodesOK(nodes, Begin(reader'))
      /\ Keeps(nodes, nodes)
  BY <1>1, <1>8, BegunFacts
<1>10. PointOK(pc', reader', rest')
  BY <1>3, <1>8, <1>9 DEF PointOK, EmptyPoints, IsEmpty
<1>11. rest' \in RestType /\ pc' \in Points /\ nodes' = nodes
  BY <1>1, <1>3 DEF NoRest, RestType, Points, TypePoints
<1> QED  BY <1>1, <1>7, <1>9, <1>10, <1>11, ContinueInv

\* The end of the comment instead: the reader goes back
LEMMA GiveUpJSDocRestInv ==
  ASSUME Inv, GiveUpJSDocRest
  PROVE  Inv' /\ Keeps(nodes, nodes')
<1> DEFINE k == Len(reader.excerpts) - 1
           bracket == reader.excerpts[k]
           message == Message("ParamTagWithInvalidOptionalName", bracket[1], bracket[2])
<1>1. /\ pc = "JSDocRest"
      /\ reader' = Backtrack(reader, rest.startMarker, Len(reader.excerpts))
      /\ log' = IF rest.resume = "OptionalNameRest" THEN Append(log, message) ELSE log
      /\ pc' = AfterRest(rest.resume) /\ rest' = NoRest
      /\ UNCHANGED <<input, nodes, tree>>
  BY DEF GiveUpJSDocRest
<1>2. /\ StreamOK /\ GoodReader(reader) /\ reader.excerpts # <<>> /\ Len(reader.excerpts) \in Nat
      /\ NodesOK(nodes, Begin(reader)) /\ Keeps(nodes, nodes)
      /\ reader.accumulatedStartIndex \in 0 .. Len(tokens) /\ Len(tokens) \in Nat
  BY <1>1, BegunFacts
<1>3. /\ rest.startMarker = reader.accumulatedStartIndex
      /\ rest.resume = "OptionalNameRest" => Len(reader.excerpts) >= 2
      /\ pc' \in {"Name", "TypeAfterName", "Hyphen", "EndOfParam"}
  BY <1>1, RestFacts
<1>4. /\ GoodReader(reader') /\ reader'.excerpts = reader.excerpts
      /\ Begin(reader') = Begin(reader)
      /\ reader'.currentIndex = reader'.accumulatedStartIndex
  BY <1>1, <1>2, <1>3, BacktrackToAccumulated
<1>5. log' \in Seq(GoodMessage)
  <2>1. CASE rest.resume = "OptionalNameRest"
    <3>1. k \in 1 .. Len(reader.excerpts)
      BY <1>2, <1>3, <2>1
    <3> HIDE DEF k
    <3>2. /\ bracket[1] \in Nat /\ bracket[2] \in Nat /\ bracket[1] < bracket[2]
          /\ bracket[2] <= reader.accumulatedStartIndex
      BY <1>2, <3>1, ReaderFacts
    <3> HIDE DEF bracket
    <3>3. bracket[2] \in bracket[1] + 1 .. Len(tokens) + 1
      BY <1>2, <3>2
    <3>4. message \in GoodMessage
      BY <1>2, <3>2, <3>3, MessageIsGood DEF MessageId
    <3> HIDE DEF message
    <3> QED  BY <1>1, <2>1, <3>4, AppendProperties DEF Inv
  <2>2. CASE rest.resume # "OptionalNameRest"
    BY <1>1, <2>2 DEF Inv
  <2> QED  BY <2>1, <2>2
<1>6. PointOK(pc', reader', rest')
  BY <1>2, <1>3, <1>4 DEF PointOK, EmptyPoints, IsEmpty
<1>7. rest' \in RestType /\ pc' \in Points /\ nodes' = nodes
  BY <1>1, <1>3 DEF NoRest, RestType, Points, TypePoints
<1> QED  BY <1>1, <1>2, <1>4, <1>5, <1>6, <1>7, ContinueInv

\* The hyphen that follows the name is an excerpt, if it is there.
LEMMA HyphenInv ==
  ASSUME Inv, Hyphen
  PROVE  Inv' /\ Keeps(nodes, nodes')
<1> DEFINE i == reader.currentIndex
           r == Extract(ReadTo(reader, i + 1))
<1>1. /\ pc = "Hyphen" /\ UNCHANGED <<input, rest>>
      /\ \/ /\ KindAt(i) = "Hyphen" /\ reader' = r /\ pc' = "TypeAfterHyphen"
            /\ UNCHANGED <<nodes, log, tree>>
         \/ PlaceParamBlock(reader) /\ log' = Append(log, AtTag("ParamTagMissingHyphen"))
  BY DEF Hyphen, Peek, ReadTokens
<1>2. /\ StreamOK /\ GoodReader(reader) /\ reader.excerpts # <<>>
      /\ NodesOK(nodes, Begin(reader)) /\ Keeps(nodes, nodes)
      /\ i \in 0 .. Len(tokens) /\ Len(tokens) \in Nat
      /\ reader.accumulatedStartIndex = i
  BY <1>1, BegunFacts DEF Inv, PointOK, EmptyPoints, IsEmpty
<1>3. CASE PlaceParamBlock(reader) /\ log' = Append(log, AtTag("ParamTagMissingHyphen"))
  <2>1. log' \in Seq(GoodMessage)
    BY <1>1, <1>3, AtTagIsGood DEF MessageId
  <2> QED  BY <1>1, <1>2, <1>3, <2>1, ParamBlockInv
<1>4. CASE /\ KindAt(i) = "Hyphen" /\ reader' = r /\ pc' = "TypeAfterHyphen"
           /\ UNCHANGED <<nodes, log, tree>>
  <2>1. i + 1 \in reader.currentIndex .. Len(tokens) /\ reader.accumulatedStartIndex < i + 1
    BY <1>2, <1>4, TokenExists
  <2>2. Advances(reader, r)
    BY <1>2, <2>1, ReadAndExtract
  <2>3. GoodReader(r) /\ r.excerpts # <<>> /\ NodesOK(nodes, Begin(r))
    BY <1>1, <2>2, BegunFacts
  <2> HIDE DEF r
  <2>4. PointOK(pc', reader', rest') /\ log' \in Seq(GoodMessage)
    BY <1>4, <2>3 DEF PointOK, EmptyPoints, Inv
  <2>5. rest' \in RestType /\ pc' \in Points /\ nodes' = nodes
    BY <1>1, <1>4 DEF Inv, Points, TypePoints
  <2> QED  BY <1>1, <1>2, <1>4, <2>3, <2>4, <2>5, ContinueInv
<1> QED  BY <1>1, <1>3, <1>4

\* ... without which the block begins all the same.
LEMMA EndOfParamInv ==
  ASSUME Inv, EndOfParam
  PROVE  Inv' /\ Keeps(nodes, nodes')
<1>1. pc = "EndOfParam" /\ PlaceParamBlock(reader) /\ UNCHANGED <<input, log, rest>>
  BY DEF EndOfParam
<1>2. /\ GoodReader(reader) /\ reader.excerpts # <<>> /\ NodesOK(nodes, Begin(reader))
      /\ reader.accumulatedStartIndex = reader.currentIndex
  BY <1>1, BegunFacts DEF Inv, PointOK, EmptyPoints, IsEmpty
<1>3. log' \in Seq(GoodMessage)
  BY <1>1 DEF Inv
<1> QED  BY <1>1, <1>2, <1>3, ParamBlockInv

-----------------------------------------------------------------------------
\* Inline tags

\* An error in a construct that goes on
LEMMA FailBegun ==
  ASSUME Inv, pc \notin {"Main", "Done"}, UNCHANGED <<input, tree, rest>>,
         NEW count \in Nat \ {0}, Begin(reader) + count <= Len(tokens)
  PROVE  /\ \A id \in MessageId :
              FailHere(nodes, reader, count, id) => Inv' /\ Keeps(nodes, nodes')
         /\ \A m \in GoodMessage :
              Fail(nodes, reader, count, m) => Inv' /\ Keeps(nodes, nodes')
<1> QED  BY BegunFacts, FailHereInv, FailInv

\* A brace and an at-sign begin an inline tag, or fail.
LEMMA OpenInlineTagInv ==
  ASSUME Inv, OpenInlineTag
  PROVE  Inv' /\ Keeps(nodes, nodes')
<1> DEFINE i == reader.currentIndex
           open == Extract(ReadTokens(Start, 1))
           at == open.currentIndex
           end == Skip(at + 1, {"AsciiWord"})
           named == Extract(ReadTo(open, end))
           r == TryReadSpacingAndNewlines(named)
           failure == IF end = at + 1 THEN FailureSince("MalformedInlineTag", at, end)
                      ELSE IF ~IsValidTagName(at + 1) THEN FailureSince("MalformedTagName", at, end)
                      ELSE IF r = named /\ Peek(r) # "RightCurlyBracket"
                        THEN FailureAt("CharactersAfterInlineTag", end)
                      ELSE NoFailure
<1>1. /\ pc = "Main" /\ KindAt(i) # "EndOfInput" /\ UNCHANGED <<input, tree, rest>>
      /\ \/ FailHere(Pushed, open, 1, "MalformedInlineTag")
         \/ /\ KindAt(at) = "AtSign" /\ failure # NoFailure
            /\ Fail(Pushed, open, 2, failure[1])
         \/ /\ KindAt(at) = "AtSign" /\ failure = NoFailure
            /\ nodes' = Pushed /\ reader' = r /\ pc' = "InlineTag" /\ log' = log
  BY DEF OpenInlineTag, Peek
<1>2. /\ NodesOK(Pushed, i) /\ Keeps(nodes, Pushed) /\ i \in Nat /\ i + 1 <= Len(tokens)
      /\ Len(tokens) \in Nat /\ StreamOK
  BY <1>1, PushedFacts, TokenExists DEF Inv
<1>3. /\ GoodReader(open) /\ Len(open.excerpts) = 1 /\ Begin(open) = i
      /\ open.accumulatedStartIndex = i + 1 /\ at = i + 1
  BY <1>1, <1>2, StartReads
<1> HIDE DEF open
<1>4. CASE FailHere(Pushed, open, 1, "MalformedInlineTag")
  BY <1>1, <1>2, <1>3, <1>4, FailHereInv DEF MessageId
<1>5. CASE KindAt(at) = "AtSign"
  <2>1. at \in Nat /\ at + 1 <= Len(tokens)
    BY <1>2, <1>3, <1>5, TokenExists
  <2>2. end \in at + 1 .. Len(tokens)
    <3>1. at + 1 \in 0 .. Len(tokens)
      BY <1>2, <2>1
    <3> QED  BY <1>2, <3>1, SkipStops
  <2> HIDE DEF end
  <2>3. end \in open.currentIndex .. Len(tokens) /\ open.accumulatedStartIndex < end
    BY <1>2, <1>3, <2>1, <2>2
  <2>4. Advances(open, named) /\ Len(named.excerpts) = Len(open.excerpts) + 1
    BY <1>2, <1>3, <2>3, ReadAndExtract
  <2>5. CASE failure # NoFailure /\ Fail(Pushed, open, 2, failure[1])
    <3>1. IsFailure(failure)
      <4>1. at \in 0 .. Len(tokens) /\ end \in at .. Len(tokens) + 1 /\ end \in 0 .. Len(tokens)
        BY <1>2, <2>1, <2>2
      <4>2. /\ IsFailure(FailureSince("MalformedInlineTag", at, end))
            /\ IsFailure(FailureSince("MalformedTagName", at, end))
            /\ IsFailure(FailureAt("CharactersAfterInlineTag", end))
            /\ IsFailure(NoFailure)
        BY <1>2, <4>1, FailureIsGood DEF MessageId, IsFailure
      <4> QED  BY <4>2
    <3> HIDE DEF failure
    <3>2. failure[1] \in GoodMessage
      BY <2>5, <3>1, FailureFacts
    <3>3. Begin(open) + 2 <= Len(tokens)
      BY <1>2, <1>3, <2>1
    <3> QED  BY <1>1, <1>2, <1>3, <2>5, <3>2, <3>3, FailInv
  <2>6. CASE nodes' = Pushed /\ reader' = r /\ pc' = "InlineTag" /\ log' = log
    <3>1. GoodReader(named)
      BY <2>4 DEF Advances
    <3> HIDE DEF named
    <3>2. Advances(named, r)
      BY <1>2, <3>1, SpacingAdvances
    <3> HIDE DEF r
    <3>3. GoodReader(r) /\ Begin(r) = i /\ Len(r.excerpts) >= 2
      <4>1. Len(named.excerpts) = 2
        BY <1>3, <2>4
      <4> QED  BY <1>3, <2>4, <3>2, <4>1 DEF Advances
    <3>4. r.excerpts # <<>>
      BY <1>2, <3>3, ReaderFacts
    <3>5. PointOK(pc', reader', rest')
      BY <2>6, <3>3, <3>4 DEF PointOK, EmptyPoints
    <3>6. log' \in Seq(GoodMessage) /\ rest' \in RestType /\ pc' \in Points
      BY <1>1, <2>6 DEF Inv, Points
    <3> QED  BY <1>1, <1>2, <2>6, <3>3, <3>5, <3>6, ContinueInv
  <2> QED  BY <1>1, <1>4, <2>5, <2>6
<1> QED  BY <1>1, <1>4, <1>5

\* "{" and "@name" are two excerpts, so there are two tokens for an error to take.
LEMMA InlineTagFacts ==
  ASSUME Inv, pc = "InlineTag"
  PROVE  /\ Begin(reader) + 2 <= reader.accumulatedStartIndex
         /\ Begin(reader) + 2 <= Len(tokens)
         /\ Begin(reader) + 1 < reader.excerpts[2][2]
         /\ reader.excerpts[2][2] \in Nat
         /\ reader.excerpts[2][2] <= reader.accumulatedStartIndex
         /\ 2 \in 1 .. Len(reader.excerpts)
<1>1. /\ StreamOK /\ GoodReader(reader) /\ Len(reader.excerpts) >= 2 /\ Len(reader.excerpts) \in Nat
      /\ reader.accumulatedStartIndex \in 0 .. Len(tokens) /\ Len(tokens) \in Nat
      /\ reader.excerpts # <<>>
  BY BegunFacts DEF Inv, PointOK
<1>2. 1 \in 1 .. Len(reader.excerpts) /\ 2 \in 1 .. Len(reader.excerpts)
  BY <1>1
<1>3. /\ reader.excerpts[1][1] \in Nat /\ reader.excerpts[1][2] \in Nat
      /\ reader.excerpts[2][1] \in Nat /\ reader.excerpts[2][2] \in Nat
      /\ reader.excerpts[1][1] < reader.excerpts[1][2]
      /\ reader.excerpts[2][1] < reader.excerpts[2][2]
      /\ reader.excerpts[2][2] <= reader.accumulatedStartIndex
      /\ Begin(reader) = reader.excerpts[1][1]
  BY <1>1, <1>2, ReaderFacts
<1>4. reader.excerpts[2][1] = reader.excerpts[1][2]
  BY <1>2 DEF Inv, GoodReader, ExcerptOK
<1> QED  BY <1>1, <1>2, <1>3, <1>4

\* The content of a tag is read token by token.
LEMMA ReadInlineTagInv ==
  ASSUME Inv, ReadInlineTag
  PROVE  Inv' /\ Keeps(nodes, nodes')
<1> DEFINE i == reader.currentIndex
<1>1. /\ pc = "InlineTag" /\ UNCHANGED <<input, nodes, log, tree, rest, pc>>
      /\ \/ KindAt(i) # "EndOfInput" /\ reader' = ReadTo(reader, i + 1)
         \/ KindAt(i + 1) \in PunctuationKinds /\ reader' = ReadTo(reader, i + 2)
  BY DEF ReadInlineTag, Peek, PeekAfter, ReadTokens
<1>2. StreamOK /\ GoodReader(reader) /\ i \in 0 .. Len(tokens) /\ Len(tokens) \in Nat
      /\ Keeps(nodes, nodes)
  BY <1>1, BegunFacts
<1>3. PICK j \in i .. Len(tokens) : reader' = ReadTo(reader, j)
  <2>1. CASE KindAt(i) # "EndOfInput" /\ reader' = ReadTo(reader, i + 1)
    <3>1. i + 1 \in i .. Len(tokens)
      BY <1>2, <2>1, TokenExists
    <3> QED  BY <2>1, <3>1
  <2>2. CASE KindAt(i + 1) \in PunctuationKinds /\ reader' = ReadTo(reader, i + 2)
    <3>1. KindAt(i + 1) # "EndOfInput" /\ i + 1 \in Nat
      BY <1>2, <2>2 DEF PunctuationKinds
    <3>2. (i + 1) + 1 <= Len(tokens)
      BY <3>1, TokenExists
    <3>3. i + 2 \in i .. Len(tokens)
      BY <1>2, <3>2
    <3> QED  BY <2>2, <3>3
  <2> QED  BY <1>1, <2>1, <2>2
<1>4. Advances(reader, reader') /\ reader'.excerpts = reader.excerpts
  BY <1>2, <1>3, ReadToAdvances
<1>5. GoodReader(reader') /\ NodesOK(nodes, Begin(reader'))
  BY <1>1, <1>4, BegunFacts
<1>6. PointOK(pc', reader', rest')
  BY <1>1, <1>4 DEF Inv, PointOK, EmptyPoints
<1>7. log' \in Seq(GoodMessage) /\ rest' \in RestType /\ pc' \in Points /\ nodes' = nodes
  BY <1>1 DEF Inv
<1> QED  BY <1>1, <1>2, <1>5, <1>6, <1>7, ContinueInv

\* A tag that ends in the wrong place fails from its brace on.
LEMMA RejectInlineTagInv ==
  ASSUME Inv, RejectInlineTag
  PROVE  Inv' /\ Keeps(nodes, nodes')
<1> DEFINE i == reader.currentIndex
<1>1. /\ pc = "InlineTag" /\ UNCHANGED <<input, tree, rest>>
      /\ \/ FailHere(nodes, reader, 2, "InlineTagMissingRightBrace")
         \/ /\ KindAt(i) = "Backslash"
            /\ Fail(nodes, reader, 2, FailureAt("UnnecessaryBackslash", i + 1)[1])
         \/ Fail(nodes, reader, 2, FailureAt("InlineTagUnescapedBrace", i)[1])
  BY DEF RejectInlineTag, Peek
<1>2. StreamOK /\ i \in 0 .. Len(tokens) /\ Len(tokens) \in Nat /\ Begin(reader) + 2 <= Len(tokens)
  BY <1>1, BegunFacts, InlineTagFacts
<1>3. ASSUME NEW id \in MessageId, NEW k \in 0 .. Len(tokens)
      PROVE  FailureAt(id, k)[1] \in GoodMessage
  <2>1. k \in Nat /\ k + 1 \in k + 1 .. Len(tokens) + 1
    BY <1>2
  <2>2. Message(id, k, k + 1) \in GoodMessage
    BY <1>2, <2>1, MessageIsGood
  <2> QED  BY <2>2 DEF FailureAt
<1>4. CASE FailHere(nodes, reader, 2, "InlineTagMissingRightBrace")
  BY <1>1, <1>2, <1>4, FailBegun DEF MessageId
<1>5. CASE /\ KindAt(i) = "Backslash"
           /\ Fail(nodes, reader, 2, FailureAt("UnnecessaryBackslash", i + 1)[1])
  <2>1. i + 1 \in 0 .. Len(tokens)
    BY <1>2, <1>5, TokenExists
  <2>2. FailureAt("UnnecessaryBackslash", i + 1)[1] \in GoodMessage
    BY <1>3, <2>1 DEF MessageId
  <2> QED  BY <1>1, <1>2, <1>5, <2>2, FailBegun
<1>6. CASE Fail(nodes, reader, 2, FailureAt("InlineTagUnescapedBrace", i)[1])
  <2>1. FailureAt("InlineTagUnescapedBrace", i)[1] \in GoodMessage
    BY <1>2, <1>3 DEF MessageId
  <2> QED  BY <1>1, <1>2, <1>6, <2>1, FailBegun
<1> QED  BY <1>1, <1>4, <1>5, <1>6

\* The messages of an inline tag that is closed are about its name.
LEMMA InlineTagMessages ==
  ASSUME Inv, pc = "InlineTag", NEW r, Advances(reader, r), NEW tag, NEW e, e \in BOOLEAN
  PROVE  (IF e THEN FailureAt("EmbeddedSyntax", Begin(reader) + 2) ELSE <<>>)
           \o TagMessages(tag, TRUE, Begin(reader) + 1, r.excerpts[2][2]) \in Seq(GoodMessage)
<1> DEFINE m == IF e THEN FailureAt("EmbeddedSyntax", Begin(reader) + 2) ELSE <<>>
           from == Begin(reader) + 1
           to == r.excerpts[2][2]
<1>1. /\ StreamOK /\ Len(tokens) \in Nat /\ Begin(reader) \in Nat
      /\ Begin(reader) + 2 <= Len(tokens)
      /\ from < reader.excerpts[2][2] /\ reader.excerpts[2][2] \in Nat
      /\ reader.excerpts[2][2] <= Len(tokens) /\ 2 \in 1 .. Len(reader.excerpts)
  BY BegunFacts, InlineTagFacts
<1>2. to = reader.excerpts[2][2]
  BY <1>1 DEF Advances
<1>3. from \in Nat /\ to \in from + 1 .. Len(tokens) + 1
  BY <1>1, <1>2
<1>4. Begin(reader) + 2 \in 0 .. Len(tokens)
  BY <1>1
<1> HIDE DEF from, to
<1>5. TagMessages(tag, TRUE, from, to) \in Seq(GoodMessage)
  BY <1>1, <1>3, TagMessagesAreGood
<1>6. m \in Seq(GoodMessage)
  <2>1. FailureAt("EmbeddedSyntax", Begin(reader) + 2) \in Seq(GoodMessage)
    BY <1>1, <1>4, FailureIsGood, FailureFacts DEF MessageId
  <2> QED  BY <2>1, EmptySeq
<1> HIDE DEF m
<1> QED  BY <1>5, <1>6, ConcatProperties DEF m, from, to

\* A closed tag is a node, or an error if its content or a second {@inheritDoc} is one.
LEMMA CloseInlineTagInv ==
  ASSUME Inv, CloseInlineTag
  PROVE  Inv' /\ Keeps(nodes, nodes')
<1> DEFINE i == reader.currentIndex
           content == TryExtract(reader)
           r == Extract(ReadTokens(content, 1))
           name == Marker(reader) + 2
           tag == TextAt(name)
           messages(kind) ==
             (IF kind = "InlineTag" /\ tag \in {"inheritDoc", "link"}
                THEN FailureAt("EmbeddedSyntax", name) ELSE <<>>)
             \o TagMessages(tag, TRUE, name - 1, r.excerpts[2][2])
           again == Extract(ReadTo(Backtrack(r, Marker(r), 0), r.currentIndex))
           extra == Message("ExtraInheritDocTag", Marker(r), r.currentIndex)
<1>1. /\ pc = "InlineTag" /\ KindAt(i) # "EndOfInput"
      /\ UNCHANGED <<input, currentSection, rest>>
  BY DEF CloseInlineTag, Peek
<1>2. PICK kind \in EmbeddedResults(tag, content # reader) :
        \/ /\ Place(nodes, "ErrorText", again, FALSE)
           /\ log' = log \o messages(kind) \o <<extra>>
           /\ docComment' = docComment
        \/ /\ \E linkText \in BOOLEAN : Place(nodes, kind, r, linkText)
           /\ log' = log \o messages(kind)
           /\ docComment' \in {[docComment EXCEPT !.inheritDocTag = Len(nodes) + 1], docComment}
  BY DEF CloseInlineTag
<1>3. /\ StreamOK /\ GoodReader(reader) /\ reader.excerpts # <<>>
      /\ NodesOK(nodes, Begin(reader)) /\ Keeps(nodes, nodes)
      /\ i \in 0 .. Len(tokens) /\ Len(tokens) \in Nat /\ i + 1 <= Len(tokens)
      /\ Begin(reader) \in Nat
  BY <1>1, BegunFacts, TokenExists
<1>4. Advances(reader, content) /\ content.currentIndex = i /\ content.accumulatedStartIndex = i
  BY <1>3, TryExtractAdvances
<1>5. GoodReader(content)
  BY <1>4 DEF Advances
<1> HIDE DEF content
<1>6. Advances(content, r) /\ r.currentIndex = i + 1 /\ r.accumulatedStartIndex = i + 1
  <2>1. i + 1 \in content.currentIndex .. Len(tokens) /\ content.accumulatedStartIndex < i + 1
    BY <1>3, <1>4
  <2>2. r = Extract(ReadTo(content, i + 1))
    BY <1>4 DEF ReadTokens
  <2> HIDE DEF r
  <2> QED  BY <1>3, <1>5, <2>1, <2>2, ReadAndExtract
<1> HIDE DEF r
<1>7. Advances(reader, r)
  BY <1>3, <1>4, <1>6, AdvancesTransitive
<1>8. /\ GoodReader(r) /\ r.excerpts # <<>> /\ Begin(r) = Begin(reader)
      /\ NodesOK(nodes, Begin(r))
  BY <1>1, <1>7, BegunFacts
<1>9. kind \in NodeKind
  BY DEF EmbeddedResults, NodeKind
<1>10. messages(kind) \in Seq(GoodMessage)
  <2>1. name = Begin(reader) + 2 /\ name - 1 = Begin(reader) + 1
    BY <1>3, MarkerIsBegin
  <2> DEFINE e == kind = "InlineTag" /\ tag \in {"inheritDoc", "link"}
  <2> HIDE DEF tag
  <2>2. e \in BOOLEAN
    OBVIOUS
  <2> HIDE DEF e
  <2>3. (IF e THEN FailureAt("EmbeddedSyntax", Begin(reader) + 2) ELSE <<>>)
          \o TagMessages(tag, TRUE, Begin(reader) + 1, r.excerpts[2][2]) \in Seq(GoodMessage)
    BY <1>1, <1>7, <2>2, InlineTagMessages
  <2> QED  BY <2>1, <2>3 DEF e
<1>11. log \in Seq(GoodMessage) /\ rest' = rest /\ tokens' = tokens
       /\ currentSection' \in Nat /\ Len(nodes) \in Nat /\ TreeOK(docComment, Len(nodes))
  BY <1>1 DEF Inv, input, NodesOK
<1> DEFINE m == Len(nodes) + 1
<1>12. TreeOK(docComment, m) /\ TreeOK([docComment EXCEPT !.inheritDocTag = m], m)
  <2>1. m \in Nat /\ Len(nodes) < m
    BY <1>11
  <2> HIDE DEF m
  <2> QED  BY <1>11, <2>1, TreeExtends
<1> HIDE DEF messages
<1>13. CASE /\ Place(nodes, "ErrorText", again, FALSE)
            /\ log' = log \o messages(kind) \o <<extra>>
            /\ docComment' = docComment
  <2>1. Begin(reader) < i + 1 /\ i + 1 \in Nat
    BY <1>3, <1>6, <1>8, ReaderFacts
  <2>2. i + 1 \in Begin(reader) + 1 .. Len(tokens)
    BY <1>3, <2>1
  <2>3. again = Extract(ReadTo(Backtrack(r, Begin(r), 0), i + 1))
    BY <1>6, MarkerIsBegin
  <2> HIDE DEF again
  <2>4. /\ GoodReader(again) /\ again.excerpts = <<<<Begin(r), i + 1>>>>
        /\ Begin(again) = Begin(r) /\ again.currentIndex = i + 1
        /\ again.accumulatedStartIndex = i + 1
    BY <1>3, <1>8, <2>2, <2>3, BacktrackToBegin
  <2>5. again.excerpts # <<>> /\ NodesOK(nodes, Begin(again)) /\ "ErrorText" \in NodeKind
    BY <1>8, <2>4 DEF NodeKind
  <2>6. extra \in GoodMessage
    <3>1. i + 1 \in Begin(reader) + 1 .. Len(tokens) + 1
      BY <1>3, <2>2
    <3>2. Message("ExtraInheritDocTag", Begin(reader), i + 1) \in GoodMessage
      BY <1>3, <3>1, MessageIsGood DEF MessageId
    <3> QED  BY <1>6, <1>8, <3>2, MarkerIsBegin
  <2> HIDE DEF extra
  <2>7. log' \in Seq(GoodMessage)
    BY <1>10, <1>11, <1>13, <2>6, Singleton, ConcatProperties
  <2> QED  BY <1>3, <1>11, <1>12, <1>13, <2>4, <2>5, <2>7, PlaceInv
<1>14. CASE /\ \E linkText \in BOOLEAN : Place(nodes, kind, r, linkText)
            /\ log' = log \o messages(kind)
            /\ docComment' \in {[docComment EXCEPT !.inheritDocTag = m], docComment}
  <2>1. PICK linkText \in BOOLEAN : Place(nodes, kind, r, linkText)
    BY <1>14
  <2>2. log' \in Seq(GoodMessage)
    BY <1>10, <1>11, <1>14, ConcatProperties
  <2>3. r.accumulatedStartIndex = r.currentIndex /\ TreeOK(docComment', Len(nodes) + 1)
    BY <1>6, <1>12, <1>14
  <2> QED  BY <1>3, <1>8, <1>9, <1>11, <2>1, <2>2, <2>3, PlaceInv
<1> QED  BY <1>2, <1>13, <1>14

\* The tag that throws has been read up to its closing brace.
LEMMA ThrowInInlineTagInv ==
  ASSUME Inv, ThrowInInlineTag
  PROVE  Inv' /\ Keeps(nodes, nodes') /\ LabelIsMissing'
<1> DEFINE i == reader.currentIndex
           m == Begin(reader)
           content == TryExtract(reader)
           r == Extract(ReadTokens(content, 1))
<1>1. /\ pc = "InlineTag" /\ pc' = "Thrown" /\ KindAt(i) # "EndOfInput"
      /\ UNCHANGED <<input, nodes, tree, rest>> /\ reader' = r
      /\ log' = log \o FailureAt("EmbeddedSyntax", Marker(reader) + 2)
      /\ TextAt(Marker(reader) + 2) \in {"inheritDoc", "link"}
      /\ LacksALabel(reader.accumulatedStartIndex, i)
  BY DEF ThrowInInlineTag, Peek
<1>2. /\ StreamOK /\ GoodReader(reader) /\ reader.excerpts # <<>>
      /\ Keeps(nodes, nodes) /\ m + 2 <= reader.accumulatedStartIndex
      /\ i \in 0 .. Len(tokens) /\ Len(tokens) \in Nat /\ i + 1 <= Len(tokens)
      /\ reader.accumulatedStartIndex \in 0 .. Len(tokens)
      /\ m \in Nat /\ m + 2 <= Len(tokens) /\ Marker(reader) = m
  BY <1>1, BegunFacts, InlineTagFacts, TokenExists, MarkerIsBegin
<1>3. Advances(reader, content) /\ content.currentIndex = i /\ content.accumulatedStartIndex = i
  BY <1>2, TryExtractAdvances
<1>4. GoodReader(content)
  BY <1>3 DEF Advances
<1> HIDE DEF content
<1>5. Advances(content, r) /\ r.currentIndex = i + 1 /\ r.accumulatedStartIndex = i + 1
  <2>1. i + 1 \in content.currentIndex .. Len(tokens) /\ content.accumulatedStartIndex < i + 1
    BY <1>2, <1>3
  <2>2. r = Extract(ReadTo(content, i + 1))
    BY <1>3 DEF ReadTokens
  <2> HIDE DEF r
  <2> QED  BY <1>2, <1>4, <2>1, <2>2, ReadAndExtract
<1> HIDE DEF r
<1>6. Advances(reader, r)
  BY <1>2, <1>3, <1>5, AdvancesTransitive
<1>7. /\ GoodReader(r) /\ r.excerpts # <<>> /\ Begin(r) = m /\ NodesOK(nodes, Begin(r))
  BY <1>1, <1>6, BegunFacts
<1>8. FailureAt("EmbeddedSyntax", m + 2) = <<Message("EmbeddedSyntax", m + 2, (m + 2) + 1)>>
      /\ FailureAt("EmbeddedSyntax", m + 2) \in Seq(GoodMessage)
  <2>1. m + 2 \in 0 .. Len(tokens)
    BY <1>2
  <2> QED  BY <1>2, <2>1, FailureIsGood, FailureFacts DEF MessageId, FailureAt
<1>9. log \in Seq(GoodMessage) /\ log' \in Seq(GoodMessage)
  BY <1>1, <1>2, <1>8, ConcatProperties DEF Inv
<1>10. Inv' /\ Keeps(nodes, nodes')
  <2>1. PointOK(pc', reader', rest') /\ rest' \in RestType /\ pc' \in Points /\ nodes' = nodes
    BY <1>1, <1>7 DEF Inv, PointOK, Points, EmptyPoints
  <2> QED  BY <1>1, <1>2, <1>7, <1>9, <2>1, ContinueInv
<1>11. log' # <<>> /\ log'[Len(log')].id = "EmbeddedSyntax"
  <2>1. /\ log' = log \o <<Message("EmbeddedSyntax", m + 2, (m + 2) + 1)>>
        /\ Len(log) \in Nat /\ log \in Seq(GoodMessage)
    <3>1. log' = log \o <<Message("EmbeddedSyntax", m + 2, (m + 2) + 1)>>
      BY <1>1, <1>2, <1>8
    <3>2. Len(log) \in Nat
      BY <1>9
    <3> QED  BY <1>9, <3>1, <3>2
  <2>2. Len(log') = Len(log) + 1 /\ log'[Len(log) + 1] = Message("EmbeddedSyntax", m + 2, (m + 2) + 1)
    BY <2>1
  <2> QED  BY <2>1, <2>2 DEF Message
<1>12. LacksALabel(m + 2, (i + 1) - 1)
  <2>1. PICK j \in reader.accumulatedStartIndex .. i - 1 :
          /\ KindAt(j) = "Colon" /\ \A k \in j + 1 .. i - 1 : KindAt(k) \in {"Spacing", "Newline"}
          /\ \E k \in reader.accumulatedStartIndex .. j - 1 : KindAt(k) = "LeftParenthesis"
    BY <1>1 DEF LacksALabel
  <2>2. PICK k \in reader.accumulatedStartIndex .. j - 1 : KindAt(k) = "LeftParenthesis"
    BY <2>1
  <2>3. j \in m + 2 .. ((i + 1) - 1) - 1 /\ k \in m + 2 .. j - 1 /\ (i + 1) - 1 = i
    BY <1>2, <2>1, <2>2
  <2> QED  BY <2>1, <2>2, <2>3 DEF LacksALabel
<1>13. LabelIsMissing'
  <2>1. Marker(reader') = m /\ reader'.currentIndex = i + 1 /\ tokens' = tokens
    BY <1>1, <1>5, <1>7, MarkerIsBegin DEF input
  <2> QED  BY <1>1, <1>2, <1>11, <1>12, <2>1 DEF LabelIsMissing, LacksALabel, TextAt, KindAt
<1> QED  BY <1>10, <1>13

-----------------------------------------------------------------------------
\* HTML

\* A failure of the name of an element or attribute is about the name, or where it should be.
LEMMA HtmlNameFacts ==
  ASSUME StreamOK, NEW r, GoodReader(r)
  PROVE  /\ Advances(r, HtmlName(r).reader)
         /\ HtmlName(r).reader.accumulatedStartIndex = HtmlName(r).reader.currentIndex
         /\ IsFailure(HtmlName(r).failure)
<1> DEFINE S == {"Hyphen", "Period", "AsciiWord"}
           from == r.currentIndex
           j == Skip(from, S)
           read == ReadTo(r, j)
           named == TryExtract(read)
           to == named.currentIndex
           failure == HtmlName(r).failure
<1>1. from \in 0 .. Len(tokens) /\ Len(tokens) \in Nat
  BY ReaderFacts
<1>2. j \in from .. Len(tokens)
  BY <1>1, SkipStops
<1>3. HtmlName(r).reader = named
  BY DEF HtmlName, ReadWhile
<1> HIDE DEF j
<1>4. Advances(r, read) /\ read.currentIndex = j
  BY <1>2, ReadToAdvances
<1>5. GoodReader(read)
  BY <1>4 DEF Advances
<1> HIDE DEF read
<1>6. Advances(read, named) /\ named.currentIndex = j /\ named.accumulatedStartIndex = j
  BY <1>4, <1>5, TryExtractAdvances
<1>7. Advances(r, named)
  BY <1>4, <1>6, AdvancesTransitive
<1>8. \/ failure = FailureAt("MalformedHtmlName", from)
      \/ failure = FailureSince("MalformedHtmlName", from, to)
      \/ failure = FailureAt("UnsupportedHtmlElementName", from)
      \/ failure = NoFailure
  BY <1>3 DEF HtmlName
<1> HIDE DEF failure, named
<1>9. to \in from .. Len(tokens) + 1
  BY <1>1, <1>2, <1>6
<1>10. /\ IsFailure(FailureAt("MalformedHtmlName", from))
       /\ IsFailure(FailureSince("MalformedHtmlName", from, to))
       /\ IsFailure(FailureAt("UnsupportedHtmlElementName", from))
       /\ IsFailure(NoFailure)
  BY <1>1, <1>9, FailureIsGood DEF MessageId, IsFailure
<1>11. IsFailure(failure)
  BY <1>8, <1>10
<1> QED  BY <1>3, <1>6, <1>7, <1>11 DEF failure

\* A quoted string is read up to its closing quote, and is not empty.
LEMMA HtmlStringFacts ==
  ASSUME StreamOK, NEW r, GoodReader(r)
  PROVE  /\ IsFailure(HtmlStringFailure(r))
         /\ HtmlStringFailure(r) = NoFailure =>
              HtmlString(r).currentIndex \in r.currentIndex + 1 .. Len(tokens)
<1> DEFINE i == r.currentIndex
           S == {Peek(r), "Newline"}
           quote == SkipTo(i + 1, S)
           end == HtmlString(r).currentIndex
           failure == HtmlStringFailure(r)
<1>1. /\ r \in Reader /\ i \in 0 .. Len(tokens) /\ Len(tokens) \in Nat
  BY ReaderFacts
<1>2. end = quote + 1
  BY <1>1 DEF HtmlString, ReadTo, Reader
<1>3. CASE Peek(r) \notin {"DoubleQuote", "SingleQuote"}
  <2>1. failure = FailureAt("HtmlTagMissingString", i)
    BY <1>3 DEF HtmlStringFailure
  <2>2. failure # NoFailure
    BY <2>1 DEF FailureAt, NoFailure
  <2> QED  BY <1>1, <2>1, <2>2, FailureIsGood DEF MessageId
<1>4. CASE Peek(r) \in {"DoubleQuote", "SingleQuote"}
  <2>1. i + 1 \in 0 .. Len(tokens)
    <3>1. KindAt(i) # "EndOfInput"
      BY <1>4 DEF Peek
    <3>2. i < Len(tokens)
      BY <1>1, <3>1, TokenFacts
    <3> QED  BY <1>1, <3>2
  <2>2. quote \in i + 1 .. Len(tokens)
    BY <2>1, SkipToStops
  <2> HIDE DEF quote, end
  <2>3. end - 1 = quote /\ end \in Nat
    BY <1>1, <1>2, <2>2
  <2>4. CASE KindAt(quote) # Peek(r)
    <3>1. failure = FailureAt("HtmlStringMissingQuote", i)
      BY <1>4, <2>3, <2>4 DEF HtmlStringFailure, end
    <3>2. failure # NoFailure
      BY <3>1 DEF FailureAt, NoFailure
    <3> QED  BY <1>1, <3>1, <3>2, FailureIsGood DEF MessageId
  <2>5. CASE KindAt(quote) = Peek(r)
    <3>1. end \in i + 1 .. Len(tokens)
      <4>1. KindAt(quote) # "EndOfInput" /\ quote \in Nat
        BY <1>1, <1>4, <2>2, <2>5
      <4>2. quote < Len(tokens)
        BY <4>1, TokenFacts
      <4> QED  BY <1>1, <1>2, <2>2, <4>2
    <3>2. failure = FailureAt("TextAfterHtmlString", end) \/ failure = NoFailure
      BY <1>4, <2>3, <2>5 DEF HtmlStringFailure, end
    <3>3. end \in 0 .. Len(tokens)
      BY <1>1, <3>1
    <3>4. IsFailure(FailureAt("TextAfterHtmlString", end)) /\ IsFailure(NoFailure)
      BY <3>3, FailureIsGood DEF MessageId, IsFailure
    <3> HIDE DEF failure
    <3> QED  BY <3>1, <3>2, <3>4 DEF failure, end
  <2> QED  BY <2>4, <2>5
<1> QED  BY <1>3, <1>4

\* A construct goes on with spacing, which is extracted.
LEMMA BegunGoesOn ==
  ASSUME Inv, pc \notin {"Main", "Done"}, NEW r, Advances(reader, r)
  PROVE  LET s == TryReadSpacingAndNewlines(r) IN
         /\ GoodReader(s) /\ s.excerpts # <<>> /\ NodesOK(nodes, Begin(s))
         /\ s.accumulatedStartIndex = s.currentIndex
<1> DEFINE s == TryReadSpacingAndNewlines(r)
<1>1. StreamOK /\ GoodReader(reader) /\ GoodReader(r)
  BY BegunFacts
<1>2. Advances(r, s) /\ s.accumulatedStartIndex = s.currentIndex
  BY <1>1, SpacingAdvances
<1> HIDE DEF s
<1>3. Advances(reader, s)
  BY <1>1, <1>2, AdvancesTransitive
<1>4. GoodReader(s) /\ s.excerpts # <<>> /\ NodesOK(nodes, Begin(s))
  BY <1>3, BegunFacts
<1> QED  BY <1>2, <1>4 DEF s

\* A less-than sign and a name begin a start tag, or fail.
LEMMA OpenHtmlStartTagInv ==
  ASSUME Inv, OpenHtmlStartTag
  PROVE  Inv' /\ Keeps(nodes, nodes')
<1> DEFINE i == reader.currentIndex
           open == Extract(ReadTokens(Start, 1))
           name == HtmlName(open)
           r == TryReadSpacingAndNewlines(name.reader)
<1>1. /\ pc = "Main" /\ KindAt(i) # "EndOfInput" /\ UNCHANGED <<input, tree, rest>>
      /\ \/ name.failure # NoFailure /\ Fail(Pushed, name.reader, 1, name.failure[1])
         \/ nodes' = Pushed /\ reader' = r /\ pc' = "HtmlAttributes" /\ log' = log
  BY DEF OpenHtmlStartTag, Peek
<1>2. /\ NodesOK(Pushed, i) /\ Keeps(nodes, Pushed) /\ i \in Nat /\ i + 1 <= Len(tokens)
      /\ Len(tokens) \in Nat /\ StreamOK
  BY <1>1, PushedFacts, TokenExists DEF Inv
<1>3. GoodReader(open) /\ open.excerpts # <<>> /\ Begin(open) = i /\ Len(open.excerpts) = 1
  BY <1>1, <1>2, StartReads
<1> HIDE DEF open
<1>4. Advances(open, name.reader) /\ IsFailure(name.failure)
  BY <1>2, <1>3, HtmlNameFacts
<1>5. GoodReader(name.reader) /\ Begin(name.reader) = i
  BY <1>3, <1>4 DEF Advances
<1> HIDE DEF name
<1>6. CASE name.failure # NoFailure /\ Fail(Pushed, name.reader, 1, name.failure[1])
  <2>1. name.failure[1] \in GoodMessage
    BY <1>4, <1>6, FailureFacts
  <2> QED  BY <1>1, <1>2, <1>5, <1>6, <2>1, FailInv
<1>7. CASE nodes' = Pushed /\ reader' = r /\ pc' = "HtmlAttributes" /\ log' = log
  <2>1. Advances(name.reader, r) /\ r.accumulatedStartIndex = r.currentIndex
    BY <1>2, <1>5, SpacingAdvances
  <2> HIDE DEF r
  <2>2. GoodReader(r) /\ Begin(r) = i /\ Len(r.excerpts) >= 1 /\ Len(r.excerpts) \in Nat
    <3>1. GoodReader(r) /\ Begin(r) = i
      BY <1>5, <2>1 DEF Advances
    <3>2. Len(r.excerpts) \in Nat /\ Len(name.reader.excerpts) \in Nat
      BY <1>2, <1>5, <3>1, ReaderFacts
    <3>3. Len(open.excerpts) <= Len(name.reader.excerpts)
          /\ Len(name.reader.excerpts) <= Len(r.excerpts)
      BY <1>4, <2>1 DEF Advances
    <3> QED  BY <1>3, <3>1, <3>2, <3>3
  <2>3. r.excerpts # <<>>
    BY <1>2, <2>2, ReaderFacts
  <2>4. PointOK(pc', reader', rest')
    BY <1>7, <2>1, <2>3 DEF PointOK, EmptyPoints, IsEmpty
  <2>5. log' \in Seq(GoodMessage) /\ rest' \in RestType /\ pc' \in Points
    BY <1>1, <1>7 DEF Inv, Points
  <2> QED  BY <1>1, <1>2, <1>7, <2>2, <2>4, <2>5, ContinueInv
<1> QED  BY <1>1, <1>6, <1>7

\* A part of a start tag is complete, and the next part follows.
LEMMA HtmlGoesOn ==
  ASSUME Inv, pc \notin {"Main", "Done"}, NEW r, Advances(reader, r),
         reader' = TryReadSpacingAndNewlines(r),
         pc' \in {"HtmlAttributes", "HtmlEquals", "HtmlValue"},
         UNCHANGED <<nodes, log>>, UNCHANGED <<input, tree, rest>>
  PROVE  Inv' /\ Keeps(nodes, nodes')
<1>1. /\ GoodReader(reader') /\ reader'.excerpts # <<>> /\ NodesOK(nodes, Begin(reader'))
      /\ reader'.accumulatedStartIndex = reader'.currentIndex
  BY BegunGoesOn
<1>2. PointOK(pc', reader', rest')
  BY <1>1 DEF PointOK, EmptyPoints, IsEmpty
<1>3. log' \in Seq(GoodMessage) /\ rest' \in RestType /\ pc' \in Points /\ nodes' = nodes
  BY DEF Inv, Points
<1> QED  BY <1>1, <1>2, <1>3, BegunFacts, ContinueInv

\* One token is enough for an error in a start tag: "<".
LEMMA HtmlFails ==
  ASSUME Inv, pc \notin {"Main", "Done"}, UNCHANGED <<input, tree, rest>>,
         NEW f, IsFailure(f), f # NoFailure, Fail(nodes, reader, 1, f[1])
  PROVE  Inv' /\ Keeps(nodes, nodes')
<1>1. f[1] \in GoodMessage
  BY FailureFacts
<1>2. Begin(reader) + 1 <= Len(tokens)
  BY BegunFacts
<1> QED  BY <1>1, <1>2, FailBegun

\* The name of an attribute
LEMMA HtmlAttributeNameInv ==
  ASSUME Inv, HtmlAttributeName
  PROVE  Inv' /\ Keeps(nodes, nodes')
<1> DEFINE name == HtmlName(reader)
<1>1. /\ pc = "HtmlAttributes" /\ UNCHANGED <<input, tree, rest>>
      /\ \/ name.failure # NoFailure /\ Fail(nodes, reader, 1, name.failure[1])
         \/ /\ reader' = TryReadSpacingAndNewlines(name.reader) /\ pc' = "HtmlEquals"
            /\ UNCHANGED <<nodes, log>>
  BY DEF HtmlAttributeName
<1>2. Advances(reader, name.reader) /\ IsFailure(name.failure)
  BY HtmlNameFacts DEF Inv
<1> HIDE DEF name
<1> QED  BY <1>1, <1>2, HtmlFails, HtmlGoesOn

\* ... its equals sign
LEMMA HtmlEqualsInv ==
  ASSUME Inv, HtmlEquals
  PROVE  Inv' /\ Keeps(nodes, nodes')
<1> DEFINE i == reader.currentIndex
           r == Extract(ReadTo(reader, i + 1))
           failure == FailureAt("HtmlTagMissingEquals", i)
<1>1. /\ pc = "HtmlEquals" /\ UNCHANGED <<input, tree, rest>>
      /\ \/ Fail(nodes, reader, 1, failure[1])
         \/ /\ KindAt(i) # "EndOfInput"
            /\ reader' = TryReadSpacingAndNewlines(r) /\ pc' = "HtmlValue"
            /\ UNCHANGED <<nodes, log>>
  BY DEF HtmlEquals, Peek, ReadTokens
<1>2. /\ StreamOK /\ GoodReader(reader) /\ i \in 0 .. Len(tokens) /\ Len(tokens) \in Nat
      /\ reader.accumulatedStartIndex = i
  BY <1>1, BegunFacts DEF Inv, PointOK, EmptyPoints, IsEmpty
<1>3. IsFailure(failure) /\ failure # NoFailure
  BY <1>2, FailureIsGood DEF MessageId, FailureAt, NoFailure
<1>4. ASSUME KindAt(i) # "EndOfInput" PROVE Advances(reader, r)
  <2>1. i + 1 \in i .. Len(tokens) /\ reader.accumulatedStartIndex < i + 1
    BY <1>2, <1>4, TokenExists
  <2> QED  BY <1>2, <2>1, ReadAndExtract
<1> HIDE DEF r, failure
<1> QED  BY <1>1, <1>3, <1>4, HtmlFails, HtmlGoesOn

\* ... and its value follow one another, or the tag fails.
LEMMA HtmlValueInv ==
  ASSUME Inv, HtmlValue
  PROVE  Inv' /\ Keeps(nodes, nodes')
<1> DEFINE i == reader.currentIndex
           j == HtmlString(reader).currentIndex
           r == Extract(ReadTo(reader, j))
           failure == HtmlStringFailure(reader)
<1>1. /\ pc = "HtmlValue" /\ UNCHANGED <<input, tree, rest>>
      /\ \/ failure # NoFailure /\ Fail(nodes, reader, 1, failure[1])
         \/ /\ failure = NoFailure
            /\ reader' = TryReadSpacingAndNewlines(Extract(HtmlString(reader)))
            /\ pc' = "HtmlAttributes" /\ UNCHANGED <<nodes, log>>
  BY DEF HtmlValue
<1>2. /\ StreamOK /\ GoodReader(reader) /\ reader \in Reader
      /\ i \in 0 .. Len(tokens) /\ Len(tokens) \in Nat /\ reader.accumulatedStartIndex = i
  BY <1>1, BegunFacts DEF Inv, PointOK, EmptyPoints, IsEmpty, GoodReader
<1>3. /\ IsFailure(failure)
      /\ failure = NoFailure => j \in i + 1 .. Len(tokens)
  BY <1>2, HtmlStringFacts
<1>4. HtmlString(reader) = ReadTo(reader, j)
  BY <1>2 DEF HtmlString, ReadTo, Reader
<1> HIDE DEF failure, j
<1>5. ASSUME failure = NoFailure PROVE Advances(reader, r)
  <2>1. j \in i .. Len(tokens) /\ reader.accumulatedStartIndex < j
    BY <1>2, <1>3, <1>5
  <2> QED  BY <1>2, <2>1, ReadAndExtract
<1>6. Extract(HtmlString(reader)) = r
  BY <1>4
<1> HIDE DEF r
<1> QED  BY <1>1, <1>3, <1>5, <1>6, HtmlFails, HtmlGoesOn

\* A start tag is closed, or fails.
LEMMA CloseHtmlStartTagInv ==
  ASSUME Inv, CloseHtmlStartTag
  PROVE  Inv' /\ Keeps(nodes, nodes')
<1> DEFINE i == reader.currentIndex
           slashed == IF Peek(reader) = "Slash" THEN ReadTokens(reader, 1) ELSE reader
           j == slashed.currentIndex
           r == Extract(ReadTokens(slashed, 1))
           failure == FailureSince("HtmlTagMissingGreaterThan", i, j)
<1>1. /\ pc = "HtmlAttributes" /\ UNCHANGED <<input, tree, rest>>
      /\ \/ /\ KindAt(j) # "EndOfInput" /\ Place(nodes, "HtmlStartTag", r, FALSE) /\ log' = log
         \/ Fail(nodes, reader, 1, failure[1])
  BY DEF CloseHtmlStartTag, Peek
<1>2. /\ StreamOK /\ GoodReader(reader) /\ Keeps(nodes, nodes) /\ NodesOK(nodes, Begin(reader))
      /\ i \in 0 .. Len(tokens) /\ Len(tokens) \in Nat
      /\ reader.accumulatedStartIndex = i
  BY <1>1, BegunFacts DEF Inv, PointOK, EmptyPoints, IsEmpty
<1>3. /\ Advances(reader, slashed) /\ slashed.accumulatedStartIndex = i
      /\ j \in i .. Len(tokens)
  <2>1. CASE Peek(reader) = "Slash"
    <3>1. i + 1 \in i .. Len(tokens)
      BY <1>2, <2>1, TokenExists DEF Peek
    <3>2. slashed = ReadTo(reader, i + 1)
      BY <2>1 DEF ReadTokens
    <3> HIDE DEF slashed
    <3> QED  BY <1>2, <3>1, <3>2, ReadToAdvances
  <2>2. CASE Peek(reader) # "Slash"
    BY <1>2, <2>2, AdvancesReflexive
  <2> QED  BY <2>1, <2>2
<1>4. GoodReader(slashed)
  BY <1>3 DEF Advances
<1> HIDE DEF slashed
<1>5. CASE Fail(nodes, reader, 1, failure[1])
  <2>1. j \in i .. Len(tokens) + 1
    BY <1>2, <1>3
  <2>2. IsFailure(failure)
    BY <1>2, <2>1, FailureIsGood DEF MessageId
  <2>3. failure # NoFailure
    BY DEF FailureSince, NoFailure
  <2> HIDE DEF failure
  <2> QED  BY <1>1, <1>5, <2>2, <2>3, HtmlFails
<1>6. CASE KindAt(j) # "EndOfInput" /\ Place(nodes, "HtmlStartTag", r, FALSE) /\ log' = log
  <2>1. j \in Nat /\ j + 1 \in j .. Len(tokens) /\ slashed.accumulatedStartIndex < j + 1
    BY <1>2, <1>3, <1>6, TokenExists
  <2>2. r = Extract(ReadTo(slashed, j + 1))
    BY DEF ReadTokens
  <2> HIDE DEF r
  <2>3. Advances(slashed, r) /\ r.accumulatedStartIndex = r.currentIndex
    BY <1>2, <1>4, <2>1, <2>2, ReadAndExtract
  <2>4. Advances(reader, r)
    BY <1>2, <1>3, <2>3, AdvancesTransitive
  <2>5. GoodReader(r) /\ r.excerpts # <<>> /\ NodesOK(nodes, Begin(r))
    BY <1>1, <2>4, BegunFacts
  <2>6. log' \in Seq(GoodMessage) /\ "HtmlStartTag" \in NodeKind
    BY <1>6 DEF Inv, NodeKind
  <2> QED  BY <1>1, <1>2, <1>6, <2>3, <2>5, <2>6, TreeKept, PlaceInv
<1> QED  BY <1>1, <1>5, <1>6

\* An end tag is read in one step.
LEMMA HtmlEndTagInv ==
  ASSUME Inv, HtmlEndTag
  PROVE  Inv' /\ Keeps(nodes, nodes')
<1> DEFINE i == reader.currentIndex
           open == Extract(ReadTokens(Start, 2))
           name == HtmlName(open)
           r == TryReadSpacingAndNewlines(name.reader)
           missing == FailureAt("HtmlTagMissingGreaterThan", r.currentIndex)
           failure == IF name.failure # NoFailure THEN name.failure
                      ELSE IF Peek(r) # "GreaterThan" THEN missing ELSE NoFailure
           closed == Extract(ReadTokens(r, 1))
<1>1. /\ pc = "Main" /\ KindAt(i) # "EndOfInput" /\ KindAt(i + 1) # "EndOfInput"
      /\ UNCHANGED <<input, tree, rest>>
      /\ \/ failure # NoFailure /\ Fail(Pushed, Start, 1, failure[1])
         \/ /\ failure = NoFailure /\ Place(Pushed, "HtmlEndTag", closed, FALSE) /\ log' = log
  BY DEF HtmlEndTag, Peek, PeekAfter
<1>2. /\ NodesOK(Pushed, i) /\ Keeps(nodes, Pushed) /\ i \in Nat /\ i + 1 <= Len(tokens)
      /\ Len(tokens) \in Nat /\ StreamOK
  BY <1>1, PushedFacts, TokenExists DEF Inv
<1>3. i + 2 <= Len(tokens)
  <2>1. i + 1 \in Nat
    BY <1>2
  <2>2. (i + 1) + 1 <= Len(tokens)
    BY <1>1, <2>1, TokenExists
  <2> QED  BY <1>2, <2>2
<1>4. GoodReader(open) /\ open.excerpts # <<>> /\ Begin(open) = i
  BY <1>1, <1>2, <1>3, StartReads
<1> HIDE DEF open
<1>5. Advances(open, name.reader) /\ IsFailure(name.failure)
  BY <1>2, <1>4, HtmlNameFacts
<1>6. GoodReader(name.reader) /\ Begin(name.reader) = i
  BY <1>4, <1>5 DEF Advances
<1> HIDE DEF name
<1>7. Advances(name.reader, r) /\ r.accumulatedStartIndex = r.currentIndex
  BY <1>2, <1>6, SpacingAdvances
<1>8. GoodReader(r) /\ Begin(r) = i
  BY <1>6, <1>7 DEF Advances
<1> HIDE DEF r
<1>9. r.currentIndex \in 0 .. Len(tokens)
  BY <1>2, <1>8, ReaderFacts
<1>10. CASE failure # NoFailure /\ Fail(Pushed, Start, 1, failure[1])
  <2>1. IsFailure(missing)
    BY <1>2, <1>9, FailureIsGood DEF MessageId
  <2> HIDE DEF missing
  <2>2. IsFailure(failure)
    BY <1>5, <2>1 DEF IsFailure
  <2> HIDE DEF failure
  <2>3. failure[1] \in GoodMessage
    BY <1>10, <2>2, FailureFacts
  <2> QED  BY <1>1, <1>2, <1>10, <2>3, FailAtStart
<1>11. CASE failure = NoFailure /\ Place(Pushed, "HtmlEndTag", closed, FALSE) /\ log' = log
  <2> DEFINE j == r.currentIndex + 1
  <2>1. KindAt(r.currentIndex) # "EndOfInput"
    BY <1>11 DEF Peek, FailureAt, NoFailure
  <2>2. j \in r.currentIndex .. Len(tokens) /\ r.accumulatedStartIndex < j
    BY <1>2, <1>7, <1>9, <2>1, TokenExists
  <2>3. closed = Extract(ReadTo(r, j))
    BY DEF ReadTokens
  <2> HIDE DEF closed, j
  <2>4. /\ Advances(r, closed) /\ closed.accumulatedStartIndex = closed.currentIndex
        /\ closed.excerpts # <<>>
    BY <1>2, <1>8, <2>2, <2>3, ReadAndExtract
  <2>5. GoodReader(closed) /\ Begin(closed) = i
    BY <1>8, <2>4 DEF Advances
  <2>6. log' \in Seq(GoodMessage) /\ "HtmlEndTag" \in NodeKind
    BY <1>11 DEF Inv, NodeKind
  <2> QED  BY <1>1, <1>2, <1>11, <2>4, <2>5, <2>6, TreeKept, PlaceInv
<1> QED  BY <1>1, <1>10, <1>11
-----------------------------------------------------------------------------
\* Fenced code

\* Three backticks at the start of a line begin a fence, or fail.
LEMMA OpenFenceInv ==
  ASSUME Inv, OpenFence
  PROVE  Inv' /\ Keeps(nodes, nodes')
<1> DEFINE i == reader.currentIndex
           open == Extract(ReadTokens(Start, 3))
           spacing == ReadWhile(open, {"Spacing"})
           spaced == TryExtract(spacing)
           end == SkipTo(spaced.currentIndex, {"Newline", "Backtick"})
           id == IF KindAt(end) = "Backtick" THEN "CodeFenceSpecifierSyntax"
                                             ELSE "CodeFenceMissingDelimiter"
           r == Extract(ReadTo(spaced, end + 1))
<1>1. /\ pc = "Main" /\ KindAt(i) # "EndOfInput" /\ KindAt(i + 1) # "EndOfInput"
      /\ KindAt(i + 2) # "EndOfInput" /\ UNCHANGED <<input, tree, rest>>
      /\ \/ FailHere(Pushed, Start, 3, "CodeFenceOpeningIndent")
         \/ Fail(Pushed, open, 3, FailureAt(id, end)[1])
         \/ /\ KindAt(end) = "Newline"
            /\ reader' = r /\ nodes' = Pushed /\ pc' = "FencedCode" /\ log' = log
  BY DEF OpenFence, Peek, PeekAfter, PeekAfterAfter
<1>2. /\ NodesOK(Pushed, i) /\ Keeps(nodes, Pushed) /\ i \in Nat
      /\ Len(tokens) \in Nat /\ StreamOK
  BY <1>1, PushedFacts, TokenExists DEF Inv
<1>3. i + 3 <= Len(tokens)
  <2>1. i + 2 \in Nat
    BY <1>2
  <2>2. (i + 2) + 1 <= Len(tokens)
    BY <1>1, <2>1, TokenExists
  <2> QED  BY <1>2, <2>2
<1>4. /\ GoodReader(open) /\ Len(open.excerpts) = 1 /\ Begin(open) = i
      /\ open.excerpts[1] = <<i, i + 3>> /\ open.currentIndex = i + 3
  BY <1>1, <1>3, StartReads
<1> HIDE DEF open
<1>5. Advances(open, spaced) /\ spaced.accumulatedStartIndex = spaced.currentIndex
  <2> DEFINE j == Skip(open.currentIndex, {"Spacing"})
  <2>1. open.currentIndex \in 0 .. Len(tokens)
    BY <1>2, <1>3, <1>4
  <2>2. j \in open.currentIndex .. Len(tokens)
    BY <1>2, <2>1, SkipStops
  <2>3. spacing = ReadTo(open, j)
    BY DEF ReadWhile
  <2> HIDE DEF j, spacing
  <2>4. Advances(open, spacing)
    BY <1>2, <1>4, <2>2, <2>3, ReadToAdvances
  <2>5. GoodReader(spacing)
    BY <2>4 DEF Advances
  <2>6. Advances(spacing, spaced) /\ spaced.accumulatedStartIndex = spaced.currentIndex
    BY <1>2, <2>5, TryExtractAdvances
  <2> QED  BY <1>2, <1>4, <2>4, <2>6, AdvancesTransitive
<1> HIDE DEF spaced
<1>6. GoodReader(spaced) /\ spaced.currentIndex \in 0 .. Len(tokens)
  <2>1. GoodReader(spaced)
    BY <1>5 DEF Advances
  <2> QED  BY <1>2, <2>1, ReaderFacts
<1>7. end \in spaced.currentIndex .. Len(tokens)
  BY <1>2, <1>6, SkipToStops
<1> HIDE DEF end
<1>8. CASE FailHere(Pushed, Start, 3, "CodeFenceOpeningIndent")
  BY <1>1, <1>3, <1>8, FailAtStart DEF MessageId
<1>9. CASE Fail(Pushed, open, 3, FailureAt(id, end)[1])
  <2>1. id \in MessageId /\ end \in 0 .. Len(tokens)
    BY <1>2, <1>6, <1>7 DEF MessageId
  <2> HIDE DEF id
  <2>2. IsFailure(FailureAt(id, end)) /\ FailureAt(id, end) # NoFailure
    BY <1>2, <2>1, FailureIsGood DEF FailureAt, NoFailure
  <2>3. FailureAt(id, end)[1] \in GoodMessage
    BY <2>2, FailureFacts
  <2>4. 3 \in Nat \ {0} /\ Begin(open) + 3 <= Len(tokens)
    BY <1>3, <1>4
  <2> QED  BY <1>1, <1>2, <1>4, <1>9, <2>3, <2>4, FailInv
<1>10. CASE /\ KindAt(end) = "Newline"
            /\ reader' = r /\ nodes' = Pushed /\ pc' = "FencedCode" /\ log' = log
  <2>1. end \in Nat /\ end + 1 <= Len(tokens)
    BY <1>2, <1>6, <1>7, <1>10, TokenExists
  <2>2. end + 1 \in spaced.currentIndex .. Len(tokens)
        /\ spaced.accumulatedStartIndex < end + 1
    BY <1>2, <1>5, <1>6, <1>7, <2>1
  <2>3. Advances(spaced, r) /\ r.excerpts # <<>>
    BY <1>2, <1>6, <2>2, ReadAndExtract
  <2> HIDE DEF r
  <2>4. Advances(open, r)
    BY <1>2, <1>4, <1>5, <2>3, AdvancesTransitive
  <2>5. GoodReader(r) /\ Begin(r) = i /\ r.excerpts[1] = <<i, i + 3>>
    BY <1>4, <2>4 DEF Advances
  <2>6. r.excerpts[1][2] = r.excerpts[1][1] + 3
    BY <2>5
  <2>7. PointOK(pc', reader', rest')
    BY <1>10, <2>3, <2>6 DEF PointOK, EmptyPoints
  <2>8. log' \in Seq(GoodMessage) /\ rest' \in RestType /\ pc' \in Points
    BY <1>1, <1>10 DEF Inv, Points
  <2> QED  BY <1>1, <1>2, <1>10, <2>5, <2>7, <2>8, ContinueInv
<1> QED  BY <1>1, <1>8, <1>9, <1>10

\* The line of code ends at the newline, or at the end of the comment.
LEMMA LineEndFacts ==
  ASSUME Inv, pc = "FencedCode"
  PROVE  LineEnd \in reader.currentIndex .. Len(tokens) /\ LineEnd \in 0 .. Len(tokens)
<1>1. StreamOK /\ reader.currentIndex \in 0 .. Len(tokens) /\ Len(tokens) \in Nat
  BY BegunFacts
<1>2. LineEnd \in reader.currentIndex .. Len(tokens)
  BY <1>1, SkipToStops DEF LineEnd
<1> QED  BY <1>1, <1>2

(***************************************************************************)
(* There is a number of backticks at the start of the next line, up to     *)
(* three, spacing aside, and those tokens exist.                           *)
(***************************************************************************)
LEMMA FenceFacts ==
  ASSUME Inv, pc = "FencedCode", KindAt(LineEnd) = "Newline"
  PROVE  /\ LineEnd \in reader.currentIndex .. Len(tokens)
         /\ FenceStart \in LineEnd + 1 .. Len(tokens)
         /\ Ticks \in 0 .. 3
         /\ FenceStart + Ticks \in reader.currentIndex + 1 .. Len(tokens)
         /\ \A k \in LineEnd + 1 .. FenceStart - 1 : KindAt(k) = "Spacing"
         /\ \A i \in 0 .. Ticks - 1 : KindAt(FenceStart + i) = "Backtick"
         /\ Ticks < 3 => KindAt(FenceStart + Ticks) # "Backtick"
<1> DEFINE T == {n \in 0 .. 3 : n < 3 => KindAt(FenceStart + n) # "Backtick"}
<1>1. StreamOK /\ reader.currentIndex \in 0 .. Len(tokens) /\ Len(tokens) \in Nat
  BY BegunFacts
<1>2. LineEnd \in reader.currentIndex .. Len(tokens) /\ LineEnd \in Nat
      /\ LineEnd + 1 <= Len(tokens)
  BY <1>1, LineEndFacts, TokenExists
<1>3. /\ FenceStart \in LineEnd + 1 .. Len(tokens)
      /\ \A k \in LineEnd + 1 .. FenceStart - 1 : KindAt(k) = "Spacing"
  <2>1. LineEnd + 1 \in 0 .. Len(tokens)
    BY <1>1, <1>2
  <2> QED  BY <1>1, <2>1, SkipStops DEF FenceStart
<1>4. PICK m \in T : \A k \in T : m <= k
  <2>1. T \in SUBSET Nat /\ 3 \in T
    OBVIOUS
  <2> HIDE DEF T
  <2> QED  BY <2>1, SmallestElement
<1>5. \A i \in 0 .. m - 1 : KindAt(FenceStart + i) = "Backtick"
  <2> TAKE i \in 0 .. m - 1
  <2>1. i \in 0 .. 3 /\ i < m /\ i < 3 /\ m \in Nat
    BY <1>4
  <2>2. i \notin T
    BY <1>4, <2>1
  <2> QED  BY <2>1, <2>2
<1>6. /\ Ticks \in 0 .. 3
      /\ \A i \in 0 .. Ticks - 1 : KindAt(FenceStart + i) = "Backtick"
      /\ Ticks < 3 => KindAt(FenceStart + Ticks) # "Backtick"
  <2>1. m \in 0 .. 3 /\ (m < 3 => KindAt(FenceStart + m) # "Backtick")
    BY <1>4
  <2> QED  BY <1>5, <2>1 DEF Ticks
<1>7. FenceStart + Ticks <= Len(tokens)
  <2>1. CASE Ticks = 0
    BY <1>1, <1>2, <1>3, <2>1
  <2>2. CASE Ticks # 0
    <3> DEFINE last == FenceStart + (Ticks - 1)
    <3>1. Ticks - 1 \in 0 .. Ticks - 1 /\ last \in Nat
      BY <1>1, <1>2, <1>3, <1>6, <2>2
    <3>2. KindAt(last) # "EndOfInput"
      BY <1>6, <3>1
    <3> HIDE DEF last
    <3>3. last + 1 <= Len(tokens)
      BY <3>1, <3>2, TokenExists
    <3> QED  BY <1>1, <1>2, <1>3, <1>6, <3>3 DEF last
  <2> QED  BY <2>1, <2>2
<1> QED  BY <1>1, <1>2, <1>3, <1>6, <1>7

\* A line of code
LEMMA ReadCodeInv ==
  ASSUME Inv, ReadCode
  PROVE  Inv' /\ Keeps(nodes, nodes')
<1> DEFINE j == FenceStart + Ticks
<1>1. /\ pc = "FencedCode" /\ KindAt(LineEnd) = "Newline"
      /\ reader' = ReadTo(reader, j) /\ UNCHANGED <<input, nodes, log, tree, rest, pc>>
  BY DEF ReadCode
<1>2. StreamOK /\ GoodReader(reader) /\ reader.currentIndex \in 0 .. Len(tokens)
      /\ Keeps(nodes, nodes)
  BY <1>1, BegunFacts
<1>3. j \in reader.currentIndex .. Len(tokens)
  BY <1>1, <1>2, FenceFacts
<1> HIDE DEF j
<1>4. Advances(reader, reader') /\ reader'.excerpts = reader.excerpts
  BY <1>1, <1>2, <1>3, ReadToAdvances
<1>5. GoodReader(reader') /\ NodesOK(nodes, Begin(reader'))
  BY <1>1, <1>4, BegunFacts
<1>6. PointOK(pc', reader', rest')
  BY <1>1, <1>4 DEF Inv, PointOK, EmptyPoints
<1>7. log' \in Seq(GoodMessage) /\ rest' \in RestType /\ pc' \in Points /\ nodes' = nodes
  BY <1>1 DEF Inv
<1> QED  BY <1>1, <1>2, <1>5, <1>6, <1>7, ContinueInv

\* The error takes the three backticks, which are the first excerpt.
LEMMA UnclosedFenceInv ==
  ASSUME Inv, UnclosedFence
  PROVE  Inv' /\ Keeps(nodes, nodes')
<1> DEFINE failure == FailureAt("CodeFenceMissingDelimiter", LineEnd)
<1>1. /\ pc = "FencedCode" /\ UNCHANGED <<input, tree, rest>>
      /\ Fail(nodes, reader, 3, failure[1])
  BY DEF UnclosedFence
<1>2. IsFailure(failure) /\ failure # NoFailure
  BY <1>1, LineEndFacts, FailureIsGood DEF Inv, MessageId, FailureAt, NoFailure
<1> HIDE DEF failure
<1>3. failure[1] \in GoodMessage
  BY <1>2, FailureFacts
<1>4. Begin(reader) + 3 <= Len(tokens)
  <2>1. /\ StreamOK /\ GoodReader(reader) /\ reader.excerpts # <<>>
        /\ 1 \in 1 .. Len(reader.excerpts)
        /\ reader.excerpts[1][2] = reader.excerpts[1][1] + 3
    BY <1>1, BegunFacts DEF Inv, PointOK
  <2>2. /\ reader.excerpts[1][2] <= reader.accumulatedStartIndex
        /\ reader.accumulatedStartIndex \in 0 .. reader.currentIndex
        /\ reader.currentIndex \in 0 .. Len(tokens) /\ Len(tokens) \in Nat
        /\ Begin(reader) = reader.excerpts[1][1] /\ reader.excerpts[1][1] \in Nat
    BY <2>1, ReaderFacts
  <2> QED  BY <2>1, <2>2
<1>5. 3 \in Nat \ {0}
  OBVIOUS
<1> QED  BY <1>1, <1>3, <1>4, <1>5, FailBegun

\* ... and the line that closes it
LEMMA CloseFenceInv ==
  ASSUME Inv, CloseFence
  PROVE  Inv' /\ Keeps(nodes, nodes')
<1> DEFINE j == FenceStart + 3
           code == Extract(ReadTo(reader, j))
           after == Skip(code.currentIndex, {"Spacing"})
           end == IF KindAt(after) = "Newline" THEN after + 1 ELSE after
           read == ReadTo(code, end)
           r == TryExtract(read)
           text == Visible(reader.accumulatedStartIndex, LineEnd + 1)
           m1 == IF FenceStart # LineEnd + 1
                   THEN FailureAt("CodeFenceClosingIndent", FenceStart - 1) ELSE <<>>
           m2 == IF KindAt(after) \notin {"Newline", "EndOfInput"}
                   THEN FailureAt("CodeFenceClosingSyntax", after) ELSE <<>>
<1>1. /\ pc = "FencedCode" /\ KindAt(LineEnd) = "Newline" /\ Ticks = 3
      /\ UNCHANGED <<input, tree, rest>>
      /\ Place(nodes, "FencedCode", r, text) /\ log' = log \o m1 \o m2
  BY DEF CloseFence
<1>2. /\ StreamOK /\ GoodReader(reader) /\ NodesOK(nodes, Begin(reader)) /\ Keeps(nodes, nodes)
      /\ reader.currentIndex \in 0 .. Len(tokens) /\ Len(tokens) \in Nat
      /\ reader.accumulatedStartIndex \in 0 .. reader.currentIndex
  BY <1>1, BegunFacts
<1>3. /\ LineEnd \in 0 .. Len(tokens) /\ FenceStart \in LineEnd + 1 .. Len(tokens)
      /\ j \in reader.currentIndex + 1 .. Len(tokens)
  BY <1>1, FenceFacts, LineEndFacts
<1>4. j \in reader.currentIndex .. Len(tokens) /\ reader.accumulatedStartIndex < j
  BY <1>2, <1>3
<1> HIDE DEF j
<1>5. Advances(reader, code) /\ code.currentIndex = j
  BY <1>2, <1>4, ReadAndExtract
<1>6. GoodReader(code)
  BY <1>5 DEF Advances
<1> HIDE DEF code
<1>7. /\ after \in code.currentIndex .. Len(tokens) /\ after \in 0 .. Len(tokens)
      /\ code.currentIndex \in 0 .. Len(tokens)
  <2>1. code.currentIndex \in 0 .. Len(tokens)
    BY <1>2, <1>4, <1>5
  <2>2. after \in code.currentIndex .. Len(tokens)
    BY <1>2, <2>1, SkipStops
  <2> QED  BY <1>2, <2>1, <2>2
<1> HIDE DEF after
<1>8. end \in code.currentIndex .. Len(tokens)
  <2>1. CASE KindAt(after) = "Newline"
    <3>1. after + 1 <= Len(tokens)
      BY <1>7, <2>1, TokenExists
    <3> QED  BY <1>2, <1>5, <1>7, <2>1, <3>1
  <2>2. CASE KindAt(after) # "Newline"
    BY <1>7, <2>2
  <2> QED  BY <2>1, <2>2
<1> HIDE DEF end
<1>9. Advances(code, read)
  BY <1>2, <1>6, <1>8, ReadToAdvances
<1>10. GoodReader(read)
  BY <1>9 DEF Advances
<1> HIDE DEF read
<1>11. Advances(read, r) /\ r.accumulatedStartIndex = r.currentIndex
  BY <1>2, <1>10, TryExtractAdvances
<1> HIDE DEF r
<1>12. Advances(reader, r)
  BY <1>2, <1>5, <1>6, <1>9, <1>10, <1>11, AdvancesTransitive
<1>13. GoodReader(r) /\ r.excerpts # <<>> /\ NodesOK(nodes, Begin(r))
  BY <1>1, <1>12, BegunFacts
<1>14. log' \in Seq(GoodMessage)
  <2>1. FenceStart - 1 \in 0 .. Len(tokens)
    BY <1>2, <1>3
  <2>2. /\ FailureAt("CodeFenceClosingIndent", FenceStart - 1) \in Seq(GoodMessage)
        /\ FailureAt("CodeFenceClosingSyntax", after) \in Seq(GoodMessage)
    BY <1>2, <1>7, <2>1, FailureIsGood, FailureFacts DEF MessageId
  <2>3. m1 \in Seq(GoodMessage) /\ m2 \in Seq(GoodMessage) /\ log \in Seq(GoodMessage)
    BY <2>2, EmptySeq DEF Inv
  <2> HIDE DEF m1, m2
  <2> QED  BY <1>1, <2>3, ConcatProperties
<1>15. "FencedCode" \in NodeKind /\ text \in BOOLEAN
  BY DEF NodeKind, Visible
<1> HIDE DEF text
<1> QED  BY <1>1, <1>2, <1>11, <1>13, <1>14, <1>15, TreeKept, PlaceInv
-----------------------------------------------------------------------------
\* The theorems

\* No step changes what is finished, and every step keeps the invariant.
LEMMA StepInv == Inv /\ [Next]_vars => Inv' /\ Keeps(nodes, nodes')
<1> SUFFICES ASSUME Inv, [Next]_vars PROVE Inv' /\ Keeps(nodes, nodes')
  OBVIOUS
<1>1. CASE ParseText
  BY <1>1, ReadPlainTextInv, SoftBreakInv, UnescapedDelimiterInv, BackslashEscapeInv, CodeSpanInv
     DEF ParseText
<1>2. CASE ParseBlockTag
  BY <1>2, RejectBlockTagInv, ParamTagInv, BlockTagInv, ModifierTagInv, UnrecognizedBlockTagInv
     DEF ParseBlockTag
<1>3. CASE ParseParamBlock
  BY <1>3, TryParseUnsupportedJSDocTypeInv, ParamNameInv, ReadJSDocRestInv, CloseJSDocRestInv,
     GiveUpJSDocRestInv, HyphenInv, EndOfParamInv
     DEF ParseParamBlock
<1>4. CASE ParseInlineTag
  BY <1>4, OpenInlineTagInv, ReadInlineTagInv, RejectInlineTagInv, CloseInlineTagInv,
     ThrowInInlineTagInv
     DEF ParseInlineTag
<1>5. CASE ParseHtml
  BY <1>5, OpenHtmlStartTagInv, HtmlAttributeNameInv, HtmlEqualsInv, HtmlValueInv,
     CloseHtmlStartTagInv, HtmlEndTagInv
     DEF ParseHtml
<1>6. CASE ParseFencedCode
  BY <1>6, OpenFenceInv, ReadCodeInv, UnclosedFenceInv, CloseFenceInv DEF ParseFencedCode
<1>7. CASE Finish
  BY <1>7, FinishInv
<1>8. CASE UNCHANGED vars
  <2>1. UNCHANGED <<tokens, configuration, reader, nodes, log, docComment, currentSection,
                    rest, pc>>
    BY <1>8 DEF vars
  <2>2. UNCHANGED <<input, tree>>
    BY <2>1 DEF input, tree
  <2>3. GoodReader(reader') /\ NodesOK(nodes', Begin(reader')) /\ PointOK(pc', reader', rest')
        /\ log' \in Seq(GoodMessage) /\ rest' \in RestType /\ pc' \in Points
        /\ Keeps(nodes, nodes')
    BY <2>1, KeepsReflexive DEF Inv, NodesOK
  <2> QED  BY <2>2, <2>3, ContinueInv
<1> QED
  BY <1>1, <1>2, <1>3, <1>4, <1>5, <1>6, <1>7, <1>8 DEF Next

\* What is extracted at each point of a construct, and what the nodes cover, always holds.
THEOREM InvHolds == Spec => []Inv
<1> QED  BY InitInv, StepInv, PTL DEF Spec

\* No other step throws.
LEMMA OnlyOneStepThrows == Inv /\ Next /\ pc' = "Thrown" => ThrowInInlineTag
<1>1. ParseText \/ ParseBlockTag \/ Finish => pc' # "Thrown"
  BY DEF ParseText, ReadPlainText, SoftBreak, UnescapedDelimiter, BackslashEscape, CodeSpan,
         ParseBlockTag, RejectBlockTag, ParamTag, BlockTag, ModifierTag, UnrecognizedBlockTag,
         BlockTagIs, Finish, FailHere, Fail, Place
<1>2. Inv /\ ParseParamBlock => pc' # "Thrown"
  <2>1. TryParseUnsupportedJSDocType => pc' # "Thrown"
    BY DEF TryParseUnsupportedJSDocType, TypePoints, AfterRest
  <2>2. ParamName \/ ReadJSDocRest \/ Hyphen \/ EndOfParam => pc' # "Thrown"
    BY DEF ParamName, ReadJSDocRest, Hyphen, EndOfParam, PlaceParamBlock, Place
  <2>3. Inv /\ (CloseJSDocRest \/ GiveUpJSDocRest) => pc' # "Thrown"
    BY DEF Inv, PointOK, RestType, TypePoints, CloseJSDocRest, GiveUpJSDocRest, AfterRest
  <2> QED  BY <2>1, <2>2, <2>3 DEF ParseParamBlock
<1>3. OpenInlineTag \/ ReadInlineTag \/ RejectInlineTag \/ CloseInlineTag => pc' # "Thrown"
  BY DEF OpenInlineTag, ReadInlineTag, RejectInlineTag, CloseInlineTag, FailHere, Fail, Place
<1>4. ParseHtml \/ ParseFencedCode => pc' # "Thrown"
  BY DEF ParseHtml, OpenHtmlStartTag, HtmlAttributeName, HtmlEquals, HtmlValue,
         CloseHtmlStartTag, HtmlEndTag, ParseFencedCode, OpenFence, ReadCode, UnclosedFence,
         CloseFence, FailHere, Fail, Place
<1> QED  BY <1>1, <1>2, <1>3, <1>4 DEF Next, ParseInlineTag

\* Where the parser has thrown, and only there, the label is missing.
LEMMA ThrownStep ==
  Inv /\ (pc = "Thrown" => LabelIsMissing) /\ [Next]_vars => (pc = "Thrown" => LabelIsMissing)'
<1> SUFFICES ASSUME Inv, pc = "Thrown" => LabelIsMissing, [Next]_vars, pc' = "Thrown"
             PROVE  LabelIsMissing'
  OBVIOUS
<1>1. CASE Next
  BY <1>1, OnlyOneStepThrows, ThrowInInlineTagInv
<1>2. CASE UNCHANGED vars
  BY <1>2 DEF vars, LabelIsMissing, LacksALabel, TextAt, KindAt, Marker
<1> QED  BY <1>1, <1>2

(***************************************************************************)
(* Whatever tokens the comment has, no assertion of the parser fires but   *)
(* the one of a link or {@inheritDoc} whose content ends where a label     *)
(* should be: no read past the end of the comment, no empty excerpt, no    *)
(* message about missing tokens.                                           *)
(***************************************************************************)
THEOREM OnlyMissingLabelsThrowHolds == Spec => []OnlyMissingLabelsThrow
<1>1. Init => Inv /\ (pc = "Thrown" => LabelIsMissing)
  BY InitInv DEF Init
<1>2. Inv /\ (pc = "Thrown" => LabelIsMissing) /\ [Next]_vars
        => (Inv /\ (pc = "Thrown" => LabelIsMissing))'
  BY StepInv, ThrownStep
<1> QED  BY <1>1, <1>2, InvImpliesOnlyMissingLabelsThrow, PTL DEF Spec

\* The spans of nodes that follow one another tile the tokens that they cover.
SpansOf(ns) == [k \in 1 .. Len(ns) |-> <<ns[k].from, ns[k].to>>]
\* Nodes that follow one another are what the abstract specification appends.
LEMMA SpansTile ==
  ASSUME NEW ns, NEW end, NodesOK(ns, end)
  PROVE  /\ Len(SpansOf(ns)) = Len(ns) /\ Len(ns) \in Nat
         /\ \A k \in 1 .. Len(ns) : SpansOf(ns)[k] = <<ns[k].from, ns[k].to>>
         /\ Coverage!Tile(SpansOf(ns), 0)
         /\ Coverage!Covered(SpansOf(ns)) = end
<1> DEFINE s == SpansOf(ns)
<1>1. ns \in Seq(NodeType) /\ Len(ns) \in Nat /\ (ns = <<>> <=> Len(ns) = 0)
  BY EmptySeq DEF NodesOK
<1>2. \A k \in 1 .. Len(ns) : ns[k].from \in Nat /\ ns[k].to \in Nat
  <2>1. \A k \in 1 .. Len(ns) : ns[k] \in NodeType
    BY <1>1, ElementOfSeq
  <2> QED  BY <2>1 DEF NodeType
<1>3. /\ s \in Seq(Nat \X Nat) /\ Len(s) = Len(ns)
      /\ \A k \in 1 .. Len(ns) : s[k] = <<ns[k].from, ns[k].to>>
  BY <1>1, <1>2 DEF SpansOf
<1> HIDE DEF s
<1>4. s = <<>> <=> ns = <<>>
  BY <1>1, <1>3, EmptySeq
<1>5. Coverage!Tile(s, 0)
  <2> SUFFICES ASSUME NEW k \in 1 .. Len(ns)
               PROVE  s[k][1] < s[k][2] /\ s[k][1] = IF k = 1 THEN 0 ELSE s[k - 1][2]
    BY <1>3 DEF Coverage!Tile
  <2>1. ns[k].from < ns[k].to /\ ns[k].from = IF k = 1 THEN 0 ELSE ns[k - 1].to
    BY DEF NodesOK
  <2>2. k # 1 => k - 1 \in 1 .. Len(ns)
    BY <1>1
  <2>3. \A i \in 1 .. Len(ns) : s[i][1] = ns[i].from /\ s[i][2] = ns[i].to
    BY <1>3
  <2> QED  BY <2>1, <2>2, <2>3
<1>6. Coverage!Covered(s) = end
  <2>1. CASE ns = <<>>
    BY <1>4, <2>1 DEF Coverage!Covered, NodesOK
  <2>2. CASE ns # <<>>
    <3>1. Len(ns) \in 1 .. Len(ns)
      BY <1>1, <2>2
    <3> QED  BY <1>3, <1>4, <2>2, <3>1 DEF Coverage!Covered, NodesOK
  <2> QED  BY <2>1, <2>2
<1> QED  BY <1>1, <1>3, <1>5, <1>6 DEF s

\* A finished parser takes no step.
LEMMA DoneStops == Next => pc # "Done"
<1>1. ParseText \/ ParseBlockTag \/ Finish => pc # "Done"
  BY DEF ParseText, ReadPlainText, SoftBreak, UnescapedDelimiter, BackslashEscape, CodeSpan,
         ParseBlockTag, RejectBlockTag, ParamTag, BlockTag, ModifierTag, UnrecognizedBlockTag,
         BlockTagIs, Finish
<1>2. ParseParamBlock => pc # "Done"
  BY DEF ParseParamBlock, TryParseUnsupportedJSDocType, TypePoints, ParamName, ReadJSDocRest,
         CloseJSDocRest, GiveUpJSDocRest, Hyphen, EndOfParam
<1>3. ParseInlineTag => pc # "Done"
  BY DEF ParseInlineTag, OpenInlineTag, ReadInlineTag, RejectInlineTag, CloseInlineTag,
         ThrowInInlineTag
<1>4. ParseHtml \/ ParseFencedCode => pc # "Done"
  BY DEF ParseHtml, OpenHtmlStartTag, HtmlAttributeName, HtmlEquals, HtmlValue,
         CloseHtmlStartTag, HtmlEndTag, ParseFencedCode, OpenFence, ReadCode, UnclosedFence,
         CloseFence
<1> QED  BY <1>1, <1>2, <1>3, <1>4 DEF Next

\* The comment and the configuration stay what they are.
LEMMA TokensStay == Next => tokens' = tokens
<1>1. ParseText \/ Finish => tokens' = tokens
  BY DEF ParseText, ReadPlainText, SoftBreak, UnescapedDelimiter, BackslashEscape, CodeSpan,
         Finish, input
<1>2. ParseBlockTag => tokens' = tokens
  BY DEF ParseBlockTag, RejectBlockTag, ParamTag, BlockTag, ModifierTag, UnrecognizedBlockTag,
         input
<1>3. ParseParamBlock => tokens' = tokens
  BY DEF ParseParamBlock, TryParseUnsupportedJSDocType, ParamName, ReadJSDocRest,
         CloseJSDocRest, GiveUpJSDocRest, Hyphen, EndOfParam, input
<1>4. ParseInlineTag => tokens' = tokens
  BY DEF ParseInlineTag, OpenInlineTag, ReadInlineTag, RejectInlineTag, CloseInlineTag,
         ThrowInInlineTag, input
<1>5. ParseHtml \/ ParseFencedCode => tokens' = tokens
  BY DEF ParseHtml, OpenHtmlStartTag, HtmlAttributeName, HtmlEquals, HtmlValue,
         CloseHtmlStartTag, HtmlEndTag, ParseFencedCode, OpenFence, ReadCode, UnclosedFence,
         CloseFence, input
<1> QED  BY <1>1, <1>2, <1>3, <1>4, <1>5 DEF Next

\* A step gives the next tokens to new nodes, and the last step leaves none over.
LEMMA CoverageStep ==
  ASSUME Inv, [Next]_vars
  PROVE  [Coverage!Next]_Coverage!vars
<1>1. Inv' /\ Keeps(nodes, nodes')
  BY StepInv
<1>2. NodesOK(nodes, Begin(reader)) /\ NodesOK(nodes', Begin(reader'))
  <2>1. (NodesOK(nodes, Begin(reader)))'
    BY <1>1 DEF Inv
  <2> QED  BY <2>1 DEF Inv, NodesOK, Begin
<1>3. Spans = SpansOf(nodes) /\ Spans' = SpansOf(nodes')
  BY DEF Spans, SpansOf
<1>4. /\ Len(Spans) = Len(nodes) /\ Len(nodes) \in Nat
      /\ \A k \in 1 .. Len(nodes) : Spans[k] = <<nodes[k].from, nodes[k].to>>
  BY <1>2, <1>3, SpansTile
<1>5. /\ Len(Spans') = Len(nodes') /\ Len(nodes') \in Nat
      /\ \A k \in 1 .. Len(nodes') : Spans'[k] = <<nodes'[k].from, nodes'[k].to>>
      /\ Coverage!Tile(Spans', 0)
      /\ Coverage!Covered(Spans') = Begin(reader')
  BY <1>2, <1>3, SpansTile
<1>6. CASE UNCHANGED vars
  BY <1>6 DEF vars, Spans, Coverage!vars
<1>7. CASE Next
  <2>1. pc # "Done" /\ tokens' = tokens
    BY <1>7, DoneStops, TokensStay
  <2>2. Begin(reader') <= Len(tokens) /\ Len(tokens) \in Nat
        /\ (pc' = "Done" => Begin(reader') = Len(tokens))
    <3>1. StreamOK /\ (GoodReader(reader))' /\ (PointOK(pc, reader, rest))'
      BY <1>1 DEF Inv
    <3>2. GoodReader(reader')
      BY <2>1, <3>1 DEF GoodReader, ExcerptOK, Begin
    <3>3. Begin(reader') <= Len(tokens) /\ Len(tokens) \in Nat
      BY <3>1, <3>2, ReaderFacts
    <3>4. pc' = "Done" =>
            reader'.excerpts = <<>> /\ reader'.accumulatedStartIndex = Len(tokens)
      BY <2>1, <3>1 DEF PointOK
    <3> QED  BY <3>3, <3>4 DEF Begin
  <2>3. \A k \in 1 .. Len(Spans) : Spans'[k] = Spans[k]
    BY <1>1, <1>4, <1>5 DEF Keeps
  <2>4. Coverage!Extend
    BY <1>1, <1>4, <1>5, <2>1, <2>2, <2>3 DEF Coverage!Extend, Keeps
  <2>5. CASE pc' = "Done"
    <3>1. Coverage!Finish
      BY <1>5, <2>1, <2>2, <2>4, <2>5 DEF Coverage!Finish
    <3> QED  BY <3>1 DEF Coverage!Next
  <2>6. CASE pc' # "Done"
    <3>1. Coverage!Place
      BY <2>1, <2>4, <2>6 DEF Coverage!Place
    <3> QED  BY <3>1 DEF Coverage!Next
  <2> QED  BY <2>5, <2>6
<1> QED  BY <1>6, <1>7

(***************************************************************************)
(* NodeParser implements TokenCoverage: in every step it gives the next    *)
(* tokens, and only those, to new nodes, it takes no node back, and it     *)
(* finishes only when the last token has its node.                         *)
(***************************************************************************)
THEOREM CoversTokensHolds == Spec => CoversTokens
<1>1. Init => Coverage!Init
  <2> SUFFICES ASSUME Init PROVE Coverage!Init
    OBVIOUS
  <2>1. Inv /\ nodes = <<>> /\ pc = "Main"
    BY InitInv DEF Init
  <2>2. Len(tokens) \in Nat
    BY <2>1 DEF Inv, StreamOK
  <2>3. Spans = <<>>
    <3>1. NodesOK(nodes, Begin(reader)) /\ Len(nodes) = 0
      BY <2>1, EmptySeq DEF Inv
    <3>2. Len(Spans) = 0 /\ Spans \in Seq(Nat \X Nat)
      BY <3>1 DEF Spans
    <3> QED  BY <3>2, EmptySeq
  <2> QED  BY <2>1, <2>2, <2>3 DEF Coverage!Init
<1>2. Inv /\ [Next]_vars => [Coverage!Next]_Coverage!vars
  BY CoverageStep
<1> QED  BY <1>1, <1>2, InvHolds, PTL DEF Spec, CoversTokens, Coverage!Spec
-----------------------------------------------------------------------------
\* Content and the blocks it belongs to

(***************************************************************************)
(* ContentBelongsToItsBlock says nothing of currentSection, where the next *)
(* node goes; CommentInv adds that it is the last block so far, and says   *)
(* the rest of any list of nodes, so that it can be followed through a     *)
(* step that appends two of them.                                          *)
(***************************************************************************)
Tag(n) == TextAt(n.from + 1)
Single(n) == n.kind = "Block" /\ Tag(n) \in SingleBlocks
SpecialKinds == Blocks \union {"ModifierTag", "InheritDocTag"}

KeptBlocks(ns) == {k \in 1 .. Len(ns) : ns[k].kind \in Blocks /\ ~Single(ns[k])}
SinglesOf(ns, tag) == {k \in 1 .. Len(ns) : Single(ns[k]) /\ Tag(ns[k]) = tag}
Modifiers(ns) ==
  {k \in 1 .. Len(ns) : /\ ns[k].kind = "ModifierTag"
                        /\ \A j \in 1 .. k - 1 : ~(/\ ns[j].kind = "ModifierTag"
                                                   /\ Tag(ns[j]) = Tag(ns[k]))}
InheritDocs(ns) == {k \in 1 .. Len(ns) : ns[k].kind = "InheritDocTag"}

TagsOK(ns, comment) ==
  /\ Lists(comment.blocks, KeptBlocks(ns))
  /\ \A tag \in SingleBlocks : IsLastOf(comment.singles[tag], SinglesOf(ns, tag))
  /\ Lists(comment.modifierTags, Modifiers(ns))
  /\ IsLastOf(comment.inheritDocTag, InheritDocs(ns))
  /\ \A j, k \in InheritDocs(ns) : j = k

\* b is the last block before k, or 0
IsSection(ns, k, b) ==
  /\ b \in 0 .. k - 1
  /\ b > 0 => ns[b].kind \in Blocks
  /\ \A j \in b + 1 .. k - 1 : ns[j].kind \notin Blocks
SectionsOK(ns, current) ==
  /\ IsSection(ns, Len(ns) + 1, current)
  /\ \A k \in 1 .. Len(ns) : ns[k].kind \notin Blocks => IsSection(ns, k, ns[k].section)

CommentInv == TagsOK(nodes, docComment) /\ SectionsOK(nodes, currentSection)

\* The invariant is what ContentBelongsToItsBlock asks, and more.
LEMMA CommentInvImplies == Inv /\ CommentInv => ContentBelongsToItsBlock
<1> SUFFICES ASSUME Inv, CommentInv PROVE ContentBelongsToItsBlock
  OBVIOUS
<1>1. CommentHasItsTags
  BY DEF CommentInv, TagsOK, CommentHasItsTags, NodesWhere, KeptBlocks, SinglesOf, Modifiers,
         InheritDocs, Single, Tag, IsSingleBlock, TagAt
<1>2. ASSUME NEW k \in 1 .. Len(nodes), nodes[k].kind \notin Blocks
      PROVE  nodes[k].section = LastBlockBefore(k)
  <2> DEFINE s == nodes[k].section
             P(b) == /\ b > 0 => nodes[b].kind \in Blocks
                     /\ \A j \in b + 1 .. k - 1 : nodes[j].kind \notin Blocks
  <2>1. s \in 0 .. k - 1 /\ P(s) /\ k \in Nat
    BY <1>2 DEF CommentInv, SectionsOK, IsSection
  <2> HIDE DEF s
  <2>2. ASSUME NEW b \in 0 .. k - 1, P(b) PROVE b = s
    <3>1. ~(b < s)
      <4>1. b < s => s \in b + 1 .. k - 1 /\ s > 0
        BY <2>1
      <4> QED  BY <2>1, <2>2, <4>1
    <3>2. ~(s < b)
      <4>1. s < b => b \in s + 1 .. k - 1 /\ b > 0
        BY <2>1
      <4> QED  BY <2>1, <2>2, <4>1
    <3> QED  BY <2>1, <3>1, <3>2
  <2>3. LastBlockBefore(k) = s
    BY <2>1, <2>2 DEF LastBlockBefore
  <2> QED  BY <2>3 DEF s
<1> QED  BY <1>1, <1>2 DEF ContentBelongsToItsBlock

\* At first there are no blocks.
LEMMA InitCommentInv == Init => CommentInv
<1> SUFFICES ASSUME Init PROVE CommentInv
  OBVIOUS
<1>1. /\ nodes = <<>> /\ Len(nodes) = 0 /\ docComment.blocks = <<>> /\ Len(docComment.blocks) = 0
      /\ docComment.modifierTags = <<>> /\ Len(docComment.modifierTags) = 0
      /\ docComment.inheritDocTag = 0 /\ currentSection = 0
      /\ \A tag \in SingleBlocks : docComment.singles[tag] = 0
  BY DEF Init
<1>2. /\ KeptBlocks(nodes) = {} /\ Modifiers(nodes) = {} /\ InheritDocs(nodes) = {}
      /\ \A tag \in SingleBlocks : SinglesOf(nodes, tag) = {}
  BY <1>1 DEF KeptBlocks, Modifiers, InheritDocs, SinglesOf
<1>3. TagsOK(nodes, docComment)
  BY <1>1, <1>2 DEF TagsOK, Lists, IsLastOf
<1> QED  BY <1>1, <1>3 DEF CommentInv, SectionsOK, IsSection

\* A list grows with its set, and the last of a set is what was added to it.
LEMMA ListGrows ==
  ASSUME NEW s \in Seq(Nat), NEW S, NEW m \in Nat, Lists(s, S), \A k \in S : k < m
  PROVE  Lists(Append(s, m), S \union {m})
<1> DEFINE t == Append(s, m)
<1>1. /\ Len(s) \in Nat /\ Len(t) = Len(s) + 1 /\ t[Len(s) + 1] = m
      /\ \A i \in 1 .. Len(s) : t[i] = s[i] /\ s[i] \in S /\ s[i] < m
  BY AppendProperties DEF Lists
<1> HIDE DEF t
<1>2. \A i \in 1 .. Len(t) : i = Len(s) + 1 \/ i \in 1 .. Len(s)
  BY <1>1
<1>3. \A j \in 1 .. Len(t) : t[j] \in S \union {m}
  BY <1>1, <1>2
<1>4. ASSUME NEW k \in S \union {m} PROVE \E j \in 1 .. Len(t) : t[j] = k
  <2>1. Len(s) + 1 \in 1 .. Len(t) /\ \A j \in 1 .. Len(s) : j \in 1 .. Len(t)
    BY <1>1
  <2>2. CASE k = m
    BY <1>1, <2>1, <2>2
  <2>3. CASE k # m
    <3>1. PICK j \in 1 .. Len(s) : s[j] = k
      BY <2>3 DEF Lists
    <3> QED  BY <1>1, <2>1, <3>1
  <2> QED  BY <2>2, <2>3
<1>5. ASSUME NEW i \in 1 .. Len(t), NEW j \in 1 .. Len(t), i < j PROVE t[i] < t[j]
  <2>1. i \in 1 .. Len(s)
    BY <1>1, <1>5
  <2>2. CASE j = Len(s) + 1
    BY <1>1, <2>1, <2>2
  <2>3. CASE j \in 1 .. Len(s)
    BY <1>1, <1>5, <2>1, <2>3 DEF Lists
  <2> QED  BY <1>2, <2>2, <2>3
<1> QED  BY <1>3, <1>4, <1>5 DEF Lists, t

\* A number above all others is the last of them.
LEMMA LastGrows ==
  ASSUME NEW S, NEW m \in Nat, \A k \in S : k \in Nat /\ k < m
  PROVE  IsLastOf(m, S \union {m})
<1> QED  BY DEF IsLastOf

\* One more node is in the sets that it belongs to, and changes no other.
LEMMA SetsGrow ==
  ASSUME NEW ns \in Seq(NodeType), NEW n \in NodeType
  PROVE  LET more == Append(ns, n)
             m == Len(ns) + 1
             isFirst == /\ n.kind = "ModifierTag"
                        /\ \A j \in 1 .. Len(ns) : ~(/\ ns[j].kind = "ModifierTag"
                                                     /\ Tag(ns[j]) = Tag(n))
         IN /\ IF n.kind \in Blocks /\ ~Single(n)
                 THEN KeptBlocks(more) = KeptBlocks(ns) \union {m}
                 ELSE KeptBlocks(more) = KeptBlocks(ns)
            /\ \A tag \in SingleBlocks :
                 IF Single(n) /\ Tag(n) = tag
                   THEN SinglesOf(more, tag) = SinglesOf(ns, tag) \union {m}
                   ELSE SinglesOf(more, tag) = SinglesOf(ns, tag)
            /\ IF isFirst THEN Modifiers(more) = Modifiers(ns) \union {m}
                          ELSE Modifiers(more) = Modifiers(ns)
            /\ IF n.kind = "InheritDocTag"
                 THEN InheritDocs(more) = InheritDocs(ns) \union {m}
                 ELSE InheritDocs(more) = InheritDocs(ns)
            /\ \A k \in KeptBlocks(ns) \union Modifiers(ns) \union InheritDocs(ns) :
                 k \in Nat /\ k < m
            /\ \A tag \in SingleBlocks : \A k \in SinglesOf(ns, tag) : k \in Nat /\ k < m
            /\ m \in Nat
<1> DEFINE more == Append(ns, n)
           m == Len(ns) + 1
           isFirst == /\ n.kind = "ModifierTag"
                      /\ \A j \in 1 .. Len(ns) : ~(/\ ns[j].kind = "ModifierTag"
                                                   /\ Tag(ns[j]) = Tag(n))
<1>1. /\ Len(ns) \in Nat /\ Len(more) = m /\ more[m] = n /\ m \in Nat
      /\ \A k \in 1 .. Len(ns) : more[k] = ns[k]
  BY AppendProperties
<1> HIDE DEF more
<1>2. /\ \A k : k \in 1 .. Len(more) <=> k \in 1 .. Len(ns) \/ k = m
      /\ m \notin 1 .. Len(ns)
  BY <1>1
<1>3. IF n.kind \in Blocks /\ ~Single(n) THEN KeptBlocks(more) = KeptBlocks(ns) \union {m}
                                         ELSE KeptBlocks(more) = KeptBlocks(ns)
  BY <1>1, <1>2 DEF KeptBlocks
<1>4. ASSUME NEW tag \in SingleBlocks
      PROVE  IF Single(n) /\ Tag(n) = tag
               THEN SinglesOf(more, tag) = SinglesOf(ns, tag) \union {m}
               ELSE SinglesOf(more, tag) = SinglesOf(ns, tag)
  BY <1>1, <1>2 DEF SinglesOf
<1>5. IF n.kind = "InheritDocTag" THEN InheritDocs(more) = InheritDocs(ns) \union {m}
                                  ELSE InheritDocs(more) = InheritDocs(ns)
  BY <1>1, <1>2 DEF InheritDocs
<1>6. IF isFirst THEN Modifiers(more) = Modifiers(ns) \union {m}
                 ELSE Modifiers(more) = Modifiers(ns)
  <2> DEFINE First(list, k) == \A j \in 1 .. k - 1 : ~(/\ list[j].kind = "ModifierTag"
                                                       /\ Tag(list[j]) = Tag(list[k]))
  <2>1. ASSUME NEW k \in 1 .. Len(ns) PROVE First(more, k) <=> First(ns, k)
    <3>1. \A j \in 1 .. k - 1 : j \in 1 .. Len(ns)
      BY <1>1
    <3> QED  BY <1>1, <3>1
  <2>2. First(more, m) <=> \A j \in 1 .. Len(ns) : ~(/\ ns[j].kind = "ModifierTag"
                                                     /\ Tag(ns[j]) = Tag(n))
    <3>1. m - 1 = Len(ns)
      BY <1>1
    <3> QED  BY <1>1, <3>1
  <2>3. /\ Modifiers(more) = {k \in 1 .. Len(more) : more[k].kind = "ModifierTag" /\ First(more, k)}
        /\ Modifiers(ns) = {k \in 1 .. Len(ns) : ns[k].kind = "ModifierTag" /\ First(ns, k)}
    BY DEF Modifiers
  <2> HIDE DEF First
  <2> QED  BY <1>1, <1>2, <2>1, <2>2, <2>3
<1>7. /\ \A k \in KeptBlocks(ns) \union Modifiers(ns) \union InheritDocs(ns) :
           k \in 1 .. Len(ns)
      /\ \A tag \in SingleBlocks : \A k \in SinglesOf(ns, tag) : k \in 1 .. Len(ns)
  BY DEF KeptBlocks, Modifiers, InheritDocs, SinglesOf
<1>8. \A k \in 1 .. Len(ns) : k \in Nat /\ k < m
  BY <1>1
<1> QED  BY <1>1, <1>3, <1>4, <1>5, <1>6, <1>7, <1>8 DEF more
CommentType ==
  [singles : [SingleBlocks -> Nat], blocks : Seq(Nat), modifierTags : Seq(Nat),
   inheritDocTag : Nat]

\* How the comment refers to one more node, of each kind
LEMMA TagsGrow ==
  ASSUME NEW ns \in Seq(NodeType), NEW n \in NodeType, NEW c \in CommentType, TagsOK(ns, c),
         NEW more, more = Append(ns, n), NEW m, m = Len(ns) + 1
  PROVE  /\ n.kind \notin SpecialKinds => TagsOK(more, c)
         /\ Single(n) => TagsOK(more, [c EXCEPT !.singles[Tag(n)] = m])
         /\ n.kind \in Blocks /\ ~Single(n) =>
              TagsOK(more, [c EXCEPT !.blocks = Append(@, m)])
         /\ /\ n.kind = "ModifierTag"
            /\ \E k \in 1 .. Len(c.modifierTags) : Tag(ns[c.modifierTags[k]]) = Tag(n)
            => TagsOK(more, c)
         /\ /\ n.kind = "ModifierTag"
            /\ ~\E k \in 1 .. Len(c.modifierTags) : Tag(ns[c.modifierTags[k]]) = Tag(n)
            => TagsOK(more, [c EXCEPT !.modifierTags = Append(@, m)])
         /\ n.kind = "InheritDocTag" /\ c.inheritDocTag = 0 =>
              TagsOK(more, [c EXCEPT !.inheritDocTag = m])
<1> DEFINE isKept == n.kind \in Blocks /\ ~Single(n)
           isFirst == /\ n.kind = "ModifierTag"
                      /\ \A j \in 1 .. Len(ns) : ~(/\ ns[j].kind = "ModifierTag"
                                                   /\ Tag(ns[j]) = Tag(n))
           isKnown == \E k \in 1 .. Len(c.modifierTags) : Tag(ns[c.modifierTags[k]]) = Tag(n)
<1>1. /\ IF isKept THEN KeptBlocks(more) = KeptBlocks(ns) \union {m}
                   ELSE KeptBlocks(more) = KeptBlocks(ns)
      /\ \A tag \in SingleBlocks :
           IF Single(n) /\ Tag(n) = tag
             THEN SinglesOf(more, tag) = SinglesOf(ns, tag) \union {m}
             ELSE SinglesOf(more, tag) = SinglesOf(ns, tag)
      /\ IF isFirst THEN Modifiers(more) = Modifiers(ns) \union {m}
                    ELSE Modifiers(more) = Modifiers(ns)
      /\ IF n.kind = "InheritDocTag" THEN InheritDocs(more) = InheritDocs(ns) \union {m}
                                     ELSE InheritDocs(more) = InheritDocs(ns)
      /\ \A k \in KeptBlocks(ns) \union Modifiers(ns) \union InheritDocs(ns) :
           k \in Nat /\ k < m
      /\ \A tag \in SingleBlocks : \A k \in SinglesOf(ns, tag) : k \in Nat /\ k < m
      /\ m \in Nat
  BY SetsGrow
<1>2. /\ c.singles \in [SingleBlocks -> Nat] /\ c.blocks \in Seq(Nat)
      /\ c.modifierTags \in Seq(Nat) /\ c.inheritDocTag \in Nat
      /\ Lists(c.blocks, KeptBlocks(ns))
      /\ \A tag \in SingleBlocks : IsLastOf(c.singles[tag], SinglesOf(ns, tag))
      /\ Lists(c.modifierTags, Modifiers(ns))
      /\ IsLastOf(c.inheritDocTag, InheritDocs(ns))
      /\ \A j, k \in InheritDocs(ns) : j = k
  BY DEF CommentType, TagsOK

\* A modifier is known exactly when the set has a node with its tag already
<1>3. isKnown <=> \E j \in 1 .. Len(ns) : ns[j].kind = "ModifierTag" /\ Tag(ns[j]) = Tag(n)
  <2>1. ASSUME isKnown
        PROVE  \E j \in 1 .. Len(ns) : ns[j].kind = "ModifierTag" /\ Tag(ns[j]) = Tag(n)
    <3>1. PICK k \in 1 .. Len(c.modifierTags) : Tag(ns[c.modifierTags[k]]) = Tag(n)
      BY <2>1
    <3>2. c.modifierTags[k] \in Modifiers(ns)
      BY <1>2, <3>1 DEF Lists
    <3> QED  BY <3>1, <3>2 DEF Modifiers
  <2>2. ASSUME NEW j \in 1 .. Len(ns), ns[j].kind = "ModifierTag", Tag(ns[j]) = Tag(n)
        PROVE  isKnown
    <3> DEFINE T == {i \in 1 .. Len(ns) : ns[i].kind = "ModifierTag" /\ Tag(ns[i]) = Tag(n)}
    <3>1. T \in SUBSET Nat /\ j \in T
      BY <2>2
    <3>2. PICK i \in T : \A k \in T : i <= k
      BY <3>1, SmallestElement
    <3>3. i \in 1 .. Len(ns) /\ Len(ns) \in Nat
      BY <3>2
    <3>4. \A k \in 1 .. i - 1 : k \in 1 .. Len(ns) /\ ~(i <= k)
      BY <3>3
    <3>5. i \in Modifiers(ns)
      BY <3>2, <3>4 DEF Modifiers
    <3>6. PICK k \in 1 .. Len(c.modifierTags) : c.modifierTags[k] = i
      BY <1>2, <3>5 DEF Lists
    <3> QED  BY <3>2, <3>6
  <2> QED  BY <2>1, <2>2
<1> HIDE DEF isKnown
<1>4. Blocks = {"Block", "ParamBlock"} /\ (Single(n) => n.kind = "Block")
      /\ (Single(n) => Tag(n) \in SingleBlocks)
      /\ SpecialKinds = {"Block", "ParamBlock", "ModifierTag", "InheritDocTag"}
  BY DEF Blocks, Single, SpecialKinds
<1>5. ASSUME n.kind \notin SpecialKinds \/ (n.kind = "ModifierTag" /\ isKnown)
      PROVE  TagsOK(more, c)
  <2>1. ~isKept /\ ~Single(n) /\ ~isFirst /\ n.kind # "InheritDocTag"
    BY <1>3, <1>4, <1>5
  <2>2. /\ KeptBlocks(more) = KeptBlocks(ns) /\ Modifiers(more) = Modifiers(ns)
        /\ InheritDocs(more) = InheritDocs(ns)
        /\ \A tag \in SingleBlocks : SinglesOf(more, tag) = SinglesOf(ns, tag)
    BY <1>1, <2>1
  <2> QED  BY <1>2, <2>2 DEF TagsOK
<1>6. ASSUME Single(n) PROVE TagsOK(more, [c EXCEPT !.singles[Tag(n)] = m])
  <2> DEFINE d == [c EXCEPT !.singles[Tag(n)] = m]
  <2>1. /\ d.blocks = c.blocks /\ d.modifierTags = c.modifierTags
        /\ d.inheritDocTag = c.inheritDocTag
        /\ \A tag \in SingleBlocks :
             d.singles[tag] = IF tag = Tag(n) THEN m ELSE c.singles[tag]
    BY <1>2 DEF CommentType
  <2> HIDE DEF d
  <2>2. /\ KeptBlocks(more) = KeptBlocks(ns) /\ Modifiers(more) = Modifiers(ns)
        /\ InheritDocs(more) = InheritDocs(ns)
    BY <1>1, <1>4, <1>6
  <2>3. ASSUME NEW tag \in SingleBlocks
        PROVE  IsLastOf(d.singles[tag], SinglesOf(more, tag))
    <3>1. CASE tag = Tag(n)
      <4>1. SinglesOf(more, tag) = SinglesOf(ns, tag) \union {m}
        BY <1>1, <1>6, <3>1
      <4>2. \A k \in SinglesOf(ns, tag) : k \in Nat /\ k < m
        BY <1>1
      <4>3. IsLastOf(m, SinglesOf(ns, tag) \union {m})
        BY <1>1, <4>2, LastGrows
      <4> QED  BY <2>1, <3>1, <4>1, <4>3
    <3>2. CASE tag # Tag(n)
      <4>1. SinglesOf(more, tag) = SinglesOf(ns, tag)
        BY <1>1, <3>2
      <4> QED  BY <1>2, <2>1, <3>2, <4>1
    <3> QED  BY <3>1, <3>2
  <2>4. TagsOK(more, d)
    BY <1>2, <2>1, <2>2, <2>3 DEF TagsOK
  <2> QED  BY <2>4 DEF d
<1>7. ASSUME n.kind \in Blocks, ~Single(n)
      PROVE  TagsOK(more, [c EXCEPT !.blocks = Append(@, m)])
  <2> DEFINE d == [c EXCEPT !.blocks = Append(@, m)]
  <2>1. /\ d.blocks = Append(c.blocks, m) /\ d.modifierTags = c.modifierTags
        /\ d.inheritDocTag = c.inheritDocTag /\ d.singles = c.singles
    BY <1>2 DEF CommentType
  <2> HIDE DEF d
  <2>2. /\ KeptBlocks(more) = KeptBlocks(ns) \union {m} /\ Modifiers(more) = Modifiers(ns)
        /\ InheritDocs(more) = InheritDocs(ns)
        /\ \A tag \in SingleBlocks : SinglesOf(more, tag) = SinglesOf(ns, tag)
    BY <1>1, <1>4, <1>7
  <2>3. Lists(d.blocks, KeptBlocks(more))
    <3>1. \A k \in KeptBlocks(ns) : k < m
      BY <1>1
    <3>2. Lists(Append(c.blocks, m), KeptBlocks(ns) \union {m})
      BY <1>1, <1>2, <3>1, ListGrows
    <3> QED  BY <2>1, <2>2, <3>2
  <2>4. TagsOK(more, d)
    BY <1>2, <2>1, <2>2, <2>3 DEF TagsOK
  <2> QED  BY <2>4 DEF d
<1>8. ASSUME n.kind = "ModifierTag", ~isKnown
      PROVE  TagsOK(more, [c EXCEPT !.modifierTags = Append(@, m)])
  <2> DEFINE d == [c EXCEPT !.modifierTags = Append(@, m)]
  <2>1. /\ d.modifierTags = Append(c.modifierTags, m) /\ d.blocks = c.blocks
        /\ d.inheritDocTag = c.inheritDocTag /\ d.singles = c.singles
    BY <1>2 DEF CommentType
  <2> HIDE DEF d
  <2>2. isFirst
    BY <1>3, <1>8
  <2>3. /\ KeptBlocks(more) = KeptBlocks(ns) /\ Modifiers(more) = Modifiers(ns) \union {m}
        /\ InheritDocs(more) = InheritDocs(ns)
        /\ \A tag \in SingleBlocks : SinglesOf(more, tag) = SinglesOf(ns, tag)
    BY <1>1, <1>4, <1>8, <2>2
  <2>4. Lists(d.modifierTags, Modifiers(more))
    <3>1. \A k \in Modifiers(ns) : k < m
      BY <1>1
    <3>2. Lists(Append(c.modifierTags, m), Modifiers(ns) \union {m})
      BY <1>1, <1>2, <3>1, ListGrows
    <3> QED  BY <2>1, <2>3, <3>2
  <2>5. TagsOK(more, d)
    BY <1>2, <2>1, <2>3, <2>4 DEF TagsOK
  <2> QED  BY <2>5 DEF d
<1>9. ASSUME n.kind = "InheritDocTag", c.inheritDocTag = 0
      PROVE  TagsOK(more, [c EXCEPT !.inheritDocTag = m])
  <2> DEFINE d == [c EXCEPT !.inheritDocTag = m]
  <2>1. /\ d.modifierTags = c.modifierTags /\ d.blocks = c.blocks
        /\ d.inheritDocTag = m /\ d.singles = c.singles
    BY <1>2 DEF CommentType
  <2> HIDE DEF d
  <2>2. InheritDocs(ns) = {}
    <3>1. \A k \in InheritDocs(ns) : k # 0
      BY DEF InheritDocs
    <3> QED  BY <1>2, <1>9, <3>1 DEF IsLastOf
  <2>3. /\ KeptBlocks(more) = KeptBlocks(ns) /\ Modifiers(more) = Modifiers(ns)
        /\ InheritDocs(more) = {m}
        /\ \A tag \in SingleBlocks : SinglesOf(more, tag) = SinglesOf(ns, tag)
    BY <1>1, <1>4, <1>9, <2>2
  <2>4. IsLastOf(d.inheritDocTag, InheritDocs(more))
        /\ \A j, k \in InheritDocs(more) : j = k
    BY <1>1, <2>1, <2>3 DEF IsLastOf
  <2>5. TagsOK(more, d)
    BY <1>2, <2>1, <2>3, <2>4 DEF TagsOK
  <2> QED  BY <2>5 DEF d
<1>10. /\ n.kind \notin SpecialKinds => TagsOK(more, c)
       /\ n.kind = "ModifierTag" /\ isKnown => TagsOK(more, c)
  BY <1>5
<1>11. n.kind = "ModifierTag" /\ ~isKnown =>
         TagsOK(more, [c EXCEPT !.modifierTags = Append(@, m)])
  BY <1>8
<1>12. /\ Single(n) => TagsOK(more, [c EXCEPT !.singles[Tag(n)] = m])
       /\ n.kind \in Blocks /\ ~Single(n) => TagsOK(more, [c EXCEPT !.blocks = Append(@, m)])
  BY <1>6, <1>7
<1>13. n.kind = "InheritDocTag" /\ c.inheritDocTag = 0 =>
         TagsOK(more, [c EXCEPT !.inheritDocTag = m])
  BY <1>9
<1> QED  BY <1>10, <1>11, <1>12, <1>13, Zenon DEF isKnown

\* One more node in the section that is being filled, or a block with a section of its own
LEMMA SectionsGrow ==
  ASSUME NEW ns \in Seq(NodeType), NEW n \in NodeType, NEW current, SectionsOK(ns, current),
         n.section = current
  PROVE  SectionsOK(Append(ns, n), IF n.kind \in Blocks THEN Len(ns) + 1 ELSE current)
<1> DEFINE more == Append(ns, n)
           m == Len(ns) + 1
           next == IF n.kind \in Blocks THEN m ELSE current
<1>1. /\ Len(ns) \in Nat /\ Len(more) = m /\ more[m] = n /\ m \in Nat
      /\ \A k \in 1 .. Len(ns) : more[k] = ns[k]
  BY AppendProperties
<1> HIDE DEF more
<1>2. \A k \in 1 .. Len(more) : k = m \/ k \in 1 .. Len(ns)
  BY <1>1
<1>3. ASSUME NEW k \in 1 .. m, NEW b, IsSection(ns, k, b) PROVE IsSection(more, k, b)
  <2>1. b \in 0 .. k - 1 /\ \A j \in b + 1 .. k - 1 : j \in 1 .. Len(ns)
    BY <1>1, <1>3 DEF IsSection
  <2>2. b > 0 => b \in 1 .. Len(ns)
    BY <1>1, <2>1
  <2> QED  BY <1>1, <1>3, <2>1, <2>2 DEF IsSection
<1>4. IsSection(ns, m, current) /\ IsSection(more, m, current)
  BY <1>1, <1>3 DEF SectionsOK
<1>5. IsSection(more, m + 1, next)
  <2>1. CASE n.kind \in Blocks
    BY <1>1, <2>1 DEF IsSection
  <2>2. CASE n.kind \notin Blocks
    <3>1. /\ current \in 0 .. m - 1 /\ (current > 0 => more[current].kind \in Blocks)
          /\ \A j \in current + 1 .. m - 1 : more[j].kind \notin Blocks
      BY <1>4 DEF IsSection
    <3>2. \A j \in current + 1 .. m : j = m \/ j \in current + 1 .. m - 1
      BY <1>1, <3>1
    <3>3. (m + 1) - 1 = m /\ current \in 0 .. m
      BY <1>1, <3>1
    <3> QED  BY <1>1, <2>2, <3>1, <3>2, <3>3 DEF IsSection
  <2> QED  BY <2>1, <2>2
<1>6. ASSUME NEW k \in 1 .. Len(more), more[k].kind \notin Blocks
      PROVE  IsSection(more, k, more[k].section)
  <2>1. CASE k = m
    BY <1>1, <1>4, <2>1
  <2>2. CASE k \in 1 .. Len(ns)
    <3>1. IsSection(ns, k, ns[k].section) /\ k \in 1 .. m
      BY <1>1, <1>6, <2>2 DEF SectionsOK
    <3> QED  BY <1>1, <1>3, <2>2, <3>1
  <2> QED  BY <1>2, <2>1, <2>2
<1> QED  BY <1>1, <1>5, <1>6 DEF SectionsOK, more

\* The last element of a sequence that something is appended to, whatever it is
LEMMA AppendLast ==
  ASSUME NEW S, NEW s \in Seq(S), NEW e, NEW T, Append(s, e) \in Seq(T)
  PROVE  e \in T
<1>1. s \in Seq(S \union {e})
  BY SeqMonotonic
<1>2. /\ Append(s, e)[Len(s) + 1] = e /\ Len(Append(s, e)) = Len(s) + 1 /\ Len(s) \in Nat
  BY <1>1, AppendProperties
<1>3. Len(s) + 1 \in 1 .. Len(Append(s, e))
  BY <1>2
<1> QED  BY <1>2, <1>3, ElementOfSeq

\* What a construct's node follows: the nodes so far, or those and the plain text before it
IsPreceding(before) == before = nodes \/ (pc = "Main" /\ before = Pushed)
Content(n) == n.kind \notin SpecialKinds /\ n.section = currentSection

\* A step that appends content to the section that is being filled, and no more
AppendsContent ==
  /\ UNCHANGED <<input, tree>>
  /\ \E before : /\ IsPreceding(before)
                 /\ nodes' = before \/ \E n : nodes' = Append(before, n) /\ Content(n)

\* The nodes before a construct satisfy the invariant.
LEMMA PrecedingOK ==
  ASSUME Inv, CommentInv, NEW before, IsPreceding(before)
  PROVE  /\ before \in Seq(NodeType) /\ docComment \in CommentType
         /\ TagsOK(before, docComment) /\ SectionsOK(before, currentSection)
         /\ Keeps(nodes, before) /\ nodes \in Seq(NodeType)
<1>1. nodes \in Seq(NodeType) /\ docComment \in CommentType /\ Keeps(nodes, nodes)
  BY KeepsReflexive DEF Inv, NodesOK, TreeOK, CommentType
<1>2. CASE before = nodes
  BY <1>1, <1>2 DEF CommentInv
<1>3. CASE pc = "Main" /\ before = Pushed /\ ~IsEmpty(reader)
  <2> DEFINE n == NewNode("PlainText", Extract(reader),
                          Visible(reader.accumulatedStartIndex, reader.currentIndex))
  <2>1. before = Append(nodes, n) /\ n.kind = "PlainText" /\ n.section = currentSection
    BY <1>3 DEF Pushed, NewNode
  <2> HIDE DEF n
  <2>2. before \in Seq(NodeType) /\ Keeps(nodes, before)
    BY <1>3, PushedFacts DEF NodesOK
  <2>3. n \in NodeType
    BY <1>1, <2>1, <2>2, AppendLast
  <2>4. n.kind \notin SpecialKinds
    BY <2>1 DEF SpecialKinds, Blocks
  <2>5. TagsOK(before, docComment)
    BY <1>1, <2>1, <2>3, <2>4, TagsGrow DEF CommentInv
  <2>6. SectionsOK(before, currentSection)
    BY <1>1, <2>1, <2>3, <2>4, SectionsGrow DEF CommentInv, SpecialKinds
  <2> QED  BY <1>1, <2>2, <2>5, <2>6
<1>4. CASE pc = "Main" /\ before = Pushed /\ IsEmpty(reader)
  BY <1>1, <1>4 DEF Pushed, CommentInv
<1> QED  BY <1>2, <1>3, <1>4 DEF IsPreceding

\* The words of the comment do not change.
LEMMA CommentInvNext ==
  ASSUME tokens' = tokens, TagsOK(nodes', docComment'), SectionsOK(nodes', currentSection')
  PROVE  CommentInv'
<1>1. (TagsOK(nodes, docComment))'
  BY DEF TagsOK, Lists, IsLastOf, KeptBlocks, SinglesOf, Modifiers, InheritDocs, Single, Tag,
         TextAt
<1>2. (SectionsOK(nodes, currentSection))'
  BY DEF SectionsOK, IsSection
<1> QED  BY <1>1, <1>2 DEF CommentInv

\* Content goes into the section that is current, and changes no list.
LEMMA ContentStep ==
  ASSUME Inv, Inv', CommentInv, AppendsContent
  PROVE  CommentInv'
<1>1. PICK before :
        /\ IsPreceding(before)
        /\ nodes' = before \/ \E n : nodes' = Append(before, n) /\ Content(n)
  BY DEF AppendsContent
<1>2. tokens' = tokens /\ docComment' = docComment /\ currentSection' = currentSection
  BY DEF AppendsContent, input, tree
<1>3. /\ before \in Seq(NodeType) /\ docComment \in CommentType
      /\ TagsOK(before, docComment) /\ SectionsOK(before, currentSection)
  BY <1>1, PrecedingOK
<1>4. CASE nodes' = before
  BY <1>2, <1>3, <1>4, CommentInvNext
<1>5. ASSUME NEW n, nodes' = Append(before, n), Content(n) PROVE CommentInv'
  <2>1. nodes' \in Seq(NodeType)
    BY DEF Inv, NodesOK
  <2>2. n \in NodeType
    BY <1>3, <1>5, <2>1, AppendLast
  <2>3. TagsOK(nodes', docComment)
    BY <1>3, <1>5, <2>2, TagsGrow DEF Content
  <2>4. SectionsOK(nodes', currentSection)
    BY <1>3, <1>5, <2>2, SectionsGrow DEF Content, SpecialKinds
  <2> QED  BY <1>2, <2>3, <2>4, CommentInvNext
<1> QED  BY <1>1, <1>4, <1>5

\* A block, whose section becomes the current one
LEMMA BlockStep ==
  ASSUME Inv, Inv', CommentInv, NEW before, IsPreceding(before), tokens' = tokens,
         NEW n, nodes' = Append(before, n), n.kind \in Blocks, n.section = currentSection,
         currentSection' = Len(before) + 1,
         docComment' = IF Single(n)
                         THEN [docComment EXCEPT !.singles[Tag(n)] = Len(before) + 1]
                         ELSE [docComment EXCEPT !.blocks = Append(@, Len(before) + 1)]
  PROVE  CommentInv'
<1>1. /\ before \in Seq(NodeType) /\ docComment \in CommentType
      /\ TagsOK(before, docComment) /\ SectionsOK(before, currentSection)
  BY PrecedingOK
<1>2. n \in NodeType
  <2>1. nodes' \in Seq(NodeType)
    BY DEF Inv, NodesOK
  <2> QED  BY <1>1, <2>1, AppendLast
<1>3. TagsOK(nodes', docComment')
  <2> DEFINE m == Len(before) + 1
  <2> HIDE DEF m
  <2>1. /\ Single(n) => TagsOK(nodes', [docComment EXCEPT !.singles[Tag(n)] = m])
        /\ ~Single(n) => TagsOK(nodes', [docComment EXCEPT !.blocks = Append(@, m)])
    BY <1>1, <1>2, TagsGrow DEF m
  <2> QED  BY <2>1 DEF m
<1>4. SectionsOK(nodes', currentSection')
  BY <1>1, <1>2, SectionsGrow
<1> QED  BY <1>3, <1>4, CommentInvNext

\* What Place() appends
LEMMA PlaceAppends ==
  ASSUME NEW before, NEW kind, NEW r, NEW text, Place(before, kind, r, text)
  PROVE  LET n == NewNode(kind, r, text) IN
         /\ nodes' = Append(before, n)
         /\ n.kind = kind /\ n.section = currentSection /\ n.from = Begin(r)
<1> QED  BY MarkerIsBegin DEF Place, NewNode

\* Placing a node that is no tag is such a step
LEMMA PlaceContent ==
  ASSUME UNCHANGED <<input, tree>>, NEW before, IsPreceding(before),
         NEW kind, kind \notin SpecialKinds, NEW r, NEW text, Place(before, kind, r, text)
  PROVE  AppendsContent
<1> DEFINE n == NewNode(kind, r, text)
<1>1. nodes' = Append(before, n) /\ n.kind = kind /\ n.section = currentSection
  BY PlaceAppends
<1> HIDE DEF n
<1>2. Content(n)
  BY <1>1 DEF Content
<1> QED  BY <1>1, <1>2 DEF AppendsContent

\* ... and so is placing an error node, or none.
LEMMA FailContent ==
  ASSUME UNCHANGED <<input, tree>>, NEW before, IsPreceding(before), NEW r, NEW count
  PROVE  /\ \A m : Fail(before, r, count, m) => AppendsContent
         /\ \A id : FailHere(before, r, count, id) => AppendsContent
<1>1. "ErrorText" \notin SpecialKinds
  BY DEF SpecialKinds, Blocks
<1>2. ASSUME NEW m, Fail(before, r, count, m) PROVE AppendsContent
  BY <1>1, <1>2, PlaceContent DEF Fail
<1> QED  BY <1>2 DEF FailHere

\* A step that only reads is one, too.
LEMMA NoNodeContent ==
  ASSUME UNCHANGED <<input, tree>>, NEW before, IsPreceding(before), nodes' = before
  PROVE  AppendsContent
<1> QED  BY DEF AppendsContent

\* Most constructs are content, read or recovered from.
LEMMA TextIsContent == ParseText \/ Finish => AppendsContent
<1>1. /\ pc = "Main" => IsPreceding(Pushed)
      /\ IsPreceding(nodes)
      /\ {"SoftBreak", "EscapedText", "ErrorText", "CodeSpan"} \intersect SpecialKinds = {}
  BY DEF IsPreceding, SpecialKinds, Blocks
<1>2. ReadPlainText \/ Finish => AppendsContent
  BY <1>1, NoNodeContent DEF ReadPlainText, Finish
<1>3. SoftBreak => AppendsContent
  BY <1>1, PlaceContent DEF SoftBreak
<1>4. UnescapedDelimiter => AppendsContent
  BY <1>1, FailContent DEF UnescapedDelimiter
<1>5. BackslashEscape => AppendsContent
  BY <1>1, PlaceContent, FailContent DEF BackslashEscape
<1>6. CodeSpan => AppendsContent
  BY <1>1, PlaceContent, FailContent DEF CodeSpan
<1> QED  BY <1>2, <1>3, <1>4, <1>5, <1>6 DEF ParseText

\* HTML is content
LEMMA HtmlIsContent == ParseHtml => AppendsContent
<1>1. /\ pc = "Main" => IsPreceding(Pushed)
      /\ IsPreceding(nodes)
      /\ {"HtmlStartTag", "HtmlEndTag"} \intersect SpecialKinds = {}
  BY DEF IsPreceding, SpecialKinds, Blocks
<1>2. OpenHtmlStartTag => AppendsContent
  BY <1>1, NoNodeContent, FailContent DEF OpenHtmlStartTag
<1>3. HtmlAttributeName \/ HtmlEquals \/ HtmlValue => AppendsContent
  BY <1>1, NoNodeContent, FailContent DEF HtmlAttributeName, HtmlEquals, HtmlValue
<1>4. CloseHtmlStartTag => AppendsContent
  BY <1>1, PlaceContent, FailContent DEF CloseHtmlStartTag
<1>5. HtmlEndTag => AppendsContent
  BY <1>1, PlaceContent, FailContent DEF HtmlEndTag
<1> QED  BY <1>2, <1>3, <1>4, <1>5 DEF ParseHtml

\* ... and so is code.
LEMMA FencedCodeIsContent == ParseFencedCode => AppendsContent
<1>1. /\ pc = "Main" => IsPreceding(Pushed)
      /\ IsPreceding(nodes)
      /\ "FencedCode" \notin SpecialKinds
  BY DEF IsPreceding, SpecialKinds, Blocks
<1>2. OpenFence => AppendsContent
  BY <1>1, NoNodeContent, FailContent DEF OpenFence
<1>3. ReadCode \/ UnclosedFence => AppendsContent
  BY <1>1, NoNodeContent, FailContent DEF ReadCode, UnclosedFence
<1>4. CloseFence => AppendsContent
  BY <1>1, PlaceContent DEF CloseFence
<1> QED  BY <1>2, <1>3, <1>4 DEF ParseFencedCode

\* A tag that opens no block, and one that is not a tag after all
LEMMA TagsThatAreContent ==
  RejectBlockTag \/ ParamTag \/ UnrecognizedBlockTag \/ OpenInlineTag \/ ReadInlineTag
    \/ RejectInlineTag \/ ThrowInInlineTag => AppendsContent
<1>1. /\ pc = "Main" => IsPreceding(Pushed)
      /\ IsPreceding(nodes)
      /\ "BlockTag" \notin SpecialKinds
  BY DEF IsPreceding, SpecialKinds, Blocks
<1>2. RejectBlockTag \/ ParamTag => AppendsContent
  BY <1>1, NoNodeContent, FailContent DEF RejectBlockTag, ParamTag, BlockTagIs
<1>3. UnrecognizedBlockTag => AppendsContent
  BY <1>1, PlaceContent DEF UnrecognizedBlockTag, BlockTagIs
<1>4. OpenInlineTag => AppendsContent
  BY <1>1, NoNodeContent, FailContent DEF OpenInlineTag
<1>5. ReadInlineTag \/ RejectInlineTag \/ ThrowInInlineTag => AppendsContent
  BY <1>1, NoNodeContent, FailContent DEF ReadInlineTag, RejectInlineTag, ThrowInInlineTag
<1> QED  BY <1>2, <1>3, <1>4, <1>5

\* The parts of a param block that do not complete it
LEMMA ParamPartsAreContent ==
  TryParseUnsupportedJSDocType \/ ReadJSDocRest \/ CloseJSDocRest \/ GiveUpJSDocRest
    => AppendsContent
<1>1. IsPreceding(nodes)
  BY DEF IsPreceding
<1> QED
  BY <1>1, NoNodeContent
     DEF TryParseUnsupportedJSDocType, ReadJSDocRest, CloseJSDocRest, GiveUpJSDocRest

\* What is appended for a block tag has the name that was read.
LEMMA TagNode ==
  ASSUME Inv, NEW tag, NEW syntaxKind, BlockTagIs(tag, syntaxKind),
         NEW kind, Place(Pushed, kind, TagExtracted, FALSE)
  PROVE  \E n : /\ nodes' = Append(Pushed, n) /\ n.kind = kind
                /\ n.section = currentSection /\ Tag(n) = tag /\ IsPreceding(Pushed)
<1> DEFINE n == NewNode(kind, TagExtracted, FALSE)
<1>1. pc = "Main" /\ Begin(TagExtracted) = reader.currentIndex
  BY BlockTagFacts
<1>2. tag = TextAt(reader.currentIndex + 1)
  BY DEF BlockTagIs
<1>3. /\ nodes' = Append(Pushed, n) /\ n.kind = kind /\ n.section = currentSection
      /\ n.from = Begin(TagExtracted)
  BY MarkerIsBegin DEF Place, NewNode
<1> HIDE DEF n
<1> QED  BY <1>1, <1>2, <1>3 DEF Tag, IsPreceding

\* A block tag begins a block, whose section is current from then on.
LEMMA BlockTagComment ==
  ASSUME Inv, Inv', CommentInv, BlockTag
  PROVE  CommentInv'
<1>1. PICK tag \in Words \ ParamTags :
        /\ BlockTagIs(tag, "BlockTag")
        /\ docComment' = IF tag \in SingleBlocks
                           THEN [docComment EXCEPT !.singles[tag] = NextNode]
                           ELSE [docComment EXCEPT !.blocks = Append(@, NextNode)]
  BY DEF BlockTag
<1>2. /\ Place(Pushed, "Block", TagExtracted, FALSE)
      /\ currentSection' = Len(Pushed) + 1 /\ tokens' = tokens
  BY DEF BlockTag, input, NextNode
<1>3. PICK n : /\ nodes' = Append(Pushed, n) /\ n.kind = "Block"
               /\ n.section = currentSection /\ Tag(n) = tag /\ IsPreceding(Pushed)
  BY <1>1, <1>2, TagNode
<1>4. Single(n) <=> tag \in SingleBlocks
  BY <1>3 DEF Single
<1>5. docComment' = IF Single(n)
                      THEN [docComment EXCEPT !.singles[Tag(n)] = Len(Pushed) + 1]
                      ELSE [docComment EXCEPT !.blocks = Append(@, Len(Pushed) + 1)]
  BY <1>1, <1>3, <1>4 DEF NextNode
<1>6. n.kind \in Blocks
  BY <1>3 DEF Blocks
<1> QED  BY <1>2, <1>3, <1>5, <1>6, BlockStep

\* A param block joins the list of its tag.
LEMMA ParamBlockComment ==
  ASSUME Inv, Inv', CommentInv, UNCHANGED input, NEW r, PlaceParamBlock(r)
  PROVE  CommentInv'
<1> DEFINE n == NewNode("ParamBlock", r, FALSE)
<1>1. /\ Place(nodes, "ParamBlock", r, FALSE)
      /\ docComment' = [docComment EXCEPT !.blocks = Append(@, Len(nodes) + 1)]
      /\ currentSection' = Len(nodes) + 1 /\ tokens' = tokens /\ IsPreceding(nodes)
  BY DEF PlaceParamBlock, input, IsPreceding
<1>2. /\ nodes' = Append(nodes, n) /\ n.kind = "ParamBlock" /\ n.section = currentSection
  BY <1>1 DEF Place, NewNode
<1> HIDE DEF n
<1>3. n.kind \in Blocks /\ ~Single(n)
  BY <1>2 DEF Blocks, Single
<1> QED  BY <1>1, <1>2, <1>3, BlockStep

\* A param block is complete, or its parts go on.
LEMMA ParamBlocksComment ==
  ASSUME Inv, Inv', CommentInv, ParamName \/ Hyphen \/ EndOfParam
  PROVE  CommentInv'
<1>1. IsPreceding(nodes)
  BY DEF IsPreceding
<1>2. CASE ParamName
  <2>1. (\E r : PlaceParamBlock(r)) \/ AppendsContent
    BY <1>1, <1>2, NoNodeContent DEF ParamName
  <2>2. UNCHANGED input
    BY <1>2 DEF ParamName
  <2> QED  BY <2>1, <2>2, ParamBlockComment, ContentStep
<1>3. CASE Hyphen
  <2>1. PlaceParamBlock(reader) \/ AppendsContent
    BY <1>1, <1>3, NoNodeContent DEF Hyphen
  <2>2. UNCHANGED input
    BY <1>3 DEF Hyphen
  <2> QED  BY <2>1, <2>2, ParamBlockComment, ContentStep
<1>4. CASE EndOfParam
  BY <1>4, ParamBlockComment DEF EndOfParam
<1> QED  BY <1>2, <1>3, <1>4

\* A modifier is added unless the comment has one with its name already, among its nodes.
LEMMA ModifierTagComment ==
  ASSUME Inv, Inv', CommentInv, ModifierTag
  PROVE  CommentInv'
<1> DEFINE m == Len(Pushed) + 1
           mods == docComment.modifierTags
<1>1. PICK tag \in Words :
        /\ BlockTagIs(tag, "ModifierTag")
        /\ docComment' = IF \E k \in 1 .. Len(mods) : Tag(nodes[mods[k]]) = tag
                           THEN docComment
                           ELSE [docComment EXCEPT !.modifierTags = Append(@, m)]
  BY DEF ModifierTag, NextNode, Tag
<1>2. /\ Place(Pushed, "ModifierTag", TagExtracted, FALSE)
      /\ currentSection' = currentSection /\ tokens' = tokens
  BY DEF ModifierTag, input
<1>3. PICK n : /\ nodes' = Append(Pushed, n) /\ n.kind = "ModifierTag"
               /\ n.section = currentSection /\ Tag(n) = tag /\ IsPreceding(Pushed)
  BY <1>1, <1>2, TagNode
<1>4. /\ Pushed \in Seq(NodeType) /\ docComment \in CommentType
      /\ TagsOK(Pushed, docComment) /\ SectionsOK(Pushed, currentSection)
      /\ Keeps(nodes, Pushed) /\ nodes \in Seq(NodeType)
  BY <1>3, PrecedingOK
<1>5. n \in NodeType
  <2>1. nodes' \in Seq(NodeType)
    BY DEF Inv, NodesOK
  <2> QED  BY <1>3, <1>4, <2>1, AppendLast
<1>6. ASSUME NEW k \in 1 .. Len(mods) PROVE Tag(nodes[mods[k]]) = Tag(Pushed[mods[k]])
  <2>1. mods[k] \in 1 .. Len(nodes)
    BY DEF CommentInv, TagsOK, Lists, Modifiers
  <2> QED  BY <1>4, <2>1 DEF Keeps
<1>7. TagsOK(nodes', docComment')
  <2> HIDE DEF m
  <2> DEFINE isKnown == \E k \in 1 .. Len(mods) : Tag(Pushed[mods[k]]) = Tag(n)
  <2>1. docComment' = IF isKnown THEN docComment
                        ELSE [docComment EXCEPT !.modifierTags = Append(@, m)]
    BY <1>1, <1>3, <1>6
  <2>2. /\ isKnown => TagsOK(nodes', docComment)
        /\ ~isKnown => TagsOK(nodes', [docComment EXCEPT !.modifierTags = Append(@, m)])
    BY <1>3, <1>4, <1>5, TagsGrow DEF m
  <2> HIDE DEF isKnown
  <2> QED  BY <2>1, <2>2
<1>8. SectionsOK(nodes', currentSection')
  <2>1. n.kind \notin Blocks
    BY <1>3 DEF Blocks
  <2> QED  BY <1>2, <1>3, <1>4, <1>5, <2>1, SectionsGrow
<1> QED  BY <1>2, <1>7, <1>8, CommentInvNext

\* "{@inheritDoc}" is kept once; a second one is an error, and so is content.
LEMMA CloseInlineTagComment ==
  ASSUME Inv, Inv', CommentInv, CloseInlineTag
  PROVE  CommentInv'
<1> DEFINE m == Len(nodes) + 1
           Appended(kind) == \E r, text : Place(nodes, kind, r, text)
<1>1. tokens' = tokens /\ currentSection' = currentSection /\ UNCHANGED input
      /\ IsPreceding(nodes)
  BY DEF CloseInlineTag, input, IsPreceding
<1>2. PICK kind \in NodeKind :
        /\ kind \in {"InheritDocTag", "InlineTag", "LinkTag"}
        /\ IF kind = "InheritDocTag" /\ docComment.inheritDocTag # 0
             THEN Appended("ErrorText") /\ docComment' = docComment
             ELSE /\ Appended(kind)
                  /\ docComment' = IF kind = "InheritDocTag"
                       THEN [docComment EXCEPT !.inheritDocTag = m] ELSE docComment
  <2> DEFINE results == EmbeddedResults(TextAt(Marker(reader) + 2), TryExtract(reader) # reader)
  <2>1. PICK kind \in results :
          IF kind = "InheritDocTag" /\ docComment.inheritDocTag # 0
            THEN Appended("ErrorText") /\ docComment' = docComment
            ELSE /\ Appended(kind)
                 /\ docComment' = IF kind = "InheritDocTag"
                      THEN [docComment EXCEPT !.inheritDocTag = m] ELSE docComment
    BY DEF CloseInlineTag
  <2>2. results \subseteq {"InheritDocTag", "InlineTag", "LinkTag"}
    BY DEF EmbeddedResults
  <2> HIDE DEF results
  <2> QED  BY <2>1, <2>2 DEF NodeKind
<1>3. ASSUME NEW k, k \notin SpecialKinds, Appended(k), docComment' = docComment
      PROVE  CommentInv'
  <2>1. UNCHANGED <<input, tree>>
    BY <1>1, <1>3 DEF tree
  <2> QED  BY <1>1, <1>3, <2>1, PlaceContent, ContentStep
<1>4. {"ErrorText", "InlineTag", "LinkTag"} \intersect SpecialKinds = {}
  BY DEF SpecialKinds, Blocks
<1>5. CASE kind = "InheritDocTag" /\ docComment.inheritDocTag = 0
  <2>1. PICK r, text : Place(nodes, kind, r, text)
    BY <1>2, <1>5
  <2> DEFINE n == NewNode(kind, r, text)
  <2>2. nodes' = Append(nodes, n) /\ n.kind = "InheritDocTag" /\ n.section = currentSection
    BY <1>5, <2>1, PlaceAppends
  <2> HIDE DEF n
  <2>3. nodes \in Seq(NodeType) /\ docComment \in CommentType
        /\ TagsOK(nodes, docComment) /\ SectionsOK(nodes, currentSection)
    BY <1>1, PrecedingOK
  <2>4. n \in NodeType
    <3>1. nodes' \in Seq(NodeType)
      BY DEF Inv, NodesOK
    <3> QED  BY <2>2, <2>3, <3>1, AppendLast
  <2>5. TagsOK(nodes', docComment')
    <3>1. docComment' = [docComment EXCEPT !.inheritDocTag = m]
      BY <1>2, <1>5
    <3> HIDE DEF m
    <3>2. TagsOK(nodes', [docComment EXCEPT !.inheritDocTag = m])
      BY <1>5, <2>2, <2>3, <2>4, TagsGrow DEF m
    <3> QED  BY <3>1, <3>2
  <2>6. n.kind \notin Blocks
    BY <2>2 DEF Blocks
  <2>7. SectionsOK(nodes', currentSection')
    BY <1>1, <2>2, <2>3, <2>4, <2>6, SectionsGrow
  <2> QED  BY <1>1, <2>5, <2>7, CommentInvNext
<1>6. CASE ~(kind = "InheritDocTag" /\ docComment.inheritDocTag = 0)
  <2>1. \E k \in {"ErrorText", "InlineTag", "LinkTag"} : Appended(k) /\ docComment' = docComment
    BY <1>2, <1>6
  <2> HIDE DEF Appended
  <2> QED  BY <1>3, <1>4, <2>1
<1> QED  BY <1>5, <1>6

\* No step moves content to another block or loses a tag.
LEMMA StepCommentInv == Inv /\ Inv' /\ CommentInv /\ [Next]_vars => CommentInv'
<1> SUFFICES ASSUME Inv, Inv', CommentInv, [Next]_vars PROVE CommentInv'
  OBVIOUS
<1>1. CASE ParseText \/ ParseHtml \/ ParseFencedCode \/ Finish
  BY <1>1, TextIsContent, HtmlIsContent, FencedCodeIsContent, ContentStep
<1>2. CASE ParseBlockTag
  BY <1>2, TagsThatAreContent, ContentStep, BlockTagComment, ModifierTagComment
     DEF ParseBlockTag
<1>3. CASE ParseParamBlock
  BY <1>3, ParamPartsAreContent, ContentStep, ParamBlocksComment DEF ParseParamBlock
<1>4. CASE ParseInlineTag
  BY <1>4, TagsThatAreContent, ContentStep, CloseInlineTagComment DEF ParseInlineTag
<1>5. CASE UNCHANGED vars
  <2>1. UNCHANGED <<input, tree>> /\ nodes' = nodes /\ IsPreceding(nodes)
    BY <1>5 DEF vars, input, tree, IsPreceding
  <2> QED  BY <2>1, NoNodeContent, ContentStep
<1> QED  BY <1>1, <1>2, <1>3, <1>4, <1>5 DEF Next

(***************************************************************************)
(* Whatever the comment and the configuration, content is in the section   *)
(* of the last block tag before it, and the comment has each block and     *)
(* modifier, in order, and no other.                                       *)
(***************************************************************************)
THEOREM ContentBelongsHolds == Spec => []ContentBelongsToItsBlock
<1>1. Init => Inv /\ CommentInv
  BY InitInv, InitCommentInv
<1>2. Inv /\ CommentInv /\ [Next]_vars => Inv' /\ CommentInv'
  BY StepInv, StepCommentInv
<1> QED  BY <1>1, <1>2, CommentInvImplies, PTL DEF Spec

-----------------------------------------------------------------------------
(***************************************************************************)
(* Nodes are well formed, and errors are warranted.  Neither is inductive: *)
(* a construct is read in several steps, and what has been read of it has  *)
(* to be the beginning of a well-formed node.  SoFar says what that is at  *)
(* each point, over the tokens from m, where the construct begins, up to   *)
(* c, where the reader is.                                                 *)
(***************************************************************************)
NodesAre(ns) ==
  \A k \in 1 .. Len(ns) :
    IsWellFormed(ns[k]) /\ (ns[k].kind = "ErrorText" => IsWarranted(ns, ns[k]))

Span(m, c) == [from |-> m, to |-> c]

BlockTagBegins(m) ==
  /\ KindAt(m) = "AtSign" /\ KindAt(m + 1) = "AsciiWord"
  /\ m > 0 => KindAt(m - 1) \in {"Spacing", "Newline"}

\* An even number of backslashes precede i, so that a token at i is not escaped.
Unescaped(i) ==
  \E n \in 0 .. i : /\ n % 2 = 0
                    /\ \A j \in i - n .. i - 1 : KindAt(j) = "Backslash"
                    /\ n < i => KindAt(i - n - 1) # "Backslash"
Braces == {"LeftCurlyBracket", "RightCurlyBracket"}
InlineTagSoFar(m, c) ==
  /\ KindAt(m) = "LeftCurlyBracket" /\ KindAt(m + 1) = "AtSign" /\ KindAt(m + 2) = "AsciiWord"
  /\ m + 3 <= c
  /\ \A i \in m + 1 .. c - 1 : KindAt(i) \in Braces => Escaped(i)
  /\ Unescaped(c)

HtmlKinds == {"AsciiWord", "Hyphen", "Spacing", "Newline", "Equals", "DoubleQuote", "SingleQuote"}
\* The tokens from i up to j - 1 may be in an HTML tag of which n is what has been read.
HtmlMayHave(n, i, j) ==
  /\ \A k \in i .. j - 1 : KindAt(k) \notin HtmlKinds => Quoted(n, k)
  /\ configuration.reportUnsupportedHtmlElements =>
       \A k \in i .. j - 1 :
         KindAt(k) = "AsciiWord" /\ ~Quoted(n, k) =>
           TextAt(k) \in configuration.supportedHtmlElements
HtmlStartTagSoFar(m, c) ==
  /\ KindAt(m) = "LessThan" /\ KindAt(m + 1) = "AsciiWord" /\ m + 2 <= c
  /\ HtmlMayHave(Span(m, c), m + 1, c)

FirstLineEnd(m) == SkipTo(m, {"Newline"})
FenceSoFar(m, c) ==
  /\ m > 0 => KindAt(m - 1) = "Newline"
  /\ IsFence(m)
  /\ FirstLineEnd(m) < c
  /\ \A i \in FirstLineEnd(m) + 1 .. c - 1 : ~FenceFollows(i)

ParamPoints == {"Name", "JSDocRest", "Hyphen", "EndOfParam"} \union TypePoints
HtmlPoints == {"HtmlAttributes", "HtmlEquals", "HtmlValue"}
SoFar(point, r) ==
  LET m == Begin(r)
      c == r.currentIndex
  IN /\ point = "Main" => IsPlainText(Span(r.accumulatedStartIndex, c))
     /\ point \in ParamPoints => BlockTagBegins(m)
     /\ point = "InlineTag" => InlineTagSoFar(m, c)
     /\ point \in HtmlPoints => HtmlStartTagSoFar(m, c)
     /\ point = "FencedCode" => FenceSoFar(m, c)

WellInv == NodesAre(nodes) /\ SoFar(pc, reader)

\* The comment and its configuration do not change, so that what is said of them stays.
LEMMA WellInvNext ==
  ASSUME UNCHANGED input, NodesAre(nodes'), SoFar(pc', reader')
  PROVE  WellInv'
<1>1. tokens' = tokens /\ configuration' = configuration
  BY DEF input
<1>2. ASSUME NEW i PROVE (FenceFollows(i))' <=> FenceFollows(i)
  BY <1>1 DEF FenceFollows, IsFence, Skip, KindAt
<1>3. ASSUME NEW i PROVE (SkipTo(i, {"Newline"}))' = SkipTo(i, {"Newline"})
  BY <1>1 DEF SkipTo, Skip, KindAt
<1>4. ASSUME NEW n, IsWellFormed(n) PROVE (IsWellFormed(n))'
  <2>1. IsCodeSpan(n) => (IsCodeSpan(n))'
    BY <1>1 DEF IsCodeSpan, InnerKinds, Begins, EndsWith, KindAt
  <2>2. IsFencedCode(n) => (IsFencedCode(n))'
    BY <1>1, <1>2, <1>3 DEF IsFencedCode, IsFence, KindAt
  <2>3. IsInlineTag(n) => (IsInlineTag(n))'
    BY <1>1 DEF IsInlineTag, Begins, EndsWith, Escaped, KindAt
  <2>4. IsHtmlTag(n) => (IsHtmlTag(n))'
    <3>1. \A i : (Quoted(n, i))' <=> Quoted(n, i)
      BY <1>1 DEF Quoted, KindAt
    <3>2. \A kinds : (Begins(n, kinds))' <=> Begins(n, kinds)
      BY <1>1 DEF Begins, KindAt
    <3>3. \A kind : (EndsWith(n, kind))' <=> EndsWith(n, kind)
      BY <1>1 DEF EndsWith, KindAt
    <3>4. \A i : (KindAt(i))' = KindAt(i) /\ (TextAt(i))' = TextAt(i)
      BY <1>1 DEF KindAt, TextAt
    <3> QED  BY <1>1, <3>1, <3>2, <3>3, <3>4 DEF IsHtmlTag
  <2>5. IsBlockTag(n) => (IsBlockTag(n))'
    BY <1>1 DEF IsBlockTag, Begins, KindAt
  <2>6. IsPlainText(n) => (IsPlainText(n))'
    BY <1>1 DEF IsPlainText, KindAt
  <2> QED  BY <1>4, <2>1, <2>2, <2>3, <2>4, <2>5, <2>6 DEF IsWellFormed
<1>5. ASSUME NEW all, NEW n, IsWarranted(all, n) PROVE (IsWarranted(all, n))'
  <2>1. TakesTheDelimiter(all, n) => (TakesTheDelimiter(all, n))'
    BY <1>1 DEF TakesTheDelimiter, IsFence, KindAt, TextAt
  <2>2. /\ FenceIsUnclosed(n) => (FenceIsUnclosed(n))'
        /\ FenceIsEmpty(n) => (FenceIsEmpty(n))'
    BY <1>1, <1>2, <1>3 DEF FenceIsUnclosed, FenceIsEmpty, KindAt
  <2>3. SpanIsUnclosed(n) => (SpanIsUnclosed(n))'
    BY <1>1 DEF SpanIsUnclosed, SkipTo, Skip, KindAt
  <2>4. (IsFence(n.from))' <=> IsFence(n.from)
    BY <1>1 DEF IsFence, KindAt
  <2>5. (KindAt(n.from))' = KindAt(n.from)
    BY <1>1 DEF KindAt
  <2> QED  BY <1>5, <2>1, <2>2, <2>3, <2>4, <2>5 DEF IsWarranted
<1>6. (NodesAre(nodes))'
  BY <1>4, <1>5 DEF NodesAre
<1>7. (SoFar(pc, reader))'
  BY <1>1 DEF SoFar, IsPlainText, BlockTagBegins, InlineTagSoFar, HtmlStartTagSoFar, HtmlMayHave,
              FenceSoFar, FirstLineEnd, FenceFollows, IsFence, Quoted, Escaped, Unescaped,
              SkipTo, Skip, KindAt, TextAt, Span, Begin
<1> QED  BY <1>6, <1>7 DEF WellInv

\* A {@inheritDoc} that precedes a node stays before it.
LEMMA WarrantedStays ==
  ASSUME NEW all, NEW more, Keeps(all, more), NEW n, IsWarranted(all, n),
         Len(all) \in Nat, Len(more) \in Nat
  PROVE  IsWarranted(more, n)
<1>1. TakesTheDelimiter(more, n)
  BY DEF IsWarranted, TakesTheDelimiter, Keeps
<1> QED  BY <1>1 DEF IsWarranted

\* One more node
LEMMA NodesAreAppend ==
  ASSUME NEW ns \in Seq(NodeType), NodesAre(ns), NEW n \in NodeType, IsWellFormed(n),
         n.kind = "ErrorText" => IsWarranted(ns, n)
  PROVE  NodesAre(Append(ns, n))
<1> DEFINE more == Append(ns, n)
<1>1. /\ Len(ns) \in Nat /\ Len(more) = Len(ns) + 1 /\ more[Len(ns) + 1] = n
      /\ \A k \in 1 .. Len(ns) : more[k] = ns[k]
  BY AppendProperties
<1>2. Keeps(ns, more)
  BY <1>1 DEF Keeps
<1> HIDE DEF more
<1>3. ASSUME NEW m, IsWarranted(ns, m) PROVE IsWarranted(more, m)
  BY <1>1, <1>2, <1>3, WarrantedStays
<1>4. ASSUME NEW k \in 1 .. Len(more)
      PROVE  IsWellFormed(more[k]) /\ (more[k].kind = "ErrorText" => IsWarranted(more, more[k]))
  <2>1. CASE k \in 1 .. Len(ns)
    BY <1>1, <1>3, <2>1 DEF NodesAre
  <2>2. CASE k = Len(ns) + 1
    BY <1>1, <1>3, <2>2
  <2> QED  BY <1>1, <2>1, <2>2
<1>5. NodesAre(more)
  BY <1>4 DEF NodesAre
<1> QED  BY <1>5 DEF more

\* The plain text before a construct is text only.
LEMMA PrecedingAre ==
  ASSUME Inv, WellInv, NEW before, IsPreceding(before)
  PROVE  before \in Seq(NodeType) /\ NodesAre(before)
<1>1. nodes \in Seq(NodeType) /\ NodesAre(nodes)
  BY DEF Inv, NodesOK, WellInv
<1>2. CASE before = nodes \/ IsEmpty(reader)
  BY <1>1, <1>2 DEF IsPreceding, Pushed
<1>3. CASE pc = "Main" /\ before = Pushed /\ ~IsEmpty(reader)
  <2> DEFINE r == Extract(reader)
             n == NewNode("PlainText", r, Visible(reader.accumulatedStartIndex, reader.currentIndex))
  <2>1. before = Append(nodes, n) /\ n.kind = "PlainText" /\ before \in Seq(NodeType)
    BY <1>3, PushedFacts DEF Pushed, NewNode, NodesOK
  <2>2. n.from = reader.accumulatedStartIndex /\ n.to = reader.currentIndex
    <3>1. GoodReader(reader) /\ StreamOK /\ reader.excerpts = <<>>
      BY <1>3 DEF Inv, PointOK
    <3>2. reader \in Reader
      BY <3>1, ReaderFacts
    <3>3. /\ r.excerpts = <<<<reader.accumulatedStartIndex, reader.currentIndex>>>>
          /\ r.accumulatedStartIndex = reader.currentIndex
      BY <3>1, <3>2 DEF Extract, Reader
    <3> QED  BY <3>3 DEF NewNode, Marker
  <2> HIDE DEF n
  <2>3. n \in NodeType
    BY <1>1, <2>1, AppendLast
  <2>4. IsWellFormed(n)
    BY <1>3, <2>1, <2>2 DEF WellInv, SoFar, IsWellFormed, IsPlainText, Span, Blocks
  <2> QED  BY <1>1, <2>1, <2>3, <2>4, NodesAreAppend
<1> QED  BY <1>2, <1>3 DEF IsPreceding

\* A construct that is placed is well formed, and the next one has not begun.
LEMMA PlaceWell ==
  ASSUME Inv, Inv', WellInv, UNCHANGED input, NEW before, IsPreceding(before),
         NEW kind, NEW r, NEW text, Place(before, kind, r, text),
         r.accumulatedStartIndex = r.currentIndex, r \in Reader,
         IsWellFormed(NewNode(kind, r, text)),
         kind = "ErrorText" => IsWarranted(before, NewNode(kind, r, text))
  PROVE  WellInv'
<1> DEFINE n == NewNode(kind, r, text)
<1>1. /\ nodes' = Append(before, n) /\ n.kind = kind /\ pc' = "Main"
      /\ reader' = [r EXCEPT !.excerpts = <<>>] /\ nodes' \in Seq(NodeType)
  BY DEF Place, NewNode, Inv, NodesOK
<1>2. IsWellFormed(n) /\ (n.kind = "ErrorText" => IsWarranted(before, n))
  BY <1>1
<1> HIDE DEF n
<1>3. before \in Seq(NodeType) /\ NodesAre(before)
  BY PrecedingAre
<1>4. n \in NodeType
  BY <1>1, <1>3, AppendLast
<1>5. NodesAre(nodes')
  BY <1>1, <1>2, <1>3, <1>4, NodesAreAppend
<1>6. SoFar(pc', reader')
  <2>1. /\ reader'.currentIndex = r.currentIndex /\ r.currentIndex \in Nat
        /\ reader'.accumulatedStartIndex = r.currentIndex
    BY <1>1 DEF Reader
  <2>2. IsPlainText(Span(reader'.accumulatedStartIndex, reader'.currentIndex))
    BY <2>1 DEF IsPlainText, Span
  <2> QED  BY <1>1, <2>2 DEF SoFar, ParamPoints, TypePoints, HtmlPoints
<1> QED  BY <1>5, <1>6, WellInvNext

\* The tokens that an error takes decide whether it is warranted.
LEMMA FailWell ==
  ASSUME Inv, Inv', WellInv, UNCHANGED input, NEW before, IsPreceding(before),
         NEW r, GoodReader(r), NEW count \in Nat \ {0}, Begin(r) + count <= Len(tokens),
         IsWarranted(before, Span(Begin(r), Begin(r) + count))
  PROVE  /\ \A m : Fail(before, r, count, m) => WellInv'
         /\ \A id : FailHere(before, r, count, id) => WellInv'
<1> DEFINE s == Extract(ReadTokens(Backtrack(r, Marker(r), 0), count))
           n == NewNode("ErrorText", s, FALSE)
<1>1. StreamOK /\ Begin(r) \in Nat /\ Len(tokens) \in Nat
  BY ReaderFacts DEF Inv
<1>2. Begin(r) + count \in Begin(r) + 1 .. Len(tokens)
  BY <1>1
<1>3. s = Extract(ReadTo(Backtrack(r, Begin(r), 0), Begin(r) + count))
  BY MarkerIsBegin DEF ReadTokens, Backtrack
<1>4. /\ GoodReader(s) /\ Begin(s) = Begin(r)
      /\ s.currentIndex = Begin(r) + count /\ s.accumulatedStartIndex = Begin(r) + count
  BY <1>1, <1>2, <1>3, BacktrackToBegin
<1>5. n.kind = "ErrorText" /\ n.from = Begin(r) /\ n.to = Begin(r) + count
  BY <1>4, MarkerIsBegin DEF NewNode
<1>6. s \in Reader
  BY <1>1, <1>4, ReaderFacts
<1>7. IsWellFormed(n)
  BY <1>5 DEF IsWellFormed, Blocks
<1>8. IsWarranted(before, n)
  BY <1>5 DEF IsWarranted, TakesTheDelimiter, SpanIsUnclosed, FenceIsUnclosed, FenceIsEmpty, Span
<1>9. ASSUME NEW m, Fail(before, r, count, m) PROVE WellInv'
  <2>1. Place(before, "ErrorText", s, FALSE)
    BY <1>9 DEF Fail
  <2> HIDE DEF s
  <2> QED  BY <1>4, <1>6, <1>7, <1>8, <2>1, PlaceWell
<1> QED  BY <1>9 DEF FailHere

\* A step that appends no node but the plain text before a construct
LEMMA ReadWell ==
  ASSUME Inv, WellInv, UNCHANGED input, NEW before, IsPreceding(before), nodes' = before,
         SoFar(pc', reader')
  PROVE  WellInv'
<1> QED  BY PrecedingAre, WellInvNext

\* Plain text, and what is a construct of its own
LEMMA ReadPlainTextWell ==
  ASSUME Inv, Inv', WellInv, ReadPlainText
  PROVE  WellInv'
<1>1. /\ pc = "Main" /\ pc' = "Main" /\ nodes' = nodes /\ UNCHANGED input
      /\ reader' = ReadTokens(reader, 1) /\ reader \in Reader
  BY ReaderFacts DEF ReadPlainText, Inv
<1>2. /\ reader'.accumulatedStartIndex = reader.accumulatedStartIndex
      /\ reader'.currentIndex = reader.currentIndex + 1
      /\ reader.currentIndex \in Nat /\ reader.accumulatedStartIndex \in Nat
  BY <1>1 DEF ReadTokens, ReadTo, Reader
<1>3. IsPlainText(Span(reader.accumulatedStartIndex, reader.currentIndex))
  BY <1>1 DEF WellInv, SoFar
<1>4. IsPlainText(Span(reader.accumulatedStartIndex, reader.currentIndex + 1))
  BY <1>2, <1>3 DEF IsPlainText, Span, ReadPlainText, Peek
<1>5. SoFar(pc', reader')
  BY <1>1, <1>2, <1>4 DEF SoFar, ParamPoints, TypePoints, HtmlPoints
<1> QED  BY <1>1, <1>5, ReadWell DEF IsPreceding

\* A newline
LEMMA SoftBreakWell ==
  ASSUME Inv, Inv', WellInv, SoftBreak
  PROVE  WellInv'
<1> DEFINE r == Extract(ReadTokens(Start, 1))
<1>1. /\ pc = "Main" /\ UNCHANGED input /\ Place(Pushed, "SoftBreak", r, FALSE)
      /\ KindAt(reader.currentIndex) = "Newline"
  BY DEF SoftBreak, Peek
<1>2. reader.currentIndex \in Nat /\ reader.currentIndex + 1 <= Len(tokens) /\ StreamOK
  BY <1>1, PushedFacts, TokenExists DEF Inv
<1>3. GoodReader(r) /\ r.accumulatedStartIndex = r.currentIndex
  BY <1>1, <1>2, StartReads
<1>4. r \in Reader
  BY <1>2, <1>3, ReaderFacts
<1>5. IsWellFormed(NewNode("SoftBreak", r, FALSE))
  BY DEF NewNode, IsWellFormed, Blocks
<1> HIDE DEF r
<1> QED  BY <1>1, <1>3, <1>4, <1>5, PlaceWell DEF IsPreceding

\* An error at the first token of the main loop, one that begins no longer delimiter
LEMMA FailAtStartWell ==
  ASSUME Inv, Inv', WellInv, pc = "Main", UNCHANGED input, NEW count \in 1 .. 3,
         reader.currentIndex + count <= Len(tokens),
         IsWarranted(Pushed, Span(reader.currentIndex, reader.currentIndex + count))
  PROVE  /\ \A m : Fail(Pushed, Start, count, m) => WellInv'
         /\ \A id : FailHere(Pushed, Start, count, id) => WellInv'
<1>1. GoodReader(Start) /\ Begin(Start) = reader.currentIndex
  BY PushedFacts
<1> QED  BY <1>1, FailWell DEF IsPreceding

\* One token that is no brace and no backtick is a delimiter by itself.
LEMMA OneTokenIsWarranted ==
  ASSUME NEW all, NEW i \in Nat, KindAt(i) \notin {"Backtick", "LeftCurlyBracket"}
  PROVE  IsWarranted(all, Span(i, i + 1)) /\ (i + 1) - i = 1
<1>1. ~IsFence(i)
  BY DEF IsFence
<1> QED  BY <1>1 DEF IsWarranted, TakesTheDelimiter, Span

\* A closing delimiter that closes nothing
LEMMA UnescapedDelimiterWell ==
  ASSUME Inv, Inv', WellInv, UnescapedDelimiter
  PROVE  WellInv'
<1>1. /\ pc = "Main" /\ UNCHANGED input /\ \E id : FailHere(Pushed, Start, 1, id)
      /\ KindAt(reader.currentIndex) \in {"RightCurlyBracket", "GreaterThan"}
  BY DEF UnescapedDelimiter, Peek
<1>2. reader.currentIndex \in Nat /\ reader.currentIndex + 1 <= Len(tokens)
  BY <1>1, PushedFacts, TokenExists
<1>3. IsWarranted(Pushed, Span(reader.currentIndex, reader.currentIndex + 1))
  BY <1>1, <1>2, OneTokenIsWarranted
<1> QED  BY <1>1, <1>2, <1>3, FailAtStartWell

\* A backslash
LEMMA BackslashEscapeWell ==
  ASSUME Inv, Inv', WellInv, BackslashEscape
  PROVE  WellInv'
<1> DEFINE i == reader.currentIndex
           r == Extract(ReadTokens(Start, 2))
<1>1. /\ pc = "Main" /\ UNCHANGED input /\ KindAt(i) = "Backslash" /\ StreamOK
      /\ \/ KindAt(i + 1) \in PunctuationKinds /\ Place(Pushed, "EscapedText", r, TRUE)
         \/ FailHere(Pushed, Start, 1, "UnnecessaryBackslash")
  BY DEF BackslashEscape, Peek, PeekAfter, Inv
<1>2. i \in Nat /\ i + 1 <= Len(tokens)
  BY <1>1, PushedFacts, TokenExists
<1>3. CASE KindAt(i + 1) \in PunctuationKinds /\ Place(Pushed, "EscapedText", r, TRUE)
  <2>1. KindAt(i + 1) # "EndOfInput" /\ i + 1 \in Nat
    BY <1>2, <1>3 DEF PunctuationKinds
  <2>2. (i + 1) + 1 <= Len(tokens)
    BY <2>1, TokenExists
  <2>3. i + 2 <= Len(tokens)
    BY <1>2, <2>2
  <2>4. GoodReader(r) /\ r.accumulatedStartIndex = r.currentIndex
    BY <1>1, <2>3, StartReads
  <2>5. r \in Reader
    BY <1>1, <2>4, ReaderFacts
  <2>6. IsWellFormed(NewNode("EscapedText", r, TRUE))
    BY DEF NewNode, IsWellFormed, Blocks
  <2> HIDE DEF r
  <2> QED  BY <1>1, <1>3, <2>4, <2>5, <2>6, PlaceWell DEF IsPreceding
<1>4. CASE FailHere(Pushed, Start, 1, "UnnecessaryBackslash")
  <2>1. IsWarranted(Pushed, Span(i, i + 1))
    BY <1>1, <1>2, OneTokenIsWarranted
  <2> QED  BY <1>1, <1>2, <1>4, <2>1, FailAtStartWell
<1> QED  BY <1>1, <1>3, <1>4

\* A code span ends on its line; if it does not, its backtick is an error, or both are.
LEMMA CodeSpanWell ==
  ASSUME Inv, Inv', WellInv, CodeSpan
  PROVE  WellInv'
<1> DEFINE i == reader.currentIndex
           open == Extract(ReadTokens(Start, 1))
           close == CodeEnd(i + 1)
           r == Extract(ReadTokens(Extract(ReadTo(open, close)), 1))
<1>1. /\ pc = "Main" /\ UNCHANGED input /\ KindAt(i) = "Backtick" /\ StreamOK
      /\ ~(KindAt(i + 1) = "Backtick" /\ KindAt(i + 2) = "Backtick")
  BY DEF CodeSpan, Peek, PeekAfter, PeekAfterAfter, Inv
<1>2. i \in Nat /\ i + 1 <= Len(tokens) /\ Len(tokens) \in Nat
  BY <1>1, PushedFacts, TokenExists
<1>3. /\ GoodReader(open) /\ Begin(open) = i /\ open.currentIndex = i + 1
      /\ open.accumulatedStartIndex = i + 1 /\ open.excerpts # <<>>
  BY <1>1, <1>2, StartReads
<1>4. /\ close \in i + 1 .. Len(tokens)
      /\ \A k \in i + 1 .. close - 1 : KindAt(k) \notin {"Backtick", "Newline"}
  BY <1>1, <1>2, SkipToStops DEF CodeEnd
<1>5. ~IsFence(i)
  BY <1>1, <1>2 DEF IsFence
<1>6. CASE KindAt(close) # "Backtick" /\ FailHere(Pushed, open, 1, "CodeSpanMissingDelimiter")
  <2>1. IsWarranted(Pushed, Span(i, i + 1))
    BY <1>1, <1>2, <1>5, <1>6 DEF IsWarranted, TakesTheDelimiter, SpanIsUnclosed, Span, CodeEnd
  <2>2. IsPreceding(Pushed) /\ 1 \in Nat \ {0}
    BY <1>1 DEF IsPreceding
  <2> HIDE DEF open, close
  <2> QED  BY <1>1, <1>2, <1>3, <1>6, <2>1, <2>2, FailWell
<1>7. CASE KindAt(close) = "Backtick" /\ close = i + 1 /\ FailHere(Pushed, open, 2, "CodeSpanEmpty")
  <2>1. i + 2 <= Len(tokens)
    <3>1. (i + 1) + 1 <= Len(tokens)
      BY <1>2, <1>7, TokenExists
    <3> QED  BY <1>2, <3>1
  <2>2. IsWarranted(Pushed, Span(i, i + 2))
    BY <1>1, <1>2, <1>5, <1>7 DEF IsWarranted, TakesTheDelimiter, Span
  <2>3. IsPreceding(Pushed) /\ 2 \in Nat \ {0}
    BY <1>1 DEF IsPreceding
  <2> HIDE DEF open, close
  <2> QED  BY <1>1, <1>2, <1>3, <1>7, <2>1, <2>2, <2>3, FailWell
<1>8. CASE KindAt(close) = "Backtick" /\ close # i + 1
           /\ \E text \in BOOLEAN : Place(Pushed, "CodeSpan", r, text)
  <2> DEFINE inner == Extract(ReadTo(open, close))
  <2>1. close \in i + 2 .. Len(tokens) /\ close + 1 <= Len(tokens)
    BY <1>2, <1>4, <1>8, TokenExists
  <2>2. /\ Advances(open, inner) /\ inner.currentIndex = close
        /\ inner.accumulatedStartIndex = close
    BY <1>1, <1>2, <1>3, <2>1, ReadAndExtract
  <2>3. GoodReader(inner) /\ Begin(inner) = i /\ inner.excerpts # <<>>
    BY <1>3, <2>2, <1>1, ReaderFacts DEF Advances
  <2> HIDE DEF inner
  <2>4. r = Extract(ReadTo(inner, close + 1))
    BY <2>2 DEF ReadTokens, inner
  <2>5. /\ Advances(inner, r) /\ r.currentIndex = close + 1
        /\ r.accumulatedStartIndex = close + 1
    BY <1>1, <1>2, <2>1, <2>2, <2>3, <2>4, ReadAndExtract
  <2>6. GoodReader(r) /\ Begin(r) = i
    BY <2>3, <2>5, <1>1, ReaderFacts DEF Advances
  <2>7. r \in Reader
    BY <1>1, <2>6, ReaderFacts
  <2> HIDE DEF r
  <2>8. ASSUME NEW text PROVE IsWellFormed(NewNode("CodeSpan", r, text))
    <3> DEFINE n == NewNode("CodeSpan", r, text)
    <3>1. n.kind = "CodeSpan" /\ n.from = i /\ n.to = close + 1
      BY <2>5, <2>6, MarkerIsBegin DEF NewNode
    <3> HIDE DEF n
    <3>2. IsCodeSpan(n)
      BY <1>1, <1>2, <1>4, <1>8, <2>1, <3>1 DEF IsCodeSpan, Begins, EndsWith, InnerKinds
    <3>3. IsWellFormed(n)
      BY <3>1, <3>2 DEF IsWellFormed, Blocks
    <3> QED  BY <3>3 DEF n
  <2> QED  BY <1>1, <1>8, <2>5, <2>7, <2>8, PlaceWell DEF IsPreceding
<1>9. \/ KindAt(close) # "Backtick" /\ FailHere(Pushed, open, 1, "CodeSpanMissingDelimiter")
      \/ KindAt(close) = "Backtick" /\ close = i + 1 /\ FailHere(Pushed, open, 2, "CodeSpanEmpty")
      \/ KindAt(close) = "Backtick" /\ close # i + 1
         /\ Place(Pushed, "CodeSpan", r, Visible(i + 1, close))
  <2>1. CodeEnd(open.currentIndex) = close
    BY <1>3
  <2> QED  BY <1>3, <2>1 DEF CodeSpan
<1>10. Visible(i + 1, close) \in BOOLEAN
  BY DEF Visible
<1> HIDE DEF r, open, close
<1> QED  BY <1>6, <1>7, <1>8, <1>9, <1>10

\* The last plain text
LEMMA FinishWell ==
  ASSUME Inv, Inv', WellInv, Finish
  PROVE  WellInv'
<1>1. pc = "Main" /\ UNCHANGED input /\ nodes' = Pushed /\ pc' = "Done"
  BY DEF Finish
<1>2. SoFar(pc', reader')
  BY <1>1 DEF SoFar, ParamPoints, TypePoints, HtmlPoints
<1> QED  BY <1>1, <1>2, ReadWell DEF IsPreceding

\* Block tags
\* A failure has a message.
LEMMA FailuresAreSome ==
  /\ \A id, i : FailureAt(id, i) # NoFailure
  /\ \A id, i, j : FailureSince(id, i, j) # NoFailure
<1>1. \A m : <<m>> # <<>>
  OBVIOUS
<1> QED  BY <1>1 DEF FailureAt, FailureSince, NoFailure

\* What _parseBlockTag() accepts stands alone between spacing.
LEMMA TagBegins ==
  ASSUME Inv, NEW tag, NEW syntaxKind, BlockTagIs(tag, syntaxKind)
  PROVE  BlockTagBegins(reader.currentIndex)
<1>1. KindAt(reader.currentIndex) = "AtSign" /\ BlockTagFailure = NoFailure
  BY DEF BlockTagIs, Peek
<1>2. /\ PeekPrevious(reader) \in {"EndOfInput", "Spacing", "Newline"}
      /\ KindAt(reader.currentIndex + 1) = "AsciiWord"
  BY <1>1, FailuresAreSome DEF BlockTagFailure
<1>3. reader.currentIndex > 0 => KindAt(reader.currentIndex - 1) # "EndOfInput"
  <2>1. StreamOK /\ reader.currentIndex \in 0 .. Len(tokens) /\ Len(tokens) \in Nat
    BY ReaderFacts DEF Inv
  <2> QED  BY <2>1, TokenFacts
<1>4. reader.currentIndex \in Nat
  BY ReaderFacts DEF Inv
<1> QED  BY <1>1, <1>2, <1>3, <1>4 DEF BlockTagBegins, PeekPrevious

\* What begins like a block tag is one.
LEMMA BlockTagIsWellFormed ==
  ASSUME NEW n, n.kind \in {"BlockTag", "ModifierTag", "Block", "ParamBlock"},
         BlockTagBegins(n.from), n.from \in Nat
  PROVE  IsWellFormed(n)
<1>1. IsBlockTag(n)
  <2>1. /\ Len(<<"AtSign", "AsciiWord">>) = 2
        /\ n.from + 1 - 1 = n.from /\ n.from + 2 - 1 = n.from + 1
    OBVIOUS
  <2> QED  BY <2>1 DEF IsBlockTag, BlockTagBegins, Begins
<1> QED  BY <1>1 DEF IsWellFormed, Blocks

\* An at-sign that begins no block tag
LEMMA RejectBlockTagWell ==
  ASSUME Inv, Inv', WellInv, RejectBlockTag
  PROVE  WellInv'
<1>1. /\ pc = "Main" /\ UNCHANGED input /\ \E m : Fail(Pushed, Start, 1, m)
      /\ KindAt(reader.currentIndex) = "AtSign"
  BY DEF RejectBlockTag, Peek
<1>2. reader.currentIndex \in Nat /\ reader.currentIndex + 1 <= Len(tokens)
  BY <1>1, PushedFacts, TokenExists
<1>3. IsWarranted(Pushed, Span(reader.currentIndex, reader.currentIndex + 1))
  BY <1>1, <1>2, OneTokenIsWarranted
<1> QED  BY <1>1, <1>2, <1>3, FailAtStartWell

\* A tag that is a node by itself
LEMMA BlockTagsWell ==
  ASSUME Inv, Inv', WellInv, BlockTag \/ ModifierTag \/ UnrecognizedBlockTag
  PROVE  WellInv'
<1>1. PICK tag, syntaxKind :
        /\ BlockTagIs(tag, syntaxKind) /\ UNCHANGED input
        /\ \E kind \in {"BlockTag", "ModifierTag", "Block"} : Place(Pushed, kind, TagExtracted, FALSE)
  BY DEF BlockTag, ModifierTag, UnrecognizedBlockTag
<1>2. /\ pc = "Main" /\ GoodReader(TagExtracted) /\ Begin(TagExtracted) = reader.currentIndex
      /\ TagExtracted.accumulatedStartIndex = TagExtracted.currentIndex
  BY <1>1, BlockTagFacts
<1>3. TagExtracted \in Reader /\ reader.currentIndex \in Nat
  BY <1>2, ReaderFacts DEF Inv
<1>4. PICK kind \in {"BlockTag", "ModifierTag", "Block"} : Place(Pushed, kind, TagExtracted, FALSE)
  BY <1>1
<1> DEFINE n == NewNode(kind, TagExtracted, FALSE)
<1>5. n.kind = kind /\ n.from = reader.currentIndex
  BY <1>2, MarkerIsBegin DEF NewNode
<1>6. IsWellFormed(n)
  <2>1. BlockTagBegins(n.from) /\ n.from \in Nat
    BY <1>1, <1>3, <1>5, TagBegins
  <2>2. n.kind \in {"BlockTag", "ModifierTag", "Block", "ParamBlock"}
    BY <1>5
  <2> HIDE DEF n
  <2> QED  BY <2>1, <2>2, BlockTagIsWellFormed
<1>7. kind # "ErrorText"
  OBVIOUS
<1> QED  BY <1>1, <1>2, <1>3, <1>4, <1>6, <1>7, PlaceWell DEF IsPreceding

\* The tag of a param block
LEMMA ParamTagWell ==
  ASSUME Inv, Inv', WellInv, ParamTag
  PROVE  WellInv'
<1>1. PICK tag : BlockTagIs(tag, "BlockTag")
  BY DEF ParamTag
<1>2. nodes' = Pushed /\ reader' = TagExtracted /\ pc' = "TypeBeforeName" /\ UNCHANGED input
  BY DEF ParamTag
<1>3. pc = "Main" /\ Begin(TagExtracted) = reader.currentIndex
  BY <1>1, BlockTagFacts
<1>4. SoFar(pc', reader')
  BY <1>1, <1>2, <1>3, TagBegins DEF SoFar, TypePoints, HtmlPoints
<1> QED  BY <1>2, <1>3, <1>4, ReadWell DEF IsPreceding

\* A construct begins where the nodes end, so that a step that makes no node of it keeps that.
LEMMA BeginStays ==
  ASSUME Inv', NEW end, NodesOK(nodes', end)
  PROVE  Begin(reader') = end
<1>1. NodesOK(nodes', Begin(reader'))
  <2>1. (NodesOK(nodes, Begin(reader)))'
    BY DEF Inv
  <2> QED  BY <2>1 DEF NodesOK, Begin
<1> QED  BY <1>1 DEF NodesOK

\* A param block that is not complete
LEMMA ParamGoesOn ==
  ASSUME Inv, Inv', WellInv, UNCHANGED input, pc \in ParamPoints, pc' \in ParamPoints,
         nodes' = nodes
  PROVE  WellInv'
<1>1. Begin(reader') = Begin(reader)
  BY BeginStays DEF Inv
<1>2. SoFar(pc', reader')
  BY <1>1 DEF WellInv, SoFar, ParamPoints, TypePoints, HtmlPoints
<1> QED  BY <1>2, ReadWell DEF IsPreceding

\* ... and one that is
LEMMA ParamBlockWell ==
  ASSUME Inv, Inv', WellInv, UNCHANGED input, pc \in ParamPoints,
         NEW r, r \in Reader, Begin(r) = Begin(reader), r.accumulatedStartIndex = r.currentIndex,
         PlaceParamBlock(r)
  PROVE  WellInv'
<1> DEFINE n == NewNode("ParamBlock", r, FALSE)
<1>1. BlockTagBegins(Begin(reader)) /\ Begin(reader) \in Nat
  BY ReaderFacts DEF WellInv, SoFar, Inv
<1>2. n.kind = "ParamBlock" /\ n.from = Begin(reader)
  BY MarkerIsBegin DEF NewNode
<1>3. IsWellFormed(n)
  <2> HIDE DEF n
  <2> QED  BY <1>1, <1>2, BlockTagIsWellFormed
<1> QED  BY <1>3, PlaceWell DEF PlaceParamBlock, IsPreceding

\* A param block keeps its tag, whatever is missing in it.
LEMMA ParamBlocksWell ==
  ASSUME Inv, Inv', WellInv, ParseParamBlock
  PROVE  WellInv'
<1>1. UNCHANGED input
  BY DEF ParseParamBlock, TryParseUnsupportedJSDocType, ParamName, ReadJSDocRest, CloseJSDocRest,
         GiveUpJSDocRest, Hyphen, EndOfParam
<1>2. pc \in ParamPoints
  BY DEF ParseParamBlock, TryParseUnsupportedJSDocType, ParamName, ReadJSDocRest, CloseJSDocRest,
         GiveUpJSDocRest, Hyphen, EndOfParam, ParamPoints
<1>3. pc # "Main" /\ pc # "Done" /\ StreamOK /\ GoodReader(reader) /\ reader.excerpts # <<>>
      /\ reader \in Reader
  BY <1>2, ReaderFacts DEF ParamPoints, TypePoints, Inv, PointOK
<1>4. CASE Hyphen \/ EndOfParam
  <2>1. reader.accumulatedStartIndex = reader.currentIndex
    BY <1>4 DEF Hyphen, EndOfParam, Inv, PointOK, EmptyPoints, IsEmpty
  <2>2. \/ PlaceParamBlock(reader)
        \/ nodes' = nodes /\ pc' \in ParamPoints
    BY <1>4 DEF Hyphen, EndOfParam, ParamPoints, TypePoints
  <2> QED  BY <1>1, <1>2, <1>3, <2>1, <2>2, ParamBlockWell, ParamGoesOn
<1>5. CASE ParamName
  <2> DEFINE r == IF Peek(reader) = "LeftSquareBracket"
                    THEN Extract(ReadTokens(reader, 1)) ELSE reader
             b == Backtrack(r, TagEnd, 1)
  <2>1. \/ PlaceParamBlock(b)
        \/ nodes' = nodes /\ pc' \in ParamPoints
    BY <1>5 DEF ParamName, ParamPoints, TypePoints
  <2>2. /\ GoodReader(r) /\ r.excerpts # <<>> /\ r.excerpts[1] = reader.excerpts[1]
        /\ Begin(r) = Begin(reader)
    <3>1. CASE Peek(reader) # "LeftSquareBracket"
      BY <1>3, <3>1
    <3>2. CASE Peek(reader) = "LeftSquareBracket"
      <4> DEFINE j == reader.currentIndex + 1
      <4>1. /\ reader.accumulatedStartIndex = reader.currentIndex /\ Len(tokens) \in Nat
            /\ reader.currentIndex \in 0 .. Len(tokens) /\ 1 \in 1 .. Len(reader.excerpts)
        BY <1>3, <1>5, BegunFacts DEF ParamName, Inv, PointOK, EmptyPoints, IsEmpty
      <4>2. j \in reader.currentIndex .. Len(tokens) /\ reader.accumulatedStartIndex < j
        BY <3>2, <4>1, TokenExists DEF Peek
      <4>3. r = Extract(ReadTo(reader, j))
        BY <3>2 DEF ReadTokens
      <4> HIDE DEF r, j
      <4>4. Advances(reader, r)
        BY <1>3, <4>2, <4>3, ReadAndExtract
      <4> QED  BY <1>3, <4>1, <4>4, BegunFacts DEF Advances
    <3> QED  BY <3>1, <3>2
  <2> HIDE DEF r
  <2>3. b = Backtrack(r, r.excerpts[1][2], 1)
    BY <2>2 DEF TagEnd
  <2> HIDE DEF b
  <2>4. /\ GoodReader(b) /\ Begin(b) = Begin(r) /\ b.currentIndex = b.accumulatedStartIndex
    BY <1>3, <2>2, <2>3, BacktrackToFirst
  <2>5. b \in Reader
    BY <1>3, <2>4, ReaderFacts
  <2> QED  BY <1>1, <1>2, <2>1, <2>2, <2>4, <2>5, ParamBlockWell, ParamGoesOn
<1>6. CASE TryParseUnsupportedJSDocType
  <2>1. nodes' = nodes /\ pc' \in ParamPoints
    BY <1>6 DEF TryParseUnsupportedJSDocType, ParamPoints, TypePoints, AfterRest
  <2> QED  BY <1>1, <1>2, <2>1, ParamGoesOn
<1>7. CASE ReadJSDocRest \/ CloseJSDocRest \/ GiveUpJSDocRest
  <2>1. pc = "JSDocRest" /\ nodes' = nodes /\ pc' \in {pc, AfterRest(rest.resume)}
    BY <1>7 DEF ReadJSDocRest, CloseJSDocRest, GiveUpJSDocRest
  <2>2. AfterRest(rest.resume) \in ParamPoints
    BY <2>1, RestFacts DEF ParamPoints, TypePoints
  <2> QED  BY <1>1, <1>2, <2>1, <2>2, ParamGoesOn
<1> QED  BY <1>4, <1>5, <1>6, <1>7 DEF ParseParamBlock

\* Inline tags
\* The tokens that TryReadSpacingAndNewlines() reads
LEMMA SpacingIsRead ==
  ASSUME StreamOK, NEW r, GoodReader(r)
  PROVE  LET c == TryReadSpacingAndNewlines(r).currentIndex IN
         /\ c \in r.currentIndex .. Len(tokens)
         /\ \A k \in r.currentIndex .. c - 1 : KindAt(k) \in {"Spacing", "Newline"}
<1> DEFINE j == Skip(r.currentIndex, {"Spacing", "Newline"})
           s == ReadTo(r, j)
<1>1. r.currentIndex \in 0 .. Len(tokens)
  BY ReaderFacts
<1>2. /\ j \in r.currentIndex .. Len(tokens)
      /\ \A k \in r.currentIndex .. j - 1 : KindAt(k) \in {"Spacing", "Newline"}
  BY <1>1, SkipStops
<1> HIDE DEF j
<1>3. GoodReader(s) /\ s.currentIndex = j
  BY <1>2, ReadToAdvances DEF Advances
<1> HIDE DEF s
<1>4. TryExtract(s).currentIndex = j
  BY <1>3, TryExtractAdvances
<1> QED  BY <1>2, <1>4 DEF TryReadSpacingAndNewlines, ReadWhile, s, j

\* Whether a token is escaped depends on the backslashes before it.
LEMMA EscapeFacts ==
  ASSUME NEW c \in Nat
  PROVE  /\ KindAt(c) # "Backslash" => Unescaped(c + 1)
         /\ Unescaped(c) /\ KindAt(c) = "Backslash" => Escaped(c + 1)
         /\ Unescaped(c) /\ KindAt(c) = "Backslash" => Unescaped(c + 2)
<1>1. ASSUME KindAt(c) # "Backslash" PROVE Unescaped(c + 1)
  <2>1. /\ 0 \in 0 .. c + 1 /\ 0 % 2 = 0 /\ KindAt((c + 1) - 0 - 1) # "Backslash"
        /\ (c + 1) - 0 .. (c + 1) - 1 = {}
    BY <1>1
  <2> QED  BY <2>1 DEF Unescaped
<1>2. ASSUME Unescaped(c), KindAt(c) = "Backslash" PROVE Escaped(c + 1) /\ Unescaped(c + 2)
  <2>1. PICK n \in 0 .. c : /\ n % 2 = 0
                            /\ \A j \in c - n .. c - 1 : KindAt(j) = "Backslash"
                            /\ n < c => KindAt(c - n - 1) # "Backslash"
    BY <1>2 DEF Unescaped
  <2>2. /\ n + 1 \in 0 .. c + 1 /\ (n + 1) % 2 = 1 /\ n + 2 \in 0 .. c + 2 /\ (n + 2) % 2 = 0
        /\ (c + 1) - (n + 1) = c - n /\ (c + 2) - (n + 2) = c - n
    BY <2>1
  <2>3. \A j \in c - n .. (c + 1) - 1 : KindAt(j) = "Backslash"
    BY <1>2, <2>1
  <2>4. Escaped(c + 1)
    BY <2>1, <2>2, <2>3 DEF Escaped
  <2>5. ASSUME KindAt(c + 1) = "Backslash" PROVE Unescaped(c + 2)
    <3>1. \A j \in c - n .. (c + 2) - 1 : KindAt(j) = "Backslash"
      BY <2>3, <2>5
    <3> QED  BY <2>1, <2>2, <3>1 DEF Unescaped
  <2>6. ASSUME KindAt(c + 1) # "Backslash" PROVE Unescaped(c + 2)
    <3>1. /\ 0 \in 0 .. c + 2 /\ 0 % 2 = 0 /\ KindAt((c + 2) - 0 - 1) # "Backslash"
          /\ (c + 2) - 0 .. (c + 2) - 1 = {}
      BY <2>6
    <3> QED  BY <3>1 DEF Unescaped
  <2> QED  BY <2>4, <2>5, <2>6
<1> QED  BY <1>1, <1>2

\* "{@" are two tokens that an error takes together.
LEMMA InlineTagIsWarranted ==
  ASSUME NEW all, NEW m \in Nat, KindAt(m) = "LeftCurlyBracket", KindAt(m + 1) = "AtSign"
  PROVE  IsWarranted(all, Span(m, m + 2))
<1>1. ~IsFence(m)
  BY DEF IsFence
<1> QED  BY <1>1 DEF IsWarranted, TakesTheDelimiter, Span

\* The name of a tag is one word, and what follows it is spacing.
LEMMA OpenInlineTagWell ==
  ASSUME Inv, Inv', WellInv, OpenInlineTag
  PROVE  WellInv'
<1> DEFINE i == reader.currentIndex
           open == Extract(ReadTokens(Start, 1))
           end == Skip(i + 2, {"AsciiWord"})
           named == Extract(ReadTo(open, end))
           r == TryReadSpacingAndNewlines(named)
<1>1. pc = "Main" /\ UNCHANGED input /\ KindAt(i) = "LeftCurlyBracket" /\ StreamOK
  BY DEF OpenInlineTag, Peek, Inv
<1>2. i \in Nat /\ i + 1 <= Len(tokens) /\ Len(tokens) \in Nat /\ NodesOK(Pushed, i)
  BY <1>1, PushedFacts, TokenExists
<1>3. /\ GoodReader(open) /\ Begin(open) = i /\ open.currentIndex = i + 1
      /\ open.accumulatedStartIndex = i + 1
  BY <1>1, <1>2, StartReads
<1> HIDE DEF open
<1>4. /\ (i + 1) + 1 = i + 2
      /\ \/ KindAt(i + 1) # "AtSign" /\ FailHere(Pushed, open, 1, "MalformedInlineTag")
         \/ KindAt(i + 1) = "AtSign" /\ \E m : Fail(Pushed, open, 2, m)
         \/ /\ KindAt(i + 1) = "AtSign" /\ end # i + 2
            /\ nodes' = Pushed /\ reader' = r /\ pc' = "InlineTag"
  <2>1. open.currentIndex = i + 1 /\ (i + 1) + 1 = i + 2
    BY <1>2, <1>3
  <2> HIDE DEF end
  <2> QED  BY <2>1, FailuresAreSome DEF OpenInlineTag, end, open
<1>5. CASE KindAt(i + 1) # "AtSign" /\ FailHere(Pushed, open, 1, "MalformedInlineTag")
  <2>1. ~IsFence(i)
    BY <1>1, <1>2 DEF IsFence
  <2>2. IsWarranted(Pushed, Span(i, i + 1))
    BY <1>1, <1>2, <1>5, <2>1 DEF IsWarranted, TakesTheDelimiter, Span
  <2>3. IsPreceding(Pushed) /\ 1 \in Nat \ {0}
    BY <1>1 DEF IsPreceding
  <2> HIDE DEF end
  <2> QED  BY <1>1, <1>2, <1>3, <1>5, <2>2, <2>3, FailWell
<1>6. CASE KindAt(i + 1) = "AtSign" /\ \E m : Fail(Pushed, open, 2, m)
  <2>1. i + 2 <= Len(tokens)
    <3>1. i + 1 \in Nat /\ (i + 1) + 1 <= Len(tokens)
      BY <1>2, <1>6, TokenExists
    <3> QED  BY <1>2, <3>1
  <2>2. IsWarranted(Pushed, Span(i, i + 2))
    BY <1>1, <1>2, <1>6, InlineTagIsWarranted
  <2>3. IsPreceding(Pushed) /\ 2 \in Nat \ {0}
    BY <1>1 DEF IsPreceding
  <2> HIDE DEF end
  <2> QED  BY <1>1, <1>2, <1>3, <1>6, <2>1, <2>2, <2>3, FailWell
<1>7. CASE /\ KindAt(i + 1) = "AtSign" /\ end # i + 2
           /\ nodes' = Pushed /\ reader' = r /\ pc' = "InlineTag"
  <2>1. i + 2 \in 0 .. Len(tokens)
    <3>1. i + 1 \in Nat /\ (i + 1) + 1 <= Len(tokens)
      BY <1>2, <1>7, TokenExists
    <3> QED  BY <1>2, <3>1
  <2>2. /\ end \in i + 3 .. Len(tokens)
        /\ \A k \in i + 2 .. end - 1 : KindAt(k) = "AsciiWord"
    <3>1. /\ end \in i + 2 .. Len(tokens)
          /\ \A k \in i + 2 .. end - 1 : KindAt(k) \in {"AsciiWord"}
      BY <1>1, <2>1, SkipStops
    <3> QED  BY <1>2, <1>7, <3>1
  <2> HIDE DEF end
  <2>3. GoodReader(named) /\ named.currentIndex = end
    <3>1. end \in open.currentIndex .. Len(tokens) /\ open.accumulatedStartIndex < end
      BY <1>2, <1>3, <2>2
    <3> QED  BY <1>1, <1>3, <3>1, ReadAndExtract DEF Advances
  <2> HIDE DEF named
  <2>4. /\ r.currentIndex \in end .. Len(tokens)
        /\ \A k \in end .. r.currentIndex - 1 : KindAt(k) \in {"Spacing", "Newline"}
    BY <1>1, <2>3, SpacingIsRead
  <2> DEFINE c == r.currentIndex
  <2> HIDE DEF r
  <2>5. \A k \in i + 1 .. c - 1 : KindAt(k) \in {"AtSign", "AsciiWord", "Spacing", "Newline"}
    <3>1. \A k \in i + 1 .. c - 1 : k = i + 1 \/ k \in i + 2 .. end - 1 \/ k \in end .. c - 1
      BY <1>2, <2>2, <2>4
    <3> QED  BY <1>7, <2>2, <2>4, <3>1
  <2>6. c \in i + 3 .. Len(tokens) /\ KindAt(i + 2) = "AsciiWord"
    BY <1>2, <2>2, <2>4
  <2>7. Unescaped(c)
    <3>1. c - 1 \in i + 1 .. c - 1 /\ c - 1 \in Nat /\ (c - 1) + 1 = c
      BY <1>2, <2>6
    <3>2. KindAt(c - 1) # "Backslash"
      BY <2>5, <3>1
    <3> QED  BY <3>1, <3>2, EscapeFacts
  <2>8. InlineTagSoFar(i, c)
    BY <1>1, <1>7, <2>5, <2>6, <2>7, <1>2 DEF InlineTagSoFar, Braces
  <2>9. Begin(reader') = i
    BY <1>2, <1>7, BeginStays
  <2>10. SoFar(pc', reader')
    BY <1>7, <2>8, <2>9 DEF SoFar, ParamPoints, TypePoints, HtmlPoints
  <2> QED  BY <1>1, <1>7, <2>10, ReadWell DEF IsPreceding
<1> QED  BY <1>4, <1>5, <1>6, <1>7

\* Braces are escaped, and a backslash that is escaped escapes nothing.
LEMMA ReadInlineTagWell ==
  ASSUME Inv, Inv', WellInv, ReadInlineTag
  PROVE  WellInv'
<1> DEFINE m == Begin(reader)
           c == reader.currentIndex
<1>1. /\ pc = "InlineTag" /\ pc' = "InlineTag" /\ nodes' = nodes /\ UNCHANGED input
      /\ \/ /\ KindAt(c) \notin {"Backslash", "LeftCurlyBracket", "RightCurlyBracket"}
            /\ reader' = ReadTo(reader, c + 1)
         \/ KindAt(c) = "Backslash" /\ reader' = ReadTo(reader, c + 2)
  BY DEF ReadInlineTag, Peek, PeekAfter, ReadTokens
<1>2. InlineTagSoFar(m, c) /\ c \in Nat /\ m \in Nat /\ reader \in Reader
  BY <1>1, ReaderFacts DEF WellInv, SoFar, Inv
<1>3. Begin(reader') = m
  BY <1>1, BeginStays DEF Inv
<1>4. InlineTagSoFar(m, reader'.currentIndex)
  <2>1. CASE /\ KindAt(c) \notin {"Backslash", "LeftCurlyBracket", "RightCurlyBracket"}
             /\ reader' = ReadTo(reader, c + 1)
    <3>1. reader'.currentIndex = c + 1
      BY <1>2, <2>1 DEF ReadTo, Reader
    <3>2. Unescaped(c + 1)
      BY <1>2, <2>1, EscapeFacts
    <3>3. \A i \in m + 1 .. (c + 1) - 1 : KindAt(i) \in Braces => Escaped(i)
      <4>1. \A i \in m + 1 .. (c + 1) - 1 : i \in m + 1 .. c - 1 \/ i = c
        BY <1>2
      <4> QED  BY <1>2, <2>1, <4>1 DEF InlineTagSoFar, Braces
    <3>4. InlineTagSoFar(m, c + 1)
      BY <1>2, <3>2, <3>3 DEF InlineTagSoFar
    <3> QED  BY <3>1, <3>4
  <2>2. CASE KindAt(c) = "Backslash" /\ reader' = ReadTo(reader, c + 2)
    <3>1. reader'.currentIndex = c + 2
      BY <1>2, <2>2 DEF ReadTo, Reader
    <3>2. Unescaped(c + 2) /\ Escaped(c + 1)
      BY <1>2, <2>2, EscapeFacts DEF InlineTagSoFar
    <3>3. \A i \in m + 1 .. (c + 2) - 1 : KindAt(i) \in Braces => Escaped(i)
      <4>1. \A i \in m + 1 .. (c + 2) - 1 : i \in m + 1 .. c - 1 \/ i = c \/ i = c + 1
        BY <1>2
      <4> QED  BY <1>2, <2>2, <3>2, <4>1 DEF InlineTagSoFar, Braces
    <3>4. InlineTagSoFar(m, c + 2)
      BY <1>2, <3>2, <3>3 DEF InlineTagSoFar
    <3> QED  BY <3>1, <3>4
  <2> QED  BY <1>1, <2>1, <2>2
<1>5. SoFar(pc', reader')
  BY <1>1, <1>3, <1>4 DEF SoFar, ParamPoints, TypePoints, HtmlPoints
<1> QED  BY <1>1, <1>5, ReadWell DEF IsPreceding

\* An inline tag that is not closed, or not by its own brace
LEMMA RejectInlineTagWell ==
  ASSUME Inv, Inv', WellInv, RejectInlineTag
  PROVE  WellInv'
<1>1. /\ pc = "InlineTag" /\ UNCHANGED input
      /\ \/ \E m : Fail(nodes, reader, 2, m)
         \/ \E id : FailHere(nodes, reader, 2, id)
  BY DEF RejectInlineTag
<1>2. /\ GoodReader(reader) /\ Begin(reader) \in Nat /\ Begin(reader) + 2 <= Len(tokens)
      /\ InlineTagSoFar(Begin(reader), reader.currentIndex)
  BY <1>1, BegunFacts, InlineTagFacts DEF WellInv, SoFar
<1>3. IsWarranted(nodes, Span(Begin(reader), Begin(reader) + 2))
  BY <1>2, InlineTagIsWarranted DEF InlineTagSoFar
<1> QED  BY <1>1, <1>2, <1>3, FailWell DEF IsPreceding

\* A second {@inheritDoc} is an error as a whole, because of the first, which is a node.
LEMMA CloseInlineTagWell ==
  ASSUME Inv, Inv', CommentInv, WellInv, CloseInlineTag
  PROVE  WellInv'
<1> DEFINE m == Begin(reader)
           c == reader.currentIndex
           content == TryExtract(reader)
           r == Extract(ReadTokens(content, 1))
           tag == TextAt(m + 2)
<1>1. /\ pc = "InlineTag" /\ UNCHANGED input /\ KindAt(c) = "RightCurlyBracket" /\ StreamOK
  BY DEF CloseInlineTag, Peek, Inv
<1>2. /\ GoodReader(reader) /\ m \in Nat /\ c \in 0 .. Len(tokens) /\ c + 1 <= Len(tokens)
      /\ Len(tokens) \in Nat /\ InlineTagSoFar(m, c) /\ reader.excerpts # <<>>
  BY <1>1, BegunFacts, TokenExists DEF WellInv, SoFar
<1>3. /\ Advances(reader, content) /\ content.currentIndex = c
      /\ content.accumulatedStartIndex = c /\ GoodReader(content)
  BY <1>1, <1>2, TryExtractAdvances DEF Advances
<1> HIDE DEF content
<1>4. Advances(content, r) /\ r.currentIndex = c + 1 /\ r.accumulatedStartIndex = c + 1
  <2>1. c + 1 \in content.currentIndex .. Len(tokens) /\ content.accumulatedStartIndex < c + 1
    BY <1>2, <1>3
  <2>2. r = Extract(ReadTo(content, c + 1))
    BY <1>3 DEF ReadTokens
  <2> HIDE DEF r
  <2> QED  BY <1>1, <1>3, <2>1, <2>2, ReadAndExtract
<1>5. GoodReader(r) /\ Begin(r) = m
  BY <1>3, <1>4 DEF Advances
<1>6. PICK kind \in EmbeddedResults(tag, content # reader) :
        \/ /\ kind = "InheritDocTag" /\ docComment.inheritDocTag # 0
           /\ Place(nodes, "ErrorText",
                    Extract(ReadTo(Backtrack(r, Marker(r), 0), r.currentIndex)), FALSE)
        \/ \E text \in BOOLEAN : Place(nodes, kind, r, text)
  <2>1. Marker(reader) = m
    BY MarkerIsBegin
  <2> QED  BY <2>1 DEF CloseInlineTag, content
<1> HIDE DEF r
<1>7. /\ kind \in {"InlineTag", "LinkTag", "InheritDocTag"}
      /\ kind = "InheritDocTag" => tag = "inheritDoc"
  BY DEF EmbeddedResults
<1>8. r \in Reader /\ m + 3 <= c + 1
  BY <1>1, <1>2, <1>5, ReaderFacts DEF InlineTagSoFar
<1>9. CASE \E text \in BOOLEAN : Place(nodes, kind, r, text)
  <2>1. ASSUME NEW text PROVE IsWellFormed(NewNode(kind, r, text))
    <3> DEFINE n == NewNode(kind, r, text)
    <3>1. n.kind = kind /\ n.from = m /\ n.to = c + 1
      BY <1>4, <1>5, MarkerIsBegin DEF NewNode
    <3> HIDE DEF n
    <3>2. IsInlineTag(n)
      <4>1. Begins(n, <<"LeftCurlyBracket", "AtSign", "AsciiWord">>)
        <5>1. \A j \in 1 .. 3 : m + j - 1 \in {m, m + 1, m + 2}
              /\ (j = 1 => m + j - 1 = m) /\ (j = 2 => m + j - 1 = m + 1)
              /\ (j = 3 => m + j - 1 = m + 2)
          BY <1>2
        <5> QED  BY <1>2, <3>1, <5>1 DEF Begins, InlineTagSoFar
      <4>2. EndsWith(n, "RightCurlyBracket")
        BY <1>1, <1>2, <3>1 DEF EndsWith
      <4>3. n.from + 1 .. n.to - 2 = m + 1 .. c - 1
        BY <1>2, <3>1
      <4> QED  BY <1>2, <4>1, <4>2, <4>3 DEF IsInlineTag, InlineTagSoFar, Braces
    <3>3. IsWellFormed(n)
      BY <1>7, <3>1, <3>2 DEF IsWellFormed, Blocks
    <3> QED  BY <3>3 DEF n
  <2>2. kind # "ErrorText"
    BY <1>7
  <2> QED  BY <1>1, <1>4, <1>8, <1>9, <2>1, <2>2, PlaceWell DEF IsPreceding
<1>10. CASE /\ kind = "InheritDocTag" /\ docComment.inheritDocTag # 0
            /\ Place(nodes, "ErrorText",
                     Extract(ReadTo(Backtrack(r, Marker(r), 0), r.currentIndex)), FALSE)
  <2> DEFINE s == Extract(ReadTo(Backtrack(r, Marker(r), 0), r.currentIndex))
             n == NewNode("ErrorText", s, FALSE)
  <2>1. s = Extract(ReadTo(Backtrack(r, Begin(r), 0), c + 1))
    BY <1>4, MarkerIsBegin
  <2>2. c + 1 \in Begin(r) + 1 .. Len(tokens)
    BY <1>2, <1>5, <1>8
  <2>3. /\ GoodReader(s) /\ Begin(s) = m /\ s.currentIndex = c + 1
        /\ s.accumulatedStartIndex = c + 1
    BY <1>1, <1>5, <2>1, <2>2, BacktrackToBegin
  <2>4. s \in Reader
    BY <1>1, <2>3, ReaderFacts
  <2>5. n.kind = "ErrorText" /\ n.from = m /\ n.to = c + 1
    BY <2>3, MarkerIsBegin DEF NewNode
  <2>6. Place(nodes, "ErrorText", s, FALSE)
    BY <1>10
  <2> HIDE DEF s
  <2>7. \E j \in 1 .. Len(nodes) : nodes[j].kind = "InheritDocTag" /\ nodes[j].to <= m
    <3>1. docComment.inheritDocTag \in InheritDocs(nodes)
      BY <1>10 DEF CommentInv, TagsOK, IsLastOf
    <3>2. \A k \in 1 .. Len(nodes) : nodes[k].to <= m
      BY DEF Inv, NodesOK
    <3> QED  BY <3>1, <3>2 DEF InheritDocs
  <2>8. ~IsFence(m)
    BY <1>2 DEF IsFence, InlineTagSoFar
  <2> HIDE DEF n
  <2>9. IsWarranted(nodes, n)
    BY <1>2, <1>7, <1>10, <2>5, <2>7, <2>8 DEF IsWarranted, TakesTheDelimiter, InlineTagSoFar
  <2>10. IsWellFormed(n)
    BY <2>5 DEF IsWellFormed, Blocks
  <2> QED  BY <1>1, <2>3, <2>4, <2>6, <2>9, <2>10, PlaceWell DEF IsPreceding, n
<1> QED  BY <1>6, <1>9, <1>10

\* HTML
\* What is between quotes stays there when more is read.
LEMMA QuotedStays ==
  ASSUME NEW m \in Nat, NEW c \in Nat, NEW d \in Nat, c <= d, NEW i, Quoted(Span(m, c), i)
  PROVE  Quoted(Span(m, d), i)
<1>1. c - 1 <= d - 1 /\ c - 1 \in Int /\ d - 1 \in Int
  OBVIOUS
<1>2. PICK a \in m .. i - 1, b \in i + 1 .. c - 1 :
        /\ KindAt(a) = KindAt(b) /\ KindAt(a) \in {"DoubleQuote", "SingleQuote"}
        /\ \A j \in a .. b : KindAt(j) # "Newline"
  BY DEF Quoted, Span
<1>3. b \in i + 1 .. d - 1
  BY <1>1, <1>2
<1> QED  BY <1>2, <1>3 DEF Quoted, Span

\* A tag so far, and what is read next
LEMMA HtmlGrows ==
  ASSUME NEW m \in Nat, NEW c \in Nat, NEW d \in Nat, c <= d, NEW i \in Nat, i <= c,
         HtmlMayHave(Span(m, c), i, c), HtmlMayHave(Span(m, d), c, d)
  PROVE  HtmlMayHave(Span(m, d), i, d)
<1>1. \A k : Quoted(Span(m, c), k) => Quoted(Span(m, d), k)
  BY QuotedStays
<1>2. \A k \in i .. d - 1 : k \in i .. c - 1 \/ k \in c .. d - 1
  OBVIOUS
<1> QED  BY <1>1, <1>2 DEF HtmlMayHave

\* The name of an element or attribute, with the spacing after it, may be in any tag.
LEMMA HtmlNameReads ==
  ASSUME StreamOK, NEW r, GoodReader(r), HtmlName(r).failure = NoFailure
  PROVE  LET c == TryReadSpacingAndNewlines(HtmlName(r).reader).currentIndex IN
         /\ KindAt(r.currentIndex) = "AsciiWord"
         /\ c \in r.currentIndex + 1 .. Len(tokens)
         /\ \A n : HtmlMayHave(n, r.currentIndex, c)
<1> DEFINE S == {"Hyphen", "Period", "AsciiWord"}
           from == r.currentIndex
           j == Skip(from, S)
           read == ReadTo(r, j)
           named == TryExtract(read)
           c == TryReadSpacingAndNewlines(named).currentIndex
<1>1. from \in 0 .. Len(tokens) /\ Len(tokens) \in Nat
  BY ReaderFacts
<1>2. j \in from .. Len(tokens) /\ \A k \in from .. j - 1 : KindAt(k) \in S
  BY <1>1, SkipStops
<1>3. HtmlName(r).reader = named
  BY DEF HtmlName, ReadWhile
<1> HIDE DEF j
<1>4. Advances(r, read) /\ read.currentIndex = j
  BY <1>2, ReadToAdvances
<1>5. GoodReader(read)
  BY <1>4 DEF Advances
<1> HIDE DEF read
<1>6. GoodReader(named) /\ named.currentIndex = j
  BY <1>4, <1>5, TryExtractAdvances DEF Advances
<1>7. /\ j # from /\ KindAt(from) = "AsciiWord"
      /\ \A k \in from .. j - 1 : KindAt(k) # "Period"
      /\ configuration.reportUnsupportedHtmlElements =>
           j = from + 1 /\ TextAt(from) \in configuration.supportedHtmlElements
  BY <1>3, <1>6, FailuresAreSome DEF HtmlName
<1> HIDE DEF named
<1>8. /\ c \in j .. Len(tokens)
      /\ \A k \in j .. c - 1 : KindAt(k) \in {"Spacing", "Newline"}
  BY <1>6, SpacingIsRead
<1> HIDE DEF c
<1>9. \A k \in from .. c - 1 : k \in from .. j - 1 \/ k \in j .. c - 1
  BY <1>1, <1>2, <1>8
<1>10. c \in from + 1 .. Len(tokens)
  BY <1>1, <1>2, <1>7, <1>8
<1>11. \A k \in from .. c - 1 : KindAt(k) \in HtmlKinds
  BY <1>2, <1>7, <1>8, <1>9 DEF HtmlKinds
<1>12. configuration.reportUnsupportedHtmlElements =>
         \A k \in from .. c - 1 :
           KindAt(k) = "AsciiWord" => TextAt(k) \in configuration.supportedHtmlElements
  <2>1. \A k \in from .. from + 1 - 1 : k = from
    BY <1>1
  <2> QED  BY <1>1, <1>7, <1>8, <1>9, <2>1
<1>13. ASSUME NEW n PROVE HtmlMayHave(n, from, c)
  BY <1>11, <1>12 DEF HtmlMayHave
<1> QED  BY <1>3, <1>7, <1>10, <1>13 DEF c

\* The tokens of a string are between its quotes, which are on one line.
LEMMA HtmlStringReads ==
  ASSUME StreamOK, NEW r, GoodReader(r), HtmlStringFailure(r) = NoFailure,
         NEW m \in Nat, m <= r.currentIndex, NEW d \in Nat, HtmlString(r).currentIndex <= d
  PROVE  HtmlMayHave(Span(m, d), r.currentIndex, HtmlString(r).currentIndex)
<1> DEFINE i == r.currentIndex
           S == {Peek(r), "Newline"}
           quote == SkipTo(i + 1, S)
           end == HtmlString(r).currentIndex
<1>1. r \in Reader /\ i \in 0 .. Len(tokens) /\ Len(tokens) \in Nat
  BY ReaderFacts
<1>2. end = quote + 1
  BY <1>1 DEF HtmlString, ReadTo, Reader
<1>3. KindAt(i) \in {"DoubleQuote", "SingleQuote"} /\ KindAt(end - 1) = KindAt(i)
  BY FailuresAreSome DEF HtmlStringFailure, Peek
<1>4. i + 1 \in 0 .. Len(tokens)
  <2>1. KindAt(i) # "EndOfInput"
    BY <1>3
  <2>2. i < Len(tokens)
    BY <1>1, <2>1, TokenFacts
  <2> QED  BY <1>1, <2>2
<1>5. /\ quote \in i + 1 .. Len(tokens)
      /\ \A k \in i + 1 .. quote - 1 : KindAt(k) # "Newline"
  BY <1>4, SkipToStops
<1> HIDE DEF quote
<1>6. KindAt(quote) = KindAt(i)
  <2>1. end - 1 = quote
    BY <1>1, <1>2, <1>5
  <2> QED  BY <1>3, <2>1
<1>7. \A k \in i .. quote : KindAt(k) # "Newline"
  <2>1. \A k \in i .. quote : k = i \/ k = quote \/ k \in i + 1 .. quote - 1
    BY <1>1, <1>5
  <2> QED  BY <1>3, <1>5, <1>6, <2>1
<1>8. ASSUME NEW k \in i + 1 .. quote - 1 PROVE Quoted(Span(m, d), k)
  <2>1. i \in m .. k - 1 /\ quote \in k + 1 .. d - 1
    BY <1>1, <1>2, <1>5
  <2> QED  BY <1>3, <1>6, <1>7, <2>1 DEF Quoted, Span
<1>9. \A k \in i .. end - 1 : k = i \/ k = quote \/ k \in i + 1 .. quote - 1
  BY <1>1, <1>2, <1>5
<1>10. \A k \in i .. end - 1 :
         KindAt(k) \in {"DoubleQuote", "SingleQuote"} \/ Quoted(Span(m, d), k)
  BY <1>3, <1>6, <1>8, <1>9
<1> QED  BY <1>10 DEF HtmlMayHave, HtmlKinds

\* A tag that is not complete
LEMMA HtmlGoesOnWell ==
  ASSUME Inv, Inv', WellInv, UNCHANGED input, pc \in HtmlPoints, pc' \in HtmlPoints,
         nodes' = nodes, NEW d \in Nat, reader'.currentIndex = d, reader.currentIndex <= d,
         HtmlMayHave(Span(Begin(reader), d), reader.currentIndex, d)
  PROVE  WellInv'
<1> DEFINE m == Begin(reader)
           c == reader.currentIndex
<1>1. HtmlStartTagSoFar(m, c) /\ m \in Nat /\ c \in Nat
  BY ReaderFacts DEF WellInv, SoFar, Inv
<1>2. Begin(reader') = m
  BY BeginStays DEF Inv
<1> HIDE DEF m, c
<1>3. m + 1 \in Nat /\ m + 1 <= c /\ m + 2 <= d /\ c <= d
  BY <1>1 DEF HtmlStartTagSoFar, c
<1>4. HtmlMayHave(Span(m, d), m + 1, d)
  BY <1>1, <1>3, HtmlGrows DEF HtmlStartTagSoFar, m, c
<1>5. HtmlStartTagSoFar(m, d)
  BY <1>1, <1>3, <1>4 DEF HtmlStartTagSoFar
<1>6. SoFar(pc', reader')
  BY <1>2, <1>5 DEF SoFar, ParamPoints, TypePoints, HtmlPoints
<1> QED  BY <1>6, ReadWell DEF IsPreceding

\* ... or that fails
LEMMA HtmlFailsWell ==
  ASSUME Inv, Inv', WellInv, UNCHANGED input, pc \in HtmlPoints,
         NEW m, Fail(nodes, reader, 1, m)
  PROVE  WellInv'
<1>1. pc \notin {"Main", "Done"}
  BY DEF HtmlPoints
<1>2. /\ GoodReader(reader) /\ Begin(reader) \in Nat /\ Begin(reader) + 1 <= Len(tokens)
      /\ IsPreceding(nodes) /\ 1 \in Nat \ {0}
  BY <1>1, BegunFacts DEF IsPreceding
<1>3. KindAt(Begin(reader)) = "LessThan"
  BY DEF WellInv, SoFar, HtmlStartTagSoFar
<1>4. IsWarranted(nodes, Span(Begin(reader), Begin(reader) + 1))
  BY <1>2, <1>3, OneTokenIsWarranted
<1> QED  BY <1>2, <1>4, FailWell

\* The name of the element follows the less-than sign.
LEMMA OpenHtmlStartTagWell ==
  ASSUME Inv, Inv', WellInv, OpenHtmlStartTag
  PROVE  WellInv'
<1> DEFINE i == reader.currentIndex
           open == Extract(ReadTokens(Start, 1))
           name == HtmlName(open)
           r == TryReadSpacingAndNewlines(name.reader)
<1>1. /\ pc = "Main" /\ UNCHANGED input /\ KindAt(i) = "LessThan" /\ StreamOK
      /\ \/ \E m : Fail(Pushed, name.reader, 1, m)
         \/ /\ name.failure = NoFailure
            /\ nodes' = Pushed /\ reader' = r /\ pc' = "HtmlAttributes"
  BY DEF OpenHtmlStartTag, Peek, Inv
<1>2. i \in Nat /\ i + 1 <= Len(tokens) /\ Len(tokens) \in Nat /\ NodesOK(Pushed, i)
  BY <1>1, PushedFacts, TokenExists
<1>3. GoodReader(open) /\ Begin(open) = i /\ open.currentIndex = i + 1 /\ open.excerpts # <<>>
  BY <1>1, <1>2, StartReads
<1> HIDE DEF open
<1>4. CASE \E m : Fail(Pushed, name.reader, 1, m)
  <2>1. Advances(open, name.reader)
    BY <1>1, <1>3, HtmlNameFacts
  <2>2. GoodReader(name.reader) /\ Begin(name.reader) = i
    BY <1>3, <2>1 DEF Advances
  <2>3. IsWarranted(Pushed, Span(i, i + 1))
    BY <1>1, <1>2, OneTokenIsWarranted
  <2>4. IsPreceding(Pushed) /\ 1 \in Nat \ {0}
    BY <1>1 DEF IsPreceding
  <2> HIDE DEF name
  <2> QED  BY <1>1, <1>2, <1>4, <2>2, <2>3, <2>4, FailWell
<1>5. CASE /\ name.failure = NoFailure
           /\ nodes' = Pushed /\ reader' = r /\ pc' = "HtmlAttributes"
  <2> DEFINE c == r.currentIndex
  <2>1. KindAt(i + 1) = "AsciiWord" /\ c \in i + 2 .. Len(tokens)
        /\ HtmlMayHave(Span(i, c), i + 1, c)
    <3>1. (i + 1) + 1 = i + 2
      BY <1>2
    <3> QED  BY <1>1, <1>3, <1>5, <3>1, HtmlNameReads
  <2>2. Begin(reader') = i
    BY <1>2, <1>5, BeginStays
  <2> HIDE DEF r
  <2>3. HtmlStartTagSoFar(i, c)
    BY <1>1, <1>2, <2>1 DEF HtmlStartTagSoFar
  <2>4. SoFar(pc', reader')
    BY <1>5, <2>2, <2>3 DEF SoFar, ParamPoints, TypePoints, HtmlPoints
  <2> QED  BY <1>1, <1>5, <2>4, ReadWell DEF IsPreceding
<1> QED  BY <1>1, <1>4, <1>5

\* An attribute: its name, the equals sign and the string
LEMMA HtmlAttributeWell ==
  ASSUME Inv, Inv', WellInv, HtmlAttributeName \/ HtmlEquals \/ HtmlValue
  PROVE  WellInv'
<1> DEFINE m == Begin(reader)
           c == reader.currentIndex
           d == reader'.currentIndex
<1>1. UNCHANGED input /\ pc \in HtmlPoints /\ pc \notin {"Main", "Done"}
  BY DEF HtmlAttributeName, HtmlEquals, HtmlValue, HtmlPoints
<1>2. /\ StreamOK /\ GoodReader(reader) /\ reader.excerpts # <<>>
      /\ c \in 0 .. Len(tokens) /\ Len(tokens) \in Nat /\ m \in Nat
      /\ reader.accumulatedStartIndex = c /\ m <= c
  <2>1. IsEmpty(reader)
    BY DEF HtmlAttributeName, HtmlEquals, HtmlValue, Inv, PointOK, EmptyPoints
  <2> QED  BY <1>1, <2>1, BegunFacts DEF IsEmpty
<1>3. \/ \E f : Fail(nodes, reader, 1, f)
      \/ /\ nodes' = nodes /\ pc' \in HtmlPoints
         /\ \/ /\ HtmlName(reader).failure = NoFailure
               /\ reader' = TryReadSpacingAndNewlines(HtmlName(reader).reader)
            \/ /\ KindAt(c) = "Equals"
               /\ reader' = TryReadSpacingAndNewlines(Extract(ReadTo(reader, c + 1)))
            \/ /\ HtmlStringFailure(reader) = NoFailure
               /\ reader' = TryReadSpacingAndNewlines(Extract(HtmlString(reader)))
  BY DEF HtmlAttributeName, HtmlEquals, HtmlValue, HtmlPoints, Peek, ReadTokens
<1>4. CASE HtmlName(reader).failure = NoFailure
           /\ reader' = TryReadSpacingAndNewlines(HtmlName(reader).reader)
           /\ nodes' = nodes /\ pc' \in HtmlPoints
  <2>1. d \in c + 1 .. Len(tokens) /\ HtmlMayHave(Span(m, d), c, d)
    BY <1>2, <1>4, HtmlNameReads
  <2>2. d \in Nat /\ c <= d
    BY <1>2, <2>1
  <2> QED  BY <1>1, <1>4, <2>1, <2>2, HtmlGoesOnWell
\* A part of the attribute up to j, and then spacing
<1>5. ASSUME NEW j \in c + 1 .. Len(tokens),
             reader' = TryReadSpacingAndNewlines(Extract(ReadTo(reader, j))),
             \A end \in Nat : j <= end => HtmlMayHave(Span(m, end), c, j),
             nodes' = nodes, pc' \in HtmlPoints
      PROVE  WellInv'
  <2> DEFINE r == Extract(ReadTo(reader, j))
  <2>1. GoodReader(r) /\ r.currentIndex = j
    <3>1. j \in c .. Len(tokens) /\ reader.accumulatedStartIndex < j
      BY <1>2
    <3> QED  BY <1>2, <3>1, ReadAndExtract DEF Advances
  <2> HIDE DEF r
  <2>2. /\ d \in j .. Len(tokens)
        /\ \A k \in j .. d - 1 : KindAt(k) \in {"Spacing", "Newline"}
    BY <1>2, <1>5, <2>1, SpacingIsRead DEF r
  <2>3. d \in Nat /\ c <= d /\ j <= d
    BY <1>2, <2>2
  <2>4. \A k \in c .. d - 1 : k \in c .. j - 1 \/ k \in j .. d - 1
    BY <1>2, <2>2
  <2>5. HtmlMayHave(Span(m, d), c, j)
    BY <1>5, <2>3
  <2> HIDE DEF d
  <2>6. HtmlMayHave(Span(m, d), c, d)
    BY <2>2, <2>4, <2>5 DEF HtmlMayHave, HtmlKinds
  <2> QED  BY <1>1, <1>5, <2>3, <2>6, HtmlGoesOnWell DEF d
<1>6. CASE /\ KindAt(c) = "Equals" /\ nodes' = nodes /\ pc' \in HtmlPoints
           /\ reader' = TryReadSpacingAndNewlines(Extract(ReadTo(reader, c + 1)))
  <2>1. c + 1 \in c + 1 .. Len(tokens)
    BY <1>2, <1>6, TokenExists
  <2>2. \A k \in c .. (c + 1) - 1 : k = c
    BY <1>2
  <2>3. \A end \in Nat : HtmlMayHave(Span(m, end), c, c + 1)
    BY <1>6, <2>2 DEF HtmlMayHave, HtmlKinds
  <2> QED  BY <1>5, <1>6, <2>1, <2>3
<1>7. CASE /\ HtmlStringFailure(reader) = NoFailure /\ nodes' = nodes /\ pc' \in HtmlPoints
           /\ reader' = TryReadSpacingAndNewlines(Extract(HtmlString(reader)))
  <2> DEFINE j == HtmlString(reader).currentIndex
  <2>1. j \in c + 1 .. Len(tokens)
    BY <1>2, <1>7, HtmlStringFacts
  <2>2. HtmlString(reader) = ReadTo(reader, j)
    <3>1. reader \in Reader
      BY <1>2, ReaderFacts
    <3>2. j = SkipTo(reader.currentIndex + 1, {Peek(reader), "Newline"}) + 1
      BY <3>1 DEF HtmlString, ReadTo, Reader
    <3> QED  BY <3>2 DEF HtmlString
  <2>3. \A end \in Nat : j <= end => HtmlMayHave(Span(m, end), c, j)
    BY <1>2, <1>7, HtmlStringReads
  <2> HIDE DEF j
  <2> QED  BY <1>5, <1>7, <2>1, <2>2, <2>3
<1>8. CASE \E f : Fail(nodes, reader, 1, f)
  BY <1>1, <1>8, HtmlFailsWell
<1> QED  BY <1>3, <1>4, <1>6, <1>7, <1>8

\* What is between the name and the closing bracket, a slash aside, makes a well-formed tag.
LEMMA CloseHtmlStartTagWell ==
  ASSUME Inv, Inv', WellInv, CloseHtmlStartTag
  PROVE  WellInv'
<1> DEFINE m == Begin(reader)
           c == reader.currentIndex
           slashed == IF Peek(reader) = "Slash" THEN ReadTokens(reader, 1) ELSE reader
           j == slashed.currentIndex
           r == Extract(ReadTokens(slashed, 1))
           n == NewNode("HtmlStartTag", r, FALSE)
<1>1. /\ pc = "HtmlAttributes" /\ UNCHANGED input
      /\ \/ KindAt(j) = "GreaterThan" /\ Place(nodes, "HtmlStartTag", r, FALSE)
         \/ \E f : Fail(nodes, reader, 1, f)
  BY DEF CloseHtmlStartTag, Peek
<1>2. CASE \E f : Fail(nodes, reader, 1, f)
  BY <1>1, <1>2, HtmlFailsWell DEF HtmlPoints
<1>3. CASE KindAt(j) = "GreaterThan" /\ Place(nodes, "HtmlStartTag", r, FALSE)
  <2>1. /\ StreamOK /\ GoodReader(reader) /\ reader.accumulatedStartIndex = c
        /\ c \in 0 .. Len(tokens) /\ Len(tokens) \in Nat /\ m \in Nat
    BY <1>1, BegunFacts DEF Inv, PointOK, EmptyPoints, IsEmpty
  <2>2. /\ Advances(reader, slashed) /\ slashed.accumulatedStartIndex = c
        /\ \/ j = c
           \/ j = c + 1 /\ KindAt(c) = "Slash" /\ c + 1 <= Len(tokens)
    <3>1. CASE Peek(reader) = "Slash"
      <4>1. c + 1 \in c .. Len(tokens)
        BY <2>1, <3>1, TokenExists DEF Peek
      <4>2. slashed = ReadTo(reader, c + 1)
        BY <3>1 DEF ReadTokens
      <4> HIDE DEF slashed
      <4> QED  BY <2>1, <3>1, <4>1, <4>2, ReadToAdvances DEF Peek
    <3>2. CASE Peek(reader) # "Slash"
      BY <2>1, <3>2, AdvancesReflexive
    <3> QED  BY <3>1, <3>2
  <2>3. GoodReader(slashed) /\ Begin(slashed) = m
    BY <1>1, <2>2, BegunFacts
  <2> HIDE DEF slashed
  <2>4. j \in Nat /\ c <= j /\ j <= c + 1 /\ j + 1 \in j .. Len(tokens)
        /\ slashed.accumulatedStartIndex < j + 1 /\ (j + 1) - 1 = j
    BY <1>3, <2>1, <2>2, TokenExists
  <2>5. r = Extract(ReadTo(slashed, j + 1))
    BY DEF ReadTokens
  <2> HIDE DEF r
  <2>6. Advances(slashed, r) /\ r.accumulatedStartIndex = j + 1 /\ r.currentIndex = j + 1
    BY <2>1, <2>3, <2>4, <2>5, ReadAndExtract
  <2>7. GoodReader(r) /\ Begin(r) = m
    <3>1. Advances(reader, r)
      BY <2>1, <2>2, <2>6, AdvancesTransitive
    <3> QED  BY <1>1, <3>1, BegunFacts
  <2>8. r \in Reader
    BY <2>1, <2>7, ReaderFacts
  <2>9. n.kind = "HtmlStartTag" /\ n.from = m /\ n.to = j + 1
        /\ \A k : Quoted(n, k) <=> Quoted(Span(m, j + 1), k)
    BY <2>6, <2>7, MarkerIsBegin DEF NewNode, Quoted, Span
  <2> HIDE DEF n
  <2>10. HtmlStartTagSoFar(m, c)
    BY <1>1 DEF WellInv, SoFar, HtmlPoints
  <2>11. /\ \A k \in m + 1 .. c - 1 : KindAt(k) \notin HtmlKinds => Quoted(n, k)
         /\ configuration.reportUnsupportedHtmlElements =>
              \A k \in m + 1 .. c - 1 :
                KindAt(k) = "AsciiWord" /\ ~Quoted(n, k) =>
                  TextAt(k) \in configuration.supportedHtmlElements
    <3>1. c \in Nat /\ j + 1 \in Nat /\ c <= j + 1
      BY <2>1, <2>4
    <3>2. \A k : Quoted(Span(m, c), k) => Quoted(n, k)
      BY <2>1, <2>9, <3>1, QuotedStays
    <3> QED  BY <2>10, <3>2 DEF HtmlStartTagSoFar, HtmlMayHave
  <2>12. IsHtmlTag(n)
    <3>1. Begins(n, <<"LessThan", "AsciiWord">>)
      <4>1. /\ Len(<<"LessThan", "AsciiWord">>) = 2
            /\ m + 1 - 1 = m /\ m + 2 - 1 = m + 1
        BY <2>1
      <4> QED  BY <2>9, <2>10, <4>1 DEF Begins, HtmlStartTagSoFar
    <3>2. EndsWith(n, "GreaterThan")
      BY <1>3, <2>4, <2>9 DEF EndsWith
    <3>3. \A k \in n.from + 2 .. n.to - 3 : k \in m + 1 .. c - 1
      BY <2>1, <2>4, <2>9
    <3>4. \A k \in n.from .. n.to - 1 :
            k \in m + 1 .. c - 1 \/ KindAt(k) \in {"LessThan", "Slash", "GreaterThan"}
      <4>1. \A k \in n.from .. n.to - 1 :
              k = m \/ k \in m + 1 .. c - 1 \/ k = j \/ (k = c /\ j = c + 1)
        BY <2>1, <2>2, <2>4, <2>9
      <4> QED  BY <1>3, <2>1, <2>2, <2>10, <4>1 DEF HtmlStartTagSoFar
    <3> QED  BY <2>9, <2>11, <3>1, <3>2, <3>3, <3>4 DEF IsHtmlTag, HtmlKinds
  <2>13. IsWellFormed(n)
    BY <2>9, <2>12 DEF IsWellFormed, Blocks
  <2>14. r.accumulatedStartIndex = r.currentIndex
    BY <2>6
  <2> QED  BY <1>1, <1>3, <2>8, <2>13, <2>14, PlaceWell DEF IsPreceding, n
<1> QED  BY <1>1, <1>2, <1>3

\* An end tag has a name and spacing only.
LEMMA HtmlEndTagWell ==
  ASSUME Inv, Inv', WellInv, HtmlEndTag
  PROVE  WellInv'
<1> DEFINE i == reader.currentIndex
           open == Extract(ReadTokens(Start, 2))
           name == HtmlName(open)
           r == TryReadSpacingAndNewlines(name.reader)
           c == r.currentIndex
           closed == Extract(ReadTokens(r, 1))
           n == NewNode("HtmlEndTag", closed, FALSE)
<1>1. /\ pc = "Main" /\ UNCHANGED input /\ StreamOK
      /\ KindAt(i) = "LessThan" /\ KindAt(i + 1) = "Slash"
      /\ \/ \E f : Fail(Pushed, Start, 1, f)
         \/ /\ name.failure = NoFailure /\ KindAt(c) = "GreaterThan"
            /\ Place(Pushed, "HtmlEndTag", closed, FALSE)
  BY FailuresAreSome DEF HtmlEndTag, Peek, PeekAfter, Inv
<1>2. i \in Nat /\ i + 1 <= Len(tokens) /\ Len(tokens) \in Nat
  BY <1>1, PushedFacts, TokenExists
<1>3. CASE \E f : Fail(Pushed, Start, 1, f)
  <2>1. IsWarranted(Pushed, Span(i, i + 1))
    BY <1>1, <1>2, OneTokenIsWarranted
  <2> QED  BY <1>1, <1>2, <1>3, <2>1, FailAtStartWell
<1>4. CASE /\ name.failure = NoFailure /\ KindAt(c) = "GreaterThan"
           /\ Place(Pushed, "HtmlEndTag", closed, FALSE)
  <2>1. i + 2 <= Len(tokens)
    <3>1. i + 1 \in Nat /\ (i + 1) + 1 <= Len(tokens)
      BY <1>1, <1>2, TokenExists
    <3> QED  BY <1>2, <3>1
  <2>2. /\ GoodReader(open) /\ open.excerpts # <<>> /\ Begin(open) = i
        /\ open.currentIndex = i + 2
    BY <1>1, <1>2, <2>1, StartReads
  <2> HIDE DEF open
  <2>3. /\ KindAt(i + 2) = "AsciiWord" /\ c \in i + 3 .. Len(tokens)
        /\ \A t : HtmlMayHave(t, i + 2, c)
    <3>1. (i + 2) + 1 = i + 3
      BY <1>2
    <3> QED  BY <1>1, <1>4, <2>2, <3>1, HtmlNameReads
  <2>4. Advances(open, name.reader)
    BY <1>1, <2>2, HtmlNameFacts
  <2>5. GoodReader(name.reader) /\ Begin(name.reader) = i
    BY <2>2, <2>4 DEF Advances
  <2> HIDE DEF name
  <2>6. Advances(name.reader, r) /\ r.accumulatedStartIndex = c
    BY <1>1, <2>5, SpacingAdvances
  <2>7. GoodReader(r) /\ Begin(r) = i
    BY <2>5, <2>6 DEF Advances
  <2> HIDE DEF r
  <2>8. c \in Nat /\ c + 1 \in c .. Len(tokens) /\ r.accumulatedStartIndex < c + 1
        /\ i + 3 <= c /\ (c + 1) - 1 = c
    BY <1>2, <1>4, <2>3, <2>6, TokenExists
  <2>9. closed = Extract(ReadTo(r, c + 1))
    BY DEF ReadTokens
  <2> HIDE DEF closed
  <2>10. /\ Advances(r, closed) /\ closed.currentIndex = c + 1
         /\ closed.accumulatedStartIndex = c + 1
    BY <1>1, <2>7, <2>8, <2>9, ReadAndExtract
  <2>11. GoodReader(closed) /\ Begin(closed) = i
    BY <2>7, <2>10 DEF Advances
  <2>12. closed \in Reader /\ closed.accumulatedStartIndex = closed.currentIndex
    BY <1>1, <2>10, <2>11, ReaderFacts
  <2>13. n.kind = "HtmlEndTag" /\ n.from = i /\ n.to = c + 1
    BY <2>10, <2>11, MarkerIsBegin DEF NewNode
  <2> HIDE DEF n
  <2>14. IsHtmlTag(n)
    <3>1. Begins(n, <<"LessThan", "Slash", "AsciiWord">>)
      <4>1. /\ Len(<<"LessThan", "Slash", "AsciiWord">>) = 3
            /\ i + 1 - 1 = i /\ i + 2 - 1 = i + 1 /\ i + 3 - 1 = i + 2
        BY <1>2
      <4> QED  BY <1>1, <2>3, <2>13, <4>1 DEF Begins
    <3>2. EndsWith(n, "GreaterThan")
      BY <1>4, <2>8, <2>13 DEF EndsWith
    <3>3. \A k \in n.from + 2 .. n.to - 3 : k \in i + 2 .. c - 1
      BY <1>2, <2>8, <2>13
    <3>4. \A k \in n.from .. n.to - 1 :
            k \in i + 2 .. c - 1 \/ KindAt(k) \in {"LessThan", "Slash", "GreaterThan"}
      <4>1. \A k \in n.from .. n.to - 1 : k = i \/ k = i + 1 \/ k \in i + 2 .. c - 1 \/ k = c
        BY <1>2, <2>8, <2>13
      <4> QED  BY <1>1, <1>4, <4>1
    <3>5. HtmlMayHave(n, i + 2, c)
      BY <2>3
    <3> QED  BY <2>13, <3>1, <3>2, <3>3, <3>4, <3>5 DEF IsHtmlTag, HtmlMayHave, HtmlKinds
  <2>15. IsWellFormed(n)
    BY <2>13, <2>14 DEF IsWellFormed, Blocks
  <2> QED  BY <1>1, <1>4, <2>12, <2>15, PlaceWell DEF IsPreceding, n
<1> QED  BY <1>1, <1>3, <1>4

\* Fenced code
\* The first newline
LEMMA NewlineIs ==
  ASSUME StreamOK, NEW i \in 0 .. Len(tokens), NEW j \in i .. Len(tokens),
         KindAt(j) = "Newline", \A k \in i .. j - 1 : KindAt(k) # "Newline"
  PROVE  SkipTo(i, {"Newline"}) = j
<1> DEFINE s == SkipTo(i, {"Newline"})
<1>1. /\ s \in i .. Len(tokens) /\ KindAt(s) \in {"Newline", "EndOfInput"}
      /\ \A k \in i .. s - 1 : KindAt(k) # "Newline"
  BY SkipToStops
<1> HIDE DEF s
<1>2. Len(tokens) \in Nat /\ j < Len(tokens)
  <2>1. Len(tokens) \in Nat /\ j \in Nat
    BY TokenFacts
  <2> QED  BY <2>1, TokenFacts
<1>3. ~(s < j)
  <2> SUFFICES ASSUME s < j PROVE FALSE
    OBVIOUS
  <2>1. s \in i .. j - 1 /\ s \in Nat /\ s < Len(tokens)
    BY <1>1, <1>2
  <2>2. KindAt(s) # "EndOfInput"
    BY <2>1, TokenFacts
  <2> QED  BY <1>1, <2>1, <2>2
<1>4. ~(j < s)
  <2> SUFFICES ASSUME j < s PROVE FALSE
    OBVIOUS
  <2>1. j \in i .. s - 1
    BY <1>1, <1>2
  <2> QED  BY <1>1, <2>1
<1>5. s = j
  BY <1>1, <1>2, <1>3, <1>4
<1> QED  BY <1>5 DEF s

\* Three backticks are a delimiter, which is an error if the fence cannot be closed.
LEMMA FenceIsWarranted ==
  ASSUME NEW all, NEW m \in Nat, IsFence(m),
         FenceIsUnclosed(Span(m, m + 3)) \/ FenceIsEmpty(Span(m, m + 3))
  PROVE  IsWarranted(all, Span(m, m + 3))
<1>1. (m + 3) - m = 3
  OBVIOUS
<1> QED  BY <1>1 DEF IsWarranted, TakesTheDelimiter, Span

\* The opening line has a fence, a language and no other backtick, or it is an error.
LEMMA OpenFenceWell ==
  ASSUME Inv, Inv', WellInv, OpenFence
  PROVE  WellInv'
<1> DEFINE i == reader.currentIndex
           open == Extract(ReadTokens(Start, 3))
           spaced == TryExtract(ReadWhile(open, {"Spacing"}))
           end == SkipTo(spaced.currentIndex, {"Newline", "Backtick"})
           r == Extract(ReadTo(spaced, end + 1))
<1>1. /\ pc = "Main" /\ UNCHANGED input /\ StreamOK
      /\ KindAt(i) = "Backtick" /\ KindAt(i + 1) = "Backtick" /\ KindAt(i + 2) = "Backtick"
      /\ \/ /\ PeekPrevious(reader) \notin {"Newline", "EndOfInput"}
            /\ \E id : FailHere(Pushed, Start, 3, id)
         \/ KindAt(end) # "Newline" /\ \E m : Fail(Pushed, open, 3, m)
         \/ /\ PeekPrevious(reader) \in {"Newline", "EndOfInput"} /\ KindAt(end) = "Newline"
            /\ reader' = r /\ nodes' = Pushed /\ pc' = "FencedCode"
  BY DEF OpenFence, Peek, PeekAfter, PeekAfterAfter, Inv
<1>2. i \in Nat /\ Len(tokens) \in Nat /\ i <= Len(tokens) /\ NodesOK(Pushed, i)
  BY <1>1, PushedFacts, TokenExists
<1>3. i + 3 <= Len(tokens)
  <2>1. i + 2 \in Nat
    BY <1>2
  <2>2. (i + 2) + 1 <= Len(tokens)
    BY <1>1, <2>1, TokenExists
  <2> QED  BY <1>2, <2>2
<1>4. IsFence(i)
  <2>1. \A k \in i .. i + 2 : k = i \/ k = i + 1 \/ k = i + 2
    BY <1>2
  <2> QED  BY <1>1, <2>1 DEF IsFence
<1>5. GoodReader(open) /\ Begin(open) = i /\ open.currentIndex = i + 3
  BY <1>1, <1>3, StartReads
<1> HIDE DEF open
\* The spacing after the fence, and what follows up to a newline or backtick
<1>6. /\ GoodReader(spaced) /\ spaced.currentIndex \in i + 3 .. Len(tokens)
      /\ spaced.accumulatedStartIndex = spaced.currentIndex
      /\ \A k \in i + 3 .. spaced.currentIndex - 1 : KindAt(k) = "Spacing"
  <2> DEFINE j == Skip(open.currentIndex, {"Spacing"})
             spacing == ReadTo(open, j)
  <2>1. i + 3 \in 0 .. Len(tokens)
    BY <1>2, <1>3
  <2>2. j \in i + 3 .. Len(tokens) /\ \A k \in i + 3 .. j - 1 : KindAt(k) = "Spacing"
    BY <1>1, <1>5, <2>1, SkipStops
  <2> HIDE DEF j
  <2>3. GoodReader(spacing) /\ spacing.currentIndex = j
    BY <1>1, <1>5, <2>2, ReadToAdvances DEF Advances
  <2> HIDE DEF spacing
  <2>4. spaced = TryExtract(spacing)
    BY DEF ReadWhile, spacing, j
  <2> HIDE DEF spaced
  <2>5. /\ GoodReader(spaced) /\ spaced.currentIndex = j
        /\ spaced.accumulatedStartIndex = spaced.currentIndex
    BY <1>1, <2>3, <2>4, TryExtractAdvances DEF Advances
  <2> QED  BY <2>2, <2>5
<1> HIDE DEF spaced
<1>7. /\ end \in spaced.currentIndex .. Len(tokens)
      /\ KindAt(end) \in {"Newline", "Backtick", "EndOfInput"}
      /\ \A k \in spaced.currentIndex .. end - 1 : KindAt(k) \notin {"Newline", "EndOfInput"}
  <2>1. spaced.currentIndex \in 0 .. Len(tokens)
    BY <1>2, <1>6
  <2> QED  BY <1>1, <2>1, SkipToStops
<1> HIDE DEF end
<1>8. end \in i + 3 .. Len(tokens) /\ end \in Nat
      /\ \A k \in i .. end - 1 : KindAt(k) \notin {"Newline", "EndOfInput"}
  <2>1. \A k \in i .. end - 1 :
          \/ k = i \/ k = i + 1 \/ k = i + 2
          \/ k \in i + 3 .. spaced.currentIndex - 1 \/ k \in spaced.currentIndex .. end - 1
    BY <1>2, <1>6, <1>7
  <2> QED  BY <1>1, <1>2, <1>6, <1>7, <2>1
<1>9. /\ FirstLineEnd(i) \in i .. Len(tokens)
      /\ KindAt(FirstLineEnd(i)) \in {"Newline", "EndOfInput"}
  <2>1. i \in 0 .. Len(tokens)
    BY <1>2
  <2> QED  BY <1>1, <2>1, SkipToStops DEF FirstLineEnd
<1>10. end <= FirstLineEnd(i)
  BY <1>2, <1>8, <1>9
<1>11. IsPreceding(Pushed) /\ 3 \in Nat \ {0}
  BY <1>1 DEF IsPreceding
<1>12. CASE /\ PeekPrevious(reader) \notin {"Newline", "EndOfInput"}
            /\ \E id : FailHere(Pushed, Start, 3, id)
  <2>1. i > 0 /\ KindAt(i - 1) # "Newline"
    BY <1>2, <1>12 DEF PeekPrevious
  <2>2. FenceIsUnclosed(Span(i, i + 3))
    BY <2>1 DEF FenceIsUnclosed, Span
  <2>3. IsWarranted(Pushed, Span(i, i + 3))
    BY <1>2, <1>4, <2>2, FenceIsWarranted
  <2> QED  BY <1>1, <1>3, <1>12, <2>3, FailAtStartWell
<1>13. CASE KindAt(end) # "Newline" /\ \E m : Fail(Pushed, open, 3, m)
  <2>1. FenceIsUnclosed(Span(i, i + 3))
    <3>1. CASE KindAt(end) = "Backtick"
      <4>1. end # FirstLineEnd(i)
        BY <1>9, <3>1
      <4>2. end \in i + 3 .. FirstLineEnd(i) - 1
        BY <1>2, <1>8, <1>9, <1>10, <4>1
      <4> QED  BY <3>1, <4>2 DEF FenceIsUnclosed, Span, FirstLineEnd
    <3>2. CASE KindAt(end) = "EndOfInput"
      <4>1. end = Len(tokens)
        BY <1>1, <1>8, <1>2, <3>2, TokenFacts
      <4>2. FirstLineEnd(i) .. Len(tokens) - 1 = {}
        BY <1>2, <1>9, <1>10, <4>1
      <4> QED  BY <4>2 DEF FenceIsUnclosed, Span, FirstLineEnd
    <3> QED  BY <1>7, <1>13, <3>1, <3>2
  <2>2. IsWarranted(Pushed, Span(i, i + 3))
    BY <1>2, <1>4, <2>1, FenceIsWarranted
  <2> QED  BY <1>1, <1>3, <1>5, <1>11, <1>13, <2>2, FailWell
<1>14. CASE /\ PeekPrevious(reader) \in {"Newline", "EndOfInput"} /\ KindAt(end) = "Newline"
            /\ reader' = r /\ nodes' = Pushed /\ pc' = "FencedCode"
  <2>1. FirstLineEnd(i) = end
    <3>1. i \in 0 .. Len(tokens) /\ end \in i .. Len(tokens)
      BY <1>2, <1>8
    <3> QED  BY <1>1, <1>8, <1>14, <3>1, NewlineIs DEF FirstLineEnd
  <2>2. r.currentIndex = end + 1
    <3>1. spaced \in Reader
      BY <1>1, <1>6, ReaderFacts
    <3> QED  BY <3>1 DEF Extract, ReadTo, Reader
  <2>3. Begin(reader') = i
    BY <1>2, <1>14, BeginStays
  <2>4. i > 0 => KindAt(i - 1) = "Newline"
    <3>1. i > 0 => KindAt(i - 1) # "EndOfInput"
      <4>1. i > 0 => i - 1 \in Nat /\ i - 1 < Len(tokens)
        BY <1>2, <1>3
      <4> QED  BY <1>1, <4>1, TokenFacts
    <3> QED  BY <1>2, <1>14, <3>1 DEF PeekPrevious
  <2> HIDE DEF r
  <2>5. FenceSoFar(i, end + 1)
    <3>1. end < end + 1 /\ end + 1 .. (end + 1) - 1 = {}
      BY <1>8
    <3> QED  BY <1>4, <2>1, <2>4, <3>1 DEF FenceSoFar
  <2>6. SoFar(pc', reader')
    BY <1>14, <2>2, <2>3, <2>5 DEF SoFar, ParamPoints, TypePoints, HtmlPoints
  <2> QED  BY <1>1, <1>11, <1>14, <2>6, ReadWell
<1> QED  BY <1>1, <1>12, <1>13, <1>14

\* No fence follows within a line.
LEMMA LineHasNoFence ==
  ASSUME Inv, pc = "FencedCode"
  PROVE  \A k \in reader.currentIndex .. LineEnd - 1 : ~FenceFollows(k)
<1>1. StreamOK /\ reader.currentIndex \in 0 .. Len(tokens)
  BY BegunFacts
<1>2. \A k \in reader.currentIndex .. LineEnd - 1 : KindAt(k) # "Newline"
  BY <1>1, SkipToStops DEF LineEnd
<1> QED  BY <1>2 DEF FenceFollows

\* A line of code is not followed by a fence.
LEMMA ReadCodeWell ==
  ASSUME Inv, Inv', WellInv, ReadCode
  PROVE  WellInv'
<1> DEFINE m == Begin(reader)
           c == reader.currentIndex
           d == FenceStart + Ticks
<1>1. /\ pc = "FencedCode" /\ pc' = "FencedCode" /\ KindAt(LineEnd) = "Newline" /\ Ticks < 3
      /\ reader' = ReadTo(reader, d) /\ nodes' = nodes /\ UNCHANGED input
  BY DEF ReadCode
<1>2. /\ FenceSoFar(m, c) /\ c \in 0 .. Len(tokens) /\ Len(tokens) \in Nat /\ m \in Nat
      /\ reader \in Reader
  BY <1>1, BegunFacts, ReaderFacts DEF WellInv, SoFar
<1>3. FirstLineEnd(m) \in Nat
  <2>1. StreamOK /\ m \in 0 .. Len(tokens)
    BY <1>1, BegunFacts
  <2> QED  BY <2>1, SkipToStops DEF FirstLineEnd
<1>4. /\ LineEnd \in c .. Len(tokens) /\ FenceStart \in LineEnd + 1 .. Len(tokens)
      /\ Ticks \in 0 .. 3
      /\ \A k \in LineEnd + 1 .. FenceStart - 1 : KindAt(k) = "Spacing"
      /\ \A k \in 0 .. Ticks - 1 : KindAt(FenceStart + k) = "Backtick"
      /\ KindAt(FenceStart + Ticks) # "Backtick"
  BY <1>1, FenceFacts
<1>5. \A k \in c .. LineEnd - 1 : ~FenceFollows(k)
  BY <1>1, LineHasNoFence
<1>6. ~FenceFollows(LineEnd)
  <2>1. FenceStart + Ticks \in FenceStart .. FenceStart + 2
    BY <1>1, <1>2, <1>4
  <2>2. ~IsFence(FenceStart)
    BY <1>4, <2>1 DEF IsFence
  <2> QED  BY <2>2 DEF FenceFollows, FenceStart
<1>7. \A k \in LineEnd + 1 .. d - 1 : ~FenceFollows(k)
  <2>1. ASSUME NEW k \in LineEnd + 1 .. d - 1 PROVE KindAt(k) # "Newline"
    <3>1. CASE k \in LineEnd + 1 .. FenceStart - 1
      BY <1>4, <3>1
    <3>2. CASE k \notin LineEnd + 1 .. FenceStart - 1
      <4>1. k - FenceStart \in 0 .. Ticks - 1 /\ FenceStart + (k - FenceStart) = k
        BY <1>2, <1>4, <3>2
      <4>2. KindAt(FenceStart + (k - FenceStart)) = "Backtick"
        BY <1>4, <4>1
      <4> QED  BY <4>1, <4>2
    <3> QED  BY <3>1, <3>2
  <2> QED  BY <2>1 DEF FenceFollows
<1>8. d \in Nat /\ c < d
  BY <1>2, <1>4
<1>9. \A k \in FirstLineEnd(m) + 1 .. d - 1 :
        \/ k \in FirstLineEnd(m) + 1 .. c - 1 \/ k \in c .. LineEnd - 1
        \/ k = LineEnd \/ k \in LineEnd + 1 .. d - 1
  BY <1>2, <1>3, <1>4, <1>8
<1>10. FenceSoFar(m, d)
  BY <1>2, <1>3, <1>5, <1>6, <1>7, <1>8, <1>9 DEF FenceSoFar
<1>11. Begin(reader') = m
  BY <1>1, BeginStays DEF Inv
<1> HIDE DEF d
<1>12. reader'.currentIndex = d
  BY <1>1, <1>2 DEF ReadTo, Reader
<1>13. SoFar(pc', reader')
  BY <1>1, <1>10, <1>11, <1>12 DEF SoFar, ParamPoints, TypePoints, HtmlPoints
<1> QED  BY <1>1, <1>13, ReadWell DEF IsPreceding

\* At the end of the comment no fence has followed a line of code.
LEMMA UnclosedFenceWell ==
  ASSUME Inv, Inv', WellInv, UnclosedFence
  PROVE  WellInv'
<1> DEFINE m == Begin(reader)
           c == reader.currentIndex
<1>1. /\ pc = "FencedCode" /\ UNCHANGED input /\ KindAt(LineEnd) = "EndOfInput"
      /\ \E f : Fail(nodes, reader, 3, f)
  BY DEF UnclosedFence
<1>2. /\ FenceSoFar(m, c) /\ c \in 0 .. Len(tokens) /\ Len(tokens) \in Nat /\ m \in Nat
      /\ StreamOK /\ GoodReader(reader) /\ m <= Len(tokens)
  BY <1>1, BegunFacts DEF WellInv, SoFar
<1>3. LineEnd = Len(tokens)
  <2>1. LineEnd \in 0 .. Len(tokens) /\ LineEnd \in Nat
    BY <1>1, LineEndFacts
  <2> QED  BY <1>1, <1>2, <2>1, TokenFacts
<1>4. FirstLineEnd(m) \in Nat
  <2>1. m \in 0 .. Len(tokens)
    BY <1>2
  <2> QED  BY <1>2, <2>1, SkipToStops DEF FirstLineEnd
<1>5. \A k \in c .. LineEnd - 1 : ~FenceFollows(k)
  BY <1>1, LineHasNoFence
<1>6. \A k \in FirstLineEnd(m) + 1 .. Len(tokens) - 1 :
        k \in FirstLineEnd(m) + 1 .. c - 1 \/ k \in c .. LineEnd - 1
  BY <1>2, <1>3, <1>4
<1>7. FenceIsUnclosed(Span(m, m + 3)) \/ FenceIsEmpty(Span(m, m + 3))
  <2>1. \A k \in FirstLineEnd(m) + 1 .. Len(tokens) - 1 : ~FenceFollows(k)
    BY <1>2, <1>5, <1>6 DEF FenceSoFar
  <2>2. CASE FenceFollows(FirstLineEnd(m))
    BY <2>1, <2>2 DEF FenceIsEmpty, Span, FirstLineEnd
  <2>3. CASE ~FenceFollows(FirstLineEnd(m))
    <3>1. \A k \in FirstLineEnd(m) .. Len(tokens) - 1 :
            k = FirstLineEnd(m) \/ k \in FirstLineEnd(m) + 1 .. Len(tokens) - 1
      BY <1>2, <1>4
    <3>2. \A k \in FirstLineEnd(m) .. Len(tokens) - 1 : ~FenceFollows(k)
      BY <2>1, <2>3, <3>1
    <3> QED  BY <3>2 DEF FenceIsUnclosed, Span, FirstLineEnd
  <2> QED  BY <2>2, <2>3
<1>8. IsWarranted(nodes, Span(m, m + 3))
  BY <1>2, <1>7, FenceIsWarranted DEF FenceSoFar
<1>9. m + 3 <= Len(tokens) /\ 3 \in Nat \ {0} /\ IsPreceding(nodes)
  <2>1. KindAt(m + 2) = "Backtick" /\ m + 2 \in Nat
    BY <1>2 DEF FenceSoFar, IsFence
  <2>2. (m + 2) + 1 <= Len(tokens)
    BY <2>1, TokenExists
  <2> QED  BY <1>2, <2>2 DEF IsPreceding
<1> QED  BY <1>1, <1>2, <1>8, <1>9, FailWell

\* The first fence that follows a line of code closes it.
LEMMA CloseFenceWell ==
  ASSUME Inv, Inv', WellInv, CloseFence
  PROVE  WellInv'
<1> DEFINE m == Begin(reader)
           c == reader.currentIndex
           j == FenceStart + 3
           code == Extract(ReadTo(reader, j))
           after == Skip(code.currentIndex, {"Spacing"})
           end == IF KindAt(after) = "Newline" THEN after + 1 ELSE after
           read == ReadTo(code, end)
           r == TryExtract(read)
<1>1. /\ pc = "FencedCode" /\ KindAt(LineEnd) = "Newline" /\ Ticks = 3 /\ UNCHANGED input
      /\ \E text \in BOOLEAN : Place(nodes, "FencedCode", r, text)
  BY DEF CloseFence, Visible
<1>2. /\ StreamOK /\ GoodReader(reader) /\ c \in 0 .. Len(tokens) /\ Len(tokens) \in Nat
      /\ reader.accumulatedStartIndex \in 0 .. c /\ FenceSoFar(m, c) /\ m \in Nat
      /\ m <= Len(tokens)
  BY <1>1, BegunFacts DEF WellInv, SoFar
<1>3. /\ LineEnd \in c .. Len(tokens) /\ FenceStart \in LineEnd + 1 .. Len(tokens)
      /\ j \in c + 1 .. Len(tokens)
      /\ \A k \in LineEnd + 1 .. FenceStart - 1 : KindAt(k) = "Spacing"
      /\ \A k \in 0 .. 2 : KindAt(FenceStart + k) = "Backtick"
  <2>1. 3 - 1 = 2
    OBVIOUS
  <2> QED  BY <1>1, <2>1, FenceFacts
<1>4. j \in c .. Len(tokens) /\ reader.accumulatedStartIndex < j
  BY <1>2, <1>3
<1> HIDE DEF j
<1>5. Advances(reader, code) /\ code.currentIndex = j
  BY <1>2, <1>4, ReadAndExtract
<1>6. GoodReader(code) /\ Begin(code) = m
  BY <1>1, <1>5, BegunFacts
<1> HIDE DEF code
<1>7. after \in j .. Len(tokens) /\ \A k \in j .. after - 1 : KindAt(k) = "Spacing"
  <2>1. j \in 0 .. Len(tokens)
    BY <1>2, <1>4
  <2> QED  BY <1>2, <1>5, <2>1, SkipStops
<1> HIDE DEF after
<1>8. end \in after .. after + 1 /\ end \in j .. Len(tokens)
  <2>1. after \in Nat
    BY <1>2, <1>4, <1>7
  <2>2. CASE KindAt(after) = "Newline"
    <3>1. after + 1 <= Len(tokens)
      BY <2>1, <2>2, TokenExists
    <3> QED  BY <1>2, <1>4, <1>7, <2>1, <2>2, <3>1
  <2>3. CASE KindAt(after) # "Newline"
    BY <1>2, <1>4, <1>7, <2>1, <2>3
  <2> QED  BY <2>2, <2>3
<1> HIDE DEF end
<1>9. Advances(code, read) /\ read.currentIndex = end
  BY <1>2, <1>5, <1>6, <1>8, ReadToAdvances
<1>10. GoodReader(read)
  BY <1>9 DEF Advances
<1> HIDE DEF read
<1>11. Advances(read, r) /\ r.accumulatedStartIndex = end /\ r.currentIndex = end
  BY <1>2, <1>9, <1>10, TryExtractAdvances
<1> HIDE DEF r
<1>12. GoodReader(r) /\ Begin(r) = m
  <2>1. Advances(reader, r)
    BY <1>2, <1>5, <1>6, <1>9, <1>10, <1>11, AdvancesTransitive
  <2> QED  BY <1>1, <2>1, BegunFacts
<1>13. r \in Reader /\ r.accumulatedStartIndex = r.currentIndex
  BY <1>2, <1>11, <1>12, ReaderFacts
<1>14. FirstLineEnd(m) \in Nat /\ FirstLineEnd(m) < c
  <2>1. m \in 0 .. Len(tokens)
    BY <1>2
  <2> QED  BY <1>2, <2>1, SkipToStops DEF FirstLineEnd, FenceSoFar
<1>15. FenceFollows(LineEnd)
  <2>1. ASSUME NEW k \in FenceStart .. FenceStart + 2 PROVE KindAt(k) = "Backtick"
    <3>1. k - FenceStart \in 0 .. 2 /\ FenceStart + (k - FenceStart) = k
      BY <1>2, <1>3
    <3>2. KindAt(FenceStart + (k - FenceStart)) = "Backtick"
      BY <1>3, <3>1
    <3> QED  BY <3>1, <3>2
  <2>2. IsFence(FenceStart)
    BY <2>1 DEF IsFence
  <2> QED  BY <1>1, <2>2 DEF FenceFollows, FenceStart
<1>16. \A k \in LineEnd + 1 .. after - 1 : KindAt(k) # "Newline"
  <2>1. ASSUME NEW k \in LineEnd + 1 .. after - 1 PROVE KindAt(k) # "Newline"
    <3>1. CASE k \in LineEnd + 1 .. FenceStart - 1
      BY <1>3, <3>1
    <3>2. CASE k \in FenceStart .. FenceStart + 2
      BY <1>15, <3>2 DEF FenceFollows, IsFence, FenceStart
    <3>3. CASE k \in j .. after - 1
      BY <1>7, <3>3
    <3>4. \/ k \in LineEnd + 1 .. FenceStart - 1 \/ k \in FenceStart .. FenceStart + 2
          \/ k \in j .. after - 1
      BY <1>2, <1>3, <1>7 DEF j
    <3> QED  BY <3>1, <3>2, <3>3, <3>4
  <2> QED  BY <2>1
<1>17. \A k \in FirstLineEnd(m) + 1 .. LineEnd - 1 : ~FenceFollows(k)
  <2>1. \A k \in FirstLineEnd(m) + 1 .. LineEnd - 1 :
          k \in FirstLineEnd(m) + 1 .. c - 1 \/ k \in c .. LineEnd - 1
    BY <1>2, <1>3, <1>14
  <2> QED  BY <1>1, <1>2, <2>1, LineHasNoFence DEF FenceSoFar
<1>18. ASSUME NEW text PROVE IsWellFormed(NewNode("FencedCode", r, text))
  <2> DEFINE n == NewNode("FencedCode", r, text)
  <2>1. n.kind = "FencedCode" /\ n.from = m /\ n.to = end
    BY <1>11, <1>12, MarkerIsBegin DEF NewNode
  <2> HIDE DEF n
  <2>2. LineEnd \in FirstLineEnd(m) + 1 .. n.to - 4
    <3>1. LineEnd <= end - 4
      BY <1>2, <1>3, <1>8 DEF j
    <3> QED  BY <1>2, <1>3, <1>8, <1>14, <2>1, <3>1
  <2>3. \A k \in LineEnd + 1 .. n.to - 2 : k \in LineEnd + 1 .. after - 1
    BY <1>2, <1>3, <1>7, <1>8, <2>1
  <2>4. IsFencedCode(n)
    BY <1>2, <1>15, <1>16, <1>17, <2>1, <2>2, <2>3 DEF IsFencedCode, FenceSoFar, FirstLineEnd
  <2>5. IsWellFormed(n)
    BY <2>1, <2>4 DEF IsWellFormed, Blocks
  <2> QED  BY <2>5 DEF n
<1> QED  BY <1>1, <1>13, <1>18, PlaceWell DEF IsPreceding

-----------------------------------------------------------------------------
\* At first nothing has begun.
LEMMA InitWell == Init => WellInv
<1> SUFFICES ASSUME Init PROVE WellInv
  OBVIOUS
<1>1. nodes = <<>> /\ Len(nodes) = 0 /\ pc = "Main" /\ reader = NewReader
  BY EmptySeq DEF Init
<1>2. NodesAre(nodes)
  BY <1>1 DEF NodesAre
<1>3. reader.accumulatedStartIndex = 0 /\ reader.currentIndex = 0
  BY <1>1 DEF NewReader
<1>4. IsPlainText(Span(reader.accumulatedStartIndex, reader.currentIndex))
  BY <1>3 DEF IsPlainText, Span
<1>5. SoFar(pc, reader)
  BY <1>1, <1>4 DEF SoFar, ParamPoints, TypePoints, HtmlPoints
<1> QED  BY <1>2, <1>5 DEF WellInv

\* Every step makes well-formed nodes of what it finds begun, and begins what it leaves.
LEMMA StepWell ==
  Inv /\ Inv' /\ CommentInv /\ WellInv /\ [Next]_vars => WellInv'
<1> SUFFICES ASSUME Inv, Inv', CommentInv, WellInv, [Next]_vars PROVE WellInv'
  OBVIOUS
<1>1. CASE ParseText
  BY <1>1, ReadPlainTextWell, SoftBreakWell, UnescapedDelimiterWell, BackslashEscapeWell,
     CodeSpanWell DEF ParseText
<1>2. CASE ParseBlockTag
  BY <1>2, RejectBlockTagWell, ParamTagWell, BlockTagsWell DEF ParseBlockTag
<1>3. CASE ParseParamBlock
  BY <1>3, ParamBlocksWell
<1>4. CASE ParseInlineTag
  <2>1. CASE ThrowInInlineTag
    <3>1. UNCHANGED input /\ nodes' = nodes /\ pc' = "Thrown"
      BY <2>1 DEF ThrowInInlineTag
    <3>2. SoFar(pc', reader') /\ NodesAre(nodes')
      BY <3>1 DEF WellInv, SoFar, ParamPoints, TypePoints, HtmlPoints
    <3> QED  BY <3>1, <3>2, WellInvNext
  <2> QED
    BY <1>4, <2>1, OpenInlineTagWell, ReadInlineTagWell, RejectInlineTagWell, CloseInlineTagWell
       DEF ParseInlineTag
<1>5. CASE ParseHtml
  BY <1>5, OpenHtmlStartTagWell, HtmlAttributeWell, CloseHtmlStartTagWell, HtmlEndTagWell
     DEF ParseHtml
<1>6. CASE ParseFencedCode
  BY <1>6, OpenFenceWell, ReadCodeWell, UnclosedFenceWell, CloseFenceWell DEF ParseFencedCode
<1>7. CASE Finish
  BY <1>7, FinishWell
<1>8. CASE UNCHANGED vars
  <2>1. UNCHANGED input /\ nodes' = nodes /\ pc' = pc /\ reader' = reader
    BY <1>8 DEF vars, input
  <2> QED  BY <2>1, WellInvNext DEF WellInv
<1> QED  BY <1>1, <1>2, <1>3, <1>4, <1>5, <1>6, <1>7, <1>8 DEF Next

\* The invariants together
LEMMA WellInvHolds == Spec => [](Inv /\ CommentInv /\ WellInv)
<1>1. Init => Inv /\ CommentInv /\ WellInv
  BY InitInv, InitCommentInv, InitWell
<1>2. Inv /\ CommentInv /\ WellInv /\ [Next]_vars => (Inv /\ CommentInv /\ WellInv)'
  BY StepInv, StepCommentInv, StepWell
<1> QED  BY <1>1, <1>2, PTL DEF Spec

(***************************************************************************)
(* Every finished node is one well-formed construct of its kind, whichever *)
(* construct was tried and abandoned before it.                            *)
(***************************************************************************)
THEOREM NodesAreWellFormedHolds == Spec => []NodesAreWellFormed
<1>1. WellInv => NodesAreWellFormed
  BY DEF WellInv, NodesAre, NodesAreWellFormed
<1> QED  BY <1>1, WellInvHolds, PTL

(***************************************************************************)
(* An error is the whole opening delimiter of a construct that is broken:  *)
(* a code span that could be closed is never reported, and a code fence    *)
(* that is closed only when there is no line of code in it.                *)
(***************************************************************************)
THEOREM ErrorsAreWarrantedHolds == Spec => []ErrorsAreWarranted
<1>1. WellInv => ErrorsAreWarranted
  BY DEF WellInv, NodesAre, ErrorsAreWarranted
<1> QED  BY <1>1, WellInvHolds, PTL
=============================================================================
