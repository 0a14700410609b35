--------------------------- MODULE LinkTagProofs ---------------------------
(***************************************************************************)
(* Proofs about LinkTag, for every content of a tag: an accepted tag owns  *)
(* all of it, and an error is explained.                                   *)
(*                                                                         *)
(* Neither is inductive.  That the excerpts follow one another rests on    *)
(* the reader being at a token that is not spacing, with nothing           *)
(* accumulated, between any two steps; that the messages come from the     *)
(* inside out rests on the brackets of the stack lying one after another   *)
(* before the reader; and that nothing else throws, on what was seen when  *)
(* the content was scanned ahead.  Inv says all three.                     *)
(***************************************************************************)
EXTENDS LinkTag, TokenReaderProofs

\* A sequence, and records with a field, of any type: references hold references
IsSeq(s) == s \in Seq(Range(s))
MemberOK(m) ==
  m \in [hasDot : {m.hasDot}, symbol : {m.symbol}, identifier : Seq(Token),
         hasQuotes : {m.hasQuotes}, selector : {m.selector}]
ReferenceOK(r) ==
  /\ r \in [context : Nat \X Nat, packageName : {r.packageName}, importPath : {r.importPath},
            memberReferences : {r.memberReferences}, leftParenthesis : Span,
            member : {r.member}]
  /\ IsSeq(r.memberReferences)
  /\ \A m \in DOMAIN r.memberReferences : r.memberReferences[m].identifier \in Seq(Token)
  /\ MemberOK(r.member)
TagOK(t) ==
  /\ t \in [url : Seq(Token), code : {t.code}, text : Seq(Token)]
  /\ Len(t.code) <= 1

\* Every reference but the outermost is in a bracket, and these lie one after another
\* before the token "here".
StackOK(stack, here) ==
  /\ IsSeq(stack)
  /\ \A k \in 1 .. Len(stack) : ReferenceOK(stack[k])
  /\ \A k \in 2 .. Len(stack) : /\ KindAt(stack[k].context[1]) = "LeftSquareBracket"
                                /\ stack[k].context[1] < here
  /\ \A k \in 3 .. Len(stack) : stack[k - 1].context[1] < stack[k].context[1]

\* Between two steps: everything before the next token, which is no spacing, is extracted.
Ready(r) ==
  /\ GoodReader(r) /\ IsEmpty(r) /\ Begin(r) = 0
  /\ Peek(r) \notin {"Spacing", "Newline"}

MessageType == [id : MessageId, span : Nat \X Nat]
\* The cause, or a missing label and what is there instead; then the brackets from the inside out
Explained(messages) ==
  /\ messages \in Seq(MessageType)
  /\ \A m \in 1 .. Len(messages) :
       /\ messages[m].id = "ReferenceSymbolSyntax" =>
            /\ m > 1
            /\ KindAt(messages[m].span[1]) = "LeftSquareBracket"
            /\ messages[m - 1].id = "ReferenceSymbolSyntax" =>
                 messages[m].span[1] < messages[m - 1].span[1]
       /\ messages[m].id # "ReferenceSymbolSyntax" =>
            m = 1 \/ (m = 2 /\ messages[1].id = "ReferenceMissingLabel")

Rejected == {"InlineTag", "Thrown"}
TagPoints == {"Start", "AfterDestination", "LinkText", "LinkTag", "InheritDocTag"}
ReferencePoints ==
  {"DeclarationReference", "Import", "Members", "Member", "AfterMember", "Selector",
   "RightParenthesis"}

\* What is known where the parse goes on, at the token of r and with the stack of references
PointOK(point, r, stack) ==
  /\ point \in TagPoints => stack = <<>>
  /\ point \in ReferencePoints => stack # <<>>
  /\ point = "Start" => r.currentIndex = 0
  /\ point \in {"LinkTag", "InheritDocTag"} => r.currentIndex = Len(tokens)
  /\ point = "Import" => \E h \in r.currentIndex .. Len(tokens) : KindAt(h) = "PoundSymbol"
  /\ point \in {"Selector", "RightParenthesis"} => stack[Len(stack)].leftParenthesis # None
  /\ point = "Selector" =>
       \E i \in 0 .. r.currentIndex - 1 :
         KindAt(i) = "Colon" /\ Skip(i + 1, {"Spacing", "Newline"}) = r.currentIndex

Inv ==
  /\ StreamOK
  /\ Ready(reader)
  /\ StackOK(references, reader.currentIndex)
  /\ TagOK(tag)
  /\ pc \in Rejected \union TagPoints \union ReferencePoints
  /\ PointOK(pc, reader, references)
  /\ Explained(log)
  /\ pc \notin Rejected => log = <<>>
  /\ pc = "InlineTag" => log # <<>>
  /\ pc = "Thrown" => /\ log # <<>> /\ log[Len(log)].id = "ReferenceMissingLabel"
                      /\ Peek(reader) = "EndOfInput"

-----------------------------------------------------------------------------
\* The reader

\* Spacing is skipped, and nothing is left accumulated.
LEMMA SpacingReady ==
  ASSUME StreamOK, NEW r, GoodReader(r), Begin(r) = 0
  PROVE  LET s == TryReadSpacingAndNewlines(r) IN
         /\ Ready(s) /\ r.currentIndex <= s.currentIndex
         /\ s.currentIndex = Skip(r.currentIndex, {"Spacing", "Newline"})
<1> DEFINE S == {"Spacing", "Newline"}
           j == Skip(r.currentIndex, S)
           t == ReadTo(r, j)
           s == TryReadSpacingAndNewlines(r)
<1>1. r.currentIndex \in 0 .. Len(tokens) /\ "EndOfInput" \notin S
  BY ReaderFacts
<1>2. j \in r.currentIndex .. Len(tokens) /\ KindAt(j) \notin S
  <2> HIDE DEF S
  <2> QED  BY <1>1, SkipStops
<1>3. s = TryExtract(t)
  BY DEF TryReadSpacingAndNewlines, ReadWhile
<1> HIDE DEF j, S
<1>4. Advances(r, t) /\ t.currentIndex = j
  BY <1>2, ReadToAdvances
<1>5. GoodReader(t) /\ Begin(t) = 0
  BY <1>4 DEF Advances
<1> HIDE DEF t, s
<1>6. Advances(t, s) /\ s.currentIndex = j /\ s.accumulatedStartIndex = j
  BY <1>3, <1>4, <1>5, TryExtractAdvances
<1>7. Ready(s)
  BY <1>2, <1>5, <1>6 DEF Advances, Ready, IsEmpty, Peek, S
<1> QED  BY <1>1, <1>2, <1>6, <1>7 DEF j, S, s

\* One token is read, extracted, and the spacing after it skipped.
LEMMA Next1Ready ==
  ASSUME StreamOK, NEW r, GoodReader(r), Begin(r) = 0, Peek(r) # "EndOfInput"
  PROVE  /\ Ready(Next1(r)) /\ r.currentIndex < Next1(r).currentIndex
         /\ Next1(r).currentIndex = Skip(r.currentIndex + 1, {"Spacing", "Newline"})
<1> DEFINE j == r.currentIndex + 1
           t == Extract(ReadTo(r, j))
<1>1. r.currentIndex \in Nat /\ r.accumulatedStartIndex \in 0 .. r.currentIndex
      /\ Len(tokens) \in Nat
  BY ReaderFacts
<1>2. r.currentIndex < Len(tokens)
  BY <1>1, TokenFacts DEF Peek
<1>3. j \in r.currentIndex .. Len(tokens) /\ r.accumulatedStartIndex < j
  BY <1>1, <1>2
<1>4. Next1(r) = TryReadSpacingAndNewlines(t)
  BY DEF Next1, ReadTokens
<1> HIDE DEF j
<1>5. Advances(r, t) /\ t.currentIndex = j
  BY <1>3, ReadAndExtract
<1>6. GoodReader(t) /\ Begin(t) = 0
  BY <1>5 DEF Advances
<1> HIDE DEF t
<1>7. /\ Ready(Next1(r)) /\ t.currentIndex <= Next1(r).currentIndex
      /\ Next1(r).currentIndex = Skip(t.currentIndex, {"Spacing", "Newline"})
      /\ GoodReader(Next1(r))
  BY <1>4, <1>6, SpacingReady DEF Ready
<1>8. Next1(r).currentIndex \in Nat
  BY <1>7, ReaderFacts
<1> QED  BY <1>1, <1>5, <1>7, <1>8 DEF j

\* A part up to j is extracted, and the spacing after it skipped.
LEMMA ReadReady ==
  ASSUME StreamOK, NEW r, Ready(r), NEW j \in r.currentIndex + 1 .. Len(tokens)
  PROVE  LET s == TryReadSpacingAndNewlines(Extract(ReadTo(r, j))) IN
         Ready(s) /\ r.currentIndex <= s.currentIndex
<1> DEFINE t == Extract(ReadTo(r, j))
           s == TryReadSpacingAndNewlines(t)
<1>1. /\ GoodReader(r) /\ r.currentIndex \in Nat /\ Len(tokens) \in Nat
      /\ r.accumulatedStartIndex = r.currentIndex /\ Begin(r) = 0
  BY ReaderFacts DEF Ready, IsEmpty
<1>2. j \in r.currentIndex .. Len(tokens) /\ r.accumulatedStartIndex < j
  BY <1>1
<1>3. Advances(r, t) /\ t.currentIndex = j
  BY <1>1, <1>2, ReadAndExtract
<1>4. GoodReader(t) /\ Begin(t) = 0
  BY <1>1, <1>3 DEF Advances
<1> HIDE DEF t
<1>5. Ready(s) /\ t.currentIndex <= s.currentIndex /\ GoodReader(s)
  BY <1>4, SpacingReady DEF Ready
<1>6. s.currentIndex \in Nat
  BY <1>5, ReaderFacts
<1> HIDE DEF s
<1> QED  BY <1>1, <1>2, <1>3, <1>5, <1>6 DEF s, t

\* The text of a part is a sequence of tokens.
LEMMA TextIsTokens ==
  ASSUME StreamOK, NEW i \in Nat, NEW j \in i .. Len(tokens)
  PROVE  Text(i, j) \in Seq(Token)
<1>1. tokens \in Seq(Token) /\ Len(tokens) \in Nat
  BY TokenFacts DEF StreamOK
<1>2. i + 1 \in 1 .. Len(tokens) + 1 /\ j \in (i + 1) - 1 .. Len(tokens)
  BY <1>1
<1> QED  BY <1>1, <1>2, SubSeqProperties DEF Text

-----------------------------------------------------------------------------
\* The stack of references

\* IsSeq is what all sequences have in common, whatever is in them.
LEMMA IsSeqFacts ==
  /\ \A S : \A s \in Seq(S) : IsSeq(s)
  /\ \A s : IsSeq(s) => Len(s) \in Nat /\ DOMAIN s = 1 .. Len(s) /\ (s = <<>> <=> Len(s) = 0)
<1>1. ASSUME NEW S, NEW s \in Seq(S) PROVE IsSeq(s)
  BY SeqOfRange DEF IsSeq
<1>2. ASSUME NEW s, IsSeq(s)
      PROVE  Len(s) \in Nat /\ DOMAIN s = 1 .. Len(s) /\ (s = <<>> <=> Len(s) = 0)
  BY <1>2, LenProperties, EmptySeq DEF IsSeq
<1> QED  BY <1>1, <1>2

\* One more element, whatever it is
LEMMA AppendFacts ==
  ASSUME NEW s, IsSeq(s), NEW e
  PROVE  /\ IsSeq(Append(s, e)) /\ Len(Append(s, e)) = Len(s) + 1 /\ Append(s, e) # <<>>
         /\ Append(s, e)[Len(s) + 1] = e
         /\ \A k \in 1 .. Len(s) : Append(s, e)[k] = s[k]
<1> DEFINE S == Range(s) \union {e}
           t == Append(s, e)
<1>1. s \in Seq(S) /\ e \in S
  <2>1. s \in Seq(Range(s)) /\ Range(s) \subseteq S
    BY DEF IsSeq
  <2> QED  BY <2>1, SeqMonotonic
<1> HIDE DEF S
<1>2. /\ t \in Seq(S) /\ Len(t) = Len(s) + 1 /\ t[Len(s) + 1] = e
      /\ \A k \in 1 .. Len(s) : t[k] = s[k]
  BY <1>1, AppendProperties
<1>3. Len(s) \in Nat
  BY IsSeqFacts
<1> HIDE DEF t
<1>4. IsSeq(t) /\ Len(t) # 0
  BY <1>2, <1>3, IsSeqFacts
<1>5. t # <<>>
  BY <1>4, IsSeqFacts
<1> QED  BY <1>2, <1>4, <1>5 DEF t

\* All but the last element
LEMMA FrontFacts ==
  ASSUME NEW s, IsSeq(s), s # <<>>
  PROVE  LET f == SubSeq(s, 1, Len(s) - 1) IN
         /\ IsSeq(f) /\ Len(f) = Len(s) - 1
         /\ \A k \in 1 .. Len(s) - 1 : f[k] = s[k]
<1> DEFINE n == Len(s) - 1
           f == SubSeq(s, 1, n)
<1>1. s \in Seq(Range(s)) /\ Len(s) \in Nat \ {0}
  BY IsSeqFacts DEF IsSeq
<1>2. n \in Nat /\ \A i \in 1 .. n : s[i] \in Range(s)
  BY <1>1, ElementOfSeq
<1> HIDE DEF n
<1>3. /\ f \in Seq(Range(s)) /\ Len(f) = IF 1 <= n THEN n - 1 + 1 ELSE 0
      /\ \A i \in 1 .. n - 1 + 1 : f[i] = s[1 + i - 1]
  BY <1>2, SubSeqProperties
<1>4. Len(f) = n /\ \A i \in 1 .. n : f[i] = s[i]
  BY <1>2, <1>3
<1> QED  BY <1>3, <1>4, IsSeqFacts DEF n, f

\* The brackets of the stack are tokens before the reader.
LEMMA BracketsBefore ==
  ASSUME NEW s, NEW i \in Nat, StackOK(s, i), NEW j \in Nat, i <= j
  PROVE  \A k \in 2 .. Len(s) : s[k].context[1] \in Nat /\ s[k].context[1] < j
<1> SUFFICES ASSUME NEW k \in 2 .. Len(s)
             PROVE  s[k].context[1] \in Nat /\ s[k].context[1] < j
  OBVIOUS
<1>1. k \in 1 .. Len(s) /\ s[k].context[1] < i
  BY IsSeqFacts DEF StackOK
<1>2. s[k].context \in Nat \X Nat
  BY <1>1 DEF StackOK, ReferenceOK
<1> QED  BY <1>1, <1>2

\* The innermost reference is left, or replaced.
LEMMA FrontOK ==
  ASSUME NEW s, NEW i \in Nat, StackOK(s, i), s # <<>>, NEW j \in Nat, i <= j
  PROVE  LET f == SubSeq(s, 1, Len(s) - 1) IN
         StackOK(f, j) /\ StackOK(s, j) /\ Len(f) = Len(s) - 1
<1> DEFINE f == SubSeq(s, 1, Len(s) - 1)
<1>1. IsSeq(s) /\ Len(s) \in Nat \ {0}
  BY IsSeqFacts DEF StackOK
<1>2. IsSeq(f) /\ Len(f) = Len(s) - 1 /\ \A k \in 1 .. Len(s) - 1 : f[k] = s[k]
  BY <1>1, FrontFacts
<1> HIDE DEF f
<1>3. \A k \in 2 .. Len(s) : s[k].context[1] \in Nat /\ s[k].context[1] < j
  BY BracketsBefore
<1>4. StackOK(s, j)
  BY <1>3 DEF StackOK
<1>5. StackOK(f, j)
  <2>1. \A k \in 1 .. Len(f) : ReferenceOK(f[k]) /\ k \in 1 .. Len(s) /\ f[k] = s[k]
    BY <1>1, <1>2, <1>4 DEF StackOK
  <2>2. \A k \in 2 .. Len(f) : k \in 1 .. Len(f) /\ k \in 2 .. Len(s) /\ k - 1 \in 1 .. Len(f)
    BY <1>1, <1>2
  <2>3. \A k \in 3 .. Len(f) : k \in 2 .. Len(f) /\ k \in 3 .. Len(s)
    BY <1>1, <1>2
  <2> QED  BY <1>2, <1>4, <2>1, <2>2, <2>3 DEF StackOK
<1> QED  BY <1>2, <1>4, <1>5 DEF f

\* The innermost reference may change, but not where it is nested.
LEMMA UpdateOK ==
  ASSUME NEW s, NEW i \in Nat, StackOK(s, i), s # <<>>, NEW j \in Nat, i <= j,
         NEW new, ReferenceOK(new), new.context = s[Len(s)].context
  PROVE  LET t == Append(SubSeq(s, 1, Len(s) - 1), new) IN
         StackOK(t, j) /\ t # <<>> /\ t[Len(t)] = new
<1> DEFINE f == SubSeq(s, 1, Len(s) - 1)
           t == Append(f, new)
<1>1. IsSeq(s) /\ Len(s) \in Nat \ {0}
  BY IsSeqFacts DEF StackOK
<1>2. IsSeq(f) /\ Len(f) = Len(s) - 1 /\ \A k \in 1 .. Len(s) - 1 : f[k] = s[k]
  BY <1>1, FrontFacts
<1>3. StackOK(s, j)
  BY FrontOK
<1> HIDE DEF f
<1>4. /\ IsSeq(t) /\ Len(t) = Len(s) /\ t # <<>> /\ t[Len(s)] = new
      /\ \A k \in 1 .. Len(s) - 1 : t[k] = s[k]
  BY <1>1, <1>2, AppendFacts
<1> HIDE DEF t
<1>5. \A k \in 1 .. Len(s) : ReferenceOK(t[k]) /\ t[k].context = s[k].context
  <2>1. \A k \in 1 .. Len(s) : k = Len(s) \/ k \in 1 .. Len(s) - 1
    BY <1>1
  <2> QED  BY <1>3, <1>4, <2>1 DEF StackOK
<1>6. StackOK(t, j)
  BY <1>1, <1>3, <1>4, <1>5 DEF StackOK
<1> QED  BY <1>4, <1>6 DEF t, f

\* A reference that has nothing yet
LEMMA NewReferenceOK ==
  ASSUME NEW c \in Nat \X Nat
  PROVE  ReferenceOK(NewReference(c)) /\ NewReference(c).context = c
<1>1. <<>> \in Seq(Token) /\ IsSeq(<<>>) /\ DOMAIN <<>> = {} /\ None \in Span
  <2>1. <<>> \in Seq(Token) /\ Len(<<>>) = 0
    BY EmptySeq
  <2>2. IsSeq(<<>>)
    BY <2>1, IsSeqFacts
  <2>3. DOMAIN <<>> = 1 .. 0
    BY <2>1, <2>2, IsSeqFacts
  <2> QED  BY <2>1, <2>2, <2>3 DEF None, Span
<1>2. MemberOK(NoMember)
  BY <1>1 DEF NoMember, MemberOK
<1>3. /\ NewReference(c).context = c /\ NewReference(c).memberReferences = <<>>
      /\ NewReference(c).leftParenthesis = None /\ NewReference(c).member = NoMember
      /\ NewReference(c).packageName = <<>> /\ NewReference(c).importPath = <<>>
  BY DEF NewReference
<1>4. NewReference(c) = [context |-> c, packageName |-> <<>>, importPath |-> <<>>,
                         memberReferences |-> <<>>, leftParenthesis |-> None,
                         member |-> NoMember]
  BY DEF NewReference
<1> QED  BY <1>1, <1>2, <1>3, <1>4 DEF ReferenceOK

\* A bracket at the token i begins a reference of its own.
LEMMA PushOK ==
  ASSUME NEW s, NEW i \in Nat, StackOK(s, i), KindAt(i) = "LeftSquareBracket",
         NEW j \in Nat, i < j
  PROVE  LET t == Append(s, NewReference(<<i, i + 1>>)) IN
         StackOK(t, j) /\ t # <<>>
<1> DEFINE new == NewReference(<<i, i + 1>>)
           t == Append(s, new)
<1>1. IsSeq(s) /\ Len(s) \in Nat
  BY IsSeqFacts DEF StackOK
<1>2. ReferenceOK(new) /\ new.context = <<i, i + 1>>
  BY NewReferenceOK
<1> HIDE DEF new
<1>3. /\ IsSeq(t) /\ Len(t) = Len(s) + 1 /\ t # <<>> /\ t[Len(s) + 1] = new
      /\ \A k \in 1 .. Len(s) : t[k] = s[k]
  BY <1>1, AppendFacts
<1> HIDE DEF t
<1>4. \A k \in 1 .. Len(s) + 1 : k = Len(s) + 1 \/ k \in 1 .. Len(s)
  BY <1>1
<1>5. \A k \in 1 .. Len(t) : ReferenceOK(t[k])
  BY <1>2, <1>3, <1>4 DEF StackOK
<1>6. \A k \in 2 .. Len(t) : /\ KindAt(t[k].context[1]) = "LeftSquareBracket"
                             /\ t[k].context[1] < j
  <2>1. \A k \in 2 .. Len(s) : s[k].context[1] \in Nat /\ s[k].context[1] < j
    BY <1>1, BracketsBefore
  <2> QED  BY <1>1, <1>2, <1>3, <1>4, <2>1 DEF StackOK
<1>7. \A k \in 3 .. Len(t) : t[k - 1].context[1] < t[k].context[1]
  BY <1>1, <1>2, <1>3, <1>4 DEF StackOK
<1> QED  BY <1>3, <1>5, <1>6, <1>7 DEF StackOK, t, new

\* The first reference
LEMMA FirstOK ==
  ASSUME NEW j
  PROVE  /\ StackOK(<<NewReference(TagName)>>, j) /\ StackOK(<<>>, j)
         /\ <<NewReference(TagName)>> # <<>>
<1> DEFINE new == NewReference(TagName)
           t == <<new>>
<1>1. ReferenceOK(new)
  BY NewReferenceOK DEF TagName
<1> HIDE DEF new
<1>2. t \in Seq({new}) /\ Len(t) = 1 /\ t[1] = new /\ t # <<>>
  OBVIOUS
<1>3. IsSeq(t) /\ IsSeq(<<>>) /\ Len(<<>>) = 0
  BY <1>2, IsSeqFacts, EmptySeq
<1> HIDE DEF t
<1>4. StackOK(t, j) /\ StackOK(<<>>, j)
  BY <1>1, <1>2, <1>3 DEF StackOK
<1> QED  BY <1>2, <1>4 DEF t, new

-----------------------------------------------------------------------------
\* What the steps change of a member and of a reference

LEMMA MemberUpdates ==
  ASSUME NEW m, MemberOK(m)
  PROVE  /\ \A b : MemberOK([m EXCEPT !.hasDot = b])
         /\ \A x : MemberOK([m EXCEPT !.symbol = x])
         /\ \A x : MemberOK([m EXCEPT !.selector = x])
         /\ \A t \in Seq(Token) : MemberOK([m EXCEPT !.identifier = t])
         /\ \A t \in Seq(Token) : \A b : MemberOK([m EXCEPT !.identifier = t, !.hasQuotes = b])
<1>1. \A b : MemberOK([m EXCEPT !.hasDot = b])
  BY DEF MemberOK
<1>2. \A x : MemberOK([m EXCEPT !.symbol = x])
  BY DEF MemberOK
<1>3. \A x : MemberOK([m EXCEPT !.selector = x])
  BY DEF MemberOK
<1>4. \A t \in Seq(Token) : MemberOK([m EXCEPT !.identifier = t])
  BY DEF MemberOK
<1>5. \A t \in Seq(Token) : \A b : MemberOK([m EXCEPT !.identifier = t, !.hasQuotes = b])
  BY DEF MemberOK
<1> QED  BY <1>1, <1>2, <1>3, <1>4, <1>5

\* ... and so are those of a declaration reference.
LEMMA ReferenceUpdates ==
  ASSUME NEW r, ReferenceOK(r)
  PROVE  /\ \A p, i : LET s == [r EXCEPT !.packageName = p, !.importPath = i]
                      IN ReferenceOK(s) /\ s.context = r.context
         /\ \A m : MemberOK(m) =>
              LET s == [r EXCEPT !.member = m]
              IN /\ ReferenceOK(s) /\ s.context = r.context
                 /\ s.leftParenthesis = r.leftParenthesis
         /\ \A l \in Nat \X Nat : LET s == [r EXCEPT !.leftParenthesis = l]
                                  IN ReferenceOK(s) /\ s.context = r.context
         /\ LET s == [r EXCEPT !.memberReferences = Append(@, r.member), !.member = NoMember,
                               !.leftParenthesis = None]
            IN ReferenceOK(s) /\ s.context = r.context
<1> DEFINE more == Append(r.memberReferences, r.member)
<1>4. IsSeq(more) /\ \A k \in DOMAIN more : more[k].identifier \in Seq(Token)
  <2> DEFINE ms == r.memberReferences
  <2>1. /\ IsSeq(more) /\ Len(more) = Len(ms) + 1 /\ more[Len(ms) + 1] = r.member
        /\ \A k \in 1 .. Len(ms) : more[k] = ms[k]
    BY AppendFacts DEF ReferenceOK
  <2>2. DOMAIN more = 1 .. Len(ms) + 1 /\ DOMAIN ms = 1 .. Len(ms) /\ Len(ms) \in Nat
    BY <2>1, IsSeqFacts DEF ReferenceOK
  <2>3. \A k \in DOMAIN more : k = Len(ms) + 1 \/ k \in 1 .. Len(ms)
    BY <2>2
  <2>4. r.member.identifier \in Seq(Token)
    BY DEF MemberOK, ReferenceOK
  <2>5. \A k \in DOMAIN ms : ms[k].identifier \in Seq(Token)
    BY DEF ReferenceOK
  <2> HIDE DEF more, ms
  <2> QED  BY <2>1, <2>2, <2>3, <2>4, <2>5
<1>5. MemberOK(NoMember) /\ None \in Span
  <2>1. ReferenceOK(NewReference(<<0, 0>>)) /\ NewReference(<<0, 0>>).member = NoMember
    BY NewReferenceOK DEF NewReference
  <2> QED  BY <2>1 DEF ReferenceOK, Span
<1>6. Nat \X Nat \subseteq Span
  BY DEF Span
<1>7. ASSUME NEW p, NEW i
      PROVE  LET s == [r EXCEPT !.packageName = p, !.importPath = i]
             IN ReferenceOK(s) /\ s.context = r.context
  BY DEF ReferenceOK
<1>8. ASSUME NEW m, MemberOK(m)
      PROVE  LET s == [r EXCEPT !.member = m]
             IN ReferenceOK(s) /\ s.context = r.context /\ s.leftParenthesis = r.leftParenthesis
  BY <1>8 DEF ReferenceOK
<1>9. ASSUME NEW l \in Nat \X Nat
      PROVE  LET s == [r EXCEPT !.leftParenthesis = l]
             IN ReferenceOK(s) /\ s.context = r.context
  BY <1>6 DEF ReferenceOK
<1> DEFINE s == [r EXCEPT !.memberReferences = Append(@, r.member), !.member = NoMember,
                          !.leftParenthesis = None]
<1>10. ReferenceOK(s) /\ s.context = r.context
  <2>1. s = [r EXCEPT !.memberReferences = more, !.member = NoMember, !.leftParenthesis = None]
    OBVIOUS
  <2> HIDE DEF more, s
  <2> QED  BY <1>4, <1>5, <2>1 DEF ReferenceOK
<1> QED  BY <1>7, <1>8, <1>9, <1>10

-----------------------------------------------------------------------------
\* Errors

\* The message of an error, which may come after one about a missing label
IsCause(messages) ==
  /\ messages \in Seq(MessageType) /\ Len(messages) \in {1, 2}
  /\ \A k \in 1 .. Len(messages) : messages[k].id # "ReferenceSymbolSyntax"
  /\ Len(messages) = 2 => messages[1].id = "ReferenceMissingLabel"

\* The messages at the brackets of the stack, from the inside out
LEMMA BracketMessages ==
  ASSUME NEW stack, NEW i \in Nat, StackOK(stack, i)
  PROVE  LET n == Len(stack)
             brackets == [k \in 1 .. n - 1 |->
                            Message("ReferenceSymbolSyntax", stack[n + 1 - k].context)]
         IN /\ brackets \in Seq(MessageType)
            /\ Len(brackets) = IF n = 0 THEN 0 ELSE n - 1
            /\ \A k \in 1 .. Len(brackets) :
                 /\ brackets[k].id = "ReferenceSymbolSyntax"
                 /\ KindAt(brackets[k].span[1]) = "LeftSquareBracket"
                 /\ k > 1 => brackets[k].span[1] < brackets[k - 1].span[1]
<1> DEFINE n == Len(stack)
           e(k) == Message("ReferenceSymbolSyntax", stack[n + 1 - k].context)
           brackets == [k \in 1 .. n - 1 |-> e(k)]
           N == IF n = 0 THEN 0 ELSE n - 1
<1>1. n \in Nat /\ N \in Nat
  BY IsSeqFacts DEF StackOK
<1>2. 1 .. n - 1 = 1 .. N
  BY <1>1
<1>3. \A k \in 1 .. N : n + 1 - k \in 2 .. n /\ n + 1 - k \in 1 .. n
  BY <1>1
<1>4. \A k \in 1 .. N : k > 1 => /\ n + 1 - (k - 1) \in 3 .. n /\ k - 1 \in 1 .. N
                                 /\ n + 1 - (k - 1) - 1 = n + 1 - k
  BY <1>1
<1>5. ASSUME NEW k \in 1 .. N
      PROVE  /\ e(k) \in MessageType /\ e(k).id = "ReferenceSymbolSyntax"
             /\ e(k).span = stack[n + 1 - k].context
  <2>1. "ReferenceSymbolSyntax" \in MessageId
    BY DEF MessageId
  <2>2. stack[n + 1 - k].context \in Nat \X Nat
    BY <1>3 DEF StackOK, ReferenceOK
  <2> QED  BY <2>1, <2>2 DEF MessageType, Message
<1> HIDE DEF e
<1>6. brackets \in Seq(MessageType) /\ Len(brackets) = N
      /\ \A k \in 1 .. N : brackets[k] = e(k)
  <2>1. brackets = [k \in 1 .. N |-> e(k)]
    BY <1>2
  <2> HIDE DEF brackets, N
  <2> QED  BY <1>1, <1>5, <2>1
<1> HIDE DEF brackets, N
<1>7. ASSUME NEW k \in 1 .. N
      PROVE  /\ brackets[k].id = "ReferenceSymbolSyntax"
             /\ KindAt(brackets[k].span[1]) = "LeftSquareBracket"
             /\ k > 1 => brackets[k].span[1] < brackets[k - 1].span[1]
  <2>1. /\ brackets[k].span = stack[n + 1 - k].context
        /\ k > 1 => brackets[k - 1].span = stack[n + 1 - (k - 1)].context
    BY <1>4, <1>5, <1>6
  <2>2. KindAt(stack[n + 1 - k].context[1]) = "LeftSquareBracket"
    BY <1>3 DEF StackOK
  <2>3. k > 1 => stack[n + 1 - k].context[1] < stack[n + 1 - (k - 1)].context[1]
    <3> SUFFICES ASSUME k > 1
                 PROVE  stack[n + 1 - k].context[1] < stack[n + 1 - (k - 1)].context[1]
      OBVIOUS
    <3> DEFINE j == n + 1 - (k - 1)
    <3>1. j \in 3 .. n /\ j - 1 = n + 1 - k
      BY <1>4
    <3> HIDE DEF j
    <3>2. stack[j - 1].context[1] < stack[j].context[1]
      BY <3>1 DEF StackOK
    <3> QED  BY <3>1, <3>2 DEF j
  <2> QED  BY <1>5, <1>6, <2>1, <2>2, <2>3
<1> QED  BY <1>6, <1>7 DEF brackets, e, N

\* A cause, and the messages at the brackets around it, explain an error.
LEMMA Explanation ==
  ASSUME NEW messages, IsCause(messages),
         NEW brackets \in Seq(MessageType),
         \A k \in 1 .. Len(brackets) :
           /\ brackets[k].id = "ReferenceSymbolSyntax"
           /\ KindAt(brackets[k].span[1]) = "LeftSquareBracket"
           /\ k > 1 => brackets[k].span[1] < brackets[k - 1].span[1]
  PROVE  Explained(messages \o brackets) /\ messages \o brackets # <<>>
<1> DEFINE all == messages \o brackets
           L == Len(messages)
           N == Len(brackets)
<1>1. messages \in Seq(MessageType) /\ L \in Nat /\ N \in Nat /\ L \in {1, 2}
  BY LenProperties DEF IsCause
<1>2. /\ all \in Seq(MessageType) /\ Len(all) = L + N
      /\ \A k \in 1 .. L + N : all[k] = IF k <= L THEN messages[k] ELSE brackets[k - L]
  BY <1>1, ConcatProperties
<1> HIDE DEF all
<1>3. all # <<>>
  BY <1>1, <1>2, EmptySeq
<1>4. ASSUME NEW m \in 1 .. L + N
      PROVE  /\ all[m].id = "ReferenceSymbolSyntax" =>
                  /\ m > 1
                  /\ KindAt(all[m].span[1]) = "LeftSquareBracket"
                  /\ all[m - 1].id = "ReferenceSymbolSyntax" =>
                       all[m].span[1] < all[m - 1].span[1]
             /\ all[m].id # "ReferenceSymbolSyntax" =>
                  m = 1 \/ (m = 2 /\ all[1].id = "ReferenceMissingLabel")
  <2>1. CASE m <= L
    <3>1. m \in 1 .. L /\ all[m] = messages[m] /\ all[1] = messages[1]
      BY <1>1, <1>2, <2>1
    <3>2. m = 1 \/ (m = 2 /\ L = 2)
      BY <1>1, <3>1
    <3> QED  BY <3>1, <3>2 DEF IsCause
  <2>2. CASE m > L
    <3>1. m - L \in 1 .. N /\ all[m] = brackets[m - L] /\ m > 1 /\ m - 1 \in 1 .. L + N
      <4> HIDE DEF L, N
      <4>1. m - L \in 1 .. N /\ m > 1 /\ m - 1 \in 1 .. L + N
        BY <1>1, <2>2
      <4>2. ~(m <= L)
        BY <1>1, <2>2
      <4> QED  BY <1>2, <4>1, <4>2
    <3>2. CASE m - 1 = L
      <4>1. L \in 1 .. L /\ all[m - 1] = messages[L]
        BY <1>1, <1>2, <3>1, <3>2
      <4> QED  BY <3>1, <4>1 DEF IsCause
    <3>3. CASE m - 1 # L
      <4>1. m - L > 1 /\ all[m - 1] = brackets[m - L - 1]
        BY <1>1, <1>2, <2>2, <3>1, <3>3
      <4> QED  BY <3>1, <4>1
    <3> QED  BY <3>2, <3>3
  <2> QED  BY <1>1, <2>1, <2>2
<1> QED  BY <1>2, <1>3, <1>4 DEF Explained, all

\* A bracket closes: the reference inside becomes the symbol of the member around it.
LEMMA SetSymbolOK ==
  ASSUME NEW s, NEW i \in Nat, StackOK(s, i), s # <<>>, NEW j \in Nat, i <= j, NEW x
  PROVE  LET t == [s EXCEPT ![Len(s)].member.symbol = x] IN
         StackOK(t, j) /\ t # <<>>
<1> DEFINE n == Len(s)
           m == [s[n].member EXCEPT !.symbol = x]
           new == [s[n] EXCEPT !.member = m]
           t == [s EXCEPT ![n].member.symbol = x]
<1>1. IsSeq(s) /\ n \in Nat \ {0} /\ n \in 1 .. n
  BY IsSeqFacts DEF StackOK
<1>2. StackOK(s, j)
  BY FrontOK
<1>3. ReferenceOK(s[n]) /\ MemberOK(s[n].member)
  BY <1>1 DEF StackOK, ReferenceOK
<1>4. MemberOK(m)
  BY <1>3, MemberUpdates
<1>5. t = [s EXCEPT ![n] = new]
  OBVIOUS
<1> HIDE DEF m
<1>6. ReferenceOK(new) /\ new.context = s[n].context
  BY <1>3, <1>4, ReferenceUpdates
<1> HIDE DEF new, t
<1>7. IsSeq(t) /\ Len(t) = n /\ \A k \in 1 .. n : t[k] = IF k = n THEN new ELSE s[k]
  <2> DEFINE S == Range(s) \union {new}
  <2>1. s \in Seq(S) /\ new \in S
    BY <1>1, SeqMonotonic DEF IsSeq
  <2> HIDE DEF S
  <2>2. t \in Seq(S) /\ Len(t) = n /\ \A k \in 1 .. n : t[k] = IF k = n THEN new ELSE s[k]
    BY <1>1, <1>5, <2>1, ExceptSeq
  <2> QED  BY <2>2, IsSeqFacts
<1>8. \A k \in 1 .. n : ReferenceOK(t[k]) /\ t[k].context = s[k].context
  BY <1>2, <1>6, <1>7 DEF StackOK
<1> HIDE DEF n
<1>9. StackOK(t, j)
  <2>1. \A k \in 2 .. n : k \in 1 .. n
    BY <1>1
  <2>2. \A k \in 3 .. n : k \in 2 .. n /\ k - 1 \in 1 .. n
    BY <1>1
  <2> QED  BY <1>2, <1>7, <1>8, <2>1, <2>2 DEF StackOK, n
<1>10. t # <<>>
  BY <1>1, <1>7, IsSeqFacts
<1> QED  BY <1>9, <1>10 DEF t, n

-----------------------------------------------------------------------------
\* How a step ends

\* The parse goes on: what is read is ready, and the stack fits where it goes.
LEMMA GoesOn ==
  ASSUME Inv, pc \notin Rejected, NEW parts, NEW r, NEW stack, NEW next,
         ContinueWith(parts, r, stack, next),
         TagOK(parts), Ready(r), StackOK(stack, r.currentIndex),
         next \in TagPoints \union ReferencePoints, PointOK(next, r, stack)
  PROVE  Inv'
<1>1. /\ tokens' = tokens /\ log' = log /\ reader' = r /\ references' = stack
      /\ tag' = parts /\ pc' = next
  BY DEF ContinueWith, input
<1>3. StreamOK' /\ (Ready(reader))'
  BY <1>1 DEF Inv, StreamOK, Ready, GoodReader, ExcerptOK, Begin, IsEmpty, Peek, KindAt
<1>4. (StackOK(references, reader.currentIndex))'
  BY <1>1 DEF StackOK, KindAt
<1>5. (TagOK(tag))' /\ (PointOK(pc, reader, references))'
  BY <1>1 DEF TagOK, PointOK, KindAt, Skip
<1>6. log = <<>> /\ log' = <<>> /\ (Explained(log))'
  BY <1>1 DEF Inv, Explained, KindAt
<1>7. next \notin Rejected
  BY DEF Rejected, TagPoints, ReferencePoints
<1> QED  BY <1>1, <1>3, <1>4, <1>5, <1>6, <1>7 DEF Inv, Rejected, TagPoints, ReferencePoints

\* An error ends the parse, and is explained by its cause and the brackets around it.
LEMMA Fails ==
  ASSUME Inv, pc \notin Rejected, NEW messages, IsCause(messages),
         NEW stack, StackOK(stack, reader.currentIndex), FailWith(messages, stack)
  PROVE  Inv'
<1> DEFINE n == Len(stack)
           brackets == [k \in 1 .. n - 1 |->
                          Message("ReferenceSymbolSyntax", stack[n + 1 - k].context)]
           all == messages \o brackets
<1>1. reader.currentIndex \in Nat /\ log = <<>>
  BY ReaderFacts DEF Inv, Ready
<1>2. /\ brackets \in Seq(MessageType)
      /\ \A k \in 1 .. Len(brackets) :
           /\ brackets[k].id = "ReferenceSymbolSyntax"
           /\ KindAt(brackets[k].span[1]) = "LeftSquareBracket"
           /\ k > 1 => brackets[k].span[1] < brackets[k - 1].span[1]
  BY <1>1, BracketMessages
<1>3. /\ log' = log \o messages \o brackets /\ references' = <<>> /\ pc' = "InlineTag"
      /\ tokens' = tokens /\ reader' = reader /\ tag' = tag
  BY DEF FailWith, input
<1> HIDE DEF brackets
<1>4. Explained(all) /\ all # <<>>
  BY <1>2, Explanation
<1>5. log' = all
  <2>1. <<>> \o messages = messages
    BY ConcatEmptySeq DEF IsCause
  <2> QED  BY <1>1, <1>3, <2>1
<1> HIDE DEF all
<1>6. (Explained(log))'
  BY <1>3, <1>4, <1>5 DEF Explained, KindAt, MessageType, MessageId
<1>7. StreamOK' /\ (Ready(reader))' /\ (TagOK(tag))'
  BY <1>3 DEF Inv, StreamOK, Ready, GoodReader, ExcerptOK, Begin, IsEmpty, Peek, KindAt, TagOK
<1>8. (StackOK(references, reader.currentIndex))'
  <2>1. StackOK(<<>>, reader.currentIndex)
    BY FirstOK
  <2> QED  BY <1>3, <2>1 DEF StackOK, KindAt
<1>9. (PointOK(pc, reader, references))'
  BY <1>3 DEF PointOK, TagPoints, ReferencePoints
<1> QED  BY <1>3, <1>4, <1>5, <1>6, <1>7, <1>8, <1>9 DEF Inv, Rejected

\* A failure reports itself and a message for each bracket that is open.
LEMMA FailsHere ==
  ASSUME Inv, pc \notin Rejected, NEW id \in MessageId \ {"ReferenceSymbolSyntax"},
         NEW span \in Nat \X Nat, Fail(id, span)
  PROVE  Inv'
<1> DEFINE m == Message(id, span)
<1>1. m \in MessageType /\ m.id = id
  BY DEF Message, MessageType
<1> HIDE DEF m
<1>2. IsCause(<<m>>)
  <2>1. <<m>> \in Seq(MessageType) /\ Len(<<m>>) = 1 /\ <<m>>[1] = m
    BY <1>1
  <2> QED  BY <1>1, <2>1 DEF IsCause
<1>3. FailWith(<<m>>, references) /\ StackOK(references, reader.currentIndex)
  BY DEF Fail, m, Inv
<1> QED  BY <1>2, <1>3, Fails

\* A label is missing at the end, where the parser goes on to read it.
LEMMA Throws ==
  ASSUME Inv, pc \notin Rejected, NEW m \in MessageType, m.id = "ReferenceMissingLabel",
         Peek(reader) = "EndOfInput", Throw(<<m>>)
  PROVE  Inv'
<1> DEFINE all == <<m>>
<1>1. /\ log' = all /\ pc' = "Thrown" /\ tokens' = tokens
      /\ reader' = reader /\ tag' = tag /\ references' = references
  <2>1. log = <<>> /\ log' = log \o all
    BY DEF Inv, Throw
  <2>2. all \in Seq(MessageType)
    OBVIOUS
  <2>3. <<>> \o all = all
    BY <2>2, ConcatEmptySeq
  <2> QED  BY <2>1, <2>3 DEF Throw, input
<1>2. all \in Seq(MessageType) /\ Len(all) = 1 /\ all[1] = m /\ all # <<>>
  OBVIOUS
<1> HIDE DEF all
<1>3. (Explained(log))'
  BY <1>1, <1>2 DEF Explained, MessageType, MessageId
<1>4. StreamOK' /\ (Ready(reader))' /\ (TagOK(tag))' /\ (Peek(reader))' = "EndOfInput"
  BY <1>1 DEF Inv, StreamOK, Ready, GoodReader, ExcerptOK, Begin, IsEmpty, Peek, KindAt, TagOK
<1>5. (StackOK(references, reader.currentIndex))'
  BY <1>1 DEF Inv, StackOK, KindAt
<1>6. (PointOK(pc, reader, references))'
  BY <1>1 DEF PointOK, TagPoints, ReferencePoints
<1> QED  BY <1>1, <1>2, <1>3, <1>4, <1>5, <1>6 DEF Inv, Rejected

-----------------------------------------------------------------------------
\* At first nothing is read and nothing is reported.
LEMMA InitInv == Init => Inv
<1> SUFFICES ASSUME Init PROVE Inv
  OBVIOUS
<1>1. StreamOK /\ IsContent(tokens)
  BY ContentsAssumption DEF Init, StreamOK
<1>2. reader = NewReader /\ reader.excerpts = <<>> /\ reader.currentIndex = 0
      /\ reader.accumulatedStartIndex = 0
  BY DEF Init, NewReader
<1>3. GoodReader(reader) /\ Begin(reader) = 0 /\ IsEmpty(reader)
  <2>1. reader \in Reader
    BY <1>2, EmptySeq DEF NewReader, Reader
  <2>2. Len(tokens) \in Nat /\ Len(reader.excerpts) = 0
    BY <1>1, <1>2, EmptySeq DEF StreamOK
  <2> QED  BY <1>2, <2>1, <2>2 DEF GoodReader, Begin, IsEmpty
<1>4. KindAt(0) \notin {"Spacing", "Newline"}
  <2>1. CASE 0 < Len(tokens)
    <3>1. tokens # <<>> /\ KindAt(0) = KindOf(tokens[1])
      BY <1>1, <2>1, EmptySeq DEF KindAt, StreamOK
    <3> QED  BY <1>1, <3>1 DEF IsContent, KindOf
  <2>2. CASE ~(0 < Len(tokens))
    BY <2>2 DEF KindAt
  <2> QED  BY <2>1, <2>2
<1>5. Ready(reader)
  BY <1>2, <1>3, <1>4 DEF Ready, Peek
<1>6. references = <<>> /\ StackOK(references, reader.currentIndex)
  BY FirstOK DEF Init
<1>7. TagOK(tag)
  <2>1. <<>> \in Seq(Token) /\ Len(<<>>) = 0
    BY EmptySeq
  <2> QED  BY <2>1 DEF Init, NoTag, TagOK
<1>8. pc = "Start" /\ PointOK(pc, reader, references)
  BY <1>2, <1>6 DEF Init, PointOK, TagPoints, ReferencePoints
<1>9. log = <<>> /\ Explained(log)
  BY EmptySeq DEF Init, Explained
<1> QED  BY <1>1, <1>5, <1>6, <1>7, <1>8, <1>9 DEF Inv, Rejected, TagPoints

\* What every step finds
LEMMA InvFacts ==
  ASSUME Inv
  PROVE  /\ StreamOK /\ Ready(reader) /\ GoodReader(reader) /\ Begin(reader) = 0
         /\ reader.accumulatedStartIndex = Here
         /\ Here \in 0 .. Len(tokens) /\ Here \in Nat /\ Len(tokens) \in Nat
         /\ StackOK(references, Here) /\ TagOK(tag) /\ PointOK(pc, reader, references)
         /\ Here < Len(tokens) <=> Peek(reader) # "EndOfInput"
<1>1. StreamOK /\ GoodReader(reader) /\ IsEmpty(reader)
  BY DEF Inv, Ready
<1>2. Here \in 0 .. Len(tokens) /\ Len(tokens) \in Nat
  BY <1>1, ReaderFacts DEF Here
<1> QED  BY <1>1, <1>2, TokenFacts DEF Inv, Ready, Here, IsEmpty, Peek

\* What the steps of a reference find
LEMMA CurrentFacts ==
  ASSUME Inv, pc \in ReferencePoints
  PROVE  /\ references # <<>> /\ Len(references) \in 1 .. Len(references)
         /\ ReferenceOK(current) /\ MemberOK(current.member)
         /\ current.context \in Nat \X Nat /\ current.leftParenthesis \in Span
<1>1. references # <<>> /\ StackOK(references, Here)
  BY InvFacts DEF PointOK
<1>2. Len(references) \in 1 .. Len(references)
  BY <1>1, IsSeqFacts DEF StackOK
<1> QED  BY <1>1, <1>2 DEF StackOK, ReferenceOK, current

\* The current reference is replaced by one with the same context.
LEMMA UpdateCurrentOK ==
  ASSUME Inv, pc \in ReferencePoints, NEW j \in Nat, Here <= j,
         NEW new, ReferenceOK(new), new.context = current.context
  PROVE  /\ StackOK(UpdateCurrent(new), j) /\ UpdateCurrent(new) # <<>>
         /\ UpdateCurrent(new)[Len(UpdateCurrent(new))] = new
<1>1. Here \in Nat /\ StackOK(references, Here) /\ references # <<>>
  BY InvFacts, CurrentFacts
<1> QED  BY <1>1, UpdateOK DEF UpdateCurrent, Enclosing, current

-----------------------------------------------------------------------------
\* The tag

LEMMA EmptyContentInv == Inv /\ EmptyContent => Inv'
<1> SUFFICES ASSUME Inv, EmptyContent PROVE Inv'
  OBVIOUS
<1>1. pc = "Start" /\ tokens = <<>> /\ pc \notin Rejected
  BY DEF EmptyContent, Rejected
<1>2. CASE Fail("LinkTagEmpty", TagName)
  BY <1>1, <1>2, FailsHere DEF MessageId, TagName
<1>3. CASE Continue(reader, references, "InheritDocTag")
  <2>1. Here = Len(tokens)
    BY <1>1, InvFacts, EmptySeq
  <2>2. references = <<>>
    BY <1>1, InvFacts DEF PointOK, TagPoints
  <2>3. PointOK("InheritDocTag", reader, references)
    BY <2>1, <2>2 DEF PointOK, ReferencePoints, Here
  <2>4. "InheritDocTag" \in TagPoints \union ReferencePoints
    BY DEF TagPoints
  <2> QED  BY <1>1, <1>3, <2>3, <2>4, InvFacts, GoesOn DEF Continue, Here
<1> QED  BY <1>2, <1>3 DEF EmptyContent

\* A reference is pushed on the stack that is empty.
LEMMA StartReferenceInv == Inv /\ StartReference => Inv'
<1> SUFFICES ASSUME Inv, StartReference PROVE Inv'
  OBVIOUS
<1> DEFINE s == <<NewReference(TagName)>>
<1>1. pc = "Start" /\ pc \notin Rejected /\ Continue(reader, s, "DeclarationReference")
  BY DEF StartReference, Rejected
<1>2. StackOK(s, Here) /\ s # <<>>
  BY FirstOK
<1> HIDE DEF s
<1>3. /\ PointOK("DeclarationReference", reader, s)
      /\ "DeclarationReference" \in TagPoints \union ReferencePoints
  BY <1>2 DEF PointOK, TagPoints, ReferencePoints
<1> QED  BY <1>1, <1>2, <1>3, InvFacts, GoesOn DEF Continue, Here

\* A content that looks like a URL begins with one.
LEMMA UrlIsNotEmpty ==
  ASSUME StreamOK, LooksLikeUrl
  PROVE  SkipTo(0, {"Spacing", "Newline", "Pipe", "RightCurlyBracket"}) \in 1 .. Len(tokens)
<1> DEFINE S == {"Spacing", "Newline", "Pipe", "RightCurlyBracket"}
           C == {"AsciiWord", "Period", "Hyphen", "Plus"}
           end == SkipTo(0, S)
           scheme == Skip(0, C)
<1>1. Len(tokens) \in Nat /\ 0 \in 0 .. Len(tokens) /\ "EndOfInput" \notin C
  BY TokenFacts
<1>2. end \in 0 .. Len(tokens) /\ KindAt(end) \in S \union {"EndOfInput"}
  <2> HIDE DEF S
  <2> QED  BY <1>1, SkipToStops
<1>3. scheme \in 0 .. Len(tokens) /\ \A k \in 0 .. scheme - 1 : KindAt(k) \in C
  <2> HIDE DEF C
  <2> QED  BY <1>1, SkipStops
<1>4. KindAt(0) \in C \union {"Slash", "Colon"}
  <2>1. CASE TwoSlashesAt(0)
    BY <2>1 DEF TwoSlashesAt
  <2>2. CASE KindAt(scheme) = "Colon"
    <3> HIDE DEF scheme, C
    <3>1. scheme = 0 \/ 0 \in 0 .. scheme - 1
      BY <1>1, <1>3
    <3> QED  BY <1>3, <2>2, <3>1
  <2> QED  BY <2>1, <2>2 DEF LooksLikeUrl
<1> HIDE DEF end, scheme
<1>5. end # 0
  BY <1>2, <1>4
<1> QED  BY <1>1, <1>2, <1>5 DEF end, S

\* A URL is one excerpt up to white space, a pipe or a brace.
LEMMA UrlDestinationInv == Inv /\ UrlDestination => Inv'
<1> SUFFICES ASSUME Inv, UrlDestination PROVE Inv'
  OBVIOUS
<1> DEFINE end == SkipTo(0, {"Spacing", "Newline", "Pipe", "RightCurlyBracket"})
           s == TryReadSpacingAndNewlines(Extract(ReadTo(reader, end)))
           parts == [tag EXCEPT !.url = Text(0, end)]
<1>1. /\ pc = "Start" /\ pc \notin Rejected /\ LooksLikeUrl
      /\ IF end = 0 THEN Throw(<<>>)
         ELSE IF ~IsUrl(end) THEN Fail("LinkTagInvalidUrl", <<0, end>>)
         ELSE ContinueWith(parts, s, <<>>, "AfterDestination")
  BY DEF UrlDestination, Rejected
<1>2. end \in 1 .. Len(tokens) /\ Here = 0
  BY <1>1, UrlIsNotEmpty, InvFacts DEF PointOK, Here
<1>3. end \in Nat /\ end # 0 /\ <<0, end>> \in Nat \X Nat
  BY <1>2
<1> HIDE DEF end
<1>4. CASE Fail("LinkTagInvalidUrl", <<0, end>>)
  BY <1>1, <1>3, <1>4, FailsHere DEF MessageId
<1>5. CASE ContinueWith(parts, s, <<>>, "AfterDestination")
  <2>1. Ready(s)
    BY <1>2, InvFacts, ReadReady DEF Here
  <2>2. TagOK(parts)
    <3>1. Text(0, end) \in Seq(Token)
      BY <1>2, <1>3, InvFacts, TextIsTokens
    <3> QED  BY <3>1, InvFacts DEF TagOK
  <2> HIDE DEF s, parts
  <2>3. StackOK(<<>>, s.currentIndex)
    BY FirstOK
  <2>4. /\ PointOK("AfterDestination", s, <<>>)
        /\ "AfterDestination" \in TagPoints \union ReferencePoints
    BY DEF PointOK, TagPoints, ReferencePoints
  <2> QED  BY <1>1, <1>5, <2>1, <2>2, <2>3, <2>4, GoesOn
<1> QED  BY <1>1, <1>3, <1>4, <1>5

\* After the destination comes the end or, in a link, a pipe and its text.
LEMMA AfterDestinationInv == Inv /\ AfterDestination => Inv'
<1> SUFFICES ASSUME Inv, AfterDestination PROVE Inv'
  OBVIOUS
<1> DEFINE next == IF tagName = "link" THEN "LinkTag" ELSE "InheritDocTag"
<1>1. pc = "AfterDestination" /\ pc \notin Rejected
  BY DEF AfterDestination, Rejected
<1>2. Peek(reader) # "Spacing" /\ <<Here, Here + 1>> \in Nat \X Nat
      /\ StackOK(<<>>, Here) /\ \A j : StackOK(<<>>, j)
  BY InvFacts, FirstOK DEF Ready
<1>3. CASE Peek(reader) = "EndOfInput" /\ Continue(reader, <<>>, next)
  <2>1. next \in {"LinkTag", "InheritDocTag"}
    OBVIOUS
  <2> HIDE DEF next
  <2>2. Here = Len(tokens)
    BY <1>3, InvFacts
  <2>3. PointOK(next, reader, <<>>) /\ next \in TagPoints \union ReferencePoints
    BY <2>1, <2>2 DEF PointOK, TagPoints, ReferencePoints, Here
  <2> QED  BY <1>1, <1>2, <1>3, <2>3, InvFacts, GoesOn DEF Continue, Here
<1>4. CASE Fail("InheritDocTagSyntax", <<Here, Here + 1>>)
  BY <1>1, <1>2, <1>4, FailsHere DEF MessageId
<1>5. CASE Fail("LinkTagDestinationSyntax", <<Here, Here + 1>>)
  BY <1>1, <1>2, <1>5, FailsHere DEF MessageId
<1>6. CASE Peek(reader) = "Pipe" /\ Continue(Next1(reader), <<>>, "LinkText")
  <2>1. Ready(Next1(reader))
    BY <1>6, InvFacts, Next1Ready
  <2>2. /\ PointOK("LinkText", Next1(reader), <<>>)
        /\ "LinkText" \in TagPoints \union ReferencePoints
    BY DEF PointOK, TagPoints, ReferencePoints
  <2> QED  BY <1>1, <1>2, <1>6, <2>1, <2>2, InvFacts, GoesOn DEF Continue
<1> QED  BY <1>2, <1>3, <1>4, <1>5, <1>6 DEF AfterDestination

\* The end of the text before the spacing: there is one.
LEMMA TextEndExists ==
  ASSUME NEW i \in Nat, NEW end \in Nat, i <= end
  PROVE  \E j \in i .. end : /\ \A k \in j .. end - 1 : KindAt(k) \in {"Spacing", "Newline"}
                             /\ j > i => KindAt(j - 1) \notin {"Spacing", "Newline"}
<1> DEFINE S == {"Spacing", "Newline"}
           T == {j \in i .. end : \A k \in j .. end - 1 : KindAt(k) \in S}
<1> HIDE DEF S
<1>1. end \in T /\ T \in SUBSET Nat
  OBVIOUS
<1>2. PICK m \in T : \A k \in T : m <= k
  BY <1>1, SmallestElement
<1>3. m \in i .. end /\ \A k \in m .. end - 1 : KindAt(k) \in S
  BY <1>2
<1>4. m > i => KindAt(m - 1) \notin S
  <2> SUFFICES ASSUME m > i, KindAt(m - 1) \in S PROVE FALSE
    OBVIOUS
  <2>1. m - 1 \in i .. end /\ \A k \in m - 1 .. end - 1 : k = m - 1 \/ k \in m .. end - 1
    BY <1>3
  <2>2. m - 1 \in T
    BY <1>3, <2>1
  <2> QED  BY <1>2, <1>3, <2>2
<1> QED  BY <1>3, <1>4 DEF S

\* The text of a link ends with its last visible token; the spacing after it is an excerpt.
LEMMA LinkTextInv == Inv /\ LinkText => Inv'
<1> SUFFICES ASSUME Inv, LinkText PROVE Inv'
  OBVIOUS
<1> DEFINE end == SkipTo(Here, {"Pipe", "LeftCurlyBracket"})
           IsEnd(j) == /\ \A k \in j .. end - 1 : KindAt(k) \in {"Spacing", "Newline"}
                       /\ j > Here => KindAt(j - 1) \notin {"Spacing", "Newline"}
           textEnd == CHOOSE j \in Here .. end : IsEnd(j)
           a == ReadTo(reader, textEnd)
           b == TryExtract(a)
           c == ReadTo(b, end)
           d == TryExtract(c)
           parts == [tag EXCEPT !.text = Text(Here, textEnd)]
<1>1. /\ pc = "LinkText" /\ pc \notin Rejected
      /\ IF KindAt(end) = "EndOfInput" THEN ContinueWith(parts, d, <<>>, "LinkTag")
         ELSE Fail("LinkTagUnescapedText", <<Here, end + 1>>)
  BY DEF LinkText, Rejected
<1>2. end \in Here .. Len(tokens) /\ Here \in Nat /\ end \in Nat /\ Len(tokens) \in Nat
  BY InvFacts, SkipToStops
<1> HIDE DEF end
<1>3. textEnd \in Here .. end
  <2>1. \E j \in Here .. end : IsEnd(j)
    <3>1. Here \in Nat /\ end \in Nat /\ Here <= end
      BY <1>2
    <3> HIDE DEF Here
    <3> QED  BY ONLY <3>1, TextEndExists DEF IsEnd
  <2> HIDE DEF IsEnd
  <2> QED  BY <2>1
<1> HIDE DEF textEnd
<1>4. CASE Fail("LinkTagUnescapedText", <<Here, end + 1>>)
  BY <1>1, <1>2, <1>4, FailsHere DEF MessageId
<1>5. CASE KindAt(end) = "EndOfInput" /\ ContinueWith(parts, d, <<>>, "LinkTag")
  <2>1. end = Len(tokens)
    BY <1>2, <1>5, InvFacts, TokenFacts
  <2>2. textEnd \in reader.currentIndex .. Len(tokens)
    BY <1>2, <1>3 DEF Here
  <2>3. GoodReader(a) /\ Begin(a) = 0 /\ a.currentIndex = textEnd
    BY <2>2, InvFacts, ReadToAdvances DEF Advances
  <2> HIDE DEF a
  <2>4. GoodReader(b) /\ Begin(b) = 0 /\ b.currentIndex = textEnd
    BY <2>3, InvFacts, TryExtractAdvances DEF Advances
  <2> HIDE DEF b
  <2>5. end \in b.currentIndex .. Len(tokens)
    BY <1>2, <1>3, <2>4
  <2>6. GoodReader(c) /\ Begin(c) = 0 /\ c.currentIndex = end
    BY <2>4, <2>5, InvFacts, ReadToAdvances DEF Advances
  <2> HIDE DEF c
  <2>7. /\ GoodReader(d) /\ Begin(d) = 0 /\ d.currentIndex = end
        /\ d.accumulatedStartIndex = end
    BY <2>6, InvFacts, TryExtractAdvances DEF Advances
  <2> HIDE DEF d
  <2>8. Ready(d)
    BY <1>5, <2>7 DEF Ready, IsEmpty, Peek
  <2>9. TagOK(parts)
    <3>1. Text(Here, textEnd) \in Seq(Token)
      <4>1. textEnd \in Here .. Len(tokens)
        BY <1>2, <1>3
      <4> QED  BY <1>2, <4>1, InvFacts, TextIsTokens
    <3> QED  BY <3>1, InvFacts DEF TagOK
  <2> HIDE DEF parts
  <2>10. StackOK(<<>>, d.currentIndex)
    BY FirstOK
  <2>11. PointOK("LinkTag", d, <<>>) /\ "LinkTag" \in TagPoints \union ReferencePoints
    BY <2>1, <2>7 DEF PointOK, TagPoints, ReferencePoints
  <2> QED  BY <1>1, <1>5, <2>8, <2>9, <2>10, <2>11, GoesOn
<1> QED  BY <1>1, <1>4, <1>5

-----------------------------------------------------------------------------
\* A declaration reference

LEMMA ScanForHashInv == Inv /\ ScanForHash => Inv'
<1> SUFFICES ASSUME Inv, ScanForHash PROVE Inv'
  OBVIOUS
<1> DEFINE next == IF HasHash THEN "Import" ELSE "Members"
<1>1. pc = "DeclarationReference" /\ pc \notin Rejected /\ pc \in ReferencePoints
  BY DEF ScanForHash, Rejected, ReferencePoints
<1>2. ScanEnd \in Here .. Len(tokens) /\ Here \in Nat /\ ScanEnd \in Nat
  BY InvFacts, SkipToStops DEF ScanEnd
<1>3. CASE Fail("ReferenceMissingHash", <<Here, ScanEnd>>)
  BY <1>1, <1>2, <1>3, FailsHere DEF MessageId
<1>4. CASE Continue(reader, references, next)
  <2>1. next \in {"Import", "Members"} /\ (next = "Import" => HasHash)
    OBVIOUS
  <2> HIDE DEF next
  <2>2. next = "Import" => \E h \in Here .. Len(tokens) : KindAt(h) = "PoundSymbol"
    BY <1>2, <2>1 DEF HasHash
  <2>3. PointOK(next, reader, references) /\ next \in TagPoints \union ReferencePoints
    BY <1>1, <2>1, <2>2, CurrentFacts DEF PointOK, TagPoints, ReferencePoints, Here
  <2> QED  BY <1>1, <1>4, <2>3, InvFacts, GoesOn DEF Continue, Here
<1> QED  BY <1>3, <1>4 DEF ScanForHash

\* A loop that reads up to a kind stops at a token of that kind at the latest.
LEMMA SkipToBefore ==
  ASSUME StreamOK, NEW i \in 0 .. Len(tokens), NEW S, NEW h \in i .. Len(tokens), KindAt(h) \in S
  PROVE  SkipTo(i, S) \in i .. h
<1>1. /\ SkipTo(i, S) \in i .. Len(tokens) /\ Len(tokens) \in Nat
      /\ \A k \in i .. SkipTo(i, S) - 1 : KindAt(k) \notin S
  BY SkipToStops, TokenFacts
<1>2. ~(SkipTo(i, S) > h)
  <2> SUFFICES ASSUME SkipTo(i, S) > h PROVE FALSE
    OBVIOUS
  <2>1. h \in i .. SkipTo(i, S) - 1
    BY <1>1
  <2> QED  BY <1>1, <2>1
<1> QED  BY <1>1, <1>2

\* The package and the path are the excerpts before the hash.
LEMMA ImportInv == Inv /\ Import => Inv'
<1> SUFFICES ASSUME Inv, Import PROVE Inv'
  OBVIOUS
<1> DEFINE firstStop == SkipTo(Here, {"Slash", "PoundSymbol"})
           packageEnd ==
             CASE Peek(reader) = "Period" -> Here
               [] Peek(reader) = "AtSign" /\ KindAt(firstStop) = "Slash" ->
                    SkipTo(firstStop + 1, {"Slash", "PoundSymbol"})
               [] OTHER -> firstStop
           hash == SkipTo(packageEnd, {"PoundSymbol"})
           a == ReadTo(reader, packageEnd)
           named == TryExtract(a)
           b == ReadTo(named, hash)
           pathed == TryExtract(b)
           new == [current EXCEPT !.packageName = Text(Here, packageEnd),
                                  !.importPath = Text(packageEnd, hash)]
           stack == UpdateCurrent(new)
<1>1. pc = "Import" /\ pc \notin Rejected /\ pc \in ReferencePoints
  BY DEF Import, Rejected, ReferencePoints
<1>2. PICK h \in Here .. Len(tokens) : KindAt(h) = "PoundSymbol"
  BY <1>1, InvFacts DEF PointOK, Here
<1>3. Here \in 0 .. Len(tokens) /\ Len(tokens) \in Nat /\ h \in Nat /\ Here \in Nat
  BY <1>2, InvFacts
<1>4. firstStop \in Here .. h
  BY <1>2, <1>3, InvFacts, SkipToBefore
<1> HIDE DEF firstStop
<1>5. packageEnd \in Here .. h
  <2>1. ASSUME KindAt(firstStop) = "Slash"
        PROVE  SkipTo(firstStop + 1, {"Slash", "PoundSymbol"}) \in Here .. h
    <3>1. /\ firstStop + 1 \in 0 .. Len(tokens) /\ h \in firstStop + 1 .. Len(tokens)
          /\ firstStop + 1 \in Nat
      BY <1>2, <1>3, <1>4, <2>1
    <3>2. SkipTo(firstStop + 1, {"Slash", "PoundSymbol"}) \in firstStop + 1 .. h
      BY <1>2, <3>1, InvFacts, SkipToBefore
    <3> QED  BY <1>3, <1>4, <3>1, <3>2
  <2>2. Here \in Here .. h
    BY <1>2, <1>3
  <2>3. packageEnd \in {Here, firstStop}
        \/ (KindAt(firstStop) = "Slash"
              /\ packageEnd = SkipTo(firstStop + 1, {"Slash", "PoundSymbol"}))
    <3>1. CASE Peek(reader) = "Period"
      <4>1. ~(Peek(reader) = "AtSign" /\ KindAt(firstStop) = "Slash")
        BY <3>1
      <4> QED  BY <3>1, <4>1
    <3>2. CASE Peek(reader) # "Period" /\ Peek(reader) = "AtSign" /\ KindAt(firstStop) = "Slash"
      BY <3>2
    <3>3. CASE Peek(reader) # "Period" /\ ~(Peek(reader) = "AtSign" /\ KindAt(firstStop) = "Slash")
      BY <3>3
    <3> QED  BY <3>1, <3>2, <3>3
  <2> HIDE DEF packageEnd
  <2> QED  BY <1>4, <2>1, <2>2, <2>3
<1>6. packageEnd \in 0 .. Len(tokens) /\ h \in packageEnd .. Len(tokens) /\ packageEnd \in Nat
  <2> HIDE DEF packageEnd
  <2> QED  BY <1>2, <1>3, <1>5
<1>7. hash \in packageEnd .. h
  <2> HIDE DEF packageEnd
  <2> QED  BY <1>2, <1>6, InvFacts, SkipToBefore
<1>8. /\ IF KindAt(hash) = "EndOfInput" THEN Throw(<<>>)
         ELSE IF packageEnd > Here /\ ~IsPackageName(Here, packageEnd)
           THEN Fail("ReferenceMalformedPackageName", <<Here, packageEnd>>)
         ELSE IF hash > packageEnd /\ ~IsImportPath(packageEnd, hash, packageEnd > Here)
           THEN Fail("ReferenceMalformedImportPath", <<packageEnd, hash>>)
         ELSE IF hash = Here THEN Fail("ReferenceHashSyntax", <<hash, hash + 1>>)
         ELSE Continue(Next1(pathed), stack, "Members")
  BY DEF Import, firstStop
<1> HIDE DEF packageEnd, hash, stack
<1>9. hash \in Nat /\ KindAt(hash) # "EndOfInput" /\ hash <= h
  <2>1. hash \in Nat /\ hash <= h /\ h < Len(tokens)
    BY <1>2, <1>3, <1>6, <1>7, InvFacts, TokenFacts
  <2> QED  BY <1>3, <2>1, InvFacts, TokenFacts
<1>10. CASE Fail("ReferenceMalformedPackageName", <<Here, packageEnd>>)
  BY <1>1, <1>3, <1>6, <1>10, FailsHere DEF MessageId
<1>11. CASE Fail("ReferenceMalformedImportPath", <<packageEnd, hash>>)
  BY <1>1, <1>6, <1>9, <1>11, FailsHere DEF MessageId
<1>12. CASE Fail("ReferenceHashSyntax", <<hash, hash + 1>>)
  BY <1>1, <1>9, <1>12, FailsHere DEF MessageId
<1>13. CASE Continue(Next1(pathed), stack, "Members")
  <2>1. packageEnd \in reader.currentIndex .. Len(tokens)
    BY <1>2, <1>3, <1>5 DEF Here
  <2>2. GoodReader(a) /\ Begin(a) = 0 /\ a.currentIndex = packageEnd
    BY <2>1, InvFacts, ReadToAdvances DEF Advances
  <2> HIDE DEF a
  <2>3. GoodReader(named) /\ Begin(named) = 0 /\ named.currentIndex = packageEnd
    BY <2>2, InvFacts, TryExtractAdvances DEF Advances
  <2> HIDE DEF named
  <2>4. hash \in named.currentIndex .. Len(tokens)
    BY <1>2, <1>3, <1>7, <2>3
  <2>5. GoodReader(b) /\ Begin(b) = 0 /\ b.currentIndex = hash
    BY <2>3, <2>4, InvFacts, ReadToAdvances DEF Advances
  <2> HIDE DEF b
  <2>6. GoodReader(pathed) /\ Begin(pathed) = 0 /\ pathed.currentIndex = hash
    BY <2>5, InvFacts, TryExtractAdvances DEF Advances
  <2> HIDE DEF pathed
  <2>7. Ready(Next1(pathed)) /\ hash < Next1(pathed).currentIndex
    BY <1>9, <2>6, InvFacts, Next1Ready DEF Peek
  <2>8. Next1(pathed).currentIndex \in Nat /\ Here <= Next1(pathed).currentIndex
    <3>1. Next1(pathed).currentIndex \in Nat
      BY <2>7, InvFacts, ReaderFacts DEF Ready
    <3> QED  BY <1>3, <1>5, <1>6, <1>7, <1>9, <2>7, <3>1
  <2>9. ReferenceOK(new) /\ new.context = current.context
    <3>1. ReferenceOK(current)
      BY <1>1, CurrentFacts
    <3> HIDE DEF current
    <3>2. \A p, i : LET s == [current EXCEPT !.packageName = p, !.importPath = i]
                    IN ReferenceOK(s) /\ s.context = current.context
      BY <3>1, ReferenceUpdates
    <3> QED  BY <3>2
  <2> HIDE DEF new
  <2>10. StackOK(stack, Next1(pathed).currentIndex) /\ stack # <<>>
    BY <1>1, <2>8, <2>9, UpdateCurrentOK DEF stack
  <2>11. PointOK("Members", Next1(pathed), stack) /\ "Members" \in TagPoints \union ReferencePoints
    BY <2>10 DEF PointOK, TagPoints, ReferencePoints
  <2> QED  BY <1>1, <1>13, <2>7, <2>10, <2>11, InvFacts, GoesOn DEF Continue
<1> QED  BY <1>8, <1>9, <1>10, <1>11, <1>12, <1>13

\* A nested reference becomes the symbol it is in, the outermost one the destination.
LEMMA EndReferenceInv == Inv /\ EndReference => Inv'
<1> SUFFICES ASSUME Inv, EndReference PROVE Inv'
  OBVIOUS
<1>1. pc = "Members" /\ pc \notin Rejected /\ pc \in ReferencePoints
  BY DEF EndReference, Rejected, ReferencePoints
<1>2. current.context \in Nat \X Nat /\ references # <<>> /\ Here \in Nat
  BY <1>1, CurrentFacts, InvFacts
<1>3. \A j \in Nat : Here <= j => StackOK(Enclosing, j)
  BY <1>2, InvFacts, FrontOK DEF Enclosing
<1>4. CASE Fail("MissingReference", current.context)
  BY <1>1, <1>2, <1>4, FailsHere DEF MessageId
<1>5. CASE ContinueWith([tag EXCEPT !.code = <<Parsed>>], reader, <<>>, "AfterDestination")
  <2> DEFINE parts == [tag EXCEPT !.code = <<Parsed>>]
  <2>1. TagOK(parts)
    BY InvFacts DEF TagOK
  <2> HIDE DEF parts
  <2>2. StackOK(<<>>, reader.currentIndex)
    BY FirstOK
  <2>3. /\ PointOK("AfterDestination", reader, <<>>)
        /\ "AfterDestination" \in TagPoints \union ReferencePoints
    BY DEF PointOK, TagPoints, ReferencePoints
  <2>4. ContinueWith(parts, reader, <<>>, "AfterDestination")
    BY <1>5 DEF parts
  <2> QED  BY <1>1, <2>1, <2>2, <2>3, <2>4, InvFacts, GoesOn
<1>6. CASE FailWith(<<Message("ReferenceMissingRightBracket", current.context)>>, Enclosing)
  <2> DEFINE m == Message("ReferenceMissingRightBracket", current.context)
  <2>1. m \in MessageType /\ m.id # "ReferenceSymbolSyntax"
    BY <1>2 DEF Message, MessageType, MessageId
  <2> HIDE DEF m
  <2>2. IsCause(<<m>>)
    <3>1. <<m>> \in Seq(MessageType) /\ Len(<<m>>) = 1 /\ <<m>>[1] = m
      BY <2>1
    <3> QED  BY <2>1, <3>1 DEF IsCause
  <2>3. StackOK(Enclosing, reader.currentIndex)
    BY <1>2, <1>3 DEF Here
  <2>4. FailWith(<<m>>, Enclosing)
    BY <1>6 DEF m
  <2> QED  BY <1>1, <2>2, <2>3, <2>4, Fails
<1>7. CASE /\ Enclosing # <<>> /\ Peek(reader) = "RightSquareBracket"
           /\ Continue(Next1(reader),
                       [Enclosing EXCEPT ![Len(Enclosing)].member.symbol = <<Parsed>>],
                       "AfterMember")
  <2> DEFINE stack == [Enclosing EXCEPT ![Len(Enclosing)].member.symbol = <<Parsed>>]
             r == Next1(reader)
  <2>1. Ready(r) /\ Here < r.currentIndex
    BY <1>7, InvFacts, Next1Ready DEF Here
  <2>2. r.currentIndex \in Nat
    BY <2>1, InvFacts, ReaderFacts DEF Ready
  <2>3. StackOK(stack, r.currentIndex) /\ stack # <<>>
    <3>1. Here <= r.currentIndex /\ StackOK(Enclosing, Here)
      BY <1>2, <1>3, <2>1, <2>2
    <3> HIDE DEF r
    <3> QED  BY <1>2, <1>7, <2>2, <3>1, SetSymbolOK
  <2>4. Continue(r, stack, "AfterMember")
    BY <1>7
  <2> HIDE DEF r, stack
  <2>5. PointOK("AfterMember", r, stack) /\ "AfterMember" \in TagPoints \union ReferencePoints
    BY <2>3 DEF PointOK, TagPoints, ReferencePoints
  <2> QED  BY <1>1, <2>1, <2>3, <2>4, <2>5, InvFacts, GoesOn DEF Continue
<1> QED  BY <1>4, <1>5, <1>6, <1>7 DEF EndReference

-----------------------------------------------------------------------------
\* A member

\* The parse goes on with the current reference replaced.
LEMMA GoesOnWith ==
  ASSUME Inv, pc \in ReferencePoints, pc \notin Rejected,
         NEW r, Ready(r), Here <= r.currentIndex,
         NEW new, ReferenceOK(new), new.context = current.context,
         NEW next \in {"Members", "Member", "AfterMember", "RightParenthesis"},
         next = "RightParenthesis" => new.leftParenthesis # None,
         Continue(r, UpdateCurrent(new), next)
  PROVE  Inv'
<1> DEFINE stack == UpdateCurrent(new)
<1>1. r.currentIndex \in Nat
  BY InvFacts, ReaderFacts DEF Ready
<1>2. StackOK(stack, r.currentIndex) /\ stack # <<>> /\ stack[Len(stack)] = new
  BY <1>1, UpdateCurrentOK
<1> HIDE DEF stack
<1>3. PointOK(next, r, stack) /\ next \in TagPoints \union ReferencePoints
  BY <1>2 DEF PointOK, TagPoints, ReferencePoints
<1>4. ContinueWith(tag, r, stack, next)
  BY DEF Continue, stack
<1> QED  BY <1>2, <1>3, <1>4, InvFacts, GoesOn

\* A member reference begins with its dot, or its parenthesis.
LEMMA StartMemberInv == Inv /\ StartMember => Inv'
<1> SUFFICES ASSUME Inv, StartMember PROVE Inv'
  OBVIOUS
<1> DEFINE first == current.memberReferences = <<>>
           dotted == IF first THEN reader ELSE Next1(reader)
           m == [current.member EXCEPT !.hasDot = ~first]
           begun == [current EXCEPT !.member.hasDot = ~first]
           paren == <<dotted.currentIndex, dotted.currentIndex + 1>>
           opened == [begun EXCEPT !.leftParenthesis = paren]
<1>1. /\ pc = "Members" /\ pc \notin Rejected /\ pc \in ReferencePoints
      /\ Peek(reader) \in MemberStart
  BY DEF StartMember, Rejected, ReferencePoints
<1>2. ReferenceOK(current) /\ MemberOK(current.member) /\ current.context \in Nat \X Nat
  BY <1>1, CurrentFacts
<1>3. Peek(reader) # "EndOfInput"
  BY <1>1 DEF MemberStart
<1>4. Ready(dotted) /\ Here <= dotted.currentIndex
  <2>1. Ready(reader) /\ Here <= reader.currentIndex
    BY InvFacts DEF Here
  <2>2. Ready(Next1(reader)) /\ Here < Next1(reader).currentIndex
    BY <1>3, InvFacts, Next1Ready DEF Here
  <2>3. Next1(reader).currentIndex \in Nat /\ Here \in Nat
    BY <2>2, InvFacts, ReaderFacts DEF Ready
  <2> QED  BY <2>1, <2>2, <2>3
<1>5. dotted.currentIndex \in Nat /\ GoodReader(dotted) /\ Begin(dotted) = 0
  <2> HIDE DEF dotted
  <2> QED  BY <1>4, InvFacts, ReaderFacts DEF Ready
<1>6. ReferenceOK(begun) /\ begun.context = current.context
  <2>1. MemberOK(m)
    BY <1>2, MemberUpdates
  <2>2. begun = [current EXCEPT !.member = m]
    OBVIOUS
  <2> HIDE DEF current, m, begun
  <2> QED  BY <1>2, <2>1, <2>2, ReferenceUpdates
<1>7. IF ~first /\ Peek(reader) # "Period" THEN Fail("ReferenceMissingDot", current.context)
      ELSE IF Peek(dotted) = "LeftParenthesis"
        THEN Continue(Next1(dotted), UpdateCurrent(opened), "Member")
      ELSE Continue(dotted, UpdateCurrent(begun), "Member")
  BY DEF StartMember
<1> HIDE DEF first, dotted, begun
<1>8. CASE Fail("ReferenceMissingDot", current.context)
  BY <1>1, <1>2, <1>8, FailsHere DEF MessageId
<1>9. CASE Continue(dotted, UpdateCurrent(begun), "Member")
  BY <1>1, <1>4, <1>6, <1>9, GoesOnWith
<1>10. CASE /\ Peek(dotted) = "LeftParenthesis"
            /\ Continue(Next1(dotted), UpdateCurrent(opened), "Member")
  <2>1. paren \in Nat \X Nat
    BY <1>5
  <2> HIDE DEF paren
  <2>2. ReferenceOK(opened) /\ opened.context = current.context
    BY <1>6, <2>1, ReferenceUpdates
  <2> HIDE DEF opened
  <2>3. Ready(Next1(dotted)) /\ dotted.currentIndex < Next1(dotted).currentIndex
    BY <1>5, <1>10, InvFacts, Next1Ready
  <2>4. Next1(dotted).currentIndex \in Nat /\ Here \in Nat
    BY <2>3, InvFacts, ReaderFacts DEF Ready
  <2>5. Here <= Next1(dotted).currentIndex
    BY <1>4, <1>5, <2>3, <2>4
  <2> QED  BY <1>1, <1>10, <2>2, <2>3, <2>5, GoesOnWith
<1> QED  BY <1>7, <1>8, <1>9, <1>10

\* A bracket pushes a reference.
LEMMA OpenSymbolInv == Inv /\ OpenSymbol => Inv'
<1> SUFFICES ASSUME Inv, OpenSymbol PROVE Inv'
  OBVIOUS
<1> DEFINE r == Next1(reader)
           stack == Append(references, NewReference(<<Here, Here + 1>>))
<1>1. /\ pc = "Member" /\ pc \notin Rejected /\ Peek(reader) = "LeftSquareBracket"
      /\ Continue(r, stack, "DeclarationReference")
  BY DEF OpenSymbol, Rejected
<1>2. Ready(r) /\ Here < r.currentIndex
  BY <1>1, InvFacts, Next1Ready DEF Here
<1> HIDE DEF r
<1>3. r.currentIndex \in Nat /\ Here \in Nat /\ KindAt(Here) = "LeftSquareBracket"
  BY <1>1, <1>2, InvFacts, ReaderFacts DEF Ready, Peek, Here
<1>4. StackOK(stack, r.currentIndex) /\ stack # <<>>
  <2>1. StackOK(references, Here)
    BY InvFacts
  <2> HIDE DEF Here
  <2> QED  BY <1>2, <1>3, <2>1, PushOK
<1> HIDE DEF stack
<1>5. /\ PointOK("DeclarationReference", r, stack)
      /\ "DeclarationReference" \in TagPoints \union ReferencePoints
  BY <1>4 DEF PointOK, TagPoints, ReferencePoints
<1> QED  BY <1>1, <1>2, <1>4, <1>5, InvFacts, GoesOn DEF Continue

\* The member that is read is updated.
LEMMA GoesOnWithMember ==
  ASSUME Inv, pc \in ReferencePoints, pc \notin Rejected,
         NEW r, Ready(r), Here <= r.currentIndex,
         NEW m, MemberOK(m), NEW next \in {"AfterMember", "RightParenthesis"},
         next = "RightParenthesis" => current.leftParenthesis # None,
         Continue(r, UpdateMember(m), next)
  PROVE  Inv'
<1> DEFINE new == [current EXCEPT !.member = m]
<1>1. ReferenceOK(current) /\ Continue(r, UpdateCurrent(new), next)
  BY CurrentFacts DEF UpdateMember
<1>2. /\ ReferenceOK(new) /\ new.context = current.context
      /\ new.leftParenthesis = current.leftParenthesis
  <2> HIDE DEF current
  <2> QED  BY <1>1, ReferenceUpdates
<1> HIDE DEF new
<1> QED  BY <1>1, <1>2, GoesOnWith

\* The quotes of an identifier belong to it.
LEMMA QuotedIdentifierInv == Inv /\ QuotedIdentifier => Inv'
<1> SUFFICES ASSUME Inv, QuotedIdentifier PROVE Inv'
  OBVIOUS
<1> DEFINE open == Extract(ReadTokens(reader, 1))
           close == SkipTo(open.currentIndex, {"DoubleQuote"})
           a == Extract(ReadTo(open, close))
           r == Next1(a)
           m == [current.member EXCEPT !.identifier = Text(Here + 1, close), !.hasQuotes = TRUE]
<1>1. /\ pc = "Member" /\ pc \notin Rejected /\ pc \in ReferencePoints
      /\ Peek(reader) = "DoubleQuote"
      /\ IF KindAt(close) = "EndOfInput" THEN Fail("ReferenceMissingQuote", <<Here, Here + 1>>)
         ELSE IF close = Here + 1 THEN Fail("ReferenceEmptyIdentifier", <<Here, Here + 1>>)
         ELSE Continue(r, UpdateMember(m), "AfterMember")
  BY DEF QuotedIdentifier, Rejected, ReferencePoints
<1>2. Here < Len(tokens) /\ Here \in Nat /\ Len(tokens) \in Nat /\ Here + 1 \in Nat
      /\ <<Here, Here + 1>> \in Nat \X Nat
  BY <1>1, InvFacts
<1>3. /\ GoodReader(open) /\ Begin(open) = 0 /\ open.currentIndex = Here + 1
      /\ open.accumulatedStartIndex = Here + 1
  <2>1. Here + 1 \in reader.currentIndex .. Len(tokens)
        /\ reader.accumulatedStartIndex < Here + 1
    BY <1>2, InvFacts DEF Here
  <2>2. open = Extract(ReadTo(reader, Here + 1))
    BY DEF ReadTokens, Here
  <2> QED  BY <2>1, <2>2, InvFacts, ReadAndExtract DEF Advances
<1> HIDE DEF open
<1>4. close \in Here + 1 .. Len(tokens)
  <2>1. Here + 1 \in 0 .. Len(tokens)
    BY <1>2
  <2> QED  BY <1>3, <2>1, InvFacts, SkipToStops
<1> HIDE DEF close
<1>5. CASE Fail("ReferenceMissingQuote", <<Here, Here + 1>>)
  BY <1>1, <1>2, <1>5, FailsHere DEF MessageId
<1>6. CASE Fail("ReferenceEmptyIdentifier", <<Here, Here + 1>>)
  BY <1>1, <1>2, <1>6, FailsHere DEF MessageId
<1>7. CASE /\ KindAt(close) # "EndOfInput" /\ close # Here + 1
           /\ Continue(r, UpdateMember(m), "AfterMember")
  <2>1. close \in open.currentIndex .. Len(tokens) /\ open.accumulatedStartIndex < close
    BY <1>2, <1>3, <1>4, <1>7
  <2>2. GoodReader(a) /\ Begin(a) = 0 /\ a.currentIndex = close
    BY <1>3, <2>1, InvFacts, ReadAndExtract DEF Advances
  <2> HIDE DEF a
  <2>3. Ready(r) /\ close < r.currentIndex
    BY <1>7, <2>2, InvFacts, Next1Ready DEF Peek
  <2> HIDE DEF r
  <2>4. r.currentIndex \in Nat
    BY <2>3, InvFacts, ReaderFacts DEF Ready
  <2>5. Here <= r.currentIndex
    BY <1>2, <1>4, <2>3, <2>4
  <2>6. MemberOK(m)
    <3>1. Text(Here + 1, close) \in Seq(Token) /\ MemberOK(current.member)
      BY <1>1, <1>2, <1>4, InvFacts, TextIsTokens, CurrentFacts
    <3> QED  BY <3>1, MemberUpdates
  <2> HIDE DEF m
  <2> QED  BY <1>1, <1>7, <2>3, <2>5, <2>6, GoesOnWithMember
<1> QED  BY <1>1, <1>5, <1>6, <1>7

\* An identifier is a run of words and dollar signs.
LEMMA IdentifierInv == Inv /\ Identifier => Inv'
<1> SUFFICES ASSUME Inv, Identifier PROVE Inv'
  OBVIOUS
<1> DEFINE end == Skip(Here, {"AsciiWord", "DollarSign"})
           r == TryReadSpacingAndNewlines(Extract(ReadTo(reader, end)))
           m == [current.member EXCEPT !.identifier = Text(Here, end)]
<1>1. /\ pc = "Member" /\ pc \notin Rejected /\ pc \in ReferencePoints
      /\ IF end = Here THEN Fail("ReferenceMissingIdentifier", current.context)
         ELSE IF ~IsIdentifier(Text(Here, end))
           THEN Fail("ReferenceUnquotedIdentifier", <<Here, end>>)
         ELSE Continue(r, UpdateMember(m), "AfterMember")
  BY DEF Identifier, Rejected, ReferencePoints
<1>2. /\ Here \in Nat /\ Len(tokens) \in Nat /\ current.context \in Nat \X Nat
      /\ MemberOK(current.member)
  BY <1>1, InvFacts, CurrentFacts
<1>3. end \in Here .. Len(tokens)
  BY InvFacts, SkipStops
<1> HIDE DEF end
<1>4. CASE Fail("ReferenceMissingIdentifier", current.context)
  BY <1>1, <1>2, <1>4, FailsHere DEF MessageId
<1>5. CASE Fail("ReferenceUnquotedIdentifier", <<Here, end>>)
  <2>1. <<Here, end>> \in Nat \X Nat
    BY <1>2, <1>3
  <2> QED  BY <1>1, <1>5, <2>1, FailsHere DEF MessageId
<1>6. CASE end # Here /\ Continue(r, UpdateMember(m), "AfterMember")
  <2>1. end \in reader.currentIndex + 1 .. Len(tokens)
    <3>1. end \in Here + 1 .. Len(tokens)
      BY <1>2, <1>3, <1>6
    <3> QED  BY <3>1 DEF Here
  <2>2. Ready(r) /\ Here <= r.currentIndex
    BY <2>1, InvFacts, ReadReady DEF Here
  <2> HIDE DEF r
  <2>3. MemberOK(m)
    <3>1. Text(Here, end) \in Seq(Token)
      BY <1>2, <1>3, InvFacts, TextIsTokens
    <3> QED  BY <1>2, <3>1, MemberUpdates
  <2> HIDE DEF m
  <2> QED  BY <1>1, <1>6, <2>2, <2>3, GoesOnWithMember
<1> QED  BY <1>1, <1>4, <1>5, <1>6

\* A member that has been read joins the reference.
LEMMA MemberReadOK ==
  ASSUME Inv, pc \in ReferencePoints
  PROVE  ReferenceOK(MemberRead) /\ MemberRead.context = current.context
<1>1. ReferenceOK(current)
  BY CurrentFacts
<1> HIDE DEF current
<1> QED  BY <1>1, ReferenceUpdates DEF MemberRead

\* A member reference is complete, or has a selector.
LEMMA AfterMemberInv == Inv /\ AfterMember => Inv'
<1> SUFFICES ASSUME Inv, AfterMember PROVE Inv'
  OBVIOUS
<1> DEFINE r == Next1(reader)
<1>1. /\ pc = "AfterMember" /\ pc \notin Rejected /\ pc \in ReferencePoints
      /\ IF Peek(reader) = "Colon"
           THEN IF current.leftParenthesis = None
                  THEN Fail("ReferenceSelectorMissingParens", <<Here, Here + 1>>)
                  ELSE Continue(r, references, "Selector")
           ELSE IF current.leftParenthesis # None
                  THEN Fail("ReferenceMissingColon", current.leftParenthesis)
                  ELSE Continue(reader, UpdateCurrent(MemberRead), "Members")
  BY DEF AfterMember, Rejected, ReferencePoints
<1>2. Here \in Nat /\ <<Here, Here + 1>> \in Nat \X Nat
      /\ (current.leftParenthesis # None => current.leftParenthesis \in Nat \X Nat)
  BY <1>1, InvFacts, CurrentFacts DEF Span
<1> HIDE DEF r
<1>3. CASE Fail("ReferenceSelectorMissingParens", <<Here, Here + 1>>)
  BY <1>1, <1>2, <1>3, FailsHere DEF MessageId
<1>4. CASE current.leftParenthesis # None /\ Fail("ReferenceMissingColon", current.leftParenthesis)
  BY <1>1, <1>2, <1>4, FailsHere DEF MessageId
<1>5. CASE Continue(reader, UpdateCurrent(MemberRead), "Members")
  <2>1. Ready(reader) /\ Here <= reader.currentIndex
    BY InvFacts DEF Here
  <2> QED  BY <1>1, <1>5, <2>1, MemberReadOK, GoesOnWith
<1>6. CASE /\ Peek(reader) = "Colon" /\ current.leftParenthesis # None
           /\ Continue(r, references, "Selector")
  <2>1. /\ Ready(r) /\ Here < r.currentIndex
        /\ r.currentIndex = Skip(Here + 1, {"Spacing", "Newline"})
    BY <1>6, InvFacts, Next1Ready DEF Here, r
  <2>2. r.currentIndex \in Nat
    BY <2>1, InvFacts, ReaderFacts DEF Ready
  <2>3. StackOK(references, r.currentIndex)
    <3>1. StackOK(references, Here) /\ references # <<>> /\ Here <= r.currentIndex
      BY <1>1, <1>2, <2>1, <2>2, InvFacts, CurrentFacts
    <3> QED  BY <1>2, <2>2, <3>1, FrontOK
  <2>4. KindAt(Here) = "Colon" /\ Here \in 0 .. r.currentIndex - 1
    BY <1>2, <1>6, <2>1, <2>2 DEF Peek, Here
  <2>5. PointOK("Selector", r, references) /\ "Selector" \in TagPoints \union ReferencePoints
    BY <1>1, <1>6, <2>1, <2>4, CurrentFacts DEF PointOK, TagPoints, ReferencePoints, current
  <2> QED  BY <1>1, <1>6, <2>1, <2>3, <2>5, InvFacts, GoesOn DEF Continue
<1> QED  BY <1>1, <1>3, <1>4, <1>5, <1>6

\* A selector is one token after the colon.
LEMMA SelectorInv == Inv /\ Selector => Inv'
<1> SUFFICES ASSUME Inv, Selector PROVE Inv'
  OBVIOUS
<1> DEFINE IsColon(i) == KindAt(i) = "Colon" /\ Skip(i + 1, {"Spacing", "Newline"}) = Here
           colon == CHOOSE i \in 0 .. Here - 1 : IsColon(i)
           label == Message("ReferenceMissingLabel", <<colon, colon + 1>>)
           error == Message("ReferenceSelectorSyntax", <<Here, Here + 1>>)
           missing == IF Peek(reader) = "AsciiWord" THEN <<>> ELSE <<label>>
           bad == <<error>>
           m == [current.member EXCEPT !.selector = Text(Here, Here + 1)]
<1>1. /\ pc = "Selector" /\ pc \notin Rejected /\ pc \in ReferencePoints
      /\ IF Peek(reader) = "EndOfInput" THEN Throw(missing)
         ELSE IF TextAt(Here) \notin Selectors THEN FailWith(missing \o bad, references)
         ELSE Continue(Next1(reader), UpdateMember(m), "RightParenthesis")
  BY DEF Selector, Rejected, ReferencePoints
<1>2. Here \in Nat /\ StackOK(references, reader.currentIndex)
      /\ current.leftParenthesis # None /\ MemberOK(current.member)
  BY <1>1, InvFacts, CurrentFacts DEF PointOK, current, Here
<1>3. colon \in 0 .. Here - 1
  <2>1. \E i \in 0 .. Here - 1 : IsColon(i)
    BY <1>1, InvFacts DEF PointOK, Here
  <2> HIDE DEF IsColon
  <2> QED  BY <2>1
<1> HIDE DEF colon
<1>4. /\ label \in MessageType /\ label.id = "ReferenceMissingLabel"
      /\ error \in MessageType /\ error.id = "ReferenceSelectorSyntax"
  BY <1>2, <1>3 DEF Message, MessageType, MessageId
<1> HIDE DEF label, error
<1>5. CASE Peek(reader) = "EndOfInput" /\ Throw(missing)
  BY <1>1, <1>4, <1>5, Throws
<1>6. CASE FailWith(missing \o bad, references)
  <2>1. bad \in Seq(MessageType) /\ Len(bad) = 1 /\ bad[1] = error
    BY <1>4
  <2>2. CASE missing = <<>>
    <3>1. missing \o bad = bad
      BY <2>1, <2>2, ConcatEmptySeq
    <3>2. IsCause(bad)
      BY <1>4, <2>1 DEF IsCause
    <3> QED  BY <1>1, <1>2, <1>6, <3>1, <3>2, Fails
  <2>3. CASE missing = <<label>>
    <3> DEFINE one == <<label>>
               both == one \o bad
    <3>1. one \in Seq(MessageType) /\ Len(one) = 1 /\ one[1] = label
      BY <1>4
    <3> HIDE DEF one, bad
    <3>2. both \in Seq(MessageType) /\ Len(both) = 2 /\ both[1] = label /\ both[2] = error
      BY <2>1, <3>1, ConcatProperties
    <3>3. missing \o bad = both
      BY <2>3 DEF one
    <3> HIDE DEF both
    <3>4. IsCause(both)
      BY <1>4, <3>2 DEF IsCause
    <3> QED  BY <1>1, <1>2, <1>6, <3>3, <3>4, Fails
  <2> QED  BY <2>2, <2>3
<1>7. CASE /\ Peek(reader) # "EndOfInput"
           /\ Continue(Next1(reader), UpdateMember(m), "RightParenthesis")
  <2>1. Ready(Next1(reader)) /\ Here < Next1(reader).currentIndex
    BY <1>7, InvFacts, Next1Ready DEF Here
  <2>2. Next1(reader).currentIndex \in Nat
    BY <2>1, InvFacts, ReaderFacts DEF Ready
  <2>3. Here <= Next1(reader).currentIndex
    BY <1>2, <2>1, <2>2
  <2>4. MemberOK(m)
    BY <1>2, MemberUpdates
  <2> HIDE DEF m
  <2> QED  BY <1>1, <1>2, <1>7, <2>1, <2>3, <2>4, GoesOnWithMember
<1> QED  BY <1>1, <1>5, <1>6, <1>7

\* A member reference in parentheses ends with the closing one.
LEMMA RightParenthesisInv == Inv /\ RightParenthesis => Inv'
<1> SUFFICES ASSUME Inv, RightParenthesis PROVE Inv'
  OBVIOUS
<1>1. /\ pc = "RightParenthesis" /\ pc \notin Rejected /\ pc \in ReferencePoints
      /\ IF Peek(reader) # "RightParenthesis"
           THEN Fail("ReferenceMissingRightParen", current.leftParenthesis)
           ELSE Continue(Next1(reader), UpdateCurrent(MemberRead), "Members")
  BY DEF RightParenthesis, Rejected, ReferencePoints
<1>2. current.leftParenthesis \in Nat \X Nat /\ Here \in Nat
  BY <1>1, InvFacts, CurrentFacts DEF PointOK, current, Span
<1>3. CASE Fail("ReferenceMissingRightParen", current.leftParenthesis)
  BY <1>1, <1>2, <1>3, FailsHere DEF MessageId
<1>4. CASE /\ Peek(reader) = "RightParenthesis"
           /\ Continue(Next1(reader), UpdateCurrent(MemberRead), "Members")
  <2>1. Ready(Next1(reader)) /\ Here < Next1(reader).currentIndex
    BY <1>4, InvFacts, Next1Ready DEF Here
  <2>2. Next1(reader).currentIndex \in Nat
    BY <2>1, InvFacts, ReaderFacts DEF Ready
  <2>3. Here <= Next1(reader).currentIndex
    BY <1>2, <2>1, <2>2
  <2> QED  BY <1>1, <1>4, <2>1, <2>3, MemberReadOK, GoesOnWith
<1> QED  BY <1>1, <1>3, <1>4

-----------------------------------------------------------------------------
\* Every step of the parse keeps the invariant.
LEMMA StepInv == Inv /\ [Next]_vars => Inv'
<1> SUFFICES ASSUME Inv, [Next]_vars PROVE Inv'
  OBVIOUS
<1>1. CASE ParseTag
  BY <1>1, EmptyContentInv, StartReferenceInv, UrlDestinationInv, AfterDestinationInv, LinkTextInv
     DEF ParseTag
<1>2. CASE ParseReference
  BY <1>2, ScanForHashInv, ImportInv, EndReferenceInv DEF ParseReference
<1>3. CASE ParseMember
  BY <1>3, StartMemberInv, OpenSymbolInv, QuotedIdentifierInv, IdentifierInv, AfterMemberInv,
     SelectorInv, RightParenthesisInv DEF ParseMember
<1>4. CASE UNCHANGED vars
  <2>1. /\ tokens' = tokens /\ reader' = reader /\ references' = references
        /\ tag' = tag /\ log' = log /\ pc' = pc
    BY <1>4 DEF vars
  <2>2. StreamOK' /\ (Ready(reader))' /\ (TagOK(tag))' /\ (Peek(reader))' = Peek(reader)
    BY <2>1 DEF Inv, StreamOK, Ready, GoodReader, ExcerptOK, Begin, IsEmpty, Peek, KindAt, TagOK
  <2>3. (StackOK(references, reader.currentIndex))'
    BY <2>1 DEF Inv, StackOK, KindAt
  <2>4. (PointOK(pc, reader, references))'
    BY <2>1 DEF Inv, PointOK, KindAt, Skip
  <2>5. (Explained(log))'
    BY <2>1 DEF Inv, Explained, KindAt
  <2> QED  BY <2>1, <2>2, <2>3, <2>4, <2>5 DEF Inv
<1> QED  BY <1>1, <1>2, <1>3, <1>4 DEF Next

(***************************************************************************)
(* Between any two steps the reader is at the beginning of a part, the     *)
(* brackets that are open lie before it, and the log explains itself.      *)
(***************************************************************************)
THEOREM InvHolds == Spec => []Inv
<1> QED  BY InitInv, StepInv, PTL DEF Spec

\* The invariant says of each rejected state how it was reached.
LEMMA InvImpliesErrors == Inv => ErrorsAreExplained
<1> SUFFICES ASSUME Inv PROVE ErrorsAreExplained
  OBVIOUS
<1> QED  BY DEF Inv, Explained, ErrorsAreExplained, Rejected

\* The excerpts of an accepted tag begin with the first token and end with the last.
LEMMA InvImpliesCoverage == Inv => ExcerptsCoverTheContent
<1> SUFFICES ASSUME Inv PROVE ExcerptsCoverTheContent
  OBVIOUS
<1>1. TypeOK
  <2>1. reader \in Reader
    BY InvFacts, ReaderFacts
  <2>2. ASSUME NEW k \in DOMAIN references
        PROVE  /\ references[k].context \in Nat \X Nat /\ references[k].leftParenthesis \in Span
               /\ \A m \in DOMAIN references[k].memberReferences :
                    references[k].memberReferences[m].identifier \in Seq(Token)
    <3>1. ReferenceOK(references[k])
      BY InvFacts, IsSeqFacts DEF StackOK
    <3> QED  BY <3>1 DEF ReferenceOK
  <2>3. tag.url \in Seq(Token) /\ tag.text \in Seq(Token) /\ Len(tag.code) <= 1
    BY DEF Inv, TagOK
  <2>4. log \in Seq([id : MessageId, span : Nat \X Nat])
    BY DEF Inv, Explained, MessageType
  <2> QED  BY <2>1, <2>2, <2>3, <2>4
           DEF Inv, TypeOK, Rejected, TagPoints, ReferencePoints, Outcomes
<1>2. ASSUME pc \in {"LinkTag", "InheritDocTag"}
      PROVE  LET e == reader.excerpts IN
             /\ \A k \in 1 .. Len(e) :
                  e[k][1] < e[k][2] /\ e[k][1] = IF k = 1 THEN 0 ELSE e[k - 1][2]
             /\ Len(tokens) = IF e = <<>> THEN 0 ELSE e[Len(e)][2]
  <2> DEFINE e == reader.excerpts
  <2>1. Here = Len(tokens) /\ reader.accumulatedStartIndex = Len(tokens)
    BY <1>2, InvFacts DEF PointOK, Here
  <2>2. Len(e) \in Nat /\ (e = <<>> <=> Len(e) = 0)
    BY InvFacts, ReaderFacts
  <2>3. ASSUME NEW k \in 1 .. Len(e)
        PROVE  e[k][1] < e[k][2] /\ e[k][1] = IF k = 1 THEN 0 ELSE e[k - 1][2]
    <3>1. e[k][1] < e[k][2] /\ (k > 1 => e[k][1] = e[k - 1][2])
      BY InvFacts DEF GoodReader, ExcerptOK
    <3>2. e # <<>> => e[1][1] = 0
      BY InvFacts DEF Begin
    <3> QED  BY <2>2, <3>1, <3>2
  <2>4. Len(tokens) = IF e = <<>> THEN 0 ELSE e[Len(e)][2]
    <3>1. e = <<>> => Len(tokens) = 0
      BY <2>1, InvFacts DEF Begin
    <3>2. e # <<>> => e[Len(e)][2] = Len(tokens)
      BY <2>1, InvFacts DEF GoodReader
    <3> QED  BY <3>1, <3>2
  <2> QED  BY <2>3, <2>4
<1> QED  BY <1>1, <1>2 DEF ExcerptsCoverTheContent

(***************************************************************************)
(* Whatever is in its braces, a link or inheritDoc tag that the parser     *)
(* accepts owns all of it, each token once and in order.                   *)
(***************************************************************************)
THEOREM ExcerptsCoverTheContentHolds == Spec => []ExcerptsCoverTheContent
<1> QED  BY InvHolds, InvImpliesCoverage, PTL

(***************************************************************************)
(* Whatever is in its braces, a tag that is rejected says why, brackets    *)
(* from the inside out, and nothing but a missing label at the very end    *)
(* trips an assertion of the parser.                                       *)
(***************************************************************************)
THEOREM ErrorsAreExplainedHolds == Spec => []ErrorsAreExplained
<1> QED  BY InvHolds, InvImpliesErrors, PTL
=============================================================================
