---------------------------- MODULE TokenReader ----------------------------
(***************************************************************************)
(* TokenReader.ts: a cursor over the token stream that accumulates what is *)
(* read until it is extracted as an excerpt.  A reader is a record, and    *)
(* each method that changes it is an operator from reader to reader.       *)
(*                                                                         *)
(* The final EndOfInput token is left implicit: it is what the reader      *)
(* peeks at index Len(tokens).  readToken() throws there, so reading past  *)
(* the end shows as a currentIndex beyond Len(tokens); extracting an empty *)
(* accumulated sequence, which also throws, shows as an empty excerpt.     *)
(***************************************************************************)
EXTENDS TokenKinds

VARIABLE tokens

\* A reader, with the excerpts extracted since the construct it is parsing began
Reader == [currentIndex : Nat, accumulatedStartIndex : Nat, excerpts : Seq(Nat \X Nat)]

NewReader == [currentIndex |-> 0, accumulatedStartIndex |-> 0, excerpts |-> <<>>]

\* peekTokenKind(), and the same some tokens ahead
KindAt(i) == IF i < Len(tokens) THEN KindOf(tokens[i + 1]) ELSE "EndOfInput"
TextAt(i) == tokens[i + 1]                  \* the spelling, of a word
Peek(r) == KindAt(r.currentIndex)
PeekAfter(r) == KindAt(r.currentIndex + 1)
PeekAfterAfter(r) == KindAt(r.currentIndex + 2)
PeekPrevious(r) == IF r.currentIndex = 0 THEN "EndOfInput" ELSE KindAt(r.currentIndex - 1)

\* Where a loop that reads while the next kind is in S stops, starting from i
Skip(i, S) ==
  CHOOSE j \in i .. Len(tokens) :
    KindAt(j) \notin S /\ \A k \in i .. j - 1 : KindAt(k) \in S

\* Where a loop that reads up to a kind in S, or the end, stops
SkipTo(i, S) == Skip(i, TokenKind \ (S \union {"EndOfInput"}))

-----------------------------------------------------------------------------
\* readToken(), repeated until the index is j
ReadTo(r, j) == [r EXCEPT !.currentIndex = j]
ReadTokens(r, n) == ReadTo(r, r.currentIndex + n)
ReadWhile(r, S) == ReadTo(r, Skip(r.currentIndex, S))

IsEmpty(r) == r.accumulatedStartIndex = r.currentIndex     \* isAccumulatedSequenceEmpty

Extract(r) ==
  [r EXCEPT !.accumulatedStartIndex = r.currentIndex,
            !.excerpts = Append(@, <<r.accumulatedStartIndex, r.currentIndex>>)]

\* mutant: an empty sequence is extracted too
TryExtractAlways(r) == Extract(r)
TryExtract(r) == IF IsEmpty(r) THEN r ELSE Extract(r)

\* The caller drops the excerpts of what it parsed after the marker, all but n
Backtrack(r, marker, n) ==
  [currentIndex |-> marker,
   accumulatedStartIndex |-> IF marker < r.accumulatedStartIndex
                               THEN marker ELSE r.accumulatedStartIndex,
   excerpts |-> SubSeq(r.excerpts, 1, n)]

\* mutant: the spacing is read and left accumulated
ReadSpacingWithoutExtract(r) == ReadWhile(r, {"Spacing", "Newline"})
\* NodeParser._tryReadSpacingAndNewlines
TryReadSpacingAndNewlines(r) == TryExtract(ReadWhile(r, {"Spacing", "Newline"}))

\* The tokens [from, to) end with "( ... :", where NodeParser._parseMemberSelector() logs
\* that the label is missing and reads it all the same
LacksALabel(from, to) ==
  \E i \in from .. to - 1 :
    /\ KindAt(i) = "Colon" /\ \A j \in i + 1 .. to - 1 : KindAt(j) \in {"Spacing", "Newline"}
    /\ \E k \in from .. i - 1 : KindAt(k) = "LeftParenthesis"
=============================================================================
