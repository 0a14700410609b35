------------------------ MODULE CommentScannerProofs ------------------------
(***************************************************************************)
(* Proofs about the two stages of the scanner, for comments of any length. *)
(*                                                                         *)
(* First about LineExtractor, for every set of source ranges: types and    *)
(* bounds, the order of the lines, the first closer, and that the lines    *)
(* hold all of the content (ContentInv).  Then about CommentScanner: that  *)
(* the stages agree, and that no visible character is lost between the     *)
(* comment and its tokens.  What the tokens say of the lines is proved in  *)
(* TokenizerProofs, which this module instantiates with the lines that     *)
(* were found.                                                             *)
(***************************************************************************)
EXTENDS CommentScanner, FiniteSetTheorems, SequenceTheorems, TLAPS

Message == [id : MessageId, pos : Nat, end : Nat]

(***************************************************************************)
(* The indexes stay inside the source range and every variable keeps its   *)
(* type, whatever the buffer holds: no branch of extract() skips a         *)
(* character that is beyond range.end.                                     *)
(***************************************************************************)
LEMMA InitType == Init => TypeOK
  BY SourceRangesAssumption DEF Init, TypeOK, TextRange, Running, LineRange

\* What the types say about the range and the index in it
LEMMA RangeBounds == TypeOK => /\ range.pos \in Nat /\ range.end \in Nat
                             /\ nextIndex \in Nat
                             /\ range.pos <= nextIndex /\ nextIndex <= range.end
  BY DEF TypeOK, TextRange

\* A star-slash is two characters, and the second is looked for before range.end only.
LEMMA StepType == TypeOK /\ [Next]_vars => TypeOK'
<1> SUFFICES ASSUME TypeOK, [Next]_vars PROVE TypeOK'
  OBVIOUS
<1> USE RangeBounds DEF TypeOK, Running, Collecting, collecting
<1>a. ASSUME NEW id \in MessageId, NEW from \in Nat, NEW to \in Nat, Fail(id, from, to)
      PROVE  TypeOK'
  <2>1. [id |-> id, pos |-> from, end |-> to] \in Message
    BY DEF Message
  <2>2. log' \in Seq(Message)
    BY <1>a, <2>1 DEF Fail
  <2> QED  BY <1>a, <2>2 DEF Fail, Message
<1>b. ASSUME NEW i \in Nat, NEW j \in Nat
      PROVE  <<i, j>> \in LineRange /\ Append(lines, <<i, j>>) \in Seq(LineRange)
  BY DEF LineRange
<1>c. commentRange[1] \in Nat
  BY DEF LineRange
<1>1. CASE ReachEndOfInput
  <2> DEFINE id == IF state \in {"BeginComment1", "BeginComment2"}
                     THEN "CommentNotFound" ELSE "CommentMissingClosingDelimiter"
  <2>1. id \in MessageId
    BY DEF MessageId
  <2>2. Fail(id, range.pos, range.end)
    BY <1>1 DEF ReachEndOfInput
  <2> HIDE DEF id
  <2> QED  BY <1>a, <2>1, <2>2
<1>2. CASE SkipLeadingSpace
  BY <1>2 DEF SkipLeadingSpace, HasInput
<1>3. CASE OpenComment
  BY <1>3 DEF OpenComment, HasInput, NextIs, LineRange
<1>4. CASE StartFirstLine
  BY <1>4 DEF StartFirstLine, HasInput, AfterStar, NextIs
<1>5. CASE RejectOpening
  <2>1. nextIndex \in Nat /\ nextIndex + 1 \in Nat /\ "CommentOpeningDelimiterSyntax" \in MessageId
    BY DEF MessageId
  <2>2. Fail("CommentOpeningDelimiterSyntax", nextIndex, nextIndex + 1)
    BY <1>5 DEF RejectOpening
  <2> QED  BY <1>a, <2>1, <2>2
<1>6. CASE EndLine
  <2>1. lines' \in Seq(LineRange)
    BY <1>6, <1>b DEF EndLine, Record
  <2> QED  BY <1>6, <2>1 DEF EndLine, HasInput
<1>7. CASE CloseInLine
  <2>1. lines' \in Seq(LineRange)
    BY <1>7, <1>b DEF CloseInLine, Record
  <2>2. nextIndex + 2 \in range.pos .. range.end
    BY <1>7 DEF CloseInLine, Closing, NextIs
  <2>3. commentRange' \in LineRange
    BY <1>7, <1>b, <1>c, <2>2 DEF CloseInLine
  <2> QED  BY <1>7, <2>1, <2>2, <2>3 DEF CloseInLine
<1>8. CASE CollectCharacter
  BY <1>8 DEF CollectCharacter, HasInput
<1>9. CASE CloseAfterNewline
  BY <1>9 DEF CloseAfterNewline, HasInput, Closing, NextIs, LineRange
<1>10. CASE DiscardLeadingStar
  BY <1>10 DEF DiscardLeadingStar, HasInput, AfterStar, NextIs
<1>11. CASE BlankLine
  BY <1>11 DEF BlankLine, HasInput, LineRange
<1>12. CASE SkipIndent
  BY <1>12 DEF SkipIndent, HasInput
<1>13. CASE StartUnstarredLine
  BY <1>13 DEF StartUnstarredLine, HasInput
<1>14. CASE UNCHANGED vars
  BY <1>14 DEF vars
<1> QED
  BY <1>1, <1>2, <1>3, <1>4, <1>5, <1>6, <1>7, <1>8, <1>9, <1>10, <1>11, <1>12, <1>13, <1>14
     DEF Next

\* extract() never reads beyond range.end, whatever the buffer holds.
THEOREM TypeCorrect == Spec => []TypeOK
  BY InitType, StepType, PTL DEF Spec

-----------------------------------------------------------------------------
Inv == TypeOK /\ LinesAreOrdered /\ CollectsAfterLines

\* At first there is no line.
LEMMA InitInv == Init => LinesAreOrdered /\ CollectsAfterLines
  BY DEF Init, LinesAreOrdered, CollectsAfterLines, Collecting

\* A line that begins after the recorded ones keeps them in order
LEMMA AppendIsOrdered ==
  ASSUME TypeOK, LinesAreOrdered,
         NEW from \in Nat, NEW to \in Nat, range.pos <= from, from <= to, to <= nextIndex',
         nextIndex' \in Nat, nextIndex <= nextIndex', range' = range,
         \A k \in 1 .. Len(lines) : lines[k][2] <= from,
         lines' = Append(lines, <<from, to>>)
  PROVE  /\ LinesAreOrdered'
         /\ \A k \in 1 .. Len(lines') : lines'[k][2] <= to
<1>1. /\ Len(lines) \in Nat /\ Len(lines') = Len(lines) + 1
      /\ lines'[Len(lines) + 1] = <<from, to>>
      /\ \A k \in 1 .. Len(lines) : lines'[k] = lines[k]
      /\ \A k \in 1 .. Len(lines) : lines[k][1] \in Nat /\ lines[k][2] \in Nat
  BY DEF TypeOK, LineRange
<1>2. /\ nextIndex \in Nat /\ range.pos \in Nat
  BY RangeBounds
<1>3. ASSUME NEW k \in 1 .. Len(lines')
      PROVE  /\ range.pos <= lines'[k][1] /\ lines'[k][1] <= lines'[k][2]
             /\ lines'[k][2] <= nextIndex' /\ lines'[k][2] <= to
  <2>1. CASE k = Len(lines) + 1
    BY <1>1, <1>2, <2>1
  <2>2. CASE k \in 1 .. Len(lines)
    BY <1>1, <1>2, <2>2 DEF LinesAreOrdered
  <2> QED  BY <1>1, <2>1, <2>2
<1>4. ASSUME NEW k \in 1 .. Len(lines') - 1
      PROVE  lines'[k][2] <= lines'[k + 1][1]
  <2>1. CASE k = Len(lines)
    BY <1>1, <2>1
  <2>2. CASE k \in 1 .. Len(lines) - 1
    BY <1>1, <2>2 DEF LinesAreOrdered
  <2> QED  BY <1>1, <2>1, <2>2
<1> QED  BY <1>3, <1>4 DEF LinesAreOrdered

\* ... and so does a step that records nothing
LEMMA SameLinesAreOrdered ==
  ASSUME TypeOK, LinesAreOrdered, lines' = lines, range' = range,
         nextIndex' \in Nat, nextIndex <= nextIndex'
  PROVE  LinesAreOrdered'
<1>1. \A k \in 1 .. Len(lines) : lines[k][1] \in Nat /\ lines[k][2] \in Nat
  BY DEF TypeOK, LineRange
<1>2. ASSUME NEW k \in 1 .. Len(lines) PROVE lines[k][2] <= nextIndex'
  <2>1. lines[k][2] <= nextIndex
    BY DEF LinesAreOrdered
  <2> QED  BY <1>1, <2>1, RangeBounds
<1> QED  BY <1>2 DEF LinesAreOrdered

\* A line is recorded with its end after its start, and the next one begins after both.
LEMMA StepInv == Inv /\ [Next]_vars => LinesAreOrdered' /\ CollectsAfterLines'
<1> SUFFICES ASSUME Inv, [Next]_vars PROVE LinesAreOrdered' /\ CollectsAfterLines'
  OBVIOUS
<1>a. /\ TypeOK /\ LinesAreOrdered /\ CollectsAfterLines
  BY DEF Inv
<1>b. /\ collectingLineStart \in Nat /\ collectingLineEnd \in Nat
      /\ \A k \in 1 .. Len(lines) : lines[k][1] \in Nat /\ lines[k][2] \in Nat
  BY <1>a DEF TypeOK, LineRange
<1>c. \A k \in 1 .. Len(lines') : lines'[k][1] \in Nat /\ lines'[k][2] \in Nat
  <2>1. TypeOK'
    BY <1>a, StepType
  <2> QED  BY <2>1 DEF TypeOK, LineRange
<1> USE <1>a, <1>b, RangeBounds DEF Collecting, collecting
<1>1. CASE ReachEndOfInput
  BY <1>1, SameLinesAreOrdered DEF ReachEndOfInput, Fail, CollectsAfterLines
<1>2. CASE SkipLeadingSpace
  BY <1>2, SameLinesAreOrdered DEF SkipLeadingSpace, CollectsAfterLines
<1>3. CASE OpenComment
  BY <1>3, SameLinesAreOrdered DEF OpenComment, CollectsAfterLines
<1>4. CASE StartFirstLine
  BY <1>4, SameLinesAreOrdered DEF StartFirstLine, AfterStar, CollectsAfterLines
<1>5. CASE RejectOpening
  BY <1>5, SameLinesAreOrdered DEF RejectOpening, Fail, CollectsAfterLines
<1>6. CASE EndLine
  <2>1. CASE lines' = lines
    BY <1>6, <2>1, SameLinesAreOrdered DEF EndLine, CollectsAfterLines
  <2>2. CASE lines' = Record
    <3>1. /\ LinesAreOrdered'
          /\ \A k \in 1 .. Len(lines') : lines'[k][2] <= collectingLineEnd
      BY <1>6, <2>2, AppendIsOrdered DEF EndLine, Record, CollectsAfterLines
    <3> QED  BY <1>6, <1>c, <3>1 DEF EndLine, CollectsAfterLines
  <2> QED  BY <1>6, <2>1, <2>2 DEF EndLine
<1>7. CASE CloseInLine
  <2>1. CASE lines' = lines
    BY <1>7, <2>1, SameLinesAreOrdered DEF CloseInLine, CollectsAfterLines
  <2>2. CASE lines' = Record
    <3>1. LinesAreOrdered'
      BY <1>7, <2>2, AppendIsOrdered DEF CloseInLine, Record, CollectsAfterLines
    <3> QED  BY <1>7, <3>1 DEF CloseInLine, CollectsAfterLines
  <2> QED  BY <1>7, <2>1, <2>2 DEF CloseInLine
<1>8. CASE CollectCharacter
  BY <1>8, SameLinesAreOrdered DEF CollectCharacter, CollectsAfterLines
<1>9. CASE CloseAfterNewline
  BY <1>9, SameLinesAreOrdered DEF CloseAfterNewline, CollectsAfterLines
<1>10. CASE DiscardLeadingStar
  BY <1>10, SameLinesAreOrdered DEF DiscardLeadingStar, AfterStar, CollectsAfterLines
<1>11. CASE BlankLine
  <2>1. \A k \in 1 .. Len(lines) : lines[k][2] <= nextIndex
    BY DEF LinesAreOrdered
  <2>2. /\ nextIndex' = nextIndex + 1 /\ range' = range
        /\ lines' = Append(lines, <<nextIndex, nextIndex>>)
    BY <1>11 DEF BlankLine
  <2>3. /\ LinesAreOrdered'
        /\ \A k \in 1 .. Len(lines') : lines'[k][2] <= nextIndex
    BY <2>1, <2>2, AppendIsOrdered
  <2> QED  BY <1>11, <1>c, <2>3 DEF BlankLine, CollectsAfterLines
<1>12. CASE SkipIndent
  BY <1>12, SameLinesAreOrdered DEF SkipIndent, CollectsAfterLines
<1>13. CASE StartUnstarredLine
  BY <1>13, SameLinesAreOrdered DEF StartUnstarredLine, CollectsAfterLines
<1>14. CASE UNCHANGED vars
  BY <1>14 DEF vars, LinesAreOrdered, CollectsAfterLines
<1> QED
  BY <1>1, <1>2, <1>3, <1>4, <1>5, <1>6, <1>7, <1>8, <1>9, <1>10, <1>11, <1>12, <1>13, <1>14
     DEF Next

(***************************************************************************)
(* The content lines are inside the source range and in order, so that     *)
(* getNewRange() accepts every one of them and no character is in two.     *)
(***************************************************************************)
THEOREM Ordered == Spec => []LinesAreOrdered
<1>1. Init => Inv
  BY InitType, InitInv DEF Inv
<1>2. Inv /\ [Next]_vars => Inv'
  BY StepType, StepInv DEF Inv
<1>3. Inv => LinesAreOrdered
  BY DEF Inv
<1> QED  BY <1>1, <1>2, <1>3, PTL DEF Spec

-----------------------------------------------------------------------------
\* The facts about the characters just read that keep the scan inside the comment
LEMMA InitNoCloser == Init => PassesNoCloser /\ EndsAtFirstCloser
  BY DEF Init, PassesNoCloser, EndsAtFirstCloser, Inside, Collecting

\* A step over a character that does not close the comment
LEMMA Advance ==
  ASSUME TypeOK, PassesNoCloser, state \in Inside, state' \in Inside,
         range' = range, commentRange' = commentRange, ~Closing,
         \/ nextIndex' = nextIndex + 1
         \/ nextIndex' = nextIndex + 2 /\ CharAt(nextIndex + 1) = "space"
  PROVE  PassesNoCloser'
<1> DEFINE c == commentRange[1]
<1>1. c \in Nat /\ nextIndex \in Nat /\ range.end \in Nat
  BY RangeBounds DEF TypeOK, LineRange
<1>2. ASSUME NEW k \in c + 3 .. nextIndex' - 1
      PROVE  ~(CharAt(k) = "star" /\ k + 1 < range.end /\ CharAt(k + 1) = "slash")
  <2>1. CASE k \in c + 3 .. nextIndex - 1
    BY <2>1 DEF PassesNoCloser, NoCloserBefore
  <2>2. CASE k = nextIndex
    BY <2>2 DEF Closing, current, NextIs
  <2>3. CASE k = nextIndex + 1 /\ CharAt(nextIndex + 1) = "space"
    BY <2>3
  <2> QED  BY <1>1, <2>1, <2>2, <2>3
<1>3. NoCloserBefore(nextIndex)'
  BY <1>2 DEF NoCloserBefore, CharAt
<1> QED  BY <1>1, <1>3 DEF PassesNoCloser, Inside, Collecting, CharAt

\* ... and the step that closes it
LEMMA Close ==
  ASSUME TypeOK, PassesNoCloser, state \in Inside, state' = "Done", HasInput, Closing,
         range' = range, commentRange' = <<commentRange[1], nextIndex + 2>>
  PROVE  PassesNoCloser' /\ EndsAtFirstCloser'
<1> DEFINE c == commentRange[1]
<1>1. /\ c \in Nat /\ nextIndex \in Nat /\ range.end \in Nat
      /\ commentRange'[1] = c /\ commentRange'[2] - 2 = nextIndex
  BY RangeBounds DEF TypeOK, LineRange
<1>2. CharAt(c) = "slash" /\ CharAt(c + 1) = "star" /\ CharAt(c + 2) = "star"
  BY DEF PassesNoCloser
<1>3. ASSUME NEW i \in 0 .. 2 PROVE CharAt(c + i) = <<"slash", "star", "star">>[i + 1]
  <2>1. i = 0 \/ i = 1 \/ i = 2
    OBVIOUS
  <2>2. c + 0 = c
    BY <1>1
  <2> QED  BY <1>2, <2>1, <2>2
<1>4. CharAt(nextIndex) = "star" /\ CharAt(nextIndex + 1) = "slash" /\ nextIndex + 1 < range.end
  BY DEF Closing, current, NextIs
<1>5. ASSUME NEW k \in c + 3 .. nextIndex - 1
      PROVE  ~(CharAt(k) = "star" /\ CharAt(k + 1) = "slash")
  BY <1>1, <1>4 DEF PassesNoCloser, NoCloserBefore
<1>6. IsFirstCloser(c + 3, nextIndex)
  BY <1>4, <1>5 DEF IsFirstCloser
<1>7. EndsAtFirstCloser'
  BY <1>1, <1>3, <1>6 DEF EndsAtFirstCloser, IsFirstCloser, CharAt
<1> QED  BY <1>7 DEF PassesNoCloser, Inside, Collecting

CloserInv == TypeOK /\ PassesNoCloser /\ EndsAtFirstCloser

\* Each branch is one of the two, once the comment has been opened.
LEMMA StepNoCloser == CloserInv /\ [Next]_vars => PassesNoCloser' /\ EndsAtFirstCloser'
<1> SUFFICES ASSUME CloserInv, [Next]_vars PROVE PassesNoCloser' /\ EndsAtFirstCloser'
  OBVIOUS
<1>a. TypeOK /\ PassesNoCloser /\ EndsAtFirstCloser
  BY DEF CloserInv
<1>b. nextIndex \in Nat /\ commentRange[1] \in Nat
  BY <1>a, RangeBounds DEF TypeOK, LineRange
<1>c. ASSUME NEW id, NEW from, NEW to, Fail(id, from, to)
      PROVE  PassesNoCloser' /\ EndsAtFirstCloser'
  BY <1>c DEF Fail, PassesNoCloser, EndsAtFirstCloser, Inside, Collecting
<1>d. ASSUME state' \in Inside, PassesNoCloser' PROVE EndsAtFirstCloser'
  BY <1>d DEF EndsAtFirstCloser, Inside, Collecting
<1>1. CASE ReachEndOfInput
  BY <1>1, <1>c DEF ReachEndOfInput
<1>2. CASE SkipLeadingSpace
  BY <1>2 DEF SkipLeadingSpace, PassesNoCloser, EndsAtFirstCloser, Inside, Collecting
<1>3. CASE OpenComment
  BY <1>3, <1>b DEF OpenComment, PassesNoCloser, EndsAtFirstCloser, Inside, Collecting, CharAt,
                    current, NextIs
<1>4. CASE StartFirstLine
  <2>1. /\ nextIndex = commentRange[1] + 2 /\ CharAt(nextIndex) = "star"
        /\ state' \in Inside /\ range' = range /\ commentRange' = commentRange
        /\ CharAt(commentRange[1]) = "slash" /\ CharAt(commentRange[1] + 1) = "star"
        /\ \/ nextIndex' = nextIndex + 1
           \/ nextIndex' = nextIndex + 2 /\ CharAt(nextIndex + 1) = "space"
    BY <1>4, <1>a DEF StartFirstLine, PassesNoCloser, Inside, Collecting, current, AfterStar,
                      NextIs
  <2>2. NoCloserBefore(nextIndex)'
    BY <1>b, <2>1 DEF NoCloserBefore, CharAt
  <2>3. PassesNoCloser'
    BY <1>b, <2>1, <2>2 DEF PassesNoCloser, Inside, Collecting, CharAt
  <2> QED  BY <1>d, <2>1, <2>3
<1>5. CASE RejectOpening
  BY <1>5, <1>c DEF RejectOpening
<1>6. CASE EndLine
  <2>1. /\ state \in Inside /\ state' \in Inside /\ range' = range /\ ~Closing
        /\ commentRange' = commentRange /\ nextIndex' = nextIndex + 1
    BY <1>6 DEF EndLine, Inside, Collecting, Closing
  <2> QED  BY <1>a, <1>d, <2>1, Advance
<1>7. CASE CloseInLine
  BY <1>7, <1>a, Close DEF CloseInLine, Inside
<1>8. CASE CollectCharacter
  <2>1. /\ state \in Inside /\ state' \in Inside /\ range' = range /\ ~Closing
        /\ commentRange' = commentRange /\ nextIndex' = nextIndex + 1
    BY <1>8 DEF CollectCharacter, Inside
  <2> QED  BY <1>a, <1>d, <2>1, Advance
<1>9. CASE CloseAfterNewline
  BY <1>9, <1>a, Close DEF CloseAfterNewline, Inside
<1>10. CASE DiscardLeadingStar
  <2>1. /\ state \in Inside /\ state' \in Inside /\ range' = range /\ ~Closing
        /\ commentRange' = commentRange
        /\ \/ nextIndex' = nextIndex + 1
           \/ nextIndex' = nextIndex + 2 /\ CharAt(nextIndex + 1) = "space"
    BY <1>10 DEF DiscardLeadingStar, Inside, Collecting, AfterStar, NextIs
  <2> QED  BY <1>a, <1>d, <2>1, Advance
<1>11. CASE BlankLine
  <2>1. /\ state \in Inside /\ state' \in Inside /\ range' = range /\ ~Closing
        /\ commentRange' = commentRange /\ nextIndex' = nextIndex + 1
    BY <1>11 DEF BlankLine, Inside, Closing
  <2> QED  BY <1>a, <1>d, <2>1, Advance
<1>12. CASE SkipIndent
  <2>1. /\ state \in Inside /\ state' \in Inside /\ range' = range /\ ~Closing
        /\ commentRange' = commentRange /\ nextIndex' = nextIndex + 1
    BY <1>12 DEF SkipIndent, Inside, Closing, Whitespace
  <2> QED  BY <1>a, <1>d, <2>1, Advance
<1>13. CASE StartUnstarredLine
  <2>1. /\ state \in Inside /\ state' \in Inside /\ range' = range /\ ~Closing
        /\ commentRange' = commentRange /\ nextIndex' = nextIndex + 1
    BY <1>13 DEF StartUnstarredLine, Inside, Collecting, Closing
  <2> QED  BY <1>a, <1>d, <2>1, Advance
<1>14. CASE UNCHANGED vars
  BY <1>14, <1>a DEF vars, PassesNoCloser, EndsAtFirstCloser, NoCloserBefore, IsFirstCloser,
                     CharAt
<1> QED
  BY <1>1, <1>2, <1>3, <1>4, <1>5, <1>6, <1>7, <1>8, <1>9, <1>10, <1>11, <1>12, <1>13, <1>14
     DEF Next

(***************************************************************************)
(* Whatever framing it skips, a scan that succeeds ends at the first       *)
(* star-slash after the opening delimiter, in a buffer of any length.      *)
(***************************************************************************)
THEOREM FirstCloser == Spec => []EndsAtFirstCloser
<1>1. Init => CloserInv
  BY InitType, InitNoCloser DEF CloserInv
<1>2. CloserInv /\ [Next]_vars => CloserInv'
  BY StepType, StepNoCloser DEF CloserInv
<1>3. CloserInv => EndsAtFirstCloser
  BY DEF CloserInv
<1> QED  BY <1>1, <1>2, <1>3, PTL DEF Spec

-----------------------------------------------------------------------------
(***************************************************************************)
(* What the lines say of the characters.  While the scan is inside the     *)
(* comment, the characters read since "first" are in a recorded line, in   *)
(* the line being collected, or are framing.                               *)
(***************************************************************************)
first == commentRange[1] + 3
Space == Whitespace \ {"lf"}

IsSpace(from, to) == \A i \in from .. to - 1 : CharAt(i) \in Space
HasNoNewline(from, to) == \A i \in from .. to - 1 : CharAt(i) # "lf"
HasOneNewline(from, to) ==
  \E n \in from .. to - 1 :
    CharAt(n) = "lf" /\ \A i \in from .. to - 1 : CharAt(i) = "lf" => i = n
IsTrimmed(from, to) ==
  HasNoNewline(from, to) /\ (from < to => CharAt(to - 1) \notin Whitespace)

\* Recorded lines, whatever follows them
LinesAreRight ==
  /\ \A k \in 1 .. Len(lines) : IsTrimmed(lines[k][1], lines[k][2])
  /\ \A k \in 1 .. Len(lines), j \in 1 .. Len(lines) : j < k => lines[j][2] <= lines[k][1]
  /\ \A k \in 1 .. Len(lines) - 1 : HasOneNewline(lines[k][2], lines[k + 1][1])

\* The line being collected, what is read of it and what is before it
CollectingIsRight ==
  /\ state \in Collecting =>
       /\ IsTrimmed(collectingLineStart, collectingLineEnd)
       /\ IsSpace(collectingLineEnd, nextIndex)
  /\ state = "AdvancingLine" =>
       /\ first < collectingLineStart /\ CharAt(collectingLineStart - 1) = "lf"
       /\ IsSpace(collectingLineStart, nextIndex)
  /\ state = "CollectingFirstLine" => lines = <<>> /\ HasNoNewline(first, nextIndex)
  /\ state = "CollectingLine" =>
       \E j \in first .. nextIndex - 1 :
         CharAt(j) \notin Whitespace /\ HasNoNewline(j, nextIndex)
  /\ state \in Inside /\ lines # <<>> =>
       HasOneNewline(lines[Len(lines)][2], collectingLineStart)
  /\ state = "Done" => commentRange[2] = nextIndex

InLine(k, i) == lines[k][1] <= i /\ i < lines[k][2]
Has(i) ==
  \/ \E k \in 1 .. Len(lines) : InLine(k, i)
  \/ state \in Collecting /\ collectingLineStart <= i /\ i < collectingLineEnd

\* Every visible character is in a line unless it frames one
Keeps(i) == CharAt(i) \notin Whitespace => (Has(i) <=> ~IsFraming(i))
ContentIsKept ==
  /\ state \in Inside => \A i \in first .. nextIndex - 1 : Keeps(i)
  /\ state = "Done" => \A i \in Interior : Keeps(i)

\* What the types say about the indexes.
LEMMA IndexFacts ==
  ASSUME TypeOK
  PROVE  /\ nextIndex \in Nat /\ first \in Nat
         /\ commentRange[1] \in Nat /\ first = commentRange[1] + 3
         /\ collectingLineStart \in Nat /\ collectingLineEnd \in Nat
         /\ Len(lines) \in Nat
         /\ \A k \in 1 .. Len(lines) : lines[k][1] \in Nat /\ lines[k][2] \in Nat
<1>1. commentRange \in LineRange /\ \A k \in 1 .. Len(lines) : lines[k] \in LineRange
  BY DEF TypeOK
<1>2. QED
  BY <1>1, RangeBounds DEF TypeOK, LineRange, first

\* No step changes the buffer: what was said of a part of it still holds.
LEMMA SameBuffer ==
  ASSUME range' = range, NEW from, NEW to
  PROVE  /\ IsSpace(from, to)' <=> IsSpace(from, to)
         /\ HasNoNewline(from, to)' <=> HasNoNewline(from, to)
         /\ HasOneNewline(from, to)' <=> HasOneNewline(from, to)
         /\ IsTrimmed(from, to)' <=> IsTrimmed(from, to)
  BY DEF IsSpace, HasNoNewline, HasOneNewline, IsTrimmed, CharAt

\* A line that is trimmed and one newline after the last keeps the lines right.
LEMMA AppendIsRight ==
  ASSUME TypeOK, LinesAreRight, range' = range,
         NEW from \in Nat, NEW to \in Nat, IsTrimmed(from, to),
         \A k \in 1 .. Len(lines) : lines[k][2] <= from,
         lines # <<>> => HasOneNewline(lines[Len(lines)][2], from),
         lines' = Append(lines, <<from, to>>)
  PROVE  LinesAreRight' /\ lines' # <<>> /\ lines'[Len(lines')][2] = to
<1>1. /\ Len(lines) \in Nat /\ Len(lines') = Len(lines) + 1
      /\ lines'[Len(lines) + 1] = <<from, to>>
      /\ \A k \in 1 .. Len(lines) : lines'[k] = lines[k]
      /\ Len(lines) # 0 => lines # <<>>
  BY DEF TypeOK
<1>2. \A k \in 1 .. Len(lines') : k \in 1 .. Len(lines) \/ k = Len(lines) + 1
  BY <1>1
<1>3. \A k \in 1 .. Len(lines') : IsTrimmed(lines'[k][1], lines'[k][2])
  BY <1>1, <1>2 DEF LinesAreRight
<1>4. ASSUME NEW k \in 1 .. Len(lines'), NEW j \in 1 .. Len(lines'), j < k
      PROVE  lines'[j][2] <= lines'[k][1]
  <2>1. j \in 1 .. Len(lines) /\ lines'[j] = lines[j]
    BY <1>1, <1>4
  <2>2. CASE k \in 1 .. Len(lines)
    BY <1>1, <1>4, <2>1, <2>2 DEF LinesAreRight
  <2>3. CASE k = Len(lines) + 1
    BY <1>1, <2>1, <2>3
  <2>4. QED
    BY <1>2, <2>2, <2>3
<1>5. ASSUME NEW k \in 1 .. Len(lines') - 1
      PROVE  HasOneNewline(lines'[k][2], lines'[k + 1][1])
  <2>1. CASE k \in 1 .. Len(lines) - 1
    BY <1>1, <2>1 DEF LinesAreRight
  <2>2. CASE k = Len(lines)
    BY <1>1, <2>2
  <2>3. QED
    BY <1>1, <2>1, <2>2
<1>6. LinesAreRight'
  BY <1>3, <1>4, <1>5, SameBuffer DEF LinesAreRight
<1>7. QED
  BY <1>1, <1>6

\* Parts of the buffer that meet.
LEMMA NoNewlineParts ==
  ASSUME NEW from \in Nat, NEW mid \in Nat, NEW to \in Nat
  PROVE  /\ HasNoNewline(from, mid) /\ HasNoNewline(mid, to) => HasNoNewline(from, to)
         /\ IsSpace(from, to) => HasNoNewline(from, to)
         /\ HasNoNewline(from, from) /\ IsSpace(from, from)
         /\ HasNoNewline(from, from + 1) <=> CharAt(from) # "lf"
         /\ from <= to /\ HasNoNewline(from, to) /\ CharAt(to) # "lf"
              => HasNoNewline(from, to + 1)
         /\ from <= to /\ IsSpace(from, to) /\ CharAt(to) \in Space => IsSpace(from, to + 1)
         /\ HasOneNewline(from, mid) /\ HasNoNewline(mid, to) /\ mid <= to
              => HasOneNewline(from, to)
         /\ from <= to /\ HasNoNewline(from, to) /\ CharAt(to) = "lf"
              => HasOneNewline(from, to + 1)
<1>1. ASSUME HasOneNewline(from, mid), HasNoNewline(mid, to), mid <= to
      PROVE  HasOneNewline(from, to)
  <2>1. PICK n \in from .. mid - 1 :
          CharAt(n) = "lf" /\ \A i \in from .. mid - 1 : CharAt(i) = "lf" => i = n
    BY <1>1 DEF HasOneNewline
  <2>2. ASSUME NEW i \in from .. to - 1, CharAt(i) = "lf" PROVE i = n
    BY <1>1, <2>1, <2>2 DEF HasNoNewline
  <2>3. QED
    BY <1>1, <2>1, <2>2 DEF HasOneNewline
<1>2. ASSUME from <= to, HasNoNewline(from, to), CharAt(to) = "lf"
      PROVE  HasOneNewline(from, to + 1)
  <2>1. to \in from .. (to + 1) - 1
    BY <1>2
  <2>2. ASSUME NEW i \in from .. (to + 1) - 1, CharAt(i) = "lf" PROVE i = to
    BY <1>2, <2>2 DEF HasNoNewline
  <2>3. QED
    BY <1>2, <2>1, <2>2 DEF HasOneNewline
<1>3. /\ HasNoNewline(from, mid) /\ HasNoNewline(mid, to) => HasNoNewline(from, to)
      /\ HasNoNewline(from, from) /\ IsSpace(from, from)
      /\ HasNoNewline(from, from + 1) <=> CharAt(from) # "lf"
  BY DEF HasNoNewline, IsSpace
<1>4. IsSpace(from, to) => HasNoNewline(from, to)
  BY DEF HasNoNewline, IsSpace, Space
<1>5. /\ from <= to /\ HasNoNewline(from, to) /\ CharAt(to) # "lf" => HasNoNewline(from, to + 1)
      /\ from <= to /\ IsSpace(from, to) /\ CharAt(to) \in Space => IsSpace(from, to + 1)
  <2>1. ASSUME NEW i \in from .. (to + 1) - 1 PROVE i \in from .. to - 1 \/ i = to
    OBVIOUS
  <2>2. QED
    BY <2>1 DEF HasNoNewline, IsSpace
<1>6. QED
  BY <1>1, <1>2, <1>3, <1>4, <1>5

ContentInv == LinesAreRight /\ CollectingIsRight /\ ContentIsKept

\* No step changes what a character is.
LEMMA SameCharacters ==
  ASSUME range' = range, commentRange'[1] = commentRange[1]
  PROVE  /\ first' = first
         /\ \A i : CharAt(i)' = CharAt(i) /\ (IsFraming(i)' <=> IsFraming(i))
  BY DEF first, CharAt, IsFraming

\* A step that records nothing keeps the lines right.
LEMMA SameLinesAreRight ==
  ASSUME LinesAreRight, range' = range, lines' = lines
  PROVE  LinesAreRight'
  BY SameBuffer DEF LinesAreRight

\* What the invariants say inside the comment.
LEMMA InsideFacts ==
  ASSUME Inv, PassesNoCloser, state \in Inside
  PROVE  /\ first <= nextIndex /\ collectingLineStart <= nextIndex
         /\ \A k \in 1 .. Len(lines) : lines[k][2] <= collectingLineStart
         /\ state \in Collecting =>
              collectingLineStart <= collectingLineEnd /\ collectingLineEnd <= nextIndex
  BY DEF Inv, CollectsAfterLines, PassesNoCloser, Inside, first

\* At first there is nothing to say of the lines.
LEMMA InitContent == Init => ContentInv
  BY DEF Init, ContentInv, LinesAreRight, CollectingIsRight, ContentIsKept, Inside, Collecting

\* Outside of the comment nothing is said, and nothing is collected.
LEMMA OutsideContent ==
  ASSUME ContentInv, range' = range, lines' = lines,
         state' \in {"BeginComment1", "BeginComment2", "Failed"}
  PROVE  ContentInv'
<1>1. state' \notin Inside /\ state' # "Done" /\ state' \notin Collecting
      /\ state' # "AdvancingLine" /\ state' # "CollectingFirstLine" /\ state' # "CollectingLine"
  BY DEF Inside, Collecting
<1>2. LinesAreRight'
  BY SameLinesAreRight DEF ContentInv
<1>3. CollectingIsRight'
  BY <1>1 DEF CollectingIsRight
<1>4. ContentIsKept'
  BY <1>1 DEF ContentIsKept
<1>5. QED
  BY <1>2, <1>3, <1>4 DEF ContentInv

\* The first line begins after the opening, and a space that follows it.
LEMMA StartFirstLineContent ==
  ASSUME Inv, PassesNoCloser, ContentInv, StartFirstLine
  PROVE  ContentInv'
<1>1. TypeOK /\ nextIndex = commentRange[1] + 2 /\ lines = <<>>
  BY DEF Inv, CollectsAfterLines, PassesNoCloser, StartFirstLine, Collecting
<1>2. /\ range' = range /\ commentRange' = commentRange /\ lines' = lines
      /\ state' = "CollectingFirstLine" /\ collectingLineStart' = nextIndex'
      /\ collectingLineEnd' = nextIndex' /\ nextIndex' = AfterStar
  BY DEF StartFirstLine
<1>3. /\ first' = first /\ \A i : CharAt(i)' = CharAt(i)
  BY <1>2, SameCharacters
<1>4. \/ nextIndex' = first
      \/ nextIndex' = first + 1 /\ CharAt(first) = "space"
  <2>1. nextIndex + 1 = first /\ nextIndex + 2 = first + 1
    BY <1>1, IndexFacts
  <2>2. QED
    BY <1>2, <2>1 DEF AfterStar, NextIs
<1>5. nextIndex' \in Nat /\ first \in Nat
  BY <1>1, <1>4, IndexFacts
<1> DEFINE next == nextIndex'
<1>6. ASSUME NEW i \in first .. next - 1 PROVE CharAt(i) = "space"
  <2>1. /\ next \in Nat
        /\ next = first \/ (next = first + 1 /\ CharAt(first) = "space")
    BY <1>4, <1>5
  <2> HIDE DEF next
  <2>2. next = first + 1 /\ CharAt(first) = "space"
    BY <1>5, <1>6, <2>1
  <2>3. i = first
    BY <1>5, <1>6, <2>2
  <2>4. QED
    BY <2>2, <2>3
<1>7. LinesAreRight'
  BY <1>2, SameLinesAreRight DEF ContentInv
<1>8. CollectingIsRight'
  <2>1. HasNoNewline(first, nextIndex)'
    BY <1>3, <1>6 DEF HasNoNewline
  <2>2. IsTrimmed(collectingLineStart, collectingLineEnd)' /\ IsSpace(collectingLineEnd, nextIndex)'
    BY <1>2, <1>5 DEF IsTrimmed, HasNoNewline, IsSpace
  <2>3. QED
    BY <1>1, <1>2, <2>1, <2>2 DEF CollectingIsRight, Inside
<1>9. ContentIsKept'
  <2>1. ASSUME NEW i \in first .. next - 1 PROVE Keeps(i)'
    <3>1. CharAt(i)' = "space"
      BY <1>3, <1>6, <2>1
    <3>2. QED
      BY <3>1 DEF Keeps, Whitespace
  <2>2. QED
    BY <1>2, <1>3, <2>1 DEF ContentIsKept
<1>10. QED
  BY <1>7, <1>8, <1>9 DEF ContentInv

\* The characters that were read stay where they are.
LEMMA KeepsAgain ==
  ASSUME range' = range, commentRange'[1] = commentRange[1], NEW i,
         Keeps(i), CharAt(i) \notin Whitespace => (Has(i)' <=> Has(i))
  PROVE  Keeps(i)'
  BY SameCharacters DEF Keeps

\* Recording the line that is collected changes no character's place.
LEMMA RecordHas ==
  ASSUME TypeOK, NEW from \in Nat, NEW to \in Nat, lines' = Append(lines, <<from, to>>),
         NEW i
  PROVE  (\E k \in 1 .. Len(lines) : InLine(k, i))'
           <=> (\E k \in 1 .. Len(lines) : InLine(k, i)) \/ (from <= i /\ i < to)
<1>1. /\ Len(lines) \in Nat /\ Len(lines') = Len(lines) + 1
      /\ lines'[Len(lines) + 1] = <<from, to>>
      /\ \A k \in 1 .. Len(lines) : lines'[k] = lines[k]
  BY DEF TypeOK
<1>2. \A k \in 1 .. Len(lines') : k \in 1 .. Len(lines) \/ k = Len(lines) + 1
  BY <1>1
<1>3. QED
  BY <1>1, <1>2 DEF InLine

\* What is collected when a line ends: it is trimmed, and after the last line.
LEMMA CollectedFacts ==
  ASSUME Inv, PassesNoCloser, ContentInv, state \in Collecting
  PROVE  /\ TypeOK /\ state \in Inside
         /\ IsTrimmed(collectingLineStart, collectingLineEnd)
         /\ IsSpace(collectingLineEnd, nextIndex)
         /\ collectingLineStart <= collectingLineEnd /\ collectingLineEnd <= nextIndex
         /\ collectingLineStart \in Nat /\ collectingLineEnd \in Nat
         /\ \A k \in 1 .. Len(lines) : lines[k][2] <= collectingLineStart
         /\ lines # <<>> => HasOneNewline(lines[Len(lines)][2], collectingLineStart)
<1>1. TypeOK /\ state \in Inside
  BY DEF Inv, Inside
<1>2. QED
  BY <1>1, InsideFacts, IndexFacts DEF ContentInv, CollectingIsRight

\* Recording what was collected keeps the lines right.
LEMMA RecordIsRight ==
  ASSUME Inv, PassesNoCloser, ContentInv, state \in Collecting, range' = range,
         lines' = Record
  PROVE  LinesAreRight' /\ lines' # <<>> /\ lines'[Len(lines')][2] = collectingLineEnd
  BY CollectedFacts, AppendIsRight DEF ContentInv, Record

\* The newline that ends a line is the one between it and the next.
LEMMA EndLineContent ==
  ASSUME Inv, PassesNoCloser, ContentInv, EndLine
  PROVE  ContentInv'
<1>1. /\ state \in Collecting /\ current = "lf" /\ range' = range /\ commentRange' = commentRange
      /\ state' = "AdvancingLine" /\ nextIndex' = nextIndex + 1
      /\ collectingLineStart' = nextIndex + 1 /\ collectingLineEnd' = nextIndex + 1
      /\ \/ lines' = Record
         \/ /\ lines' = lines /\ lines = <<>>
            /\ ~(collectingLineEnd > collectingLineStart)
  BY DEF EndLine, ContentInv, CollectingIsRight
<1>2. /\ TypeOK /\ nextIndex \in Nat /\ first \in Nat /\ first <= nextIndex
      /\ IsSpace(collectingLineEnd, nextIndex)
      /\ collectingLineStart \in Nat /\ collectingLineEnd \in Nat
      /\ collectingLineStart <= collectingLineEnd /\ collectingLineEnd <= nextIndex
  BY <1>1, CollectedFacts, IndexFacts, InsideFacts
<1>3. first' = first /\ \A i : CharAt(i)' = CharAt(i)
  BY <1>1, SameCharacters
<1>4. LinesAreRight'
  BY <1>1, RecordIsRight, SameLinesAreRight DEF ContentInv
<1>5. CollectingIsRight'
  <2>1. HasOneNewline(collectingLineEnd, nextIndex + 1)
    <3>1. HasNoNewline(collectingLineEnd, nextIndex) /\ CharAt(nextIndex) = "lf"
      BY <1>1, <1>2, NoNewlineParts DEF current
    <3>2. QED
      BY <1>2, <3>1, NoNewlineParts
  <2>2. lines' # <<>> => HasOneNewline(lines[Len(lines)][2], collectingLineStart)'
    BY <1>1, <2>1, RecordIsRight, SameBuffer
  <2>3. /\ first' < collectingLineStart' /\ CharAt(collectingLineStart - 1)' = "lf"
        /\ IsSpace(collectingLineStart, nextIndex)'
    <3>1. collectingLineStart' - 1 = nextIndex
      BY <1>1, <1>2
    <3>2. CharAt(collectingLineStart - 1)' = CharAt(nextIndex)
      BY <1>1, <3>1 DEF CharAt
    <3>3. IsSpace(collectingLineStart, nextIndex)'
      BY <1>1, <1>2 DEF IsSpace
    <3>4. QED
      BY <1>1, <1>2, <1>3, <3>2, <3>3 DEF current
  <2>4. QED
    BY <1>1, <2>2, <2>3 DEF CollectingIsRight, Collecting
<1>6. ContentIsKept'
  <2>1. ASSUME NEW i \in first .. nextIndex - 1 PROVE Keeps(i)'
    <3>1. Keeps(i)
      BY <1>1, <2>1 DEF ContentInv, ContentIsKept, Inside
    <3>2. Has(i)' <=> Has(i)
      <4>1. CASE lines' = Record
        BY <1>1, <1>2, <4>1, RecordHas DEF Has, Record, Collecting
      <4>2. CASE lines' = lines /\ ~(collectingLineEnd > collectingLineStart)
        BY <1>1, <1>2, <4>2 DEF Has, InLine, Collecting
      <4>3. QED
        BY <1>1, <4>1, <4>2
    <3>3. QED
      BY <1>1, <3>1, <3>2, KeepsAgain
  <2>2. ASSUME NEW i, i = nextIndex PROVE Keeps(i)'
    BY <1>1, <1>3, <2>2 DEF Keeps, Whitespace, current
  <2>3. ASSUME NEW i \in first .. nextIndex' - 1 PROVE Keeps(i)'
    <3>1. i \in first .. nextIndex - 1 \/ i = nextIndex
      BY <1>1, <1>2, <2>3
    <3>2. QED
      BY <2>1, <2>2, <3>1
  <2>4. QED
    BY <1>1, <1>3, <2>3 DEF ContentIsKept
<1>7. QED
  BY <1>4, <1>5, <1>6 DEF ContentInv

\* The end of the comment ends the line, unless it is empty.
LEMMA CloseInLineContent ==
  ASSUME Inv, PassesNoCloser, ContentInv, CloseInLine
  PROVE  ContentInv'
<1>1. /\ state \in Collecting /\ range' = range
      /\ commentRange' = <<commentRange[1], nextIndex + 2>>
      /\ state' = "Done" /\ nextIndex' = nextIndex + 2
      /\ \/ lines' = Record
         \/ lines' = lines /\ ~(collectingLineEnd > collectingLineStart)
  BY DEF CloseInLine
<1>2. /\ TypeOK /\ nextIndex \in Nat /\ first \in Nat
      /\ collectingLineStart \in Nat /\ collectingLineEnd \in Nat
  BY <1>1, CollectedFacts, IndexFacts
<1>3. LinesAreRight'
  BY <1>1, RecordIsRight, SameLinesAreRight DEF ContentInv
<1>4. CollectingIsRight'
  BY <1>1 DEF CollectingIsRight, Collecting, Inside
<1>5. ASSUME NEW i \in first .. nextIndex - 1 PROVE Keeps(i)'
  <2>1. Keeps(i)
    BY <1>1, <1>5 DEF ContentInv, ContentIsKept, Inside
  <2>2. Has(i)' <=> Has(i)
    <3>1. CASE lines' = Record
      BY <1>1, <1>2, <3>1, RecordHas DEF Has, Record, Collecting
    <3>2. CASE lines' = lines /\ ~(collectingLineEnd > collectingLineStart)
      BY <1>1, <1>2, <3>2 DEF Has, InLine, Collecting
    <3>3. QED
      BY <1>1, <3>1, <3>2
  <2>3. QED
    BY <1>1, <2>1, <2>2, KeepsAgain
<1>6. Interior' = first .. nextIndex - 1
  BY <1>1, <1>2 DEF Interior, first
<1>7. ContentIsKept'
  BY <1>1, <1>5, <1>6 DEF ContentIsKept, Inside, Collecting
<1>8. QED
  BY <1>3, <1>4, <1>7 DEF ContentInv

\* A star that follows nothing but its indentation frames its line.
LEMMA FramingFacts ==
  ASSUME Inv, PassesNoCloser, ContentInv
  PROVE  /\ state = "AdvancingLine" /\ current = "star" => IsFraming(nextIndex)
         /\ state \in Collecting => ~IsFraming(nextIndex)
         /\ current # "star" => ~IsFraming(nextIndex)
<1>1. TypeOK /\ CollectingIsRight
  BY DEF Inv, ContentInv
<1>2. /\ nextIndex \in Nat /\ first \in Nat /\ first = commentRange[1] + 3
      /\ collectingLineStart \in Nat
  BY <1>1, IndexFacts
<1>3. ASSUME state = "AdvancingLine", current = "star" PROVE IsFraming(nextIndex)
  <2> DEFINE n == collectingLineStart - 1
  <2>1. /\ first <= n /\ CharAt(n) = "lf" /\ n < nextIndex /\ n \in Int
        /\ \A i \in n + 1 .. nextIndex - 1 : CharAt(i) \in Space
    <3>1. /\ first < collectingLineStart /\ CharAt(n) = "lf"
          /\ IsSpace(collectingLineStart, nextIndex)
      BY <1>1, <1>3 DEF CollectingIsRight
    <3>2. collectingLineStart <= nextIndex /\ n + 1 = collectingLineStart
      BY <1>2, <1>3, InsideFacts DEF Inside
    <3>3. QED
      BY <1>2, <3>1, <3>2 DEF IsSpace
  <2> HIDE DEF n
  <2>2. n \in commentRange[1] + 3 .. nextIndex - 1
    BY <1>2, <2>1
  <2>3. QED
    BY <1>3, <2>1, <2>2 DEF IsFraming, Space, current
<1>4. ASSUME state \in Collecting, IsFraming(nextIndex) PROVE FALSE
  <2>1. PICK n \in first .. nextIndex - 1 :
          CharAt(n) = "lf" /\ \A k \in n + 1 .. nextIndex - 1 : CharAt(k) \in Space
    BY <1>2, <1>4 DEF IsFraming, Space
  <2>2. CASE state = "CollectingFirstLine"
    BY <1>1, <2>1, <2>2 DEF CollectingIsRight, HasNoNewline
  <2>3. CASE state = "CollectingLine"
    <3>1. PICK j \in first .. nextIndex - 1 :
            CharAt(j) \notin Whitespace /\ HasNoNewline(j, nextIndex)
      BY <1>1, <2>3 DEF CollectingIsRight
    <3>2. CASE n < j
      BY <1>2, <2>1, <3>1, <3>2 DEF Space
    <3>3. CASE n >= j
      BY <1>2, <2>1, <3>1, <3>3 DEF HasNoNewline
    <3>4. QED
      BY <1>2, <2>1, <3>1, <3>2, <3>3
  <2>4. QED
    BY <1>4, <2>2, <2>3 DEF Collecting
<1>5. current # "star" => ~IsFraming(nextIndex)
  BY DEF IsFraming, current
<1>6. QED
  BY <1>3, <1>4, <1>5

\* A visible character joins the line with the spaces before it; a space waits.
LEMMA CollectCharacterContent ==
  ASSUME Inv, PassesNoCloser, ContentInv, CollectCharacter
  PROVE  ContentInv'
<1>1. /\ state \in Collecting /\ current # "lf" /\ range' = range
      /\ commentRange' = commentRange /\ state' = state /\ nextIndex' = nextIndex + 1
      /\ collectingLineStart' = collectingLineStart /\ lines' = lines
      /\ collectingLineEnd' = IF current \in Whitespace THEN collectingLineEnd
                                                        ELSE nextIndex + 1
  BY DEF CollectCharacter
<1>2. /\ TypeOK /\ nextIndex \in Nat /\ first \in Nat /\ first <= nextIndex
      /\ IsSpace(collectingLineEnd, nextIndex) /\ state \in Inside
      /\ IsTrimmed(collectingLineStart, collectingLineEnd)
      /\ collectingLineStart \in Nat /\ collectingLineEnd \in Nat
      /\ collectingLineStart <= collectingLineEnd /\ collectingLineEnd <= nextIndex
  BY <1>1, CollectedFacts, IndexFacts, InsideFacts
<1>3. first' = first /\ \A i : CharAt(i)' = CharAt(i)
  BY <1>1, SameCharacters
<1>4. LinesAreRight'
  BY <1>1, SameLinesAreRight DEF ContentInv
<1>5. CollectingIsRight'
  <2>1. /\ IsTrimmed(collectingLineStart, collectingLineEnd)'
        /\ IsSpace(collectingLineEnd, nextIndex)'
    <3>1. CASE current \in Whitespace
      <4>1. IsSpace(collectingLineEnd, nextIndex + 1)
        BY <1>1, <1>2, <3>1, NoNewlineParts DEF Space, current
      <4>2. QED
        BY <1>1, <1>2, <3>1, <4>1 DEF IsTrimmed, IsSpace, HasNoNewline, CharAt
    <3>2. CASE current \notin Whitespace
      <4>1. HasNoNewline(collectingLineStart, nextIndex + 1)
        <5>1. HasNoNewline(collectingLineStart, nextIndex)
          BY <1>2, NoNewlineParts DEF IsTrimmed
        <5>2. QED
          BY <1>1, <1>2, <5>1, NoNewlineParts DEF current
      <4>2. IsTrimmed(collectingLineStart, nextIndex + 1)
        BY <1>2, <3>2, <4>1 DEF IsTrimmed, current
      <4>3. IsSpace(nextIndex + 1, nextIndex + 1)
        BY <1>2 DEF IsSpace
      <4>4. QED
        BY <1>1, <3>2, <4>2, <4>3 DEF IsTrimmed, IsSpace, HasNoNewline, CharAt
    <3>3. QED
      BY <3>1, <3>2
  <2>2. state = "CollectingFirstLine" => lines' = <<>> /\ HasNoNewline(first, nextIndex)'
    <3>1. ASSUME state = "CollectingFirstLine"
          PROVE  lines = <<>> /\ HasNoNewline(first, nextIndex + 1)
      BY <1>1, <1>2, <3>1, NoNewlineParts DEF ContentInv, CollectingIsRight, current
    <3>2. QED
      BY <1>1, <1>3, <3>1 DEF HasNoNewline
  <2>3. ASSUME state = "CollectingLine"
        PROVE  (\E j \in first .. nextIndex - 1 :
                  CharAt(j) \notin Whitespace /\ HasNoNewline(j, nextIndex))'
    <3>1. PICK j \in first .. nextIndex - 1 :
            CharAt(j) \notin Whitespace /\ HasNoNewline(j, nextIndex)
      BY <2>3 DEF ContentInv, CollectingIsRight
    <3>2. HasNoNewline(j, nextIndex + 1) /\ j \in first .. (nextIndex + 1) - 1
      BY <1>1, <1>2, <3>1, NoNewlineParts DEF current
    <3>3. QED
      BY <1>1, <1>3, <3>1, <3>2 DEF HasNoNewline
  <2>4. lines' # <<>> => HasOneNewline(lines[Len(lines)][2], collectingLineStart)'
    BY <1>1, <1>2, SameBuffer DEF ContentInv, CollectingIsRight
  <2>5. QED
    BY <1>1, <2>1, <2>2, <2>3, <2>4 DEF CollectingIsRight, Collecting
<1>6. ContentIsKept'
  <2>1. ASSUME NEW i \in first .. nextIndex - 1 PROVE Keeps(i)'
    <3>1. Keeps(i)
      BY <1>2, <2>1 DEF ContentInv, ContentIsKept
    <3>2. CharAt(i) \notin Whitespace => (Has(i)' <=> Has(i))
      <4>1. CASE current \in Whitespace
        BY <1>1, <4>1 DEF Has, InLine
      <4>2. CASE current \notin Whitespace
        <5>1. CharAt(i) \notin Whitespace => ~(collectingLineEnd <= i)
          BY <1>2, <2>1 DEF IsSpace, Space
        <5>2. QED
          BY <1>1, <1>2, <2>1, <4>2, <5>1 DEF Has, InLine
      <4>3. QED
        BY <4>1, <4>2
    <3>3. QED
      BY <1>1, <3>1, <3>2, KeepsAgain
  <2>2. ASSUME NEW i, i = nextIndex PROVE Keeps(i)'
    <3>1. CASE current \in Whitespace
      BY <1>3, <2>2, <3>1 DEF Keeps, current
    <3>2. CASE current \notin Whitespace
      <4>1. ~IsFraming(i)' /\ Has(i)'
        BY <1>1, <1>2, <2>2, <3>2, FramingFacts, SameCharacters DEF Has
      <4>2. QED
        BY <4>1 DEF Keeps
    <3>3. QED
      BY <3>1, <3>2
  <2>3. ASSUME NEW i \in first .. nextIndex' - 1 PROVE Keeps(i)'
    <3>1. i \in first .. nextIndex - 1 \/ i = nextIndex
      BY <1>1, <1>2, <2>3
    <3>2. QED
      BY <2>1, <2>2, <3>1
  <2>4. QED
    BY <1>1, <1>2, <1>3, <2>3 DEF ContentIsKept, Inside, Collecting
<1>7. QED
  BY <1>4, <1>5, <1>6 DEF ContentInv

\* What is known after a newline: only indentation has been read.
LEMMA AdvancingFacts ==
  ASSUME Inv, PassesNoCloser, ContentInv, state = "AdvancingLine"
  PROVE  /\ TypeOK /\ state \in Inside /\ state \notin Collecting
         /\ nextIndex \in Nat /\ first \in Nat /\ first <= nextIndex
         /\ collectingLineStart \in Nat /\ collectingLineStart <= nextIndex
         /\ first < collectingLineStart /\ CharAt(collectingLineStart - 1) = "lf"
         /\ IsSpace(collectingLineStart, nextIndex)
         /\ HasNoNewline(collectingLineStart, nextIndex)
         /\ \A k \in 1 .. Len(lines) : lines[k][2] <= collectingLineStart
         /\ lines # <<>> => HasOneNewline(lines[Len(lines)][2], collectingLineStart)
         /\ \A i \in first .. nextIndex - 1 : Keeps(i)
<1>1. TypeOK /\ state \in Inside /\ state \notin Collecting
  BY DEF Inv, Inside, Collecting
<1>2. IsSpace(collectingLineStart, nextIndex)
  BY DEF ContentInv, CollectingIsRight
<1>3. HasNoNewline(collectingLineStart, nextIndex)
  BY <1>1, <1>2, IndexFacts, NoNewlineParts
<1>4. QED
  BY <1>1, <1>2, <1>3, IndexFacts, InsideFacts DEF ContentInv, CollectingIsRight, ContentIsKept

\* The end of the comment where a line could have begun: nothing is dropped.
LEMMA CloseAfterNewlineContent ==
  ASSUME Inv, PassesNoCloser, ContentInv, CloseAfterNewline
  PROVE  ContentInv'
<1>1. /\ state = "AdvancingLine" /\ range' = range /\ lines' = lines
      /\ commentRange' = <<commentRange[1], nextIndex + 2>>
      /\ state' = "Done" /\ nextIndex' = nextIndex + 2
  BY DEF CloseAfterNewline
<1>2. LinesAreRight'
  BY <1>1, SameLinesAreRight DEF ContentInv
<1>3. CollectingIsRight'
  BY <1>1 DEF CollectingIsRight, Collecting, Inside
<1>4. ASSUME NEW i \in first .. nextIndex - 1 PROVE Keeps(i)'
  <2>1. Keeps(i) /\ (Has(i)' <=> Has(i))
    BY <1>1, <1>4, AdvancingFacts DEF Has, InLine, Collecting
  <2>2. QED
    BY <1>1, <2>1, KeepsAgain
<1>5. Interior' = first .. nextIndex - 1
  BY <1>1, AdvancingFacts DEF Interior, first
<1>6. ContentIsKept'
  BY <1>1, <1>4, <1>5 DEF ContentIsKept, Inside, Collecting
<1>7. QED
  BY <1>2, <1>3, <1>6 DEF ContentInv

\* The star is the only visible character that is in no line.
LEMMA DiscardLeadingStarContent ==
  ASSUME Inv, PassesNoCloser, ContentInv, DiscardLeadingStar
  PROVE  ContentInv'
<1>1. /\ state = "AdvancingLine" /\ current = "star" /\ range' = range
      /\ commentRange' = commentRange /\ state' = "CollectingLine" /\ lines' = lines
      /\ nextIndex' = AfterStar /\ collectingLineStart' = nextIndex'
      /\ collectingLineEnd' = nextIndex'
  BY DEF DiscardLeadingStar
<1> DEFINE next == nextIndex'
<1>2. /\ next \in Nat /\ nextIndex < next
      /\ \/ next = nextIndex + 1
         \/ next = nextIndex + 2 /\ CharAt(nextIndex + 1) = "space"
  BY <1>1, AdvancingFacts DEF AfterStar, NextIs
<1>3. first' = first /\ \A i : CharAt(i)' = CharAt(i)
  BY <1>1, SameCharacters
<1>4. ASSUME NEW i \in nextIndex .. next - 1
      PROVE  i = nextIndex \/ CharAt(i) = "space"
  <2> HIDE DEF next
  <2>1. CASE next = nextIndex + 1
    BY <1>1, <1>4, <2>1, AdvancingFacts
  <2>2. CASE next = nextIndex + 2 /\ CharAt(nextIndex + 1) = "space"
    <3>1. i = nextIndex \/ i = nextIndex + 1
      BY <1>1, <1>4, <2>2, AdvancingFacts
    <3>2. QED
      BY <2>2, <3>1
  <2>3. QED
    BY <1>2, <2>1, <2>2
<1>5. CharAt(nextIndex) = "star" /\ HasNoNewline(nextIndex, next)
  BY <1>1, <1>4 DEF HasNoNewline, current
<1>6. LinesAreRight'
  BY <1>1, SameLinesAreRight DEF ContentInv
<1>7. CollectingIsRight'
  <2>1. IsTrimmed(next, next) /\ IsSpace(next, next)
    <3>1. next \in Nat
      BY <1>2
    <3> HIDE DEF next
    <3>2. QED
      BY <3>1 DEF IsTrimmed, HasNoNewline, IsSpace
  <2>2. lines # <<>> => HasOneNewline(lines[Len(lines)][2], next)
    <3>1. HasNoNewline(collectingLineStart, next)
      BY <1>1, <1>2, <1>5, AdvancingFacts, NoNewlineParts
    <3> HIDE DEF next
    <3>2. ASSUME lines # <<>> PROVE lines[Len(lines)][2] \in Nat
      <4>1. Len(lines) \in 1 .. Len(lines)
        BY <1>1, <3>2, AdvancingFacts DEF TypeOK
      <4>2. QED
        BY <1>1, <4>1, AdvancingFacts, IndexFacts
    <3>3. ASSUME lines # <<>>, NEW from, from = lines[Len(lines)][2]
          PROVE  HasOneNewline(from, next)
      <4>1. /\ from \in Nat /\ HasOneNewline(from, collectingLineStart)
            /\ collectingLineStart \in Nat /\ collectingLineStart <= next
        BY <1>1, <1>2, <3>2, <3>3, AdvancingFacts
      <4>2. QED
        BY <1>2, <3>1, <4>1, NoNewlineParts
    <3>4. QED
      BY <3>3
  <2>3. nextIndex \in first .. next - 1 /\ CharAt(nextIndex) \notin Whitespace
    BY <1>1, <1>2, <1>5, AdvancingFacts DEF Whitespace
  <2>4. (\E j \in first .. nextIndex - 1 :
           CharAt(j) \notin Whitespace /\ HasNoNewline(j, nextIndex))'
    <3>1. PICK j : j = nextIndex
      OBVIOUS
    <3>2. j \in first' .. next - 1 /\ CharAt(j)' \notin Whitespace /\ HasNoNewline(j, nextIndex)'
      BY <1>3, <1>5, <2>3, <3>1 DEF HasNoNewline
    <3>3. QED
      BY <3>2
  <2>5. QED
    BY <1>1, <2>1, <2>2, <2>4, SameBuffer DEF CollectingIsRight, Collecting
<1>8. ContentIsKept'
  <2>1. ASSUME NEW i \in first .. nextIndex - 1 PROVE Keeps(i)'
    <3>1. Keeps(i) /\ (Has(i)' <=> Has(i))
      BY <1>1, <1>2, <2>1, AdvancingFacts DEF Has, InLine, Collecting
    <3>2. QED
      BY <1>1, <3>1, KeepsAgain
  <2>2. ASSUME NEW i, i = nextIndex PROVE Keeps(i)'
    <3>1. IsFraming(i)'
      BY <1>1, <2>2, FramingFacts, SameCharacters
    <3>2. ~Has(i)
      BY <1>1, <2>2, AdvancingFacts, IndexFacts DEF Has, InLine, Collecting
    <3>3. ~Has(i)'
      BY <1>1, <1>2, <2>2, <3>2, AdvancingFacts DEF Has, InLine
    <3>4. QED
      BY <3>1, <3>3 DEF Keeps
  <2>3. ASSUME NEW i \in first .. next - 1 PROVE Keeps(i)'
    <3>1. i \in first .. nextIndex - 1 \/ i \in nextIndex .. next - 1
      <4> HIDE DEF next
      <4>1. QED
        BY <1>1, <1>2, <2>3, AdvancingFacts
    <3>2. CASE CharAt(i) = "space"
      BY <1>3, <3>2 DEF Keeps, Whitespace
    <3>3. QED
      BY <1>4, <2>1, <2>2, <3>1, <3>2
  <2>4. QED
    BY <1>1, <1>3, <2>3 DEF ContentIsKept
<1>9. QED
  BY <1>6, <1>7, <1>8 DEF ContentInv

\* A blank line is recorded as an empty one.
LEMMA BlankLineContent ==
  ASSUME Inv, PassesNoCloser, ContentInv, BlankLine
  PROVE  ContentInv'
<1>1. /\ state = "AdvancingLine" /\ current = "lf" /\ range' = range
      /\ commentRange' = commentRange /\ state' = state
      /\ lines' = Append(lines, <<nextIndex, nextIndex>>)
      /\ nextIndex' = nextIndex + 1 /\ collectingLineStart' = nextIndex + 1
  BY DEF BlankLine
<1>2. /\ TypeOK /\ nextIndex \in Nat /\ first \in Nat /\ first <= nextIndex
      /\ collectingLineStart \in Nat /\ collectingLineStart <= nextIndex
      /\ CharAt(nextIndex) = "lf" /\ HasNoNewline(collectingLineStart, nextIndex)
      /\ state \notin Collecting
  BY <1>1, AdvancingFacts DEF current
<1>3. first' = first /\ \A i : CharAt(i)' = CharAt(i)
  BY <1>1, SameCharacters
<1>4. LinesAreRight' /\ lines' # <<>> /\ lines'[Len(lines')][2] = nextIndex
  <2>1. \A k \in 1 .. Len(lines) : lines[k][2] \in Nat /\ lines[k][2] <= nextIndex
    BY <1>1, <1>2, AdvancingFacts, IndexFacts
  <2>2. ASSUME lines # <<>>, NEW from, from = lines[Len(lines)][2]
        PROVE  HasOneNewline(from, nextIndex)
    <3>1. Len(lines) \in 1 .. Len(lines)
      BY <1>2, <2>2 DEF TypeOK
    <3>2. from \in Nat /\ HasOneNewline(from, collectingLineStart)
      BY <1>1, <2>1, <2>2, <3>1, AdvancingFacts
    <3>3. QED
      BY <1>2, <3>2, NoNewlineParts
  <2>3. IsTrimmed(nextIndex, nextIndex) /\ LinesAreRight
    BY <1>2 DEF IsTrimmed, HasNoNewline, ContentInv
  <2>4. QED
    BY <1>1, <1>2, <2>1, <2>2, <2>3, AppendIsRight
<1>5. CollectingIsRight'
  <2>1. HasOneNewline(nextIndex, nextIndex + 1)
    BY <1>2 DEF HasOneNewline
  <2>2. collectingLineStart' - 1 = nextIndex /\ first < nextIndex + 1
    BY <1>1, <1>2
  <2>3. CharAt(collectingLineStart - 1)' = CharAt(nextIndex)
    BY <1>1, <2>2 DEF CharAt
  <2>4. IsSpace(collectingLineStart, nextIndex)'
    BY <1>1, <1>2 DEF IsSpace
  <2>5. HasOneNewline(lines[Len(lines)][2], collectingLineStart)'
    BY <1>1, <1>4, <2>1, SameBuffer
  <2>6. QED
    BY <1>1, <1>2, <1>3, <2>2, <2>3, <2>4, <2>5 DEF CollectingIsRight, Collecting
<1>6. ContentIsKept'
  <2>1. ASSUME NEW i \in first .. nextIndex - 1 PROVE Keeps(i)'
    <3>1. Keeps(i)
      BY <1>1, <2>1, AdvancingFacts
    <3>2. (\E k \in 1 .. Len(lines) : InLine(k, i))' <=> \E k \in 1 .. Len(lines) : InLine(k, i)
      <4>1. ~(nextIndex <= i /\ i < nextIndex)
        BY <1>2, <2>1
      <4>2. QED
        BY <1>1, <1>2, <4>1, RecordHas
    <3>3. Has(i)' <=> Has(i)
      BY <1>1, <1>2, <3>2 DEF Has
    <3>4. QED
      BY <1>1, <3>1, <3>3, KeepsAgain
  <2>2. ASSUME NEW i, i = nextIndex PROVE Keeps(i)'
    BY <1>2, <1>3, <2>2 DEF Keeps, Whitespace
  <2>3. ASSUME NEW i \in first .. nextIndex' - 1 PROVE Keeps(i)'
    <3>1. i \in first .. nextIndex - 1 \/ i = nextIndex
      BY <1>1, <1>2, <2>3
    <3>2. QED
      BY <2>1, <2>2, <3>1
  <2>4. QED
    BY <1>1, <1>3, <2>3 DEF ContentIsKept
<1>7. QED
  BY <1>4, <1>5, <1>6 DEF ContentInv

\* Indentation is not yet in a line.
LEMMA SkipIndentContent ==
  ASSUME Inv, PassesNoCloser, ContentInv, SkipIndent
  PROVE  ContentInv'
<1>1. /\ state = "AdvancingLine" /\ current \in Space /\ range' = range
      /\ commentRange' = commentRange /\ state' = state /\ lines' = lines
      /\ nextIndex' = nextIndex + 1 /\ collectingLineStart' = collectingLineStart
  BY DEF SkipIndent, collecting, Space
<1>2. /\ nextIndex \in Nat /\ first \in Nat /\ first <= nextIndex
      /\ collectingLineStart \in Nat /\ collectingLineStart <= nextIndex
      /\ IsSpace(collectingLineStart, nextIndex) /\ state \notin Collecting
  BY <1>1, AdvancingFacts
<1>3. first' = first /\ \A i : CharAt(i)' = CharAt(i)
  BY <1>1, SameCharacters
<1>4. LinesAreRight'
  BY <1>1, SameLinesAreRight DEF ContentInv
<1>5. CollectingIsRight'
  <2>1. IsSpace(collectingLineStart, nextIndex + 1)
    BY <1>1, <1>2, NoNewlineParts DEF current
  <2>2. /\ first < collectingLineStart /\ CharAt(collectingLineStart - 1) = "lf"
        /\ lines # <<>> => HasOneNewline(lines[Len(lines)][2], collectingLineStart)
    BY <1>1, AdvancingFacts
  <2>3. CharAt(collectingLineStart - 1)' = "lf"
    BY <1>1, <2>2 DEF CharAt
  <2>4. QED
    BY <1>1, <1>2, <1>3, <2>1, <2>2, <2>3, SameBuffer DEF CollectingIsRight, Collecting
<1>6. ContentIsKept'
  <2>1. ASSUME NEW i \in first .. nextIndex - 1 PROVE Keeps(i)'
    <3>1. Keeps(i) /\ (Has(i)' <=> Has(i))
      BY <1>1, <1>2, <2>1, AdvancingFacts DEF Has, InLine
    <3>2. QED
      BY <1>1, <3>1, KeepsAgain
  <2>2. ASSUME NEW i, i = nextIndex PROVE Keeps(i)'
    BY <1>1, <1>3, <2>2 DEF Keeps, Space, current
  <2>3. ASSUME NEW i \in first .. nextIndex' - 1 PROVE Keeps(i)'
    <3>1. i \in first .. nextIndex - 1 \/ i = nextIndex
      BY <1>1, <1>2, <2>3
    <3>2. QED
      BY <2>1, <2>2, <3>1
  <2>4. QED
    BY <1>1, <1>3, <2>3 DEF ContentIsKept
<1>7. QED
  BY <1>4, <1>5, <1>6 DEF ContentInv

\* Without a star the indentation belongs to the line.
LEMMA StartUnstarredLineContent ==
  ASSUME Inv, PassesNoCloser, ContentInv, StartUnstarredLine
  PROVE  ContentInv'
<1>1. /\ state = "AdvancingLine" /\ current \notin Whitespace /\ current # "star"
      /\ range' = range /\ commentRange' = commentRange /\ state' = "CollectingLine"
      /\ lines' = lines /\ nextIndex' = nextIndex + 1
      /\ collectingLineStart' = collectingLineStart /\ collectingLineEnd' = nextIndex + 1
  BY DEF StartUnstarredLine
<1>2. /\ nextIndex \in Nat /\ first \in Nat /\ first <= nextIndex
      /\ collectingLineStart \in Nat /\ collectingLineStart <= nextIndex
      /\ IsSpace(collectingLineStart, nextIndex) /\ state \notin Collecting
      /\ HasNoNewline(collectingLineStart, nextIndex)
  BY <1>1, AdvancingFacts
<1>3. first' = first /\ \A i : CharAt(i)' = CharAt(i)
  BY <1>1, SameCharacters
<1>4. LinesAreRight'
  BY <1>1, SameLinesAreRight DEF ContentInv
<1>5. CollectingIsRight'
  <2>1. HasNoNewline(collectingLineStart, nextIndex + 1)
    BY <1>1, <1>2, NoNewlineParts DEF current, Whitespace
  <2>2. IsTrimmed(collectingLineStart, nextIndex + 1) /\ IsSpace(nextIndex + 1, nextIndex + 1)
    BY <1>1, <1>2, <2>1 DEF IsTrimmed, IsSpace, current
  <2>3. (\E j \in first .. nextIndex - 1 :
           CharAt(j) \notin Whitespace /\ HasNoNewline(j, nextIndex))'
    <3>1. /\ nextIndex \in first .. (nextIndex + 1) - 1
          /\ CharAt(nextIndex) \notin Whitespace /\ HasNoNewline(nextIndex, nextIndex + 1)
      BY <1>1, <1>2 DEF HasNoNewline, current, Whitespace
    <3>2. PICK j : j = nextIndex
      OBVIOUS
    <3>3. j \in first' .. nextIndex' - 1 /\ CharAt(j)' \notin Whitespace
          /\ HasNoNewline(j, nextIndex)'
      BY <1>1, <1>3, <3>1, <3>2 DEF HasNoNewline
    <3>4. QED
      BY <3>3
  <2>4. lines # <<>> => HasOneNewline(lines[Len(lines)][2], collectingLineStart)
    BY <1>1, AdvancingFacts
  <2>5. QED
    BY <1>1, <2>2, <2>3, <2>4, SameBuffer DEF CollectingIsRight, Collecting
<1>6. ContentIsKept'
  <2>1. ASSUME NEW i \in first .. nextIndex - 1 PROVE Keeps(i)'
    <3>1. Keeps(i)
      BY <1>1, <2>1, AdvancingFacts
    <3>2. CharAt(i) \notin Whitespace => ~(collectingLineStart <= i)
      BY <1>2, <2>1 DEF IsSpace, Space
    <3>3. CharAt(i) \notin Whitespace => (Has(i)' <=> Has(i))
      BY <1>1, <1>2, <3>2 DEF Has, InLine
    <3>4. QED
      BY <1>1, <3>1, <3>3, KeepsAgain
  <2>2. ASSUME NEW i, i = nextIndex PROVE Keeps(i)'
    <3>1. ~IsFraming(i)'
      BY <1>1, <2>2, FramingFacts, SameCharacters
    <3>2. Has(i)'
      BY <1>1, <1>2, <2>2 DEF Has, Collecting
    <3>3. QED
      BY <3>1, <3>2 DEF Keeps
  <2>3. ASSUME NEW i \in first .. nextIndex' - 1 PROVE Keeps(i)'
    <3>1. i \in first .. nextIndex - 1 \/ i = nextIndex
      BY <1>1, <1>2, <2>3
    <3>2. QED
      BY <2>1, <2>2, <3>1
  <2>4. QED
    BY <1>1, <1>3, <2>3 DEF ContentIsKept
<1>7. QED
  BY <1>4, <1>5, <1>6 DEF ContentInv

\* Every branch of the loop keeps the invariant.
LEMMA StepContent == Inv /\ PassesNoCloser /\ ContentInv /\ [Next]_vars => ContentInv'
<1> SUFFICES ASSUME Inv, PassesNoCloser, ContentInv, [Next]_vars PROVE ContentInv'
  OBVIOUS
<1>1. CASE ReachEndOfInput \/ RejectOpening
  BY <1>1, OutsideContent DEF ReachEndOfInput, RejectOpening, Fail
<1>2. CASE SkipLeadingSpace \/ OpenComment
  BY <1>2, OutsideContent DEF SkipLeadingSpace, OpenComment
<1>3. CASE UNCHANGED vars
  <2>1. /\ range' = range /\ commentRange' = commentRange /\ lines' = lines /\ state' = state
        /\ nextIndex' = nextIndex /\ collectingLineStart' = collectingLineStart
        /\ collectingLineEnd' = collectingLineEnd
    BY <1>3 DEF vars
  <2>2. LinesAreRight'
    BY <2>1, SameLinesAreRight DEF ContentInv
  <2>3. CollectingIsRight'
    BY <2>1, SameBuffer
       DEF ContentInv, CollectingIsRight, IsTrimmed, IsSpace, HasNoNewline, CharAt, first
  <2>4. \A i : Keeps(i)' <=> Keeps(i)
    BY <2>1, SameCharacters DEF Keeps, Has, InLine
  <2>5. ContentIsKept'
    BY <2>1, <2>4, SameCharacters DEF ContentInv, ContentIsKept, Interior
  <2>6. QED
    BY <2>2, <2>3, <2>5 DEF ContentInv
<1>4. QED
  BY <1>1, <1>2, <1>3, StartFirstLineContent, EndLineContent, CloseInLineContent,
     CollectCharacterContent, CloseAfterNewlineContent, DiscardLeadingStarContent,
     BlankLineContent, SkipIndentContent, StartUnstarredLineContent DEF Next

(***************************************************************************)
(* The lines are the physical ones, trimmed, with one newline between two, *)
(* and every visible character of the comment is in a line unless it is    *)
(* the star that frames one.                                               *)
(***************************************************************************)
THEOREM ContentHolds == Spec => []ContentInv
<1>1. Init => Inv /\ CloserInv /\ ContentInv
  BY InitType, InitInv, InitNoCloser, InitContent DEF Inv, CloserInv
<1>2. Inv /\ CloserInv /\ ContentInv /\ [Next]_vars => (Inv /\ CloserInv /\ ContentInv)'
  BY StepType, StepInv, StepNoCloser, StepContent DEF Inv, CloserInv
<1>3. QED
  BY <1>1, <1>2, PTL DEF Spec

-----------------------------------------------------------------------------
(***************************************************************************)
(* The two stages together.                                                *)
(***************************************************************************)
P == INSTANCE TokenizerProofs WITH Documents <- {}

\* The tokenizer starts when the scan has succeeded, on lines that are right.
ScannerInv ==
  /\ Inv /\ CloserInv /\ ContentInv
  /\ state # "Done" => P!Unread
  /\ state = "Done" => P!Inv /\ P!TokensAreRight

\* The assumptions that TokenizerProofs makes of its constants
LEMMA NoDocuments ==
  \A d \in {} :
    /\ d \in [buffer : Seq(P!CharacterKinds), lines : Seq(P!LineRange)]
    /\ P!IsLines(d.buffer, d.lines)
  OBVIOUS

\* ... and the assumption about its words
LEMMA NoWords == Words \intersect P!TokenKind = {}
  BY WordsAssumption DEF T!TokenKind, T!PunctuationKinds, T!MultiCharacterKinds,
     P!TokenKind, P!PunctuationKinds, P!MultiCharacterKinds

\* What a character is for the tokenizer
LEMMA CharacterKindFacts ==
  \A c \in Char : /\ CharacterKind(c) \in P!CharacterKinds
                  /\ CharacterKind(c) = "Newline" <=> c = "lf"
                  /\ CharacterKind(c) = "Spacing" => c \in Whitespace
<1>1. ASSUME NEW c \in Char
      PROVE  /\ CharacterKind(c) \in {"Slash", "OtherPunctuation", "Newline", "Spacing",
                                      "AsciiWord", "Other"}
             /\ CharacterKind(c) = "Newline" <=> c = "lf"
             /\ CharacterKind(c) = "Spacing" => c \in Whitespace
  BY <1>1, WhitespaceKindAssumption DEF Char, CharacterKind, Whitespace
<1>2. {"Slash", "OtherPunctuation", "Newline", "Spacing", "AsciiWord", "Other"}
        \subseteq P!CharacterKinds
  BY DEF P!CharacterKinds, P!TokenKind, P!PunctuationKinds, P!MultiCharacterKinds
<1>3. QED
  BY <1>1, <1>2

\* The buffer as the tokenizer sees it: as long as the range, character by character
LEMMA BufferFacts ==
  ASSUME TypeOK
  PROVE  /\ buffer \in Seq(P!CharacterKinds) /\ Len(buffer) = Len(range.buffer)
         /\ Len(range.buffer) \in Nat /\ range.end <= Len(range.buffer)
         /\ \A i \in 0 .. Len(range.buffer) - 1 :
              CharAt(i) \in Char /\ buffer[i + 1] = CharacterKind(CharAt(i))
<1>1. /\ range.buffer \in Seq(Char) /\ range.end \in Nat /\ range.end <= Len(range.buffer)
  BY DEF TypeOK, TextRange
<1>2. /\ Len(range.buffer) \in Nat
      /\ \A i \in 1 .. Len(range.buffer) : range.buffer[i] \in Char
  BY <1>1
<1>3. buffer \in Seq(P!CharacterKinds) /\ Len(buffer) = Len(range.buffer)
  BY <1>2, CharacterKindFacts DEF buffer
<1>4. ASSUME NEW i \in 0 .. Len(range.buffer) - 1
      PROVE  CharAt(i) \in Char /\ buffer[i + 1] = CharacterKind(CharAt(i))
  <2>1. i + 1 \in 1 .. Len(range.buffer)
    BY <1>2, <1>4
  <2>2. QED
    BY <1>2, <2>1 DEF CharAt, buffer
<1>5. QED
  BY <1>1, <1>2, <1>3, <1>4

\* The lines that were found are what the tokenizer may be given.
LEMMA LinesAreInput ==
  ASSUME TypeOK, LinesAreOrdered, LinesAreRight
  PROVE  lines \in Seq(P!LineRange) /\ P!IsLines(buffer, lines)
<1>1. lines \in Seq(P!LineRange)
  BY DEF TypeOK, LineRange, P!LineRange
<1>2. ASSUME NEW k \in 1 .. Len(lines)
      PROVE  /\ lines[k][1] <= lines[k][2] /\ lines[k][2] <= Len(buffer)
             /\ \A i \in lines[k][1] .. lines[k][2] - 1 : buffer[i + 1] # "Newline"
             /\ \A j \in 1 .. k - 1 : lines[j][2] <= lines[k][1]
  <2>1. /\ lines[k][1] \in Nat /\ lines[k][2] \in Nat /\ Len(lines) \in Nat
        /\ nextIndex <= range.end /\ range.end \in Nat /\ nextIndex \in Nat
    BY <1>2, IndexFacts, RangeBounds
  <2>2. lines[k][1] <= lines[k][2] /\ lines[k][2] <= Len(buffer)
    BY <1>2, <2>1, BufferFacts DEF LinesAreOrdered
  <2>3. ASSUME NEW i \in lines[k][1] .. lines[k][2] - 1 PROVE buffer[i + 1] # "Newline"
    <3>1. CharAt(i) # "lf"
      BY <1>2, <2>3 DEF LinesAreRight, IsTrimmed, HasNoNewline
    <3>2. i \in 0 .. Len(range.buffer) - 1
      BY <2>1, <2>2, <2>3, BufferFacts
    <3>3. QED
      BY <3>1, <3>2, BufferFacts, CharacterKindFacts
  <2>4. \A j \in 1 .. k - 1 : lines[j][2] <= lines[k][1]
    BY <1>2, <2>1 DEF LinesAreRight
  <2>5. QED
    BY <2>2, <2>3, <2>4
<1>3. QED
  BY <1>1, <1>2 DEF P!IsLines

\* ... so that it starts in a state its invariants hold in.
LEMMA StartTokenizer == Inv /\ ContentInv /\ P!Unread => P!Inv /\ P!TokensAreRight
<1> SUFFICES ASSUME Inv, ContentInv, P!Unread PROVE P!Inv /\ P!TokensAreRight
  OBVIOUS
<1>1. /\ buffer \in Seq(P!CharacterKinds) /\ lines \in Seq(P!LineRange) /\ P!InputOK
  BY BufferFacts, LinesAreInput DEF Inv, ContentInv, P!InputOK
<1>2. P!Inv
  BY <1>1, NoDocuments, NoWords, P!UnreadInv
<1>3. P!TokensAreRight
  BY <1>2, NoDocuments, NoWords, P!UnreadTokens DEF P!Inv
<1>4. QED
  BY <1>2, <1>3

\* Before the first step nothing is scanned and nothing is tokenized.
LEMMA InitScanner == ScannerInit => ScannerInv
<1> SUFFICES ASSUME ScannerInit PROVE ScannerInv
  OBVIOUS
<1>1. Inv /\ CloserInv /\ ContentInv
  BY InitType, InitInv, InitNoCloser, InitContent DEF ScannerInit, Inv, CloserInv
<1>2. P!Unread /\ state # "Done"
  BY DEF ScannerInit, Init, P!Unread
<1>3. QED
  BY <1>1, <1>2 DEF ScannerInv

\* A step of the extraction, after the last of which the tokenizer may start
LEMMA ExtractInv == ScannerInv /\ Extract => ScannerInv'
<1> SUFFICES ASSUME ScannerInv, Extract PROVE ScannerInv'
  OBVIOUS
<1>1. Inv' /\ CloserInv' /\ ContentInv'
  BY StepType, StepInv, StepNoCloser, StepContent DEF ScannerInv, Extract, Inv, CloserInv
<1>2. state # "Done"
  BY DEF Extract, Next, ReachEndOfInput, SkipLeadingSpace, OpenComment, StartFirstLine,
     RejectOpening, EndLine, CloseInLine, CollectCharacter, CloseAfterNewline,
     DiscardLeadingStar, BlankLine, SkipIndent, StartUnstarredLine, Running, Collecting
<1>3. P!Unread'
  BY <1>2 DEF ScannerInv, Extract, tokenizerVars, P!Unread
<1>4. Inv' /\ ContentInv' /\ P!Unread' => P!Inv' /\ P!TokensAreRight'
  BY StartTokenizer, PTL
<1>5. QED
  BY <1>1, <1>3, <1>4 DEF ScannerInv

\* A step of the tokenizer, which changes no line
LEMMA TokenizeInv == ScannerInv /\ Tokenize => ScannerInv'
<1> SUFFICES ASSUME ScannerInv, Tokenize PROVE ScannerInv'
  OBVIOUS
<1>1. state = "Done" /\ UNCHANGED vars /\ T!Next
  BY DEF Tokenize
<1>2. P!Next
  BY <1>1 DEF T!Next, T!BeginLine, T!AppendCharacter, T!StartToken, T!FinishLine,
     T!PushEndOfInput, T!Completed, T!NewToken, T!line, T!characterKind, T!input,
     T!MultiCharacterKinds, P!Next, P!BeginLine, P!AppendCharacter, P!StartToken, P!FinishLine,
     P!PushEndOfInput, P!Completed, P!NewToken, P!line, P!characterKind, P!input,
     P!MultiCharacterKinds
<1>3. P!Inv' /\ P!TokensAreRight'
  BY <1>1, <1>2, NoDocuments, NoWords, P!StepInv, P!StepTokens DEF ScannerInv
<1>4. Inv' /\ CloserInv' /\ ContentInv'
  BY <1>1, StepType, StepInv, StepNoCloser, StepContent DEF ScannerInv, Inv, CloserInv
<1>5. QED
  BY <1>1, <1>3, <1>4 DEF ScannerInv, vars

\* The two stages keep the invariant, one after the other.
LEMMA ScannerHolds == ScannerSpec => []ScannerInv
<1>1. ScannerInv /\ UNCHANGED <<vars, tokenizerVars>> => ScannerInv'
  <2> SUFFICES ASSUME ScannerInv, UNCHANGED <<vars, tokenizerVars>> PROVE ScannerInv'
    OBVIOUS
  <2>1. UNCHANGED vars
    OBVIOUS
  <2>2. Inv' /\ CloserInv' /\ ContentInv'
    BY <2>1, StepType, StepInv, StepNoCloser, StepContent DEF ScannerInv, Inv, CloserInv
  <2>3. UNCHANGED P!vars
    BY DEF vars, tokenizerVars, P!vars, buffer
  <2>4. P!Unread => P!Unread'
    BY DEF P!Unread, tokenizerVars
  <2>5. P!Inv /\ P!TokensAreRight => P!Inv' /\ P!TokensAreRight'
    BY <2>3, NoDocuments, NoWords, P!StepInv, P!StepTokens
  <2>6. QED
    BY <2>2, <2>4, <2>5 DEF ScannerInv, vars
<1>2. ScannerInv /\ [ScannerNext]_<<vars, tokenizerVars>> => ScannerInv'
  BY <1>1, ExtractInv, TokenizeInv DEF ScannerNext
<1>3. QED
  BY InitScanner, <1>2, PTL DEF ScannerSpec

-----------------------------------------------------------------------------
\* A list without its last element
LEMMA FrontFacts ==
  ASSUME NEW S, NEW list \in Seq(S), Len(list) # 0
  PROVE  /\ SubSeq(list, 1, Len(list) - 1) \in Seq(S)
         /\ Len(SubSeq(list, 1, Len(list) - 1)) = Len(list) - 1
         /\ \A k \in 1 .. Len(list) - 1 : SubSeq(list, 1, Len(list) - 1)[k] = list[k]
<1> DEFINE n == Len(list) - 1
<1>1. n \in Nat /\ \A k \in 1 .. n : list[k] \in S
  OBVIOUS
<1> HIDE DEF n
<1>2. /\ SubSeq(list, 1, n) \in Seq(S)
      /\ Len(SubSeq(list, 1, n)) = IF 1 <= n THEN n - 1 + 1 ELSE 0
      /\ \A k \in 1 .. n - 1 + 1 : SubSeq(list, 1, n)[k] = list[1 + k - 1]
  BY <1>1, SubSeqProperties
<1>3. /\ Len(SubSeq(list, 1, n)) = n
      /\ \A k \in 1 .. n : k \in 1 .. n - 1 + 1 /\ 1 + k - 1 = k
  BY <1>1, <1>2
<1>4. QED
  BY <1>2, <1>3 DEF n

\* The tokens when all are pushed: EndOfInput is the last of them.
LEMMA TokenListFacts ==
  ASSUME ScannerInv, pc = "Done"
  PROVE  /\ state = "Done" /\ P!TypeOK /\ tokens \in Seq(P!TokenRange)
         /\ Len(tokens) \in Nat \ {0} /\ lineCount = Len(lines)
         /\ P!Pushed = SubSeq(tokens, 1, Len(tokens) - 1)
         /\ P!Pushed \in Seq(P!TokenRange) /\ Len(P!Pushed) = Len(tokens) - 1
         /\ \A k \in 1 .. Len(tokens) - 1 : P!Pushed[k] = tokens[k]
         /\ P!AreTokensOf(P!Pushed, Len(lines) + 1, 0)
         /\ P!Previous(P!Pushed, Len(P!Pushed) + 1).kind = "Newline"
         /\ tokens[Len(tokens)].kind = "EndOfInput"
         /\ tokens[Len(tokens)].pos = tokens[Len(tokens)].end
         /\ \A k \in 1 .. Len(tokens) :
              tokens[k].pos \in Nat /\ tokens[k].end \in Nat /\ tokens[k].line \in Nat
<1>1. state = "Done" /\ P!Inv /\ P!TokensAreRight
  BY DEF ScannerInv, P!Unread
<1>2. P!TypeOK /\ tokens \in Seq(P!TokenRange)
  BY <1>1 DEF P!Inv, P!TypeOK
<1>3. /\ Len(tokens) \in Nat \ {0} /\ lineCount = Len(lines)
      /\ tokens[Len(tokens)].kind = "EndOfInput"
      /\ tokens[Len(tokens)].pos = tokens[Len(tokens)].end
      /\ P!Previous(P!Pushed, Len(P!Pushed) + 1).kind = "Newline"
      /\ P!AreTokensOf(P!Pushed, Len(lines) + 1, 0)
  BY <1>1 DEF P!TokensAreRight, P!PushedTo
<1>4. P!Pushed = SubSeq(tokens, 1, Len(tokens) - 1)
  BY DEF P!Pushed
<1>5. /\ P!Pushed \in Seq(P!TokenRange) /\ Len(P!Pushed) = Len(tokens) - 1
      /\ \A k \in 1 .. Len(tokens) - 1 : P!Pushed[k] = tokens[k]
  BY <1>2, <1>3, <1>4, FrontFacts
<1>6. \A k \in 1 .. Len(tokens) :
        tokens[k].pos \in Nat /\ tokens[k].end \in Nat /\ tokens[k].line \in Nat
  BY <1>2, NoDocuments, NoWords, P!TokenFacts
<1>7. QED
  BY <1>1, <1>2, <1>3, <1>4, <1>5, <1>6

\* A line is trimmed, so a token of spaces is not the last of its line.
LEMMA NoSpacingAtEnd ==
  ASSUME ScannerInv, pc = "Done", NEW k \in 1 .. Len(tokens) - 2,
         tokens[k].kind = "Spacing", tokens[k + 1].kind = "Newline"
  PROVE  FALSE
<1> DEFINE s == tokens[k]
           t == tokens[k + 1]
           n == s.line
<1>1. /\ k \in 1 .. Len(tokens) - 1 /\ k + 1 \in 1 .. Len(tokens) - 1 /\ k \in Nat
      /\ k + 1 \in 1 .. Len(tokens) /\ k \in 1 .. Len(tokens)
  BY TokenListFacts
<1>2. /\ P!IsBelow(s, Len(lines) + 1, 0) /\ P!IsPure(s)
  BY <1>1, TokenListFacts DEF P!AreTokensOf
<1>3. P!Follows(P!Previous(tokens, k), s) /\ P!Follows(s, t)
  <2>1. P!TokensTileTheLines
    BY TokenListFacts DEF ScannerInv, P!Inv
  <2>2. P!Previous(tokens, k + 1) = s
    BY <1>1 DEF P!Previous
  <2>3. QED
    BY <1>1, <2>1, <2>2 DEF P!TokensTileTheLines
<1>4. t.line = n /\ s.end = lines[n][2] /\ s.pos < s.end
  <2>1. s.kind = "Spacing" /\ t.kind = "Newline" /\ s.line \in Nat /\ t.line \in Nat
    BY <1>1, TokenListFacts
  <2> HIDE DEF s, t
  <2>2. QED
    BY <1>3, <2>1 DEF P!Follows
<1>5. /\ n \in 1 .. Len(lines) /\ lines[n][1] <= s.pos /\ s.kind = "Spacing"
      /\ s.pos \in Nat /\ s.end \in Nat
  BY <1>1, <1>2, TokenListFacts DEF P!IsBelow
<1>6. TypeOK /\ LinesAreOrdered /\ LinesAreRight
  BY DEF ScannerInv, Inv, ContentInv
<1> DEFINE end == s.end
<1> HIDE DEF s, t, n
<1>7. /\ lines[n][1] \in Nat /\ lines[n][1] < end /\ end = lines[n][2]
      /\ 1 <= end /\ end <= Len(range.buffer) /\ end \in Nat /\ Len(range.buffer) \in Nat
  <2>1. lines[n][1] \in Nat /\ lines[n][2] <= nextIndex
    BY <1>5, <1>6, IndexFacts DEF LinesAreOrdered
  <2>2. s.pos \in Nat /\ end \in Nat /\ lines[n][1] <= s.pos /\ s.pos < end /\ end = lines[n][2]
    BY <1>4, <1>5
  <2>3. nextIndex \in Nat /\ nextIndex <= range.end /\ range.end \in Nat
        /\ range.end <= Len(range.buffer) /\ Len(range.buffer) \in Nat
    BY <1>6, BufferFacts, RangeBounds
  <2> HIDE DEF end
  <2>4. QED
    BY <2>1, <2>2, <2>3
<1>8. buffer[end] = "Spacing"
  <2>1. end - 1 \in s.pos .. s.end - 1 /\ end - 1 + 1 = end
    BY <1>4, <1>5
  <2>2. QED
    BY <1>2, <1>5, <2>1 DEF P!IsPure
<1> HIDE DEF end
<1>9. CharAt(end - 1) \notin Whitespace
  BY <1>5, <1>6, <1>7 DEF LinesAreRight, IsTrimmed
<1>10. end - 1 \in 0 .. Len(range.buffer) - 1 /\ end - 1 + 1 = end
  BY <1>7
<1>11. QED
  BY <1>6, <1>8, <1>9, <1>10, BufferFacts, CharacterKindFacts

\* Between two lines the buffer has one newline.
LEMMA LinesAgree ==
  ASSUME ScannerInv, NEW k \in 1 .. Len(lines) - 1
  PROVE  Cardinality(newlines \intersect (lines[k][2] .. lines[k + 1][1] - 1)) = 1
<1>1. TypeOK /\ LinesAreOrdered /\ LinesAreRight
  BY DEF ScannerInv, Inv, ContentInv
<1>2. /\ lines[k][2] \in Nat /\ lines[k + 1][1] \in Nat /\ lines[k + 1][1] <= range.end
      /\ range.end \in Nat /\ range.end <= Len(range.buffer) /\ Len(range.buffer) \in Nat
  <2>1. Len(lines) \in Nat /\ k \in 1 .. Len(lines) /\ k + 1 \in 1 .. Len(lines)
    BY <1>1, IndexFacts
  <2>2. lines[k + 1][1] <= lines[k + 1][2] /\ lines[k + 1][2] <= nextIndex
    BY <1>1, <2>1 DEF LinesAreOrdered
  <2>3. QED
    BY <1>1, <2>1, <2>2, IndexFacts, RangeBounds, BufferFacts
<1>3. PICK n \in lines[k][2] .. lines[k + 1][1] - 1 :
        /\ CharAt(n) = "lf"
        /\ \A i \in lines[k][2] .. lines[k + 1][1] - 1 : CharAt(i) = "lf" => i = n
  BY <1>1 DEF LinesAreRight, HasOneNewline
<1>4. newlines \intersect (lines[k][2] .. lines[k + 1][1] - 1) = {n}
  <2>1. n \in newlines
    BY <1>2, <1>3 DEF newlines
  <2>2. QED
    BY <1>3, <2>1 DEF newlines
<1>5. QED
  BY <1>4, FS_Singleton

\* The words are not kinds, so the kinds of the tokens stand for themselves.
LEMMA TokensAgree ==
  ASSUME ScannerInv, pc = "Done"
  PROVE  /\ \A k \in DOMAIN kinds : kinds[k] = "EndOfInput" <=> k = Len(kinds)
         /\ T!IsTokenStream(SubSeq(kinds, 1, Len(kinds) - 1))
<1> DEFINE m == Len(tokens) - 1
           s == SubSeq(kinds, 1, m)
<1>1. /\ m \in Nat /\ Len(tokens) = m + 1
      /\ Len(kinds) = m + 1 /\ DOMAIN kinds = 1 .. m + 1
      /\ \A k \in 1 .. m + 1 : kinds[k] = tokens[k].kind
  BY TokenListFacts DEF kinds
<1>2. /\ Len(P!Pushed) = m
      /\ \A k \in 1 .. m : P!Pushed[k] = tokens[k]
      /\ P!AreTokensOf(P!Pushed, Len(lines) + 1, 0)
      /\ P!Previous(P!Pushed, m + 1).kind = "Newline"
      /\ tokens[m + 1].kind = "EndOfInput"
  BY <1>1, TokenListFacts
<1>3. \A k \in 1 .. m + 1 : tokens[k].kind \in P!TokenKind
  BY <1>1, NoDocuments, NoWords, P!TokenFacts, TokenListFacts
<1>4. kinds \in Seq(P!TokenKind)
  BY <1>1, <1>3 DEF kinds
<1>5. /\ s \in Seq(P!TokenKind) /\ Len(s) = m
      /\ \A k \in 1 .. m : s[k] = tokens[k].kind
  <2> HIDE DEF m
  <2>1. Len(kinds) # 0 /\ m = Len(kinds) - 1
    BY <1>1
  <2>2. QED
    BY <1>1, <1>4, <2>1, FrontFacts
<1> HIDE DEF m, s
<1>6. \A k \in DOMAIN kinds : kinds[k] = "EndOfInput" <=> k = Len(kinds)
  <2>1. ASSUME NEW k \in 1 .. m PROVE kinds[k] # "EndOfInput"
    BY <1>1, <1>2, <2>1 DEF P!AreTokensOf, P!IsBelow
  <2>2. \A k \in 1 .. m + 1 : k \in 1 .. m \/ k = m + 1
    BY <1>1
  <2>3. QED
    BY <1>1, <1>2, <2>1, <2>2
<1>7. \A k \in 1 .. m : T!KindOf(s[k]) = s[k]
  BY <1>1, <1>3, <1>5, NoWords DEF T!KindOf
<1>8. s # <<>> => s[Len(s)] = "Newline"
  <2>1. ASSUME s # <<>> PROVE s[m] = "Newline"
    <3>1. m # 0
      BY <1>5, <2>1
    <3>2. P!Previous(P!Pushed, m + 1) = P!Pushed[m] /\ m \in 1 .. m
      BY <1>1, <3>1 DEF P!Previous
    <3>3. QED
      BY <1>2, <1>5, <3>2
  <2>2. QED
    BY <1>5, <2>1
<1>9. ASSUME NEW i \in 1 .. m - 1
      PROVE  /\ T!KindOf(s[i]) = T!KindOf(s[i + 1])
                  => T!KindOf(s[i]) \notin T!MultiCharacterKinds
             /\ s[i] = "Spacing" => s[i + 1] # "Newline"
  <2>1. /\ i \in 1 .. m /\ i + 1 \in 1 .. m /\ i \in 1 .. Len(tokens) - 2
        /\ i + 1 # 1 /\ (i + 1) - 1 = i
    BY <1>1, <1>9
  <2>2. P!IsMaximal(P!Previous(P!Pushed, i + 1), P!Pushed[i + 1])
    BY <1>2, <2>1 DEF P!AreTokensOf
  <2>3. P!Previous(P!Pushed, i + 1) = P!Pushed[i]
    BY <2>1 DEF P!Previous
  <2>4. s[i] = s[i + 1] => s[i] \notin T!MultiCharacterKinds
    BY <1>2, <1>5, <2>1, <2>2, <2>3 DEF P!IsMaximal, P!MultiCharacterKinds, T!MultiCharacterKinds
  <2>5. s[i] = "Spacing" => s[i + 1] # "Newline"
    BY <1>5, <2>1, NoSpacingAtEnd
  <2>6. QED
    BY <1>7, <2>1, <2>4, <2>5
<1>10. T!IsTokenStream(s)
  BY <1>5, <1>8, <1>9 DEF T!IsTokenStream
<1>11. Len(kinds) - 1 = m
  BY <1>1
<1>12. QED
  BY <1>6, <1>10, <1>11 DEF s

(***************************************************************************)
(* What each stage finds is what the next one assumes, for comments of any *)
(* length: blank lines are neither dropped nor invented, and the tokens    *)
(* are a stream that NodeParser may be given.                              *)
(***************************************************************************)
THEOREM StagesAgreeHolds == ScannerSpec => []StagesAgree
<1>1. ScannerInv => StagesAgree
  <2> SUFFICES ASSUME ScannerInv PROVE StagesAgree
    OBVIOUS
  <2>1. state = "Done" => T!IsLines(buffer, lines)
    BY DEF ScannerInv, P!Inv, P!InputOK, P!IsLines, T!IsLines
  <2>2. QED
    BY <2>1, LinesAgree, TokensAgree DEF StagesAgree
<1>2. QED
  BY <1>1, ScannerHolds, PTL

\* The token that has a character of a line is the only one.
LEMMA OwnersAgree ==
  ASSUME ScannerInv, pc = "Done", NEW i \in 0 .. Len(range.buffer) - 1
  PROVE  LET owners == {k \in 1 .. Len(tokens) : tokens[k].pos <= i /\ i < tokens[k].end} IN
         IF Has(i) THEN \E k \in owners : owners = {k} ELSE owners = {}
<1> DEFINE owners == {k \in 1 .. Len(tokens) : tokens[k].pos <= i /\ i < tokens[k].end}
           m == Len(tokens) - 1
<1>1. /\ m \in Nat /\ Len(tokens) = m + 1 /\ Len(P!Pushed) = m
      /\ \A k \in 1 .. m : P!Pushed[k] = tokens[k]
      /\ P!AreTokensOf(P!Pushed, Len(lines) + 1, 0)
      /\ tokens[m + 1].pos = tokens[m + 1].end
      /\ \A k \in 1 .. m + 1 : tokens[k].pos \in Nat /\ tokens[k].end \in Nat
      /\ state = "Done"
  BY TokenListFacts
<1>2. TypeOK /\ Len(buffer) = Len(range.buffer) /\ Len(lines) \in Nat
      /\ \A k \in 1 .. Len(lines) : lines[k][1] \in Nat /\ lines[k][2] \in Nat
  BY BufferFacts, IndexFacts DEF ScannerInv, Inv
<1> HIDE DEF m
<1>3. ASSUME NEW k \in owners PROVE k \in 1 .. m
  <2>1. CASE k = m + 1
    BY <1>1, <1>3, <2>1
  <2>2. QED
    BY <1>1, <1>3, <2>1
<1>4. ASSUME NEW k \in owners PROVE Has(i)
  <2>1. k \in 1 .. m /\ P!IsBelow(tokens[k], Len(lines) + 1, 0)
    BY <1>1, <1>3, <1>4 DEF P!AreTokensOf
  <2>2. tokens[k].pos <= i /\ i < tokens[k].end /\ tokens[k].pos \in Nat /\ tokens[k].end \in Nat
    BY <1>1, <1>4
  <2>3. PICK n \in 1 .. Len(lines) : lines[n][1] <= tokens[k].pos /\ tokens[k].end <= lines[n][2]
    BY <2>1 DEF P!IsBelow
  <2>4. InLine(n, i)
    BY <1>2, <2>2, <2>3 DEF InLine
  <2>5. QED
    BY <2>4 DEF Has
<1>5. ASSUME NEW j \in owners, NEW k \in owners PROVE j = k
  <2>1. /\ j \in 1 .. m /\ k \in 1 .. m
    BY <1>3, <1>5
  <2>2. /\ tokens[j].pos <= i /\ i < tokens[j].end /\ tokens[k].pos <= i /\ i < tokens[k].end
        /\ tokens[j].pos \in Nat /\ tokens[j].end \in Nat
        /\ tokens[k].pos \in Nat /\ tokens[k].end \in Nat
    BY <1>1, <1>5
  <2>3. /\ j < k => tokens[j].end <= tokens[k].pos
        /\ k < j => tokens[k].end <= tokens[j].pos
    BY <1>1, <2>1 DEF P!AreTokensOf
  <2>4. ~(j < k) /\ ~(k < j)
    BY <2>2, <2>3
  <2>5. QED
    BY <2>1, <2>4
<1>6. ASSUME Has(i) PROVE \E k \in owners : owners = {k}
  <2>1. PICK n \in 1 .. Len(lines) : InLine(n, i)
    BY <1>1, <1>6 DEF Has, Collecting
  <2>2. P!IsRead(i, Len(lines) + 1, 0)
    BY <1>2, <2>1 DEF InLine, P!IsRead, P!InLine
  <2>3. PICK k \in 1 .. m : P!Owns(tokens[k], i)
    BY <1>1, <1>2, <2>2 DEF P!AreTokensOf
  <2>4. k \in owners
    BY <1>1, <2>3 DEF P!Owns
  <2> HIDE DEF owners
  <2>5. owners = {k}
    BY <1>5, <2>4
  <2>6. QED
    BY <2>4, <2>5
<1>7. QED
  BY <1>4, <1>6

(***************************************************************************)
(* Every visible character of the comment is in exactly one token, unless  *)
(* it is the star that frames a line, which is in none: for comments of    *)
(* any length, whatever their lines look like.                             *)
(***************************************************************************)
THEOREM TokensKeepTheContentHolds == ScannerSpec => []TokensKeepTheContent
<1>1. ScannerInv => TokensKeepTheContent
  <2> SUFFICES ASSUME ScannerInv, pc = "Done", NEW i \in Interior, CharAt(i) \notin Whitespace
               PROVE  LET owners == {k \in 1 .. Len(tokens) :
                                       tokens[k].pos <= i /\ i < tokens[k].end} IN
                      IF IsFraming(i) THEN owners = {} ELSE \E k \in owners : owners = {k}
    BY DEF TokensKeepTheContent
  <2>1. state = "Done" /\ TypeOK
    BY TokenListFacts DEF ScannerInv, Inv
  <2>2. Has(i) <=> ~IsFraming(i)
    BY <2>1 DEF ScannerInv, ContentInv, ContentIsKept, Keeps
  <2>3. i \in 0 .. Len(range.buffer) - 1
    <3>1. commentRange[2] = nextIndex
      BY <2>1 DEF ScannerInv, ContentInv, CollectingIsRight
    <3>2. QED
      BY <2>1, <3>1, IndexFacts, RangeBounds, BufferFacts DEF Interior
  <2>4. QED
    BY <2>2, <2>3, OwnersAgree
<1>2. QED
  BY <1>1, ScannerHolds, PTL
=============================================================================
