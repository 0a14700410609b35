--------------------------- MODULE LineExtractor ---------------------------
(***************************************************************************)
(* The first stage of the parser: LineExtractor.extract() scans a source   *)
(* range for one slash-star-star comment and returns the ranges of its     *)
(* content lines, without the comment framing.  One action is one branch   *)
(* of the body of its "while" loop, that is, one character consumed.       *)
(*                                                                         *)
(* A character is abstracted to the class the code tests it for.  Indexes  *)
(* are 0-based, as in the code.                                            *)
(***************************************************************************)
EXTENDS Integers, Sequences

Char == {"slash", "star", "lf", "space", "ws", "text"}
Whitespace == {"lf", "space", "ws"}        \* _whitespaceCharacterRegExp

\* The ranges TSDocParser.parseRange() may be given.
CONSTANT SourceRanges

TextRange == {r \in [buffer : Seq(Char), pos : Nat, end : Nat] :
                 r.pos <= r.end /\ r.end <= Len(r.buffer)}

ASSUME SourceRangesAssumption == SourceRanges \subseteq TextRange

VARIABLES
  range,                                  \* parserContext.sourceRange
  state, nextIndex,
  collectingLineStart, collectingLineEnd,
  commentRange,                           \* <<commentRangeStart, commentRangeEnd>>
  lines,                                  \* the <<pos, end>> of each content line
  log                                     \* the message of an unsuccessful scan

vars == <<range, state, nextIndex, collectingLineStart, collectingLineEnd,
          commentRange, lines, log>>
collecting == <<collectingLineStart, collectingLineEnd>>

Collecting == {"CollectingFirstLine", "CollectingLine"}
Running == {"BeginComment1", "BeginComment2", "AdvancingLine"} \union Collecting

CharAt(i) == range.buffer[i + 1]
current == CharAt(nextIndex)
\* "next" is the empty string at the end of the range
NextIs(c) == nextIndex + 1 < range.end /\ CharAt(nextIndex + 1) = c
HasInput == nextIndex < range.end
\* Where an opening or leading star, and the space after it, end
AfterStar == nextIndex + (IF NextIs("space") THEN 2 ELSE 1)
\* mutant: only an empty line is searched for the closing delimiter
ClosingOnEmptyLine ==
  current = "star" /\ NextIs("slash") /\ collectingLineEnd = collectingLineStart
Closing == current = "star" /\ NextIs("slash")
\* mutant: trailing white space is kept
RecordUntrimmed == Append(lines, <<collectingLineStart, nextIndex>>)
Record == Append(lines, <<collectingLineStart, collectingLineEnd>>)

Init ==
  /\ range \in SourceRanges
  /\ state = "BeginComment1"
  /\ nextIndex = range.pos
  /\ collectingLineStart = 0 /\ collectingLineEnd = 0
  /\ commentRange = <<0, 0>>
  /\ lines = <<>>
  /\ log = <<>>

Fail(id, from, to) ==
  /\ state' = "Failed"
  /\ log' = <<[id |-> id, pos |-> from, end |-> to]>>
  /\ UNCHANGED <<range, nextIndex, collecting, commentRange, lines>>

ReachEndOfInput ==
  /\ state \in Running
  /\ ~HasInput
  /\ Fail(IF state \in {"BeginComment1", "BeginComment2"}
            THEN "CommentNotFound" ELSE "CommentMissingClosingDelimiter",
          range.pos, range.end)

-----------------------------------------------------------------------------
SkipLeadingSpace ==
  /\ state = "BeginComment1" /\ HasInput
  /\ current \in Whitespace
  /\ nextIndex' = nextIndex + 1
  /\ UNCHANGED <<range, state, collecting, commentRange, lines, log>>

OpenComment ==
  /\ state = "BeginComment1" /\ HasInput
  /\ current = "slash" /\ NextIs("star")
  /\ commentRange' = <<nextIndex, 0>>
  /\ nextIndex' = nextIndex + 2
  /\ state' = "BeginComment2"
  /\ UNCHANGED <<range, collecting, lines, log>>

StartFirstLine ==
  /\ state = "BeginComment2" /\ HasInput
  /\ current = "star"
  /\ nextIndex' = AfterStar
  /\ collectingLineStart' = AfterStar /\ collectingLineEnd' = AfterStar
  /\ state' = "CollectingFirstLine"
  /\ UNCHANGED <<range, commentRange, lines, log>>

RejectOpening ==
  /\ HasInput
  /\ \/ /\ state = "BeginComment1"
        /\ current \notin Whitespace /\ ~(current = "slash" /\ NextIs("star"))
     \/ state = "BeginComment2" /\ current # "star"
  /\ Fail("CommentOpeningDelimiterSyntax", nextIndex, nextIndex + 1)

-----------------------------------------------------------------------------
\* mutant: collectingLineStart is not reset
EndLineWithoutReset ==
  /\ state \in Collecting /\ HasInput
  /\ current = "lf"
  /\ lines' = Record
  /\ nextIndex' = nextIndex + 1
  /\ collectingLineEnd' = nextIndex + 1
  /\ state' = "AdvancingLine"
  /\ UNCHANGED <<range, collectingLineStart, commentRange, log>>

EndLine ==
  /\ state \in Collecting /\ HasInput
  /\ current = "lf"
  /\ lines' = IF state # "CollectingFirstLine" \/ collectingLineEnd > collectingLineStart
                THEN Record ELSE lines
  /\ nextIndex' = nextIndex + 1
  /\ collectingLineStart' = nextIndex + 1 /\ collectingLineEnd' = nextIndex + 1
  /\ state' = "AdvancingLine"
  /\ UNCHANGED <<range, commentRange, log>>

CloseInLine ==
  /\ state \in Collecting /\ HasInput
  /\ Closing
  /\ lines' = IF collectingLineEnd > collectingLineStart THEN Record ELSE lines
  /\ collectingLineStart' = 0 /\ collectingLineEnd' = 0
  /\ nextIndex' = nextIndex + 2
  /\ commentRange' = <<commentRange[1], nextIndex + 2>>
  /\ state' = "Done"
  /\ UNCHANGED <<range, log>>

CollectCharacter ==
  /\ state \in Collecting /\ HasInput
  /\ current # "lf" /\ ~Closing
  /\ nextIndex' = nextIndex + 1
  /\ collectingLineEnd' = IF current \in Whitespace THEN collectingLineEnd ELSE nextIndex + 1
  /\ UNCHANGED <<range, state, collectingLineStart, commentRange, lines, log>>

-----------------------------------------------------------------------------
CloseAfterNewline ==
  /\ state = "AdvancingLine" /\ HasInput
  /\ Closing
  /\ collectingLineStart' = 0 /\ collectingLineEnd' = 0
  /\ nextIndex' = nextIndex + 2
  /\ commentRange' = <<commentRange[1], nextIndex + 2>>
  /\ state' = "Done"
  /\ UNCHANGED <<range, lines, log>>

DiscardLeadingStar ==
  /\ state = "AdvancingLine" /\ HasInput
  /\ current = "star" /\ ~Closing
  /\ nextIndex' = AfterStar
  /\ collectingLineStart' = AfterStar /\ collectingLineEnd' = AfterStar
  /\ state' = "CollectingLine"
  /\ UNCHANGED <<range, commentRange, lines, log>>

BlankLine ==
  /\ state = "AdvancingLine" /\ HasInput
  /\ current = "lf"
  /\ lines' = Append(lines, <<nextIndex, nextIndex>>)
  /\ nextIndex' = nextIndex + 1
  /\ collectingLineStart' = nextIndex + 1
  /\ UNCHANGED <<range, state, collectingLineEnd, commentRange, log>>

SkipIndent ==
  /\ state = "AdvancingLine" /\ HasInput
  /\ current \in Whitespace \ {"lf"}
  /\ nextIndex' = nextIndex + 1
  /\ UNCHANGED <<range, state, collecting, commentRange, lines, log>>

\* The star is missing: the line starts where the physical line started
StartUnstarredLine ==
  /\ state = "AdvancingLine" /\ HasInput
  /\ current \notin Whitespace \union {"star"}
  /\ nextIndex' = nextIndex + 1
  /\ collectingLineEnd' = nextIndex + 1
  /\ state' = "CollectingLine"
  /\ UNCHANGED <<range, collectingLineStart, commentRange, lines, log>>

Next ==
  \/ ReachEndOfInput
  \/ SkipLeadingSpace \/ OpenComment \/ StartFirstLine \/ RejectOpening
  \/ EndLine \/ CloseInLine \/ CollectCharacter
  \/ CloseAfterNewline \/ DiscardLeadingStar \/ BlankLine \/ SkipIndent
  \/ StartUnstarredLine

\* extract() is a loop of one thread: it is never abandoned half-way
Spec == Init /\ [][Next]_vars /\ WF_vars(Next)

-----------------------------------------------------------------------------
LineRange == Nat \X Nat
MessageId ==
  {"CommentNotFound", "CommentMissingClosingDelimiter", "CommentOpeningDelimiterSyntax"}

TypeOK ==
  /\ range \in TextRange
  /\ state \in Running \union {"Done", "Failed"}
  /\ nextIndex \in range.pos .. range.end
  /\ collectingLineStart \in Nat /\ collectingLineEnd \in Nat
  /\ commentRange \in LineRange
  /\ lines \in Seq(LineRange)
  /\ log \in Seq([id : MessageId, pos : Nat, end : Nat])

(***************************************************************************)
(* Every recorded line lies inside the source range, after the line before *)
(* it, so TextRange.getNewRange() never throws its bounds error and no     *)
(* character belongs to two lines.                                         *)
(***************************************************************************)
LinesAreOrdered ==
  /\ \A k \in 1 .. Len(lines) :
        range.pos <= lines[k][1] /\ lines[k][1] <= lines[k][2] /\ lines[k][2] <= nextIndex
  /\ \A k \in 1 .. Len(lines) - 1 : lines[k][2] <= lines[k + 1][1]

(***************************************************************************)
(* Why LinesAreOrdered is inductive: while the scan is inside the comment, *)
(* the line being collected begins after every recorded line, and does not *)
(* reach beyond the next character.                                        *)
(***************************************************************************)
CollectsAfterLines ==
  /\ state \in Collecting \union {"AdvancingLine"} =>
       /\ range.pos <= collectingLineStart /\ collectingLineStart <= nextIndex
       /\ \A k \in 1 .. Len(lines) : lines[k][2] <= collectingLineStart
  /\ state \in Collecting =>
       collectingLineStart <= collectingLineEnd /\ collectingLineEnd <= nextIndex
  /\ state \in {"BeginComment1", "BeginComment2"} => lines = <<>>

\* The index of the first "*/" at or after i
IsFirstCloser(i, j) ==
  /\ CharAt(j) = "star" /\ CharAt(j + 1) = "slash"
  /\ \A k \in i .. j - 1 : ~(CharAt(k) = "star" /\ CharAt(k + 1) = "slash")

(***************************************************************************)
(* A successful scan ends at the first star-slash that does not share its  *)
(* star with the opening delimiter, whatever star framing and discarded    *)
(* spaces precede it: the comment is the one a JavaScript scanner finds.   *)
(***************************************************************************)
EndsAtFirstCloser ==
  state = "Done" =>
    /\ \A i \in 0 .. 2 : CharAt(commentRange[1] + i) = <<"slash", "star", "star">>[i + 1]
    /\ IsFirstCloser(commentRange[1] + 3, commentRange[2] - 2)

(***************************************************************************)
(* Why it is inductive: no star-slash has been passed since the opening    *)
(* delimiter.  (One that range.end cuts in two is not seen.)               *)
(***************************************************************************)
Inside == Collecting \union {"AdvancingLine"}
NoCloserBefore(j) ==
  \A k \in commentRange[1] + 3 .. j - 1 :
    ~(CharAt(k) = "star" /\ k + 1 < range.end /\ CharAt(k + 1) = "slash")
PassesNoCloser ==
  /\ state \in {"BeginComment2"} \union Inside =>
       CharAt(commentRange[1]) = "slash" /\ CharAt(commentRange[1] + 1) = "star"
  /\ state = "BeginComment2" => nextIndex = commentRange[1] + 2
  /\ state \in Inside =>
       /\ CharAt(commentRange[1] + 2) = "star" /\ commentRange[1] + 3 <= nextIndex
       /\ NoCloserBefore(nextIndex)

\* The star that frames a line: the first character after its indentation,
\* on any physical line but the first.
IsFraming(i) ==
  /\ CharAt(i) = "star"
  /\ \E n \in commentRange[1] + 3 .. i - 1 :
        CharAt(n) = "lf" /\ \A k \in n + 1 .. i - 1 : CharAt(k) \in Whitespace \ {"lf"}

Interior == commentRange[1] + 3 .. commentRange[2] - 3
=============================================================================
