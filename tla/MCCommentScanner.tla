-------------------------- MODULE MCCommentScanner --------------------------
EXTENDS CommentScanner, SequencesExt

CONSTANT MaxText      \* the longest text between the delimiters

MCWords == {"x"}

Opening == {<<>>, <<"slash", "star", "star">>}
Closers == {<<>>, <<"star", "slash">>}

\* A range of a buffer that has "before" characters before it and "after"
\* characters after it, so that reading past range.end would not go unseen.
RangeOf(before, text, after) ==
  [buffer |-> before \o text \o after, pos |-> Len(before), end |-> Len(before \o text)]

\* every text up to MaxText, with and without the delimiters
MCSourceRanges ==
  {RangeOf(b, o \o t \o c, a) :
     b \in {<<>>, <<"text">>}, o \in Opening, t \in BoundedSeq(Char, MaxText),
     c \in Closers, a \in {<<>>, <<"slash">>}}
=============================================================================
