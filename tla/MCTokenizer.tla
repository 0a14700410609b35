---------------------------- MODULE MCTokenizer ----------------------------
EXTENDS Tokenizer, SequencesExt

CONSTANTS MaxText, MaxLines

MCWords == {"x"}

\* one kind of punctuation, and every kind that can be longer
Alphabet == {"Spacing", "AsciiWord", "Other", "Slash", "Newline"}
Ranges == {r \in (0 .. MaxText) \X (0 .. MaxText) : r[1] <= r[2]}

\* every text with every list of lines that fits it
MCDocuments ==
  {d \in [buffer : BoundedSeq(Alphabet, MaxText), lines : BoundedSeq(Ranges, MaxLines)] :
     IsLines(d.buffer, d.lines)}
=============================================================================
