------------------------ MODULE DeclarationScanner ------------------------
(***************************************************************************)
(* The Scanner of src/tsdoc/src/beta/DeclarationReference.ts.  A text is a *)
(* sequence of characters; a meaning keyword ("class") counts as one       *)
(* character.  A scanner is a record: pos is the next character to read    *)
(* and tokenPos the first of the current token, both counted from 1.       *)
(***************************************************************************)
EXTENDS Integers, Sequences, FiniteSetsExt

CONSTANT Meanings     \* the keywords a symbol's meaning can be written with
ASSUME MeaningsAssumption == Meanings \subseteq STRING

Quote == "\""
Backslash == "\\"
LF == "LF"
SP == "SP"

Punctuators == {"{", "}", "(", ")", "[", "]", "!", ".", "#", "~", ":", ",", "@"}
DecimalDigit == {"0", "1"}
HexDigit == DecimalDigit \union {"a", "b"}
SingleEscapes == {Quote, Backslash, "n", "b"}
EscapeCharacters == SingleEscapes \union DecimalDigit \union {"x", "u"}

\* The character at p, or "" past the end (charAt)
At(text, p) == IF p \in 1 .. Len(text) THEN text[p] ELSE ""

\* scanText(): the first position from p on that ends a text
TextEnd(text, p) ==
  Min({q \in p .. Len(text) : text[q] \in Punctuators \union {Quote}} \union {Len(text) + 1})

\* The position after the longest run of hexadecimal digits from p on
HexEnd(text, p) ==
  Min({q \in p .. Len(text) : text[q] \notin HexDigit} \union {Len(text) + 1})

\* scanEscapeSequence(): how many characters after the backslash it takes, 0
\* when it marks the string as unterminated.  The value of "u{...}" is computed
\* from its first digit alone and is never too large.
EscapeLength(text, p) ==
  LET ch == At(text, p)
      hex(n) == \A k \in 1 .. n : At(text, p + k) \in HexDigit
  IN CASE ch = "" \/ ch = LF -> 0
       [] ch \in SingleEscapes \/ ch \notin EscapeCharacters -> 1
       [] ch = "0" /\ At(text, p + 1) \notin DecimalDigit -> 1
       [] ch = "x" /\ hex(2) -> 3
       [] ch = "u" /\ hex(4) -> 5
       [] ch = "u" /\ At(text, p + 1) = "{" /\ At(text, p + 2) \in HexDigit
            /\ At(text, HexEnd(text, p + 2)) = "}" -> HexEnd(text, p + 2) + 1 - p
       [] OTHER -> 0

\* scanString() from p, after the opening quote.  An escape that is not valid is
\* read again as ordinary characters, but leaves the string unterminated.
StringEnd(text, p) ==
  LET Scan[q \in p .. Len(text) + 1] ==
        LET ch == At(text, q)
            n == EscapeLength(text, q + 1)
        IN CASE ch = "" -> [pos |-> q, unterminated |-> TRUE]
             [] ch = LF -> [pos |-> q + 1, unterminated |-> TRUE]
             [] ch = Quote -> [pos |-> q + 1, unterminated |-> FALSE]
             [] ch = Backslash -> [Scan[q + 1 + n] EXCEPT !.unterminated = @ \/ n = 0]
             [] OTHER -> Scan[q + 1]
  IN Scan[p]

\* The strings that follow each other from p on, as rescanModuleSource() reads them
AfterString(text, one, next) ==
  IF At(text, one.pos) # Quote THEN one
  ELSE [next[one.pos] EXCEPT !.unterminated = @ \/ one.unterminated]
StringsEnd(text, p) ==
  LET Next[q \in p .. Len(text)] == AfterString(text, StringEnd(text, q + 1), Next)
  IN Next[p]

NewScanner(text) ==
  [text |-> text, tokenPos |-> 1, pos |-> 1, token |-> "none", unterminated |-> FALSE]
Eof(s) == s.pos > Len(s.text)
TokenText(s) == SubSeq(s.text, s.tokenPos, s.pos - 1)

\* A punctuator is its own token; a string and a text are "string" and "text"
Until(p) == [pos |-> p, unterminated |-> FALSE]
Scan(s) ==
  LET ch == At(s.text, s.pos)
      token(kind, end) == [s EXCEPT !.tokenPos = s.pos, !.pos = end.pos, !.token = kind,
                                    !.unterminated = end.unterminated]
  IN CASE Eof(s) -> [s EXCEPT !.token = "eof"]
       [] ch \in Punctuators -> token(ch, Until(s.pos + 1))
       [] ch = Quote -> token("string", StringEnd(s.text, s.pos + 1))
       [] OTHER -> token("text", Until(TextEnd(s.text, s.pos + 1)))

\* mutant: quotes are not looked for
RescanToBang(s) ==
  LET bangs == {q \in s.tokenPos + 1 .. Len(s.text) : s.text[q] = "!"}
  IN IF s.token \in {"source", "!", "eof"} \/ bangs = {} THEN s
     ELSE [s EXCEPT !.pos = Min(bangs), !.token = "source", !.unterminated = FALSE]
\* rescanModuleSource() reads the current token again as a module source: what
\* precedes the next "!", if that is strings alone or holds no quote.  It leaves
\* the scanner alone when there is none, or when nothing is left to read.
SourceUpTo(s, end) ==
  IF At(s.text, end.pos) # "!" \/ end.pos = s.tokenPos THEN s
  ELSE [s EXCEPT !.pos = end.pos, !.token = "source", !.unterminated = end.unterminated]
RescanModuleSource(s) ==
  LET ends == {q \in s.tokenPos .. Len(s.text) : s.text[q] \in {"!", Quote}}
                \union {Len(s.text) + 1}
  IN IF s.token \in {"source", "!", "eof"} \/ Eof(s) THEN s
     ELSE SourceUpTo(s, IF At(s.text, s.tokenPos) = Quote THEN StringsEnd(s.text, s.tokenPos)
                                                          ELSE Until(Min(ends)))

\* What rescanMeaning() and rescanDecimalDigits() make a keyword or a number
IsMeaning(s) == s.token = "text" /\ Len(TokenText(s)) = 1 /\ TokenText(s)[1] \in Meanings
IsDigits(text) == text # <<>> /\ \A k \in DOMAIN text : text[k] \in DecimalDigit
IsDecimalDigits(s) == s.token = "text" /\ IsDigits(TokenText(s))
=============================================================================
