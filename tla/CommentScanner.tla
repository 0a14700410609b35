--------------------------- MODULE CommentScanner ---------------------------
(***************************************************************************)
(* TSDocParser.parseRange() up to the NodeParser: LineExtractor finds the  *)
(* lines of the comment and, unless it fails, Tokenizer reads them.  The   *)
(* two share the buffer and the lines; the properties are about both.      *)
(***************************************************************************)
EXTENDS LineExtractor, FiniteSets

CONSTANTS
  Words,
  WhitespaceKind      \* the kind of white space other than space and newline

ASSUME WhitespaceKindAssumption == WhitespaceKind \in {"Spacing", "Other"}

VARIABLES lineCount, bufferIndex, tokenKind, tokenPos, tokens, pc

tokenizerVars == <<lineCount, bufferIndex, tokenKind, tokenPos, tokens, pc>>

\* _charCodeMap, on the classes of characters that LineExtractor distinguishes
CharacterKind(c) ==
  CASE c = "slash" -> "Slash"
    [] c = "star" -> "OtherPunctuation"
    [] c = "lf" -> "Newline"
    [] c = "space" -> "Spacing"
    [] c = "ws" -> WhitespaceKind
    [] c = "text" -> "AsciiWord"

buffer == [i \in 1 .. Len(range.buffer) |-> CharacterKind(range.buffer[i])]

T == INSTANCE Tokenizer WITH Documents <- {}

ASSUME WordsAssumption == Words \intersect T!TokenKind = {}

ScannerInit ==
  /\ Init
  /\ lineCount = 0 /\ bufferIndex = 0 /\ tokenKind = "none" /\ tokenPos = 0
  /\ tokens = <<>> /\ pc = "NextLine"

Extract == Next /\ UNCHANGED tokenizerVars
\* mutant: a failed extraction does not stop parseRange()
TokenizeAnyway == state \in {"Done", "Failed"} /\ UNCHANGED vars /\ T!Next
Tokenize == state = "Done" /\ UNCHANGED vars /\ T!Next

ScannerNext == Extract \/ Tokenize

\* parseRange() is one call: it is never abandoned half-way
ScannerSpec ==
  ScannerInit /\ [][ScannerNext]_<<vars, tokenizerVars>>
    /\ WF_<<vars, tokenizerVars>>(ScannerNext)

-----------------------------------------------------------------------------
(***************************************************************************)
(* The lines that are found satisfy what Tokenizer assumes of its input,   *)
(* and the tokens satisfy what NodeParser assumes of its own: each line    *)
(* ends with a Newline that no Spacing precedes, no two neighbours are one *)
(* token cut in two, and EndOfInput is the last token and no other.  The   *)
(* lines are the physical ones, with exactly one newline between two, so   *)
(* that blank lines, which separate paragraphs, are neither dropped nor    *)
(* invented.                                                               *)
(***************************************************************************)
newlines == {i \in 0 .. Len(range.buffer) - 1 : CharAt(i) = "lf"}
kinds == [k \in 1 .. Len(tokens) |-> tokens[k].kind]
StagesAgree ==
  /\ state = "Done" => T!IsLines(buffer, lines)
  /\ \A k \in 1 .. Len(lines) - 1 :
       Cardinality(newlines \intersect (lines[k][2] .. lines[k + 1][1] - 1)) = 1
  /\ pc = "Done" =>
       /\ \A k \in DOMAIN kinds : kinds[k] = "EndOfInput" <=> k = Len(kinds)
       /\ T!IsTokenStream(SubSeq(kinds, 1, Len(kinds) - 1))

(***************************************************************************)
(* From the comment to its tokens nothing is lost but framing: a visible   *)
(* character between the delimiters is in exactly one token, unless it is  *)
(* the star that frames a line, which is in none.                          *)
(***************************************************************************)
TokensKeepTheContent ==
  pc = "Done" =>
    \A i \in Interior :
      LET owners == {k \in 1 .. Len(tokens) : tokens[k].pos <= i /\ i < tokens[k].end} IN
      CharAt(i) \notin Whitespace =>
        IF IsFraming(i) THEN owners = {}
                        ELSE \E k \in owners : owners = {k}

\* A comment is scanned to its end, or rejected and never tokenized.
ScanTerminates ==
  <>[](IF state = "Done" THEN pc = "Done" ELSE state = "Failed" /\ Len(log) = 1 /\ tokens = <<>>)
=============================================================================
