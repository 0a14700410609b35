----------------------------- MODULE TokenKinds -----------------------------
(***************************************************************************)
(* The tokens of Token.ts as the other modules see them.  A token stands   *)
(* for its TokenKind, except that an AsciiWord is written as its spelling: *)
(* the parser tells words apart, and no other kind of text.                *)
(***************************************************************************)
EXTENDS Integers, Sequences

CONSTANT Words          \* the spellings of AsciiWord tokens

PunctuationKinds ==
  {"Backslash", "LessThan", "GreaterThan", "Equals", "SingleQuote", "DoubleQuote",
   "Slash", "Hyphen", "AtSign", "LeftCurlyBracket", "RightCurlyBracket", "Backtick",
   "Period", "Colon", "Comma", "LeftSquareBracket", "RightSquareBracket", "Pipe",
   "LeftParenthesis", "RightParenthesis", "PoundSymbol", "Plus", "DollarSign",
   "OtherPunctuation"}

MultiCharacterKinds == {"Spacing", "AsciiWord", "Other"}

TokenKind == PunctuationKinds \union MultiCharacterKinds \union {"Newline", "EndOfInput"}

ASSUME WordsAssumption == Words \intersect TokenKind = {}

Token == Words \union (TokenKind \ {"AsciiWord", "EndOfInput"})

KindOf(token) == IF token \in Words THEN "AsciiWord" ELSE token

(***************************************************************************)
(* What Tokenizer.readTokens() can return for the lines of LineExtractor,  *)
(* without the final EndOfInput: every line ends with a Newline token, a   *)
(* multi-character token is maximal, and a line has no trailing spacing.   *)
(***************************************************************************)
IsTokenStream(s) ==
  /\ s # <<>> => s[Len(s)] = "Newline"
  /\ \A i \in 1 .. Len(s) - 1 :
        /\ KindOf(s[i]) = KindOf(s[i + 1]) => KindOf(s[i]) \notin MultiCharacterKinds
        /\ s[i] = "Spacing" => s[i + 1] # "Newline"
=============================================================================
