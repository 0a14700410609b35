---------------------------- MODULE LinkGrammar ----------------------------
(***************************************************************************)
(* What "{@link}" and "{@inheritDoc}" are to accept, as a grammar over the *)
(* tokens of their content: the reference definition that the parser of    *)
(* LinkTag is checked against.  It knows neither readers nor looking       *)
(* ahead.  Names are those that StringChecks allows, "$x" included, and    *)
(* the text of a link may hold a pipe or a brace that is escaped, as       *)
(* TSDocMessageId.LinkTagUnescapedText says: what the parser rejects of    *)
(* that is not in the grammar but at the end of the module.                *)
(***************************************************************************)
EXTENDS LinkTag

N == Len(tokens)
All(i, j, kinds) == \A k \in i .. j - 1 : KindAt(k) \in kinds
Some(i, j, kinds) == i < j /\ All(i, j, kinds)
Is(i, kind) == KindAt(i) = kind
Spaces(i, j) == i <= j /\ All(i, j, {"Spacing", "Newline"})
AfterSpaces(i) == Skip(i, {"Spacing", "Newline"})

\* The part of an import between its slashes and dots
NameText == {"AsciiWord", "Hyphen", "Period"}
Package(i, j) ==
  \/ Some(i, j, NameText) /\ ~Is(i, "Period")
  \/ Is(i, "AtSign") /\ \E k \in i + 1 .. j - 1 :
       Some(i + 1, k, NameText) /\ Is(k, "Slash") /\ Some(k + 1, j, NameText)
Path(i, j) ==
  /\ i < j /\ ~Is(j - 1, "Slash")
  /\ \A k \in i .. j - 2 : ~(Is(k, "Slash") /\ Is(k + 1, "Slash"))
\* what precedes the "#"
ImportText(i, j) ==
  /\ All(i, j, TokenKind \ (ScanStops \union {"PoundSymbol"}))
  /\ \/ Package(i, j)
     \/ Is(i, "Period") /\ Path(i, j)
     \/ \E k \in i + 1 .. j - 1 : Package(i, k) /\ Is(k, "Slash") /\ Path(k, j)

Name(i, j) ==
  /\ Some(i, j, {"AsciiWord", "DollarSign"}) /\ TextAt(i) \notin NonNames
  /\ ~(j = i + 1 /\ TextAt(i) \in SystemSelectors)
Quoted(i, j) ==
  /\ Is(i, "DoubleQuote") /\ Is(j - 1, "DoubleQuote")
  /\ Some(i + 1, j - 1, TokenKind \ {"DoubleQuote"})

\* Derives[<<s, i, j>>]: the tokens [i, j) are an s
Derives[q \in {"reference", "members", "member", "symbol"} \X (0 .. N) \X (0 .. N)] ==
  LET i == q[2]
      j == q[3]
      base(a, b) == Name(a, b) \/ Quoted(a, b) \/ Derives[<<"symbol", a, b>>]
      \* "(" member ":" selector ")", entered with the span of the member
      selected(a, b) ==
        LET colon == AfterSpaces(b)
            selector == AfterSpaces(colon + 1)
            paren == AfterSpaces(selector + 1)
        IN /\ Is(colon, "Colon") /\ Is(selector, "AsciiWord") /\ Is(paren, "RightParenthesis")
           /\ TextAt(selector) \in Selectors
           /\ Spaces(paren + 1, j)
  IN CASE q[1] = "symbol" ->
            /\ j >= i + 3 /\ Is(i, "LeftSquareBracket") /\ Is(j - 1, "RightSquareBracket")
            /\ AfterSpaces(i + 1) < j /\ Derives[<<"reference", AfterSpaces(i + 1), j - 1>>]
       [] q[1] = "member" ->
            \E b \in i + 1 .. j :
              \/ base(i, b) /\ Spaces(b, j)
              \/ /\ Is(i, "LeftParenthesis") /\ AfterSpaces(i + 1) < b
                 /\ base(AfterSpaces(i + 1), b) /\ selected(i, b)
       [] q[1] = "members" ->
            \E k \in i + 1 .. j :
              /\ Derives[<<"member", i, k>>]
              /\ \/ k = j
                 \/ /\ k < j /\ Is(k, "Period") /\ AfterSpaces(k + 1) < j
                    /\ Derives[<<"members", AfterSpaces(k + 1), j>>]
       [] q[1] = "reference" ->
            \/ Derives[<<"members", i, j>>]
            \/ \E k \in i + 1 .. j - 1 :
                 /\ ImportText(i, k) /\ Is(k, "PoundSymbol")
                 /\ \/ Spaces(k + 1, j)
                    \/ AfterSpaces(k + 1) < j /\ Derives[<<"members", AfterSpaces(k + 1), j>>]

Url(j) ==
  \E k \in 5 .. j :
    /\ TextAt(0) \in Schemes /\ Is(1, "Colon") /\ Is(2, "Slash") /\ Is(3, "Slash")
    /\ All(4, k, TokenKind \ {"Spacing", "Newline", "Pipe", "RightCurlyBracket"})
    /\ Spaces(k, j)

\* The characters that a text may hold only with a backslash before them
EscapedInText == {"Pipe", "LeftCurlyBracket"}

\* The destination is the tokens [0, d), and what follows the pipe is the text
Link(d) ==
  /\ Url(d) \/ Derives[<<"reference", 0, d>>]
  /\ \/ d = N
     \/ Is(d, "Pipe") /\ \A i \in d + 1 .. N - 1 : KindAt(i) \in EscapedInText => Escaped(tokens, i + 1)
InheritDoc(d) == d = N /\ (N = 0 \/ Derives[<<"reference", 0, N>>])
Allowed(d) == IF tagName = "link" THEN Link(d) ELSE InheritDoc(d)

(***************************************************************************)
(* Two things that are allowed are rejected.  A text with an escaped pipe  *)
(* or brace: _parseLinkTag() meets the character without asking for the    *)
(* backslash (NodeParser.ts:1128), although its message says "without      *)
(* escaping it".  A reference, or one in brackets, whose first name begins *)
(* with a dollar sign: the kinds that begin a member lack it               *)
(* (NodeParser.ts:1442), although _parseMemberIdentifier() reads it.       *)
(***************************************************************************)
HasEscapedText(d) == \E i \in d + 1 .. N - 1 : KindAt(i) \in EscapedInText

IsInQuotes(i) == Cardinality({k \in 0 .. i - 1 : Is(k, "DoubleQuote")}) % 2 = 1
BeginsReference(i) ==
  LET before == {k \in 0 .. i - 1 : KindAt(k) \notin {"Spacing", "Newline"}} IN
  before = {} \/ KindAt(Max(before)) \in {"PoundSymbol", "LeftSquareBracket"}
HasLeadingDollar(d) ==
  ~Url(d) /\ \E i \in 0 .. d - 1 : Is(i, "DollarSign") /\ ~IsInQuotes(i) /\ BeginsReference(i)

(***************************************************************************)
(* The parser accepts everything that is allowed, but for those two, and   *)
(* nothing else: no lookahead, such as the scan for "#" or the test for a  *)
(* URL, takes tokens from the wrong alternative.  If it throws, then the   *)
(* content ends where a label should be; NodeParser relies on that.        *)
(***************************************************************************)
AcceptsTheGrammar ==
  /\ pc \in Outcomes =>
       (pc # "InlineTag"
          <=> \E d \in 0 .. N : Allowed(d) /\ ~HasEscapedText(d) /\ ~HasLeadingDollar(d))
  /\ pc = "Thrown" => LacksALabel(0, N)
=============================================================================
