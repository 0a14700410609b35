------------------------ MODULE DeclarationGrammar ------------------------
(***************************************************************************)
(* The texts that are declaration references, as a grammar over intervals  *)
(* of the text: the reference definition that DeclarationParser is checked *)
(* against.  It is DeclarationReference.grammarkdown, rule by rule.        *)
(* [i, j] is the text from i to j, which is empty when j = i - 1.          *)
(*                                                                         *)
(* The parser departs from that file.  Each departure has a name, and each *)
(* rule takes the set "also" of those that it allows: {} is the grammar as *)
(* it is written.                                                          *)
(***************************************************************************)
EXTENDS DeclarationCalls

Departures ==
  {"SourceFirst",      \* of its two readings, a text has the one with a module source, or none
   "NoComponent",      \* behind a navigation the component may be missing
   "NoSymbol",         \* ... and so may the symbol behind "!" and behind a source with "~"
   "SeveralStrings",   \* a module source may be strings in a row
   "Spacing",          \* white space in components, line breaks in these and in sources
   "LargeCodePoint"}   \* "u{...}" may have any value

AllOf(i, j, ok(_)) == i <= j /\ \A k \in i .. j : ok(text[k])
IsNumber(i, j) == AllOf(i, j, LAMBDA ch : ch \in DecimalDigit)

\* The value of hexadecimal digits
DigitValue == ("0" :> 0) @@ ("1" :> 1) @@ ("a" :> 10) @@ ("b" :> 11)
IsCodePoint(i, j, also) ==
  /\ AllOf(i, j, LAMBDA ch : ch \in HexDigit)
  /\ \/ "LargeCodePoint" \in also
     \/ FoldLeft(LAMBDA n, ch : 16 * n + DigitValue[ch], 0, SubSeq(text, i, j)) <= 1114111

\* One character of a string, or one escape sequence
StringUnit(i, j, also) ==
  LET hex(first, last) == AllOf(first, last, LAMBDA ch : ch \in HexDigit)
      ch == text[i + 1]
  IN \/ i = j /\ text[i] \notin {Quote, Backslash, LF}
     \/ /\ i < j /\ text[i] = Backslash
        /\ \/ j = i + 1 /\ (ch \in SingleEscapes \/ ch \notin EscapeCharacters \union {LF})
           \/ j = i + 1 /\ ch = "0" /\ At(text, j + 1) \notin DecimalDigit
           \/ j = i + 3 /\ ch = "x" /\ hex(i + 2, j)
           \/ j = i + 5 /\ ch = "u" /\ hex(i + 2, j)
           \/ /\ ch = "u" /\ At(text, i + 2) = "{" /\ text[j] = "}"
              /\ IsCodePoint(i + 3, j - 1, also)
RECURSIVE StringUnits(_, _, _)
StringUnits(i, j, also) ==
  i = j + 1 \/ \E k \in i .. j : StringUnit(i, k, also) /\ StringUnits(k + 1, j, also)
IsString(i, j, also) ==
  i < j /\ text[i] = Quote /\ text[j] = Quote /\ StringUnits(i + 1, j - 1, also)

RECURSIVE IsModuleSource(_, _, _)
IsModuleSource(i, j, also) ==
  \/ IsString(i, j, also)
  \/ AllOf(i, j, LAMBDA ch : ch \notin {Quote, "!"} /\ (ch # LF \/ "Spacing" \in also))
  \/ /\ "SeveralStrings" \in also /\ At(text, i) = Quote
     /\ \E k \in i .. j - 1 : /\ IsString(i, k, also)
                            /\ text[k + 1] = Quote /\ IsModuleSource(k + 1, j, also)

IsMeaningText(i, j) ==
  LET overloaded(first) == At(text, first) = "(" /\ text[j] = ")" /\ IsNumber(first + 1, j - 1)
  IN /\ i < j /\ text[i] = ":"
     /\ \/ IsNumber(i + 1, j) \/ overloaded(i + 1)
        \/ text[i + 1] \in Meanings /\ (j = i + 1 \/ overloaded(i + 2))

RECURSIVE IsReference(_, _, _)
IsComponent(i, j, also) ==
  \/ AllOf(i, j, LAMBDA ch : /\ ch \notin Punctuators \union {Quote}
                             /\ ch \notin {SP, LF} \/ "Spacing" \in also)
  \/ IsString(i, j, also)
  \/ i < j /\ text[i] = "[" /\ text[j] = "]" /\ IsReference(i + 1, j - 1, also)
RECURSIVE IsPath(_, _, _)
IsPath(i, j, also) ==
  \/ IsComponent(i, j, also)
  \/ \E k \in i + 1 .. j :
       /\ text[k] \in {Exports, Members, Locals}
       /\ IsPath(i, k - 1, also)
       /\ IsComponent(k + 1, j, also) \/ (k = j /\ "NoComponent" \in also)
IsSymbol(i, j, also) ==
  \/ IsPath(i, j, also) \/ IsMeaningText(i, j)
  \/ \E k \in i + 1 .. j : IsPath(i, k - 1, also) /\ IsMeaningText(k, j)

\* The references with a module source that ends before the "!" at k, and those without one
IsSourced(i, k, j, also) ==
  LET symbol(first) == IsSymbol(first, j, also) \/ (first = j + 1 /\ "NoSymbol" \in also)
  IN \/ k = j \/ IsSymbol(k + 1, j, also)
     \/ At(text, k + 1) = "~" /\ k < j /\ symbol(k + 2)
IsUnsourced(i, j, also) ==
  \/ i = j + 1 \/ IsSymbol(i, j, also)
  \/ i <= j /\ text[i] = "!" /\ (IsSymbol(i + 1, j, also) \/ (i = j /\ "NoSymbol" \in also))

\* If module sources come first, the first "!" that can end one does, even one behind j
IsReference(i, j, also) ==
  LET ends(last) == {k \in i + 1 .. last : text[k] = "!" /\ IsModuleSource(i, k - 1, also)}
      all == ends(Len(text))
  IN IF "SourceFirst" \in also /\ all # {}
       THEN Min(all) <= j /\ IsSourced(i, Min(all), j, also)
     ELSE IsUnsourced(i, j, also) \/ \E k \in ends(j) : IsSourced(i, k, j, also)

\* A "!" within a bracketed component ends a module source that begins before the bracket:
\* at the start of the text, or behind an outer bracket
IsBracketCaptured ==
  \E i, k, m \in DOMAIN text :
    /\ i = 1 \/ text[i - 1] = "["
    /\ i <= k /\ k < m /\ text[k] = "[" /\ text[m] = "!"
    /\ \A q \in i .. m - 1 : text[q] \notin {Quote, "!"}

(***************************************************************************)
(* parse() accepts every text that DeclarationReference.grammarkdown       *)
(* derives, whatever the order in which it looks ahead, gives up looking   *)
(* and goes on; except that it may reject one in which a module source is  *)
(* captured from within brackets.  What it accepts besides is exactly what *)
(* the departures from that grammar add, and nothing else.                 *)
(***************************************************************************)
AcceptsTheGrammar ==
  (pc = "done" /\ printed = <<>>) =>
    /\ IsReference(1, Len(text), {}) => reference # <<>> \/ IsBracketCaptured
    /\ (reference # <<>>) <=> IsReference(1, Len(text), Departures)
=============================================================================
