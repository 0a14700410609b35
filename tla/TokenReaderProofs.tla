------------------------- MODULE TokenReaderProofs -------------------------
(***************************************************************************)
(* Lemmas about TokenReader, for every token stream: where the loops that  *)
(* skip tokens stop, and what each method of a reader keeps.  The parsers' *)
(* proofs rest on them.                                                    *)
(***************************************************************************)
EXTENDS TokenReader, SequenceTheorems, WellFoundedInduction, TLAPS

\* A set of numbers that is not empty has a smallest one.
LEMMA SmallestElement ==
  ASSUME NEW T \in SUBSET Nat, T # {}
  PROVE  \E m \in T : \A k \in T : m <= k
<1> DEFINE R == OpToRel(<, Nat)
<1>1. IsWellFoundedOn(R, Nat)
  BY NatLessThanWellFounded, Zenon
<1>2. \A x, y \in Nat : x < y => <<x, y>> \in R
  BY DEF OpToRel
<1> HIDE DEF R
<1>3. PICK x \in T : \A y \in T : ~(<<y, x>> \in R)
  BY <1>1, WFMin
<1>4. ASSUME NEW k \in T PROVE x <= k
  <2>1. x \in Nat /\ k \in Nat /\ ~(k < x)
    BY <1>2, <1>3
  <2> QED  BY <2>1
<1> QED  BY <1>4

-----------------------------------------------------------------------------
StreamOK == tokens \in Seq(Token)

\* Words do not look like other kinds, so that no token is taken for the end.
LEMMA TokenFacts ==
  ASSUME StreamOK
  PROVE  /\ Len(tokens) \in Nat
         /\ \A i \in Nat : KindAt(i) \in TokenKind
         /\ \A i \in Nat : i < Len(tokens) <=> KindAt(i) # "EndOfInput"
<1>1. \A t \in Token : KindOf(t) \in TokenKind /\ KindOf(t) # "EndOfInput"
  <2> SUFFICES ASSUME NEW t \in Token PROVE KindOf(t) \in TokenKind /\ KindOf(t) # "EndOfInput"
    OBVIOUS
  <2>1. CASE t \in Words
    BY <2>1 DEF KindOf, TokenKind, MultiCharacterKinds
  <2>2. CASE t \notin Words
    BY <2>2 DEF KindOf, Token, TokenKind
  <2> QED  BY <2>1, <2>2
<1>2. "EndOfInput" \in TokenKind
  BY DEF TokenKind
<1>3. \A i \in Nat : i < Len(tokens) => tokens[i + 1] \in Token
  BY DEF StreamOK
<1> QED  BY <1>1, <1>2, <1>3 DEF KindAt, StreamOK

(***************************************************************************)
(* A loop that reads while the next kind is in S stops, at the end of the  *)
(* stream at the latest, at the first token whose kind is not in S.        *)
(***************************************************************************)
LEMMA SkipStops ==
  ASSUME StreamOK, NEW i \in 0 .. Len(tokens), NEW S, "EndOfInput" \notin S
  PROVE  /\ Skip(i, S) \in i .. Len(tokens)
         /\ KindAt(Skip(i, S)) \notin S
         /\ \A k \in i .. Skip(i, S) - 1 : KindAt(k) \in S
<1> DEFINE T == {j \in i .. Len(tokens) : KindAt(j) \notin S}
<1>1. Len(tokens) \in Nat /\ Len(tokens) \in T
  BY TokenFacts
<1>2. T \in SUBSET Nat
  OBVIOUS
<1>3. PICK m \in T : \A k \in T : m <= k
  BY <1>1, <1>2, SmallestElement
<1>4. m \in i .. Len(tokens) /\ KindAt(m) \notin S /\ \A k \in i .. m - 1 : KindAt(k) \in S
  BY <1>1, <1>3
<1> QED  BY <1>4 DEF Skip

\* A scan for a kind stops at the first token of that kind, or at the end.
LEMMA SkipToStops ==
  ASSUME StreamOK, NEW i \in 0 .. Len(tokens), NEW S
  PROVE  /\ SkipTo(i, S) \in i .. Len(tokens)
         /\ KindAt(SkipTo(i, S)) \in S \union {"EndOfInput"}
         /\ \A k \in i .. SkipTo(i, S) - 1 : KindAt(k) \notin S /\ KindAt(k) # "EndOfInput"
<1> DEFINE U == TokenKind \ (S \union {"EndOfInput"})
<1>1. /\ Skip(i, U) \in i .. Len(tokens)
      /\ KindAt(Skip(i, U)) \notin U
      /\ \A k \in i .. Skip(i, U) - 1 : KindAt(k) \in U
  BY SkipStops
<1>2. Len(tokens) \in Nat /\ KindAt(Skip(i, U)) \in TokenKind
  BY <1>1, TokenFacts
<1> QED  BY <1>1, <1>2 DEF SkipTo

-----------------------------------------------------------------------------
\* Where what a reader has extracted, or will extract, begins
Begin(r) == IF r.excerpts = <<>> THEN r.accumulatedStartIndex ELSE r.excerpts[1][1]

(***************************************************************************)
(* The reader is within the stream, and its excerpts, none of them empty,  *)
(* follow one another up to what is accumulated.                           *)
(***************************************************************************)
ExcerptOK(r, k) ==
  /\ r.excerpts[k][1] < r.excerpts[k][2]
  /\ Begin(r) <= r.excerpts[k][1]
  /\ r.excerpts[k][2] <= r.accumulatedStartIndex
  /\ k > 1 => r.excerpts[k][1] = r.excerpts[k - 1][2]
GoodReader(r) ==
  /\ r \in Reader
  /\ r.accumulatedStartIndex <= r.currentIndex
  /\ r.currentIndex <= Len(tokens)
  /\ \A k \in 1 .. Len(r.excerpts) : ExcerptOK(r, k)
  /\ r.excerpts # <<>> => r.excerpts[Len(r.excerpts)][2] = r.accumulatedStartIndex

\* s is a good reader that has read on from r, and kept its excerpts
Advances(r, s) ==
  /\ GoodReader(s)
  /\ r.currentIndex <= s.currentIndex
  /\ r.accumulatedStartIndex <= s.accumulatedStartIndex
  /\ Begin(s) = Begin(r)
  /\ Len(r.excerpts) <= Len(s.excerpts)
  /\ \A k \in 1 .. Len(r.excerpts) : s.excerpts[k] = r.excerpts[k]

\* What the types of a good reader's fields are
LEMMA ReaderFacts ==
  ASSUME StreamOK, NEW r, GoodReader(r)
  PROVE  /\ r \in Reader /\ r.currentIndex \in 0 .. Len(tokens) /\ Len(tokens) \in Nat
         /\ r.accumulatedStartIndex \in 0 .. r.currentIndex
         /\ r.excerpts \in Seq(Nat \X Nat) /\ Len(r.excerpts) \in Nat
         /\ \A k \in 1 .. Len(r.excerpts) :
              /\ r.excerpts[k] = <<r.excerpts[k][1], r.excerpts[k][2]>>
              /\ r.excerpts[k][1] \in Nat /\ r.excerpts[k][2] \in Nat
              /\ r.excerpts[k][1] < r.excerpts[k][2]
              /\ r.excerpts[k][2] <= r.accumulatedStartIndex
              /\ Begin(r) <= r.excerpts[k][1]
         /\ Begin(r) \in 0 .. r.accumulatedStartIndex
         /\ r.excerpts # <<>> => Begin(r) = r.excerpts[1][1] /\ Begin(r) < r.accumulatedStartIndex
         /\ r.excerpts = <<>> => Begin(r) = r.accumulatedStartIndex
         /\ r.excerpts = <<>> <=> Len(r.excerpts) = 0
<1>1. /\ r \in Reader /\ Len(tokens) \in Nat /\ r.currentIndex \in Nat
      /\ r.accumulatedStartIndex \in Nat /\ r.excerpts \in Seq(Nat \X Nat)
  BY DEF GoodReader, Reader, StreamOK
<1>2. r.currentIndex \in 0 .. Len(tokens) /\ r.accumulatedStartIndex \in 0 .. r.currentIndex
  BY <1>1 DEF GoodReader
<1>3. Len(r.excerpts) \in Nat /\ (r.excerpts = <<>> <=> Len(r.excerpts) = 0)
  BY <1>1, EmptySeq
<1>4. ASSUME NEW k \in 1 .. Len(r.excerpts)
      PROVE  /\ r.excerpts[k] = <<r.excerpts[k][1], r.excerpts[k][2]>>
             /\ r.excerpts[k][1] \in Nat /\ r.excerpts[k][2] \in Nat
             /\ r.excerpts[k][1] < r.excerpts[k][2]
             /\ r.excerpts[k][2] <= r.accumulatedStartIndex
             /\ Begin(r) <= r.excerpts[k][1]
  <2>1. r.excerpts[k] \in Nat \X Nat
    BY <1>1, ElementOfSeq
  <2> QED  BY <2>1 DEF GoodReader, ExcerptOK
<1>5. CASE r.excerpts = <<>>
  BY <1>1, <1>2, <1>3, <1>4, <1>5 DEF Begin
<1>6. CASE r.excerpts # <<>>
  <2>1. 1 \in 1 .. Len(r.excerpts) /\ Begin(r) = r.excerpts[1][1]
    BY <1>3, <1>6 DEF Begin
  <2>2. Begin(r) < r.accumulatedStartIndex /\ Begin(r) \in 0 .. r.accumulatedStartIndex
    BY <1>1, <1>4, <2>1
  <2> QED  BY <1>1, <1>2, <1>3, <1>4, <1>6, <2>1, <2>2
<1> QED  BY <1>5, <1>6

\* A reader that stays where it is has advanced
LEMMA AdvancesReflexive ==
  ASSUME StreamOK, NEW r, GoodReader(r)
  PROVE  Advances(r, r)
<1> QED  BY ReaderFacts DEF Advances

\* ... and so has one that advanced twice.
LEMMA AdvancesTransitive ==
  ASSUME StreamOK, NEW r, NEW s, NEW t, GoodReader(r), Advances(r, s), Advances(s, t)
  PROVE  Advances(r, t)
<1>1. GoodReader(s) /\ GoodReader(t)
  BY DEF Advances
<1>2. /\ r.currentIndex \in Int /\ s.currentIndex \in Int /\ t.currentIndex \in Int
      /\ r.accumulatedStartIndex \in Int /\ s.accumulatedStartIndex \in Int
      /\ t.accumulatedStartIndex \in Int
      /\ Len(r.excerpts) \in Nat /\ Len(s.excerpts) \in Nat /\ Len(t.excerpts) \in Nat
  BY <1>1, ReaderFacts
<1> QED  BY <1>1, <1>2 DEF Advances

\* Reading tokens moves the index and nothing else.
LEMMA ReadToAdvances ==
  ASSUME StreamOK, NEW r, GoodReader(r), NEW j \in r.currentIndex .. Len(tokens)
  PROVE  /\ Advances(r, ReadTo(r, j))
         /\ ReadTo(r, j).currentIndex = j
         /\ ReadTo(r, j).accumulatedStartIndex = r.accumulatedStartIndex
         /\ ReadTo(r, j).excerpts = r.excerpts
<1> DEFINE s == ReadTo(r, j)
<1>1. /\ r \in Reader /\ j \in Nat /\ r.currentIndex \in Nat /\ r.accumulatedStartIndex \in Nat
      /\ r.accumulatedStartIndex <= r.currentIndex /\ Len(tokens) \in Nat
      /\ Len(r.excerpts) \in Nat
  BY ReaderFacts
<1>2. /\ s \in Reader /\ s.currentIndex = j
      /\ s.accumulatedStartIndex = r.accumulatedStartIndex /\ s.excerpts = r.excerpts
  BY <1>1 DEF ReadTo, Reader
<1> HIDE DEF s
<1>3. Begin(s) = Begin(r)
  BY <1>2 DEF Begin
<1>4. GoodReader(s)
  BY <1>1, <1>2, <1>3 DEF GoodReader, ExcerptOK
<1>5. Advances(r, s)
  BY <1>1, <1>2, <1>3, <1>4 DEF Advances
<1> QED  BY <1>2, <1>5 DEF s

\* Extracting what is accumulated appends one excerpt, which ends where the reader is.
LEMMA ExtractAdvances ==
  ASSUME StreamOK, NEW r, GoodReader(r), r.accumulatedStartIndex < r.currentIndex
  PROVE  /\ Advances(r, Extract(r))
         /\ Extract(r).currentIndex = r.currentIndex
         /\ Extract(r).accumulatedStartIndex = r.currentIndex
         /\ Len(Extract(r).excerpts) = Len(r.excerpts) + 1
         /\ Extract(r).excerpts[Len(r.excerpts) + 1]
              = <<r.accumulatedStartIndex, r.currentIndex>>
         /\ Extract(r).excerpts # <<>>
<1> DEFINE s == Extract(r)
           e == r.excerpts
           n == Len(e)
           x == <<r.accumulatedStartIndex, r.currentIndex>>
           f == Append(e, x)
<1>1. /\ r \in Reader /\ r.currentIndex \in Nat /\ r.accumulatedStartIndex \in Nat
      /\ Len(tokens) \in Nat /\ r.currentIndex <= Len(tokens)
      /\ n \in Nat /\ e \in Seq(Nat \X Nat) /\ (e = <<>> <=> n = 0)
  BY ReaderFacts
<1>2. x \in Nat \X Nat /\ x[1] = r.accumulatedStartIndex /\ x[2] = r.currentIndex
  BY <1>1
<1>3. s = [r EXCEPT !.accumulatedStartIndex = r.currentIndex, !.excerpts = f]
  BY DEF Extract
<1> HIDE DEF x
<1>4. /\ f \in Seq(Nat \X Nat) /\ Len(f) = n + 1 /\ f[n + 1] = x
      /\ \A k \in 1 .. n : f[k] = e[k]
      /\ f # <<>>
  <2> DEFINE P == Nat \X Nat
  <2>1. e \in Seq(P) /\ x \in P /\ Len(e) \in Nat
    BY <1>1, <1>2
  <2> HIDE DEF P, e
  <2>2. /\ Append(e, x) \in Seq(P) /\ Append(e, x) # <<>> /\ Len(Append(e, x)) = Len(e) + 1
        /\ \A k \in 1 .. Len(e) : Append(e, x)[k] = e[k]
        /\ Append(e, x)[Len(e) + 1] = x
    BY <2>1, AppendProperties
  <2> QED  BY <2>2 DEF P
<1> HIDE DEF f, s
<1>5. /\ s \in Reader /\ s.currentIndex = r.currentIndex
      /\ s.accumulatedStartIndex = r.currentIndex /\ s.excerpts = f
  BY <1>1, <1>3, <1>4 DEF Reader
<1> HIDE DEF n, e
<1>6. Begin(s) = Begin(r) /\ Begin(r) \in 0 .. r.accumulatedStartIndex
  <2>1. Begin(s) = f[1][1]
    BY <1>4, <1>5 DEF Begin
  <2>2. CASE n = 0
    BY <1>1, <1>2, <1>4, <2>1, <2>2, ReaderFacts DEF Begin, e
  <2>3. CASE n # 0
    BY <1>1, <1>4, <2>1, <2>3, ReaderFacts DEF Begin, e
  <2> QED  BY <2>2, <2>3
<1>7. ASSUME NEW k \in 1 .. n + 1 PROVE ExcerptOK(s, k)
  <2>1. CASE k = n + 1
    <3>1. f[k] = x
      BY <1>4, <2>1
    <3>2. k > 1 => f[k - 1] = e[n] /\ e[n][2] = r.accumulatedStartIndex
      <4>1. k > 1 => k - 1 = n /\ n \in 1 .. n /\ e # <<>>
        BY <1>1, <2>1
      <4> QED  BY <1>4, <4>1 DEF GoodReader, n, e
    <3> QED  BY <1>1, <1>2, <1>5, <1>6, <3>1, <3>2 DEF ExcerptOK
  <2>2. CASE k # n + 1
    <3>1. k \in 1 .. n
      BY <1>1, <2>2
    <3>2. f[k] = e[k] /\ (k > 1 => f[k - 1] = e[k - 1])
      <4>1. k > 1 => k - 1 \in 1 .. n
        BY <1>1, <3>1
      <4> QED  BY <1>4, <3>1, <4>1
    <3>3. /\ e[k][1] < e[k][2] /\ Begin(r) <= e[k][1] /\ e[k][2] <= r.accumulatedStartIndex
          /\ k > 1 => e[k][1] = e[k - 1][2]
      BY <3>1 DEF GoodReader, ExcerptOK, n, e
    <3>4. e[k][2] \in Nat /\ e[k][1] \in Nat
      BY <3>1, ReaderFacts DEF n, e
    <3> QED  BY <1>1, <1>5, <1>6, <3>2, <3>3, <3>4 DEF ExcerptOK
  <2> QED  BY <2>1, <2>2
<1>8. GoodReader(s)
  BY <1>1, <1>2, <1>4, <1>5, <1>7 DEF GoodReader
<1>9. Advances(r, s)
  BY <1>1, <1>4, <1>5, <1>6, <1>8 DEF Advances, n, e
<1> QED  BY <1>4, <1>5, <1>9 DEF s, x, n, e

\* ... and does nothing when nothing is accumulated and the caller looks first.
LEMMA TryExtractAdvances ==
  ASSUME StreamOK, NEW r, GoodReader(r)
  PROVE  /\ Advances(r, TryExtract(r))
         /\ TryExtract(r).currentIndex = r.currentIndex
         /\ TryExtract(r).accumulatedStartIndex = r.currentIndex
<1>1. r.currentIndex \in Nat /\ r.accumulatedStartIndex \in 0 .. r.currentIndex
  BY ReaderFacts
<1>2. CASE IsEmpty(r)
  BY <1>2, AdvancesReflexive DEF TryExtract, IsEmpty
<1>3. CASE ~IsEmpty(r)
  <2>1. r.accumulatedStartIndex < r.currentIndex
    BY <1>1, <1>3 DEF IsEmpty
  <2> QED  BY <1>3, <2>1, ExtractAdvances DEF TryExtract
<1> QED  BY <1>2, <1>3

\* Reading some tokens that are known to exist and extracting them
LEMMA ReadAndExtract ==
  ASSUME StreamOK, NEW r, GoodReader(r),
         NEW j \in r.currentIndex .. Len(tokens), r.accumulatedStartIndex < j
  PROVE  /\ Advances(r, Extract(ReadTo(r, j)))
         /\ Extract(ReadTo(r, j)).currentIndex = j
         /\ Extract(ReadTo(r, j)).accumulatedStartIndex = j
         /\ Len(Extract(ReadTo(r, j)).excerpts) = Len(r.excerpts) + 1
         /\ Extract(ReadTo(r, j)).excerpts[Len(r.excerpts) + 1] = <<r.accumulatedStartIndex, j>>
         /\ Extract(ReadTo(r, j)).excerpts # <<>>
<1> DEFINE s == ReadTo(r, j)
<1>1. /\ Advances(r, s) /\ s.currentIndex = j /\ s.excerpts = r.excerpts
      /\ s.accumulatedStartIndex = r.accumulatedStartIndex
  BY ReadToAdvances
<1>2. GoodReader(s)
  BY <1>1 DEF Advances
<1> HIDE DEF s
<1>3. /\ Advances(s, Extract(s)) /\ Extract(s).currentIndex = j
      /\ Extract(s).accumulatedStartIndex = j
      /\ Len(Extract(s).excerpts) = Len(r.excerpts) + 1
      /\ Extract(s).excerpts[Len(r.excerpts) + 1] = <<r.accumulatedStartIndex, j>>
      /\ Extract(s).excerpts # <<>>
  BY <1>1, <1>2, ExtractAdvances
<1>4. Advances(r, Extract(s))
  BY <1>1, <1>3, AdvancesTransitive
<1> QED  BY <1>3, <1>4 DEF s

\* The spacing after a part is read and extracted, if there is any.
LEMMA SpacingAdvances ==
  ASSUME StreamOK, NEW r, GoodReader(r)
  PROVE  /\ Advances(r, TryReadSpacingAndNewlines(r))
         /\ TryReadSpacingAndNewlines(r).accumulatedStartIndex
              = TryReadSpacingAndNewlines(r).currentIndex
<1> DEFINE j == Skip(r.currentIndex, {"Spacing", "Newline"})
           s == ReadTo(r, j)
<1>1. r.currentIndex \in 0 .. Len(tokens)
  BY ReaderFacts
<1>2. j \in r.currentIndex .. Len(tokens)
  BY <1>1, SkipStops
<1> HIDE DEF j
<1>3. Advances(r, s)
  BY <1>2, ReadToAdvances
<1>4. GoodReader(s)
  BY <1>3 DEF Advances
<1> HIDE DEF s
<1>5. Advances(s, TryExtract(s))
      /\ TryExtract(s).accumulatedStartIndex = TryExtract(s).currentIndex
  BY <1>4, TryExtractAdvances
<1>6. Advances(r, TryExtract(s))
  BY <1>3, <1>5, AdvancesTransitive
<1>7. TryReadSpacingAndNewlines(r) = TryExtract(s)
  BY DEF TryReadSpacingAndNewlines, ReadWhile, s, j
<1> QED  BY <1>5, <1>6, <1>7

\* Giving up what is only accumulated
LEMMA BacktrackToAccumulated ==
  ASSUME StreamOK, NEW r, GoodReader(r)
  PROVE  LET s == Backtrack(r, r.accumulatedStartIndex, Len(r.excerpts)) IN
         /\ GoodReader(s) /\ s.excerpts = r.excerpts /\ Begin(s) = Begin(r)
         /\ s.currentIndex = r.accumulatedStartIndex
         /\ s.accumulatedStartIndex = r.accumulatedStartIndex
<1> DEFINE s == Backtrack(r, r.accumulatedStartIndex, Len(r.excerpts))
<1>1. /\ r.accumulatedStartIndex \in Nat /\ r.accumulatedStartIndex <= Len(tokens)
      /\ r.excerpts \in Seq(Nat \X Nat)
  BY ReaderFacts
<1>2. /\ s \in Reader /\ s.excerpts = r.excerpts
      /\ s.currentIndex = r.accumulatedStartIndex
      /\ s.accumulatedStartIndex = r.accumulatedStartIndex
  BY <1>1, SubSeqFull DEF Backtrack, Reader
<1> HIDE DEF s
<1>3. Begin(s) = Begin(r)
  BY <1>2 DEF Begin
<1>4. GoodReader(s)
  BY <1>1, <1>2, <1>3 DEF GoodReader, ExcerptOK
<1> QED  BY <1>2, <1>3, <1>4 DEF s

\* Giving up everything after the first excerpt
LEMMA BacktrackToFirst ==
  ASSUME StreamOK, NEW r, GoodReader(r), r.excerpts # <<>>
  PROVE  LET s == Backtrack(r, r.excerpts[1][2], 1) IN
         /\ GoodReader(s) /\ s.excerpts = <<r.excerpts[1]>> /\ Begin(s) = Begin(r)
         /\ s.currentIndex = r.excerpts[1][2] /\ s.accumulatedStartIndex = r.excerpts[1][2]
<1> DEFINE s == Backtrack(r, r.excerpts[1][2], 1)
           end == r.excerpts[1][2]
<1>1. /\ 1 \in 1 .. Len(r.excerpts) /\ r.excerpts \in Seq(Nat \X Nat)
      /\ r.excerpts[1][1] \in Nat /\ end \in Nat /\ r.excerpts[1][1] < end
      /\ end <= r.accumulatedStartIndex /\ r.accumulatedStartIndex \in 0 .. r.currentIndex
      /\ r.currentIndex \in 0 .. Len(tokens) /\ Len(tokens) \in Nat
  BY ReaderFacts
<1>2. r.excerpts[1] \in Nat \X Nat
  BY <1>1, ElementOfSeq
<1>3. SubSeq(r.excerpts, 1, 1) = <<r.excerpts[1]>>
  <2> DEFINE e == r.excerpts
             x == e[1]
  <2>1. x \in Nat \X Nat /\ e \in Seq(Nat \X Nat) /\ 1 \in 1 .. Len(e)
    BY <1>1, <1>2
  <2> HIDE DEF e, x
  <2>2. SubSeq(e, 1, 1) = SubSeq(e, 1, 1 - 1) \o <<e[1]>>
    BY <2>1, SubSeqRecursiveSecond
  <2>3. SubSeq(e, 1, 1 - 1) = <<>>
    BY SubSeqEmpty
  <2>4. <<x>> \in Seq(Nat \X Nat)
    BY <2>1
  <2>5. <<>> \o <<x>> = <<x>>
    BY <2>4, ConcatEmptySeq
  <2> QED  BY <2>2, <2>3, <2>5 DEF e, x
<1>4. /\ s.excerpts = <<r.excerpts[1]>> /\ s.currentIndex = end /\ s.accumulatedStartIndex = end
  BY <1>1, <1>3 DEF Backtrack
<1>5. s \in Reader
  BY <1>1, <1>2, <1>4 DEF Backtrack, Reader
<1> HIDE DEF s
<1>6. Begin(s) = r.excerpts[1][1] /\ Begin(r) = r.excerpts[1][1]
  BY <1>1, <1>4, ReaderFacts DEF Begin
<1>7. GoodReader(s)
  BY <1>1, <1>4, <1>5, <1>6 DEF GoodReader, ExcerptOK
<1> QED  BY <1>4, <1>6, <1>7 DEF s

\* Giving up a construct: its first tokens, at least one, are read again and extracted.
LEMMA BacktrackToBegin ==
  ASSUME StreamOK, NEW r, GoodReader(r),
         NEW j \in Begin(r) + 1 .. Len(tokens)
  PROVE  LET s == Extract(ReadTo(Backtrack(r, Begin(r), 0), j)) IN
         /\ GoodReader(s) /\ s.excerpts = <<<<Begin(r), j>>>> /\ Begin(s) = Begin(r)
         /\ s.currentIndex = j /\ s.accumulatedStartIndex = j
<1> DEFINE b == Backtrack(r, Begin(r), 0)
<1>1. /\ Begin(r) \in 0 .. r.accumulatedStartIndex /\ r.accumulatedStartIndex \in Nat
      /\ r.currentIndex \in 0 .. Len(tokens) /\ Len(tokens) \in Nat
      /\ r.accumulatedStartIndex \in 0 .. r.currentIndex
  BY ReaderFacts
<1>2. b.excerpts = <<>> /\ b.currentIndex = Begin(r) /\ b.accumulatedStartIndex = Begin(r)
  BY <1>1, SubSeqEmpty DEF Backtrack
<1>3. b \in Reader
  BY <1>1, <1>2, EmptySeq DEF Backtrack, Reader
<1> HIDE DEF b
<1>4. GoodReader(b)
  BY <1>1, <1>2, <1>3 DEF GoodReader
<1>5. b.accumulatedStartIndex < j /\ j \in b.currentIndex .. Len(tokens) /\ Len(b.excerpts) = 0
  BY <1>1, <1>2
<1> DEFINE s == Extract(ReadTo(b, j))
<1>6. /\ Advances(b, s) /\ s.currentIndex = j /\ s.accumulatedStartIndex = j
      /\ Len(s.excerpts) = Len(b.excerpts) + 1
      /\ s.excerpts[Len(b.excerpts) + 1] = <<b.accumulatedStartIndex, j>>
  BY <1>4, <1>5, ReadAndExtract
<1> HIDE DEF s
<1>7. /\ GoodReader(s) /\ Begin(s) = Begin(r)
      /\ Len(s.excerpts) = 1 /\ s.excerpts[1] = <<Begin(r), j>>
  BY <1>2, <1>5, <1>6 DEF Advances, Begin
<1>8. s.excerpts = <<<<Begin(r), j>>>>
  <2>1. s.excerpts \in Seq(Nat \X Nat) /\ <<Begin(r), j>> \in Nat \X Nat
    BY <1>1, <1>7, ReaderFacts
  <2>2. <<<<Begin(r), j>>>> \in Seq(Nat \X Nat)
    BY <2>1
  <2> QED  BY <1>7, <2>1, <2>2, SeqEqual
<1> QED  BY <1>6, <1>7, <1>8 DEF s, b
=============================================================================
