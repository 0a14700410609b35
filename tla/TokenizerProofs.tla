-------------------------- MODULE TokenizerProofs --------------------------
(***************************************************************************)
(* Proofs about Tokenizer, for all texts and all lists of lines: the       *)
(* tokens tile the lines, and are what a reader of the text would cut.     *)
(***************************************************************************)
EXTENDS Tokenizer, TLAPS

InputOK == IsLines(buffer, lines)
Inv == TypeOK /\ InputOK /\ LocalsFollow /\ TokensTileTheLines

\* Nothing of the text has been read.
Unread ==
  /\ lineCount = 0 /\ bufferIndex = 0 /\ tokenKind = "none" /\ tokenPos = 0
  /\ tokens = <<>> /\ pc = "NextLine"

\* The invariant holds before anything is read
LEMMA UnreadInv ==
  ASSUME Unread, buffer \in Seq(CharacterKinds), lines \in Seq(LineRange), InputOK
  PROVE  Inv
<1>1. TypeOK
  BY DEF Unread, TypeOK
<1>2. LocalsFollow /\ TokensTileTheLines
  BY DEF Unread, LocalsFollow, TokensTileTheLines, LastPushed, Previous, NewToken
<1> QED  BY <1>1, <1>2 DEF Inv

\* ... which is how readTokens() begins.
LEMMA InitInv == Init => Inv
<1> SUFFICES ASSUME Init PROVE Inv
  OBVIOUS
<1>1. PICK d \in Documents : buffer = d.buffer /\ lines = d.lines
  BY DEF Init
<1>2. /\ buffer \in Seq(CharacterKinds) /\ lines \in Seq(LineRange) /\ InputOK
  BY <1>1, DocumentsAssumption DEF InputOK
<1> QED  BY <1>2, UnreadInv DEF Init, Unread

\* What the types say about the line being read
LEMMA LineFacts ==
  ASSUME TypeOK, InputOK, lineCount < Len(lines)
  PROVE  /\ line[1] \in Nat /\ line[2] \in Nat /\ line[1] <= line[2] /\ line[2] <= Len(buffer)
         /\ Len(buffer) \in Nat /\ lineCount \in Nat /\ lineCount + 1 \in 1 .. Len(lines)
         /\ \A i \in line[1] .. line[2] - 1 : buffer[i + 1] \in CharacterKinds \ {"Newline"}
<1>1. lineCount + 1 \in 1 .. Len(lines) /\ Len(lines) \in Nat /\ lineCount \in Nat
  BY DEF TypeOK
<1>2. line \in LineRange
  BY <1>1 DEF TypeOK, line
<1>3. /\ line[1] <= line[2] /\ line[2] <= Len(buffer)
      /\ \A i \in line[1] .. line[2] - 1 : buffer[i + 1] # "Newline"
  BY <1>1 DEF InputOK, IsLines, line
<1>4. Len(buffer) \in Nat /\ \A i \in 1 .. Len(buffer) : buffer[i] \in CharacterKinds
  BY DEF TypeOK
<1> QED  BY <1>1, <1>2, <1>3, <1>4 DEF LineRange

\* What a new token has
LEMMA NewTokenType ==
  ASSUME NEW kind \in TokenKind, NEW pos \in Nat, NEW end \in Nat, NEW number \in Nat
  PROVE  /\ NewToken(kind, pos, end, number) \in TokenRange
         /\ NewToken(kind, pos, end, number).kind = kind
         /\ NewToken(kind, pos, end, number).pos = pos
         /\ NewToken(kind, pos, end, number).end = end
         /\ NewToken(kind, pos, end, number).line = number
  BY DEF NewToken, TokenRange

\* A token that follows the last one extends the tiling
LEMMA AppendTiles ==
  ASSUME NEW s \in Seq(TokenRange), NEW t \in TokenRange,
         \A k \in 1 .. Len(s) : s[k].kind # "EndOfInput" => Follows(Previous(s, k), s[k]),
         t.kind # "EndOfInput" => Follows(Previous(s, Len(s) + 1), t)
  PROVE  /\ Append(s, t) \in Seq(TokenRange)
         /\ \A k \in 1 .. Len(Append(s, t)) :
              Append(s, t)[k].kind # "EndOfInput"
                => Follows(Previous(Append(s, t), k), Append(s, t)[k])
         /\ Previous(Append(s, t), Len(Append(s, t)) + 1) = t
<1> DEFINE u == Append(s, t)
<1>1. /\ u \in Seq(TokenRange) /\ Len(s) \in Nat /\ Len(u) = Len(s) + 1
      /\ u[Len(s) + 1] = t /\ \A k \in 1 .. Len(s) : u[k] = s[k]
  OBVIOUS
<1> HIDE DEF u
<1>2. \A k \in 1 .. Len(s) + 1 : Previous(u, k) = Previous(s, k)
  BY <1>1 DEF Previous
<1>3. Previous(u, Len(u) + 1) = t
  BY <1>1 DEF Previous
<1>4. ASSUME NEW k \in 1 .. Len(u), u[k].kind # "EndOfInput"
      PROVE  Follows(Previous(u, k), u[k])
  <2>1. CASE k = Len(s) + 1
    BY <1>1, <1>2, <1>4, <2>1
  <2>2. CASE k \in 1 .. Len(s)
    <3>1. u[k] = s[k] /\ Previous(u, k) = Previous(s, k) /\ s[k].kind # "EndOfInput"
      BY <1>1, <1>2, <1>4, <2>2
    <3> QED  BY <2>2, <3>1
  <2> QED  BY <1>1, <2>1, <2>2
<1> QED  BY <1>1, <1>3, <1>4 DEF u

\* A character of a line is not a newline.
LEMMA CharacterFacts ==
  ASSUME TypeOK, InputOK, lineCount < Len(lines), bufferIndex < line[2], line[1] <= bufferIndex
  PROVE  characterKind \in CharacterKinds \ {"Newline"}
<1>1. bufferIndex \in Nat /\ bufferIndex \in line[1] .. line[2] - 1
  BY LineFacts DEF TypeOK
<1> QED  BY <1>1, LineFacts DEF characterKind

\* The token that is complete, if there is one, extends the tiling
LEMMA CompletedTiles ==
  ASSUME Inv, pc = "Line"
  PROVE  /\ Completed \in Seq(TokenRange)
         /\ \A k \in 1 .. Len(Completed) :
              Completed[k].kind # "EndOfInput"
                => Follows(Previous(Completed, k), Completed[k])
         /\ tokenKind = "none" => Completed = tokens
         /\ tokenKind # "none" =>
              Previous(Completed, Len(Completed) + 1)
                = NewToken(tokenKind, tokenPos, bufferIndex, lineCount + 1)
<1> DEFINE t == NewToken(tokenKind, tokenPos, bufferIndex, lineCount + 1)
<1>1. CASE tokenKind = "none"
  BY <1>1 DEF Inv, TypeOK, TokensTileTheLines, Completed
<1>2. CASE tokenKind # "none"
  <2>1. t \in TokenRange
    BY <1>2, NewTokenType DEF Inv, TypeOK, CharacterKinds
  <2>2. Follows(Previous(tokens, Len(tokens) + 1), t)
    BY <1>2 DEF Inv, LocalsFollow, LastPushed
  <2>3. tokens \in Seq(TokenRange)
    BY DEF Inv, TypeOK
  <2>4. Completed = Append(tokens, t)
    BY <1>2 DEF Completed
  <2> HIDE DEF t
  <2>5. /\ Append(tokens, t) \in Seq(TokenRange)
        /\ \A k \in 1 .. Len(Append(tokens, t)) :
              Append(tokens, t)[k].kind # "EndOfInput"
                => Follows(Previous(Append(tokens, t), k), Append(tokens, t)[k])
        /\ Previous(Append(tokens, t), Len(Append(tokens, t)) + 1) = t
    BY <2>1, <2>2, <2>3, AppendTiles DEF Inv, TokensTileTheLines
  <2> QED  BY <1>2, <2>4, <2>5 DEF t
<1> QED  BY <1>1, <1>2

\* A token is pushed where the last one ended, and a line ends with a newline.
LEMMA StepInv == Inv /\ [Next]_vars => Inv'
<1> SUFFICES ASSUME Inv, [Next]_vars PROVE Inv'
  OBVIOUS
<1>a. TypeOK /\ InputOK /\ LocalsFollow /\ TokensTileTheLines
  BY DEF Inv
<1>b. InputOK'
  BY <1>a DEF Next, BeginLine, AppendCharacter, StartToken, FinishLine, PushEndOfInput, input,
              vars, InputOK, IsLines
<1>1. CASE BeginLine
  <2>1. lineCount < Len(lines) /\ line' = line
    BY <1>1 DEF BeginLine, input, line
  <2>2. line[1] \in Nat /\ line[2] \in Nat /\ line[1] <= line[2]
    BY <1>a, <2>1, LineFacts
  <2>3. TypeOK'
    BY <1>1, <1>a, <2>2 DEF BeginLine, input, TypeOK
  <2>4. LocalsFollow'
    BY <1>1, <1>a, <2>1, <2>2 DEF BeginLine, input, LocalsFollow, LastPushed, Previous
  <2>5. TokensTileTheLines'
    BY <1>1, <1>a DEF BeginLine, input, TokensTileTheLines, Follows, Previous
  <2> QED  BY <1>b, <2>3, <2>4, <2>5 DEF Inv
<1>2. CASE AppendCharacter
  <2>1. /\ lineCount < Len(lines) /\ line' = line /\ tokenKind # "none"
        /\ bufferIndex < line[2] /\ bufferIndex' = bufferIndex + 1
    BY <1>2, <1>a DEF AppendCharacter, input, line, LocalsFollow, MultiCharacterKinds
  <2>2. line[1] \in Nat /\ line[2] \in Nat /\ bufferIndex \in Nat /\ tokenPos \in Nat
    BY <1>a, <2>1, LineFacts DEF TypeOK
  <2>3. TypeOK'
    BY <1>2, <1>a DEF AppendCharacter, input, TypeOK
  <2>4. LocalsFollow'
    <3>1. Follows(LastPushed, NewToken(tokenKind, tokenPos, bufferIndex, lineCount + 1))
      BY <1>2, <1>a, <2>1 DEF AppendCharacter, LocalsFollow
    <3>2. Follows(LastPushed, NewToken(tokenKind, tokenPos, bufferIndex + 1, lineCount + 1))
      BY <1>2, <1>a, <2>1, <2>2, <3>1 DEF AppendCharacter, LocalsFollow, Follows, NewToken, line
    <3> QED  BY <1>2, <1>a, <2>1, <2>2, <3>2
             DEF AppendCharacter, input, LocalsFollow, LastPushed, Previous, Follows, NewToken
  <2>5. TokensTileTheLines'
    BY <1>2, <1>a DEF AppendCharacter, input, TokensTileTheLines, Follows, Previous
  <2> QED  BY <1>b, <2>3, <2>4, <2>5 DEF Inv
<1>3. CASE StartToken
  <2>1. /\ pc = "Line" /\ lineCount < Len(lines) /\ line' = line /\ lines' = lines
        /\ bufferIndex < line[2] /\ bufferIndex' = bufferIndex + 1 /\ pc' = "Line"
        /\ tokenPos' = bufferIndex /\ tokenKind' = characterKind /\ tokens' = Completed
        /\ lineCount' = lineCount /\ buffer' = buffer
    BY <1>3, <1>a DEF StartToken, input, line, LocalsFollow
  <2>2. line[1] \in Nat /\ line[2] \in Nat /\ bufferIndex \in Nat /\ lineCount \in Nat
    BY <1>a, <2>1, LineFacts DEF TypeOK
  <2>3. /\ Completed \in Seq(TokenRange)
        /\ \A k \in 1 .. Len(Completed) :
              Completed[k].kind # "EndOfInput"
                => Follows(Previous(Completed, k), Completed[k])
        /\ tokenKind = "none" => Completed = tokens
        /\ tokenKind # "none" =>
              Previous(Completed, Len(Completed) + 1)
                = NewToken(tokenKind, tokenPos, bufferIndex, lineCount + 1)
    BY <2>1, CompletedTiles
  <2>4. line[1] <= bufferIndex
    <3>1. CASE tokenKind = "none"
      BY <1>a, <2>1, <2>2, <3>1 DEF LocalsFollow
    <3>2. CASE tokenKind # "none"
      <4>1. line[1] <= tokenPos /\ tokenPos \in Nat
        BY <1>a, <2>1, <3>2 DEF LocalsFollow, TypeOK
      <4>2. tokenPos < bufferIndex
        BY <1>a, <2>1, <3>2 DEF LocalsFollow, Follows, NewToken
      <4> QED  BY <2>2, <4>1, <4>2
    <3> QED  BY <3>1, <3>2
  <2>5. characterKind \in CharacterKinds \ {"Newline"}
    BY <1>a, <2>1, <2>4, CharacterFacts
  <2>6. TypeOK'
    BY <1>a, <2>1, <2>2, <2>3, <2>5 DEF TypeOK
  <2>7. characterKind # "none"
    BY <2>5 DEF CharacterKinds, TokenKind, PunctuationKinds, MultiCharacterKinds
  <2>8. Follows(Previous(Completed, Len(Completed) + 1),
                NewToken(characterKind, bufferIndex, bufferIndex + 1, lineCount + 1))
    <3>1. CASE tokenKind = "none"
      <4>1. LastPushed.kind = "Newline" /\ LastPushed.line = lineCount /\ bufferIndex = line[1]
        BY <1>a, <2>1, <3>1 DEF LocalsFollow
      <4>2. Previous(Completed, Len(Completed) + 1) = LastPushed
        BY <2>3, <3>1 DEF LastPushed
      <4> QED  BY <2>1, <2>2, <2>5, <4>1, <4>2 DEF Follows, NewToken, line
    <3>2. CASE tokenKind # "none"
      <4>1. tokenKind # "Newline"
        BY <1>a, <2>1, <3>2 DEF LocalsFollow
      <4> QED  BY <2>1, <2>2, <2>3, <2>5, <3>2, <4>1 DEF Follows, NewToken, line
    <3> QED  BY <3>1, <3>2
  <2>9. LocalsFollow'
    <3>1. LastPushed' = Previous(Completed, Len(Completed) + 1)
      BY <2>1 DEF LastPushed, Previous
    <3>2. Follows(LastPushed', NewToken(tokenKind', tokenPos', bufferIndex', lineCount' + 1))
      BY <2>1, <2>8, <3>1
    <3>3. Follows(LastPushed, NewToken(tokenKind, tokenPos, bufferIndex, lineCount + 1))'
      BY <2>1, <3>2 DEF Follows, NewToken
    <3> QED  BY <2>1, <2>2, <2>4, <2>5, <2>7, <3>3 DEF LocalsFollow
  <2>10. TokensTileTheLines'
    BY <2>1, <2>3 DEF TokensTileTheLines, Follows, Previous
  <2> QED  BY <1>b, <2>6, <2>9, <2>10 DEF Inv
<1>4. CASE FinishLine
  <2> DEFINE newline == NewToken("Newline", line[2], line[2], lineCount + 1)
  <2>1. /\ pc = "Line" /\ lineCount < Len(lines) /\ lines' = lines /\ buffer' = buffer
        /\ bufferIndex = line[2] /\ pc' = "NextLine" /\ tokens' = Append(Completed, newline)
        /\ lineCount' = lineCount + 1 /\ bufferIndex' = bufferIndex
        /\ tokenKind' = tokenKind /\ tokenPos' = tokenPos
    BY <1>4, <1>a DEF FinishLine, input, LocalsFollow
  <2>2. line[1] \in Nat /\ line[2] \in Nat /\ lineCount \in Nat /\ Len(lines) \in Nat
    BY <1>a, <2>1, LineFacts DEF TypeOK
  <2>3. /\ Completed \in Seq(TokenRange)
        /\ \A k \in 1 .. Len(Completed) :
              Completed[k].kind # "EndOfInput"
                => Follows(Previous(Completed, k), Completed[k])
        /\ tokenKind = "none" => Completed = tokens
        /\ tokenKind # "none" =>
              Previous(Completed, Len(Completed) + 1)
                = NewToken(tokenKind, tokenPos, bufferIndex, lineCount + 1)
    BY <2>1, CompletedTiles
  <2>4. /\ newline \in TokenRange /\ newline.kind = "Newline" /\ newline.line = lineCount + 1
        /\ newline.pos = line[2] /\ newline.end = line[2]
    <3>1. "Newline" \in TokenKind /\ lineCount + 1 \in Nat
      BY <2>2 DEF TokenKind
    <3>2. /\ newline \in TokenRange /\ newline.kind = "Newline"
          /\ newline.pos = line[2] /\ newline.end = line[2] /\ newline.line = lineCount + 1
      BY <2>2, <3>1, NewTokenType
    <3> QED  BY <3>2
  <2> HIDE DEF newline
  <2>5. Follows(Previous(Completed, Len(Completed) + 1), newline)
    <3>1. CASE tokenKind = "none"
      <4>1. LastPushed.kind = "Newline" /\ LastPushed.line = lineCount /\ bufferIndex = line[1]
        BY <1>a, <2>1, <3>1 DEF LocalsFollow
      <4>2. Previous(Completed, Len(Completed) + 1) = LastPushed
        BY <2>3, <3>1 DEF LastPushed
      <4> QED  BY <2>1, <2>2, <2>4, <4>1, <4>2 DEF Follows, line
    <3>2. CASE tokenKind # "none"
      <4>1. tokenKind # "Newline"
        BY <1>a, <2>1, <3>2 DEF LocalsFollow
      <4> QED  BY <2>1, <2>2, <2>3, <2>4, <3>2, <4>1 DEF Follows, NewToken, line
    <3> QED  BY <3>1, <3>2
  <2>6. /\ tokens' \in Seq(TokenRange)
        /\ \A k \in 1 .. Len(tokens') :
              tokens'[k].kind # "EndOfInput" => Follows(Previous(tokens', k), tokens'[k])
        /\ Previous(tokens', Len(tokens') + 1) = newline
    BY <2>1, <2>3, <2>4, <2>5, AppendTiles
  <2>7. TypeOK'
    BY <1>a, <2>1, <2>2, <2>6 DEF TypeOK
  <2>8. LocalsFollow'
    <3>1. LastPushed' = newline
      BY <2>6 DEF LastPushed, Previous
    <3> QED  BY <2>1, <2>4, <3>1 DEF LocalsFollow
  <2>9. TokensTileTheLines'
    BY <2>1, <2>6 DEF TokensTileTheLines, Follows, Previous
  <2> QED  BY <1>b, <2>7, <2>8, <2>9 DEF Inv
<1>5. CASE PushEndOfInput
  <2>1. PICK t \in TokenRange : t.kind = "EndOfInput" /\ tokens' = Append(tokens, t)
    <3>a. "EndOfInput" \in TokenKind
      BY DEF TokenKind
    <3>1. CASE lines = <<>>
      <4>1. /\ NewToken("EndOfInput", 0, 0, 0) \in TokenRange
            /\ NewToken("EndOfInput", 0, 0, 0).kind = "EndOfInput"
        BY <3>a, NewTokenType
      <4> QED  BY <1>5, <3>1, <4>1 DEF PushEndOfInput
    <3>2. CASE lines # <<>>
      <4>1. lineCount \in 1 .. Len(lines) /\ lineCount \in Nat
        BY <1>5, <1>a, <3>2 DEF PushEndOfInput, TypeOK
      <4>2. lines[lineCount][2] \in Nat
        BY <1>a, <4>1 DEF TypeOK, LineRange
      <4> DEFINE last == lines[lineCount][2]
      <4>3. /\ NewToken("EndOfInput", last, last, lineCount) \in TokenRange
            /\ NewToken("EndOfInput", last, last, lineCount).kind = "EndOfInput"
        BY <3>a, <4>1, <4>2, NewTokenType
      <4> QED  BY <1>5, <3>2, <4>3 DEF PushEndOfInput
    <3> QED  BY <3>1, <3>2
  <2>2. /\ tokens' \in Seq(TokenRange)
        /\ \A k \in 1 .. Len(tokens') :
              tokens'[k].kind # "EndOfInput" => Follows(Previous(tokens', k), tokens'[k])
    BY <1>a, <2>1, AppendTiles DEF TypeOK, TokensTileTheLines
  <2>3. TypeOK'
    BY <1>5, <1>a, <2>2 DEF PushEndOfInput, input, TypeOK
  <2>4. LocalsFollow'
    BY <1>5 DEF PushEndOfInput, LocalsFollow
  <2>5. TokensTileTheLines'
    BY <1>5, <2>2 DEF PushEndOfInput, input, TokensTileTheLines, Follows, Previous
  <2> QED  BY <1>b, <2>3, <2>4, <2>5 DEF Inv
<1>6. CASE UNCHANGED vars
  BY <1>6, <1>a, <1>b DEF vars, Inv, TypeOK, LocalsFollow, TokensTileTheLines, LastPushed, Previous,
                          Follows, NewToken, line
<1> QED  BY <1>1, <1>2, <1>3, <1>4, <1>5, <1>6 DEF Next

(***************************************************************************)
(* The types: no branch reads a character beyond the text, and every token *)
(* has a kind.                                                             *)
(***************************************************************************)
THEOREM TypeCorrect == Spec => []TypeOK
<1>1. Inv => TypeOK
  BY DEF Inv
<1> QED  BY InitInv, StepInv, <1>1, PTL DEF Spec

(***************************************************************************)
(* The tokens tile the lines, for every text and every list of lines.      *)
(***************************************************************************)
THEOREM Tiling == Spec => []TokensTileTheLines
<1>1. Inv => TokensTileTheLines
  BY DEF Inv
<1> QED  BY InitInv, StepInv, <1>1, PTL DEF Spec

-----------------------------------------------------------------------------
(***************************************************************************)
(* What the tokens say of the characters.  A token is "pushed" with the    *)
(* part of its line up to where it ends: the next token begins there.      *)
(***************************************************************************)
Owns(t, i) == t.pos <= i /\ i < t.end

\* t lies in its line, which is one before the n-th, or the n-th up to "to"
IsBelow(t, n, to) ==
  /\ t.kind # "EndOfInput"
  /\ t.line \in 1 .. Len(lines)
  /\ lines[t.line][1] <= t.pos /\ t.pos <= t.end /\ t.end <= lines[t.line][2]
  /\ t.line < n \/ (t.line = n /\ t.end <= to)

\* The characters of the lines before the n-th, and of the n-th up to "to"
InLine(k, i) == lines[k][1] <= i /\ i < lines[k][2]
IsRead(i, n, to) ==
  \/ \E k \in 1 .. Len(lines) : k < n /\ InLine(k, i)
  \/ n \in 1 .. Len(lines) /\ lines[n][1] <= i /\ i < to

\* Tokens in order, each of one kind of character, and none cut in two
IsPure(t) == t.kind # "Newline" => \A i \in t.pos .. t.end - 1 : buffer[i + 1] = t.kind
IsMaximal(p, t) == p.kind = t.kind => t.kind \notin MultiCharacterKinds
AreTokensOf(s, n, to) ==
  /\ \A k \in 1 .. Len(s) : IsBelow(s[k], n, to) /\ IsPure(s[k])
  /\ \A k \in 1 .. Len(s) : IsMaximal(Previous(s, k), s[k])
  /\ \A k \in 1 .. Len(s), l \in 1 .. Len(s) : k < l => s[k].end <= s[l].pos
  /\ \A i \in 0 .. Len(buffer) - 1 : IsRead(i, n, to) => \E k \in 1 .. Len(s) : Owns(s[k], i)

\* All tokens but EndOfInput, and where the last of them ends
Pushed == IF pc = "Done" THEN SubSeq(tokens, 1, Len(tokens) - 1) ELSE tokens
PushedTo == IF pc # "Line" THEN 0 ELSE IF tokenKind = "none" THEN line[1] ELSE tokenPos

TokensAreRight ==
  /\ AreTokensOf(Pushed, lineCount + 1, PushedTo)
  /\ pc = "Line" /\ tokenKind # "none" =>
       /\ \A i \in tokenPos .. bufferIndex - 1 : buffer[i + 1] = tokenKind
       /\ IsMaximal(LastPushed, NewToken(tokenKind, tokenPos, bufferIndex, lineCount + 1))
  /\ pc = "Done" =>
       /\ Len(tokens) \in Nat \ {0} /\ lineCount = Len(lines)
       /\ tokens[Len(tokens)].kind = "EndOfInput"
       /\ tokens[Len(tokens)].pos = tokens[Len(tokens)].end
       /\ Previous(Pushed, Len(Pushed) + 1).kind = "Newline"

\* What the types say about the tokens and the lines.
LEMMA TokenFacts ==
  ASSUME NEW s \in Seq(TokenRange)
  PROVE  \A k \in 1 .. Len(s) :
           s[k].pos \in Nat /\ s[k].end \in Nat /\ s[k].line \in Nat /\ s[k].kind \in TokenKind
<1>1. \A k \in 1 .. Len(s) : s[k] \in TokenRange
  OBVIOUS
<1>2. QED
  BY <1>1 DEF TokenRange

\* ... and about the lines
LEMMA LineEnds ==
  ASSUME TypeOK
  PROVE  \A k \in 1 .. Len(lines) : lines[k][1] \in Nat /\ lines[k][2] \in Nat
<1>1. \A k \in 1 .. Len(lines) : lines[k] \in LineRange
  BY DEF TypeOK
<1>2. QED
  BY <1>1 DEF LineRange

\* The next token of a line belongs to the tokens.
LEMMA AppendToken ==
  ASSUME TypeOK, InputOK, NEW s \in Seq(TokenRange), NEW t \in TokenRange,
         NEW from \in Nat, AreTokensOf(s, t.line, from),
         t.kind # "EndOfInput", t.line \in 1 .. Len(lines), lines[t.line][1] <= from,
         t.pos = from, from <= t.end, t.end <= lines[t.line][2],
         IsPure(t), IsMaximal(Previous(s, Len(s) + 1), t)
  PROVE  AreTokensOf(Append(s, t), t.line, t.end)
<1> DEFINE u == Append(s, t)
<1>1. /\ u \in Seq(TokenRange) /\ Len(s) \in Nat /\ Len(u) = Len(s) + 1
      /\ u[Len(s) + 1] = t /\ \A k \in 1 .. Len(s) : u[k] = s[k] /\ s[k] \in TokenRange
  OBVIOUS
<1> HIDE DEF u
<1>2. \A k \in 1 .. Len(s) + 1 : Previous(u, k) = Previous(s, k)
  BY <1>1 DEF Previous
<1>3. /\ t.line \in Nat /\ t.pos \in Nat /\ t.end \in Nat
      /\ \A k \in 1 .. Len(lines) : lines[k][1] \in Nat /\ lines[k][2] \in Nat
      /\ \A k \in 1 .. Len(s) : s[k].pos \in Nat /\ s[k].end \in Nat /\ s[k].line \in Nat
  BY TokenFacts, LineEnds DEF TokenRange
<1>4. \A k \in 1 .. Len(u) : k \in 1 .. Len(s) \/ k = Len(s) + 1
  BY <1>1
<1>5. \A k \in 1 .. Len(s) : IsBelow(s[k], t.line, from) /\ IsPure(s[k])
  BY DEF AreTokensOf
<1>6. ASSUME NEW k \in 1 .. Len(s)
      PROVE  IsBelow(s[k], t.line, t.end) /\ s[k].end <= t.pos
  <2>1. CASE s[k].line < t.line
    <3>1. lines[s[k].line][2] <= lines[t.line][1]
      BY <1>5, <2>1 DEF InputOK, IsLines, IsBelow
    <3>2. QED
      BY <1>3, <1>5, <2>1, <3>1 DEF IsBelow
  <2>2. CASE s[k].line = t.line /\ s[k].end <= from
    BY <1>3, <1>5, <2>2 DEF IsBelow
  <2>3. QED
    BY <1>5, <2>1, <2>2 DEF IsBelow
<1>7. IsBelow(t, t.line, t.end)
  BY <1>3 DEF IsBelow
<1>8. \A k \in 1 .. Len(u) : IsBelow(u[k], t.line, t.end) /\ IsPure(u[k])
  BY <1>1, <1>4, <1>5, <1>6, <1>7
<1>9. \A k \in 1 .. Len(u) : IsMaximal(Previous(u, k), u[k])
  BY <1>1, <1>2, <1>4 DEF AreTokensOf
<1>10. ASSUME NEW k \in 1 .. Len(u), NEW l \in 1 .. Len(u), k < l
       PROVE  u[k].end <= u[l].pos
  <2>1. k \in 1 .. Len(s) /\ u[k] = s[k]
    BY <1>1, <1>10
  <2>2. CASE l \in 1 .. Len(s)
    BY <1>1, <1>10, <2>1, <2>2 DEF AreTokensOf
  <2>3. CASE l = Len(s) + 1
    BY <1>1, <1>6, <2>1, <2>3
  <2>4. QED
    BY <1>4, <2>2, <2>3
<1>11. ASSUME NEW i \in 0 .. Len(buffer) - 1, IsRead(i, t.line, t.end)
       PROVE  \E k \in 1 .. Len(u) : Owns(u[k], i)
  <2>1. CASE IsRead(i, t.line, from)
    <3>1. PICK k \in 1 .. Len(s) : Owns(s[k], i)
      BY <2>1 DEF AreTokensOf
    <3>2. QED
      BY <1>1, <3>1
  <2>2. CASE ~IsRead(i, t.line, from)
    <3>1. from <= i /\ i < t.end
      BY <1>3, <1>11, <2>2 DEF IsRead
    <3>2. QED
      BY <1>1, <3>1 DEF Owns
  <2>3. QED
    BY <2>1, <2>2
<1>12. QED
  BY <1>8, <1>9, <1>10, <1>11 DEF AreTokensOf, u

\* A line that has been read to its end, and one that has not begun.
LEMMA NextLine ==
  ASSUME TypeOK, NEW s \in Seq(TokenRange), NEW n \in Nat \ {0}
  PROVE  /\ n <= Len(lines) /\ AreTokensOf(s, n, lines[n][2]) => AreTokensOf(s, n + 1, 0)
         /\ n <= Len(lines) /\ AreTokensOf(s, n, 0) => AreTokensOf(s, n, lines[n][1])
<1>1. \A k \in 1 .. Len(lines) : lines[k][1] \in Nat /\ lines[k][2] \in Nat
  BY LineEnds
<1>2. \A k \in 1 .. Len(s) : s[k].pos \in Nat /\ s[k].end \in Nat /\ s[k].line \in Nat
  BY TokenFacts
<1>3. ASSUME n <= Len(lines), AreTokensOf(s, n, lines[n][2]) PROVE AreTokensOf(s, n + 1, 0)
  <2>1. \A k \in 1 .. Len(s) : IsBelow(s[k], n + 1, 0)
    BY <1>2, <1>3 DEF AreTokensOf, IsBelow
  <2>2. \A i \in 0 .. Len(buffer) - 1 : IsRead(i, n + 1, 0) => IsRead(i, n, lines[n][2])
    BY <1>1, <1>3 DEF IsRead, InLine, TypeOK
  <2>3. QED
    BY <1>3, <2>1, <2>2 DEF AreTokensOf
<1>4. ASSUME n <= Len(lines), AreTokensOf(s, n, 0) PROVE AreTokensOf(s, n, lines[n][1])
  <2>1. n \in 1 .. Len(lines)
    BY <1>4 DEF TypeOK
  <2>2. \A k \in 1 .. Len(s) : IsBelow(s[k], n, lines[n][1])
    BY <1>1, <1>2, <1>4, <2>1 DEF AreTokensOf, IsBelow
  <2>3. \A i \in 0 .. Len(buffer) - 1 : IsRead(i, n, lines[n][1]) => IsRead(i, n, 0)
    BY <1>1, <2>1 DEF IsRead
  <2>4. QED
    BY <1>4, <2>2, <2>3 DEF AreTokensOf
<1>5. QED
  BY <1>3, <1>4

\* With the token that is complete, the tokens go up to the next character.
LEMMA CompletedIsRight ==
  ASSUME Inv, TokensAreRight, pc = "Line"
  PROVE  AreTokensOf(Completed, lineCount + 1, bufferIndex)
<1> DEFINE n == lineCount + 1
           t == NewToken(tokenKind, tokenPos, bufferIndex, n)
<1>1. /\ TypeOK /\ InputOK /\ n \in 1 .. Len(lines) /\ n \in Nat /\ line = lines[n]
      /\ bufferIndex \in Nat /\ tokenPos \in Nat /\ bufferIndex <= line[2]
      /\ tokens \in Seq(TokenRange)
  BY LineFacts DEF Inv, LocalsFollow, TypeOK, line
<1>2. AreTokensOf(tokens, n, PushedTo)
  BY DEF TokensAreRight, Pushed
<1>3. CASE tokenKind = "none"
  <2>1. PushedTo = bufferIndex
    BY <1>3 DEF PushedTo, Inv, LocalsFollow
  <2>2. QED
    BY <1>2, <1>3, <2>1 DEF Completed
<1>4. CASE tokenKind # "none"
  <2>1. /\ t \in TokenRange /\ t.kind = tokenKind /\ t.pos = tokenPos /\ t.end = bufferIndex
        /\ t.line = n
    <3>1. tokenKind \in TokenKind /\ n \in Nat
      BY <1>1, <1>4 DEF TypeOK, CharacterKinds
    <3> HIDE DEF n
    <3>2. QED
      BY <1>1, <3>1, NewTokenType
  <2>2. /\ line[1] <= tokenPos /\ tokenKind # "Newline"
        /\ Follows(LastPushed, t)
    BY <1>4 DEF Inv, LocalsFollow
  <2>3. tokenKind # "EndOfInput"
    BY <1>1, <1>4 DEF TypeOK, CharacterKinds
  <2>4. PushedTo = tokenPos
    BY <1>4 DEF PushedTo
  <2>5. IsPure(t) /\ IsMaximal(Previous(tokens, Len(tokens) + 1), t)
    BY <1>4, <2>1 DEF TokensAreRight, IsPure, LastPushed
  <2>6. Completed = Append(tokens, t)
    BY <1>4 DEF Completed
  <2> HIDE DEF t, n
  <2>7. t.pos < t.end /\ t.end <= lines[n][2]
    BY <2>1, <2>2, <2>3 DEF Follows
  <2>8. AreTokensOf(Append(tokens, t), t.line, t.end)
    BY <1>1, <1>2, <2>1, <2>2, <2>3, <2>4, <2>5, <2>7, AppendToken
  <2>9. QED
    BY <2>1, <2>6, <2>8 DEF n
<1>5. QED
  BY <1>3, <1>4

\* No step changes the text: what was said of some tokens still holds.
LEMMA SameText ==
  ASSUME UNCHANGED <<buffer, lines>>, NEW s, NEW n, NEW to
  PROVE  AreTokensOf(s, n, to)' <=> AreTokensOf(s, n, to)
BY DEF AreTokensOf, IsBelow, IsPure, IsMaximal, IsRead, InLine, Owns, Previous, NewToken

\* Before anything is read there is nothing to say.
LEMMA UnreadTokens ==
  ASSUME Unread, TypeOK
  PROVE  TokensAreRight
<1>1. AreTokensOf(<<>>, 1, 0)
  <2>1. \A i \in 0 .. Len(buffer) - 1 : ~IsRead(i, 1, 0)
    BY LineEnds DEF IsRead
  <2>2. QED
    BY <2>1 DEF AreTokensOf
<1>2. QED
  BY <1>1 DEF Unread, TokensAreRight, Pushed, PushedTo

\* That is how readTokens() begins.
LEMMA InitTokens == Init => TokensAreRight
  BY InitInv, UnreadTokens DEF Init, Inv, Unread

\* A step pushes the token that is complete, or lengthens the one being read.
LEMMA StepTokens == Inv /\ TokensAreRight /\ [Next]_vars => TokensAreRight'
<1> SUFFICES ASSUME Inv, TokensAreRight, [Next]_vars PROVE TokensAreRight'
  OBVIOUS
<1>a. TypeOK /\ InputOK /\ LocalsFollow /\ lineCount \in Nat /\ tokens \in Seq(TokenRange)
  BY DEF Inv, TypeOK
<1>b. UNCHANGED <<buffer, lines>>
  BY DEF Next, BeginLine, AppendCharacter, StartToken, FinishLine, PushEndOfInput, input, vars
<1>1. CASE BeginLine
  <2>1. /\ lineCount < Len(lines) /\ pc = "NextLine" /\ pc' = "Line" /\ tokenKind' = "none"
        /\ tokens' = tokens /\ lineCount' = lineCount /\ line' = line
    BY <1>1 DEF BeginLine, input, line
  <2>2. AreTokensOf(tokens, lineCount + 1, 0)
    BY <2>1 DEF TokensAreRight, Pushed, PushedTo
  <2>3. AreTokensOf(tokens, lineCount + 1, line[1])
    BY <1>a, <2>1, <2>2, NextLine DEF line, TypeOK
  <2>4. PushedTo' = line[1] /\ Pushed' = tokens
    BY <2>1 DEF PushedTo, Pushed
  <2>5. QED
    BY <1>b, <2>1, <2>3, <2>4, SameText DEF TokensAreRight
<1>2. CASE AppendCharacter
  <2>1. /\ pc = "Line" /\ pc' = "Line" /\ tokenKind' = tokenKind /\ tokenKind # "none"
        /\ tokenPos' = tokenPos /\ tokens' = tokens /\ lineCount' = lineCount
        /\ bufferIndex' = bufferIndex + 1 /\ buffer[bufferIndex + 1] = tokenKind
    BY <1>2 DEF AppendCharacter, input, MultiCharacterKinds, characterKind
  <2>2. PushedTo' = PushedTo /\ Pushed' = Pushed
    BY <2>1 DEF PushedTo, Pushed
  <2>3. \A i \in tokenPos .. bufferIndex' - 1 : buffer'[i + 1] = tokenKind
    <3>1. tokenPos \in Nat /\ bufferIndex \in Nat
      BY <1>a DEF TypeOK
    <3>2. QED
      BY <1>b, <2>1, <3>1 DEF TokensAreRight
  <2>4. IsMaximal(LastPushed, NewToken(tokenKind, tokenPos, bufferIndex, lineCount + 1))'
    BY <2>1 DEF TokensAreRight, IsMaximal, LastPushed, Previous, NewToken
  <2>5. AreTokensOf(Pushed, lineCount + 1, PushedTo)'
    BY <1>b, <2>1, <2>2, SameText DEF TokensAreRight
  <2>6. QED
    BY <2>1, <2>3, <2>4, <2>5 DEF TokensAreRight
<1>3. CASE StartToken
  <2>1. /\ pc = "Line" /\ pc' = "Line" /\ tokenKind' = characterKind /\ lineCount' = lineCount
        /\ tokenPos' = bufferIndex /\ tokens' = Completed /\ bufferIndex < line[2]
        /\ bufferIndex' = bufferIndex + 1 /\ lineCount < Len(lines)
        /\ ~(characterKind = tokenKind /\ tokenKind \in MultiCharacterKinds)
    BY <1>3, <1>a DEF StartToken, input, LocalsFollow
  <2>2. AreTokensOf(Completed, lineCount + 1, bufferIndex)
    BY <2>1, CompletedIsRight
  <2>3. bufferIndex \in Nat /\ line[1] \in Nat
    BY <1>a, <2>1, LineFacts DEF TypeOK
  <2>4. line[1] <= bufferIndex
    <3>1. CASE tokenKind = "none"
      BY <1>a, <2>1, <2>3, <3>1 DEF LocalsFollow
    <3>2. CASE tokenKind # "none"
      <4>1. line[1] <= tokenPos /\ tokenPos \in Nat
        BY <1>a, <2>1, <3>2 DEF LocalsFollow, TypeOK
      <4>2. tokenPos < bufferIndex
        BY <1>a, <2>1, <3>2 DEF LocalsFollow, Follows, NewToken
      <4>3. QED
        BY <2>3, <4>1, <4>2
    <3>3. QED
      BY <3>1, <3>2
  <2>5. characterKind \in CharacterKinds \ {"Newline"}
    BY <1>a, <2>1, <2>4, CharacterFacts
  <2>6. characterKind # "none"
    BY <2>5 DEF CharacterKinds, TokenKind, PunctuationKinds, MultiCharacterKinds
  <2>7. PushedTo' = bufferIndex /\ Pushed' = Completed
    BY <2>1, <2>6 DEF PushedTo, Pushed
  <2>8. AreTokensOf(Pushed, lineCount + 1, PushedTo)'
    BY <1>b, <2>1, <2>2, <2>7, SameText
  <2>9. \A i \in bufferIndex .. bufferIndex' - 1 : buffer'[i + 1] = characterKind
    BY <1>b, <2>1, <2>3 DEF characterKind
  <2>10. LastPushed' = Previous(Completed, Len(Completed) + 1)
    BY <2>1 DEF LastPushed, Previous
  <2>11. LastPushed'.kind = characterKind => characterKind \notin MultiCharacterKinds
    <3>1. CASE tokenKind = "none"
      <4>1. LastPushed'.kind = "Newline"
        BY <1>a, <2>1, <2>10, <3>1, CompletedTiles DEF LocalsFollow, LastPushed
      <4>2. QED
        BY <2>5, <4>1
    <3>2. CASE tokenKind # "none"
      <4>1. LastPushed' = NewToken(tokenKind, tokenPos, bufferIndex, lineCount + 1)
        BY <2>1, <2>10, <3>2, CompletedTiles
      <4>2. QED
        BY <2>1, <4>1 DEF NewToken
    <3>3. QED
      BY <3>1, <3>2
  <2>12. QED
    BY <2>1, <2>8, <2>9, <2>11 DEF TokensAreRight, IsMaximal, NewToken
<1>4. CASE FinishLine
  <2> DEFINE n == lineCount + 1
             newline == NewToken("Newline", line[2], line[2], n)
  <2>1. /\ pc = "Line" /\ pc' = "NextLine" /\ lineCount' = n /\ bufferIndex = line[2]
        /\ tokens' = Append(Completed, newline) /\ lineCount < Len(lines)
    BY <1>4, <1>a DEF FinishLine, input, LocalsFollow
  <2>2. AreTokensOf(Completed, n, line[2])
    BY <2>1, CompletedIsRight
  <2>3. /\ line[1] \in Nat /\ line[2] \in Nat /\ line[1] <= line[2]
        /\ n \in Nat \ {0} /\ n \in 1 .. Len(lines) /\ line = lines[n]
    BY <1>a, <2>1, LineFacts DEF line
  <2>4. /\ newline \in TokenRange /\ newline.kind = "Newline" /\ newline.line = n
        /\ newline.pos = line[2] /\ newline.end = line[2]
    <3>1. "Newline" \in TokenKind /\ n \in Nat
      BY <2>3 DEF TokenKind
    <3> DEFINE end == line[2]
    <3>2. end \in Nat /\ newline = NewToken("Newline", end, end, n)
      BY <2>3
    <3> HIDE DEF n, end, newline
    <3>3. /\ newline \in TokenRange /\ newline.kind = "Newline" /\ newline.line = n
          /\ newline.pos = end /\ newline.end = end
      BY <3>1, <3>2, NewTokenType
    <3>4. QED
      BY <3>3 DEF end
  <2>5. IsPure(newline) /\ IsMaximal(Previous(Completed, Len(Completed) + 1), newline)
    BY <2>4 DEF IsPure, IsMaximal, MultiCharacterKinds
  <2>6. Completed \in Seq(TokenRange)
    BY <2>1, CompletedTiles
  <2> HIDE DEF newline, n
  <2>7. AreTokensOf(Append(Completed, newline), n, line[2])
    <3>1. /\ AreTokensOf(Completed, newline.line, line[2])
          /\ newline.kind # "EndOfInput" /\ newline.line \in 1 .. Len(lines)
          /\ lines[newline.line][1] <= line[2] /\ line[2] <= newline.end
          /\ newline.end <= lines[newline.line][2]
      BY <2>2, <2>3, <2>4
    <3>2. AreTokensOf(Append(Completed, newline), newline.line, newline.end)
      BY <1>a, <2>3, <2>4, <2>5, <2>6, <3>1, AppendToken
    <3>3. QED
      BY <2>4, <3>2
  <2>8. tokens' \in Seq(TokenRange)
    BY <2>1, <2>4, <2>6
  <2>9. AreTokensOf(tokens', n + 1, 0)
    <3>1. n <= Len(lines) /\ AreTokensOf(tokens', n, lines[n][2])
      BY <2>1, <2>3, <2>7
    <3>2. QED
      BY <1>a, <2>3, <2>8, <3>1, NextLine
  <2>10. AreTokensOf(Pushed, lineCount + 1, PushedTo)'
    BY <1>b, <2>1, <2>9, SameText DEF Pushed, PushedTo
  <2>11. QED
    BY <2>1, <2>10 DEF TokensAreRight
<1>5. CASE PushEndOfInput
  <2>1. PICK t \in TokenRange : /\ t.kind = "EndOfInput" /\ t.pos = t.end
                                /\ tokens' = Append(tokens, t)
    <3>1. "EndOfInput" \in TokenKind
      BY DEF TokenKind
    <3>2. CASE lines = <<>>
      BY <1>5, <3>1, <3>2, NewTokenType DEF PushEndOfInput
    <3>3. CASE lines # <<>>
      <4>1. lineCount \in 1 .. Len(lines)
        BY <1>5, <1>a, <3>3 DEF PushEndOfInput, TypeOK
      <4> DEFINE last == lines[lineCount][2]
      <4>2. last \in Nat
        BY <1>a, <4>1, LineEnds
      <4> HIDE DEF last
      <4>3. /\ NewToken("EndOfInput", last, last, lineCount) \in TokenRange
            /\ NewToken("EndOfInput", last, last, lineCount).kind = "EndOfInput"
            /\ NewToken("EndOfInput", last, last, lineCount).pos = last
            /\ NewToken("EndOfInput", last, last, lineCount).end = last
        BY <1>a, <3>1, <4>2, NewTokenType
      <4>4. tokens' = Append(tokens, NewToken("EndOfInput", last, last, lineCount))
        BY <1>5, <3>3 DEF PushEndOfInput, last
      <4>5. QED
        BY <4>3, <4>4
    <3>4. QED
      BY <3>2, <3>3
  <2>2. /\ pc = "NextLine" /\ pc' = "Done" /\ lineCount' = lineCount /\ lineCount = Len(lines)
    BY <1>5 DEF PushEndOfInput
  <2>3. /\ Len(tokens) \in Nat /\ Len(tokens') = Len(tokens) + 1
        /\ tokens'[Len(tokens')] = t
    BY <1>a, <2>1
  <2>4. Pushed' = tokens
    <3>1. SubSeq(Append(tokens, t), 1, Len(tokens)) = tokens
      BY <1>a
    <3>2. QED
      BY <2>1, <2>2, <2>3, <3>1 DEF Pushed
  <2>5. AreTokensOf(tokens, lineCount + 1, 0)
    BY <2>2 DEF TokensAreRight, Pushed, PushedTo
  <2>6. AreTokensOf(Pushed, lineCount + 1, PushedTo)'
    BY <1>b, <2>2, <2>4, <2>5, SameText DEF PushedTo
  <2>7. Previous(tokens, Len(tokens) + 1).kind = "Newline"
    BY <1>a, <2>2 DEF LocalsFollow, LastPushed
  <2>8. Previous(Pushed, Len(Pushed) + 1)'.kind = "Newline"
    BY <2>4, <2>7 DEF Previous
  <2>9. QED
    BY <1>b, <2>1, <2>2, <2>3, <2>6, <2>8 DEF TokensAreRight
<1>6. CASE UNCHANGED vars
  <2>1. Pushed' = Pushed /\ PushedTo' = PushedTo /\ LastPushed' = LastPushed
    BY <1>6 DEF vars, Pushed, PushedTo, LastPushed, Previous, line
  <2>2. AreTokensOf(Pushed, lineCount + 1, PushedTo)'
    BY <1>6, <1>b, <2>1, SameText DEF TokensAreRight, vars
  <2>3. QED
    BY <1>6, <2>1, <2>2 DEF TokensAreRight, vars, IsMaximal, Previous, NewToken
<1>7. QED
  BY <1>1, <1>2, <1>3, <1>4, <1>5, <1>6 DEF Next

(***************************************************************************)
(* For every text, each token has characters of its own kind only, none    *)
(* could have been longer, and each character of the lines is in a token.  *)
(***************************************************************************)
THEOREM Pushing == Spec => []TokensAreRight
<1>1. Inv /\ TokensAreRight /\ [Next]_vars => (Inv /\ TokensAreRight)'
  BY StepInv, StepTokens
<1>2. Init => Inv /\ TokensAreRight
  BY InitInv, InitTokens
<1>3. QED
  BY <1>1, <1>2, PTL DEF Spec
=============================================================================
