----------------------------- MODULE Tokenizer -----------------------------
(***************************************************************************)
(* Tokenizer.readTokens(): the second stage of the parser cuts each line   *)
(* into tokens, one character at a time.  A character stands for the       *)
(* TokenKind that _charCodeMap gives it (Other when it has none).          *)
(***************************************************************************)
EXTENDS TokenKinds

CONSTANT Documents      \* texts, with the lines to read of each

CharacterKinds == TokenKind \ {"EndOfInput"}
LineRange == Nat \X Nat

\* What LineExtractor makes of a comment: lines in order, with no newline inside
IsLines(text, ls) ==
  \A k \in 1 .. Len(ls) :
    /\ ls[k][1] <= ls[k][2] /\ ls[k][2] <= Len(text)
    /\ \A i \in ls[k][1] .. ls[k][2] - 1 : text[i + 1] # "Newline"
    /\ \A j \in 1 .. k - 1 : ls[j][2] <= ls[k][1]

ASSUME DocumentsAssumption ==
  \A d \in Documents :
    /\ d \in [buffer : Seq(CharacterKinds), lines : Seq(LineRange)]
    /\ IsLines(d.buffer, d.lines)

VARIABLES
  buffer, lines,
  lineCount,                            \* how many lines have been read
  bufferIndex, tokenKind, tokenPos,     \* the locals of _pushTokensForLine()
  tokens,
  pc

vars == <<buffer, lines, lineCount, bufferIndex, tokenKind, tokenPos, tokens, pc>>
input == <<buffer, lines>>

Init ==
  /\ \E d \in Documents : buffer = d.buffer /\ lines = d.lines
  /\ lineCount = 0
  /\ bufferIndex = 0 /\ tokenKind = "none" /\ tokenPos = 0
  /\ tokens = <<>>
  /\ pc = "NextLine"

-----------------------------------------------------------------------------
\* The line being read
line == lines[lineCount + 1]
characterKind == buffer[bufferIndex + 1]

NewToken(kind, pos, end, number) == [kind |-> kind, pos |-> pos, end |-> end, line |-> number]

\* mutants: the token before the first one; one character too many
CompletedAlways ==
  Append(tokens, NewToken(tokenKind, tokenPos, bufferIndex, lineCount + 1))
CompletedInclusive ==
  IF tokenKind = "none" THEN tokens
    ELSE Append(tokens, NewToken(tokenKind, tokenPos, bufferIndex + 1, lineCount + 1))
\* tokens, with the completed token if there is one
Completed ==
  IF tokenKind = "none" THEN tokens
    ELSE Append(tokens, NewToken(tokenKind, tokenPos, bufferIndex, lineCount + 1))

BeginLine ==
  /\ pc = "NextLine" /\ lineCount < Len(lines)
  /\ bufferIndex' = line[1]
  /\ tokenKind' = "none"
  /\ tokenPos' = line[1]
  /\ pc' = "Line"
  /\ UNCHANGED <<input, lineCount, tokens>>

AppendCharacter ==
  /\ pc = "Line" /\ bufferIndex < line[2]
  /\ characterKind = tokenKind /\ tokenKind \in MultiCharacterKinds
  /\ bufferIndex' = bufferIndex + 1
  /\ UNCHANGED <<input, lineCount, tokenKind, tokenPos, tokens, pc>>

StartToken ==
  /\ pc = "Line" /\ bufferIndex < line[2]
  /\ ~(characterKind = tokenKind /\ tokenKind \in MultiCharacterKinds)
  /\ tokens' = Completed
  /\ tokenPos' = bufferIndex
  /\ tokenKind' = characterKind
  /\ bufferIndex' = bufferIndex + 1
  /\ UNCHANGED <<input, lineCount, pc>>

FinishLine ==
  /\ pc = "Line" /\ bufferIndex = line[2]
  /\ tokens' = Append(Completed, NewToken("Newline", line[2], line[2], lineCount + 1))
  /\ lineCount' = lineCount + 1
  /\ pc' = "NextLine"
  /\ UNCHANGED <<input, bufferIndex, tokenKind, tokenPos>>

\* EndOfInput is at the end of the last line, or nowhere
PushEndOfInput ==
  /\ pc = "NextLine" /\ lineCount = Len(lines)
  /\ tokens' = Append(tokens, IF lines = <<>> THEN NewToken("EndOfInput", 0, 0, 0)
                              ELSE NewToken("EndOfInput", lines[lineCount][2],
                                            lines[lineCount][2], lineCount))
  /\ pc' = "Done"
  /\ UNCHANGED <<input, lineCount, bufferIndex, tokenKind, tokenPos>>

Next == BeginLine \/ AppendCharacter \/ StartToken \/ FinishLine \/ PushEndOfInput

\* readTokens() is a loop of one thread: it is never abandoned half-way
Spec == Init /\ [][Next]_vars /\ WF_vars(Next)

-----------------------------------------------------------------------------
TokenRange == [kind : TokenKind, pos : Nat, end : Nat, line : Nat]

TypeOK ==
  /\ buffer \in Seq(CharacterKinds)
  /\ lines \in Seq(LineRange)
  /\ lineCount \in 0 .. Len(lines)
  /\ bufferIndex \in Nat /\ tokenPos \in Nat
  /\ tokenKind \in {"none"} \union CharacterKinds
  /\ tokens \in Seq(TokenRange)
  /\ pc \in {"NextLine", "Line", "Done"}

\* The token before the k-th; the first is preceded by the newline of "line 0"
Previous(s, k) == IF k = 1 THEN NewToken("Newline", 0, 0, 0) ELSE s[k - 1]
LastPushed == Previous(tokens, Len(tokens) + 1)

\* t begins where p ended, or the next line begins
Follows(p, t) ==
  /\ t.line = p.line + (IF p.kind = "Newline" THEN 1 ELSE 0)
  /\ t.pos = IF p.kind = "Newline" THEN lines[t.line][1] ELSE p.end
  /\ IF t.kind = "Newline" THEN t.pos = lines[t.line][2] /\ t.end = t.pos
                           ELSE t.pos < t.end /\ t.end <= lines[t.line][2]

(***************************************************************************)
(* The tokens of a line tile it: each begins where the one before it       *)
(* ended, the first where the line begins, and a line ends with one empty  *)
(* Newline token, so no character of the comment is lost or read twice.    *)
(***************************************************************************)
TokensTileTheLines ==
  \A k \in 1 .. Len(tokens) :
    tokens[k].kind # "EndOfInput" => Follows(Previous(tokens, k), tokens[k])

(***************************************************************************)
(* Why it is inductive: the token being read already follows the last one. *)
(***************************************************************************)
LocalsFollow ==
  /\ pc = "NextLine" => LastPushed.kind = "Newline" /\ LastPushed.line = lineCount
  /\ pc = "Line" =>
       /\ lineCount < Len(lines) /\ bufferIndex <= line[2]
       /\ IF tokenKind = "none"
            THEN /\ bufferIndex = line[1]
                 /\ LastPushed.kind = "Newline" /\ LastPushed.line = lineCount
            ELSE /\ tokenKind # "Newline" /\ line[1] <= tokenPos
                 /\ Follows(LastPushed, NewToken(tokenKind, tokenPos, bufferIndex, lineCount + 1))
=============================================================================
