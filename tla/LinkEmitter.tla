---------------------------- MODULE LinkEmitter ----------------------------
(***************************************************************************)
(* A "{@link}" or "{@inheritDoc}" tag that was parsed, or that a program   *)
(* has built, is printed by TSDocEmitter and parsed again.  A part of a    *)
(* tag is its tokens; the spacing between parts is not kept.               *)
(***************************************************************************)
EXTENDS LinkTag

CONSTANT Built      \* the names and parts of the tags that programs build

VARIABLE emitted    \* the tag that was printed, if any

emitVars == <<vars, emitted>>

\* A DocMemberReference made from literals decides by itself whether it is quoted
BuiltMember(hasDot, identifier, selector) ==
  [NoMember EXCEPT !.hasDot = hasDot, !.identifier = identifier,
                   !.hasQuotes = ~IsIdentifier(identifier), !.selector = selector]

-----------------------------------------------------------------------------
\* TSDocEmitter._renderNode(), for what an inline tag may hold
Between(left, text, right) == <<left>> \o text \o <<right>>

RenderIdentifier(m) ==
  IF m.hasQuotes THEN Between("DoubleQuote", m.identifier, "DoubleQuote") ELSE m.identifier

RECURSIVE RenderReference(_)

RenderSymbol(m) ==
  IF m.symbol = <<>> THEN RenderIdentifier(m)
  ELSE Between("LeftSquareBracket", RenderReference(m.symbol[1]), "RightSquareBracket")

RenderMember(m) ==
  (IF m.hasDot THEN <<"Period">> ELSE <<>>)
    \o IF m.selector = <<>> THEN RenderSymbol(m)
       ELSE Between("LeftParenthesis", RenderSymbol(m) \o <<"Colon">> \o m.selector,
                    "RightParenthesis")

\* mutant: the hash is written after a package name only
RenderWithoutHash(r) ==
  r.packageName \o r.importPath \o (IF r.packageName = <<>> THEN <<>> ELSE <<"PoundSymbol">>)
    \o FlattenSeq([k \in DOMAIN r.memberReferences |-> RenderMember(r.memberReferences[k])])
RenderReference(r) ==
  r.packageName \o r.importPath
    \o (IF r.packageName \o r.importPath = <<>> THEN <<>> ELSE <<"PoundSymbol">>)
    \o FlattenSeq([k \in DOMAIN r.memberReferences |-> RenderMember(r.memberReferences[k])])

\* What is written after the name of the tag and a space
RenderContent(t) ==
  t.url \o (IF t.code = <<>> THEN <<>> ELSE RenderReference(t.code[1]))
    \o (IF t.text = <<>> THEN <<>> ELSE <<"Spacing", "Pipe", "Spacing">> \o t.text)

-----------------------------------------------------------------------------
\* The tag t is printed, and what was printed is about to be parsed
Printed(t, isBuilt) ==
  /\ emitted' = <<[tag |-> t, isBuilt |-> isBuilt]>>
  /\ tokens' = RenderContent(t)

Emit ==
  /\ pc \in {"LinkTag", "InheritDocTag"} /\ emitted = <<>>
  /\ Printed(tag, FALSE)
  /\ tag' = NoTag /\ reader' = NewReader /\ references' = <<>> /\ pc' = "Start"
  /\ UNCHANGED <<tagName, log>>

EmitInit ==
  /\ Init
  /\ emitted = <<>>

\* Instead of a content that is parsed first
Build ==
  /\ pc = "Start" /\ emitted = <<>> /\ tokens = <<>>
  /\ \E b \in Built : b.name = tagName /\ Printed(b.tag, TRUE)
  /\ UNCHANGED <<tagName, reader, references, tag, log, pc>>

EmitNext ==
  \/ Next /\ UNCHANGED emitted
  \/ Emit
  \/ Build

EmitSpec == EmitInit /\ [][EmitNext]_emitVars /\ WF_emitVars(Next /\ UNCHANGED emitted)

-----------------------------------------------------------------------------
\* A link text may not hold these, escaped or not
IsLostText(text) == {"Pipe", "LeftCurlyBracket"} \intersect ToSet(text) # {}
\* The identifiers that the emitter cannot write: it encodes no quotes
IsLostIdentifier(m) ==
  m.symbol = <<>> /\ m.hasQuotes
    /\ (m.identifier = <<>> \/ "DoubleQuote" \in ToSet(m.identifier))
\* A reference that begins with a dollar sign is not taken for one
BeginsWithDollar(r) ==
  /\ r.memberReferences # <<>>
  /\ LET m == r.memberReferences[1]
     IN m.symbol = <<>> /\ m.selector = <<>> /\ ~m.hasQuotes /\ m.identifier[1] = "DollarSign"
RECURSIVE IsLost(_)
IsLost(r) ==
  \/ BeginsWithDollar(r)
  \/ \E m \in ToSet(r.memberReferences) :
       IsLostIdentifier(m) \/ (m.symbol # <<>> /\ IsLost(m.symbol[1]))

(***************************************************************************)
(* A tag that was parsed is printed as a text that is parsed as the same   *)
(* tag: no part is lost, runs into the next one without the spacing that   *)
(* was between them, or is quoted less than it was.  So is a tag that a    *)
(* program has built, but for a link text with a pipe or a bracket, even   *)
(* if they are escaped, and two kinds of names in a reference: those that  *)
(* begin it with a dollar sign, and those that are empty or have a quote.  *)
(***************************************************************************)
EmittedTagsReadBack ==
  emitted # <<>> =>
    LET e == emitted[1]
        isRead == pc = (IF tagName = "link" THEN "LinkTag" ELSE "InheritDocTag") /\ tag = e.tag
        isLost == IsLostText(e.tag.text) \/ (e.tag.code # <<>> /\ IsLost(e.tag.code[1]))
    IN /\ IsContent(tokens)
       /\ pc \in Outcomes \union {"Thrown"} => (isRead <=> ~(e.isBuilt /\ isLost))
=============================================================================
