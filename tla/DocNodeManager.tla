--------------------------- MODULE DocNodeManager ---------------------------
(***************************************************************************)
(* DocNodeManager: the kinds of DocNode that a TSDocConfiguration knows,   *)
(* and which kind of container may have which kind of child, as a record.  *)
(* The two maps of the code hold the same objects; here byKind has them,   *)
(* and byConstructor refers to them by kind.                               *)
(***************************************************************************)
EXTENDS Sequences, Integers, SequencesExt

CONSTANT InvalidKinds   \* the kinds that are not identifiers

IsRegistered(m, kind) == kind \in DOMAIN m.byKind

\* mutant: a class may be registered twice
CanRegisterKind(m, definition) ==
  definition.docNodeKind \notin InvalidKinds /\ ~IsRegistered(m, definition.docNodeKind)
\* registerDocNodes(), for one definition: what it checks, and what it does
CanRegister(m, definition) ==
  /\ definition.docNodeKind \notin InvalidKinds
  /\ ~IsRegistered(m, definition.docNodeKind)
  /\ definition.constructor \notin DOMAIN m.byConstructor

Set(map, key, value) == [k \in DOMAIN map \union {key} |-> IF k = key THEN value ELSE map[k]]

Register(m, packageName, definition) ==
  [byKind |-> Set(m.byKind, definition.docNodeKind,
                  [constructor |-> definition.constructor, packageName |-> packageName,
                   allowedChildKinds |-> {}]),
   byConstructor |-> Set(m.byConstructor, definition.constructor, definition.docNodeKind)]

\* registerAllowableChildren(), for one child
CanAllow(m, parentKind, childKind) == IsRegistered(m, parentKind) /\ IsRegistered(m, childKind)
Allow(m, parentKind, childKind) ==
  [m EXCEPT !.byKind[parentKind].allowedChildKinds = @ \union {childKind}]

\* isAllowedChild(), which throws for a parent that is not known
IsAllowedChild(m, parentKind, childKind) ==
  IsRegistered(m, parentKind) /\ childKind \in m.byKind[parentKind].allowedChildKinds

-----------------------------------------------------------------------------
\* BuiltInDocNodes.register(); a class of the library stands under the name of its kind
BuiltInKinds ==
  {"Block", "BlockTag", "CodeSpan", "Comment", "DeclarationReference", "ErrorText",
   "EscapedText", "Excerpt", "FencedCode", "HtmlAttribute", "HtmlEndTag", "HtmlStartTag",
   "InheritDocTag", "InlineTag", "LinkTag", "MemberIdentifier", "MemberReference",
   "MemberSelector", "MemberSymbol", "Paragraph", "ParamBlock", "ParamCollection", "PlainText",
   "Section", "SoftBreak"}
SectionKinds == {"FencedCode", "Paragraph", "HtmlStartTag", "HtmlEndTag"}
ParagraphKinds ==
  {"BlockTag", "CodeSpan", "ErrorText", "EscapedText", "HtmlStartTag", "HtmlEndTag", "InlineTag",
   "LinkTag", "PlainText", "SoftBreak"}

BuiltInDefinition(kind) ==
  [constructor |-> kind, packageName |-> "@microsoft/tsdoc",
   allowedChildKinds |-> IF kind = "Section" THEN SectionKinds
                         ELSE IF kind = "Paragraph" THEN ParagraphKinds ELSE {}]

\* What the three calls leave: none of them throws, and nothing comes between them
BuiltInManager ==
  [byKind |-> [kind \in BuiltInKinds |-> BuiltInDefinition(kind)],
   byConstructor |-> [class \in BuiltInKinds |-> class]]
=============================================================================
