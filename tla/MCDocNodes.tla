----------------------------- MODULE MCDocNodes -----------------------------
EXTENDS DocNodes

\* A container and a leaf of the program's own, and definitions that are rejected
Definition(kind, class) == [docNodeKind |-> kind, constructor |-> class]
MCInvalidKinds == {"package#Note"}
MCDefinitionLists ==
  {<<Definition("Note", "DocNote"), Definition("Other", "DocNote")>>,
   <<Definition("package#Note", "DocNote")>>,
   <<Definition("Section", "DocNote")>>}
MCChildLists ==
  {<<"Section", <<"Note">>>>, <<"Note", <<"Paragraph", "Unknown", "Section">>>>,
   <<"Note", <<"Section">>>>}
Of(kind, c) == [kind |-> kind, configuration |-> c]
\* A tag may be in a section and in a paragraph; "d" knows the built-in kinds only
MCMade ==
  {Of("Section", "c"), Of("HtmlStartTag", "c"), Of("Note", "c"), Of("Note", "d"),
   Of("Paragraph", "d")}
MCContainers == {"Section", "Paragraph", "Note"}
=============================================================================
