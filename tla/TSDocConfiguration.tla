------------------------- MODULE TSDocConfiguration -------------------------
(***************************************************************************)
(* TSDocConfiguration: the tags that are defined and supported, the HTML   *)
(* elements, and the validation switches of one parser, as a record; the   *)
(* methods are operators from configuration to configuration.              *)
(*                                                                         *)
(* A TSDocTagDefinition is an object, and the code tells two of the same   *)
(* name apart by identity: "id" stands for it.  Names are compared in      *)
(* upper case.  "threw" is set when a method throws; what it did before    *)
(* stays done.                                                             *)
(***************************************************************************)
EXTENDS Integers, Sequences, FiniteSets

CONSTANTS
  Names,              \* tag names
  UpperCase,          \* UpperCase[n]: the name in capitals
  StandardTags,       \* StandardTags.allDefinitions
  HtmlElements

Key(d) == UpperCase[d.tagName]

ASSUME NamesAssumption == Names \subseteq DOMAIN UpperCase
ASSUME StandardTagsAssumption ==
  /\ \A i \in DOMAIN StandardTags : StandardTags[i].tagName \in Names
  /\ \A i, j \in DOMAIN StandardTags : Key(StandardTags[i]) = Key(StandardTags[j]) => i = j

EmptyConfiguration ==
  [tagDefinitions |-> <<>>, tagDefinitionsByName |-> <<>>, supportedTagDefinitions |-> {},
   ignoreUndefinedTags |-> FALSE, reportUnsupportedTags |-> FALSE, supportedHtmlElements |-> {},
   reportUnsupportedHtmlElements |-> FALSE, threw |-> FALSE]

\* Map.set()
Put(map, key, value) == [k \in DOMAIN map \union {key} |-> IF k = key THEN value ELSE map[k]]

HasKey(c, key) == key \in DOMAIN c.tagDefinitionsByName

\* _requireTagToBeDefined(): this very definition, not one of the same name
IsDefined(c, d) == HasKey(c, Key(d)) /\ c.tagDefinitionsByName[Key(d)] = d

\* mutants: the map is by spelling; a definition of the same name is replaced
AddBySpelling(c, d) ==
  IF c.threw \/ IsDefined(c, d) THEN c
  ELSE IF HasKey(c, Key(d)) THEN [c EXCEPT !.threw = TRUE]
  ELSE [c EXCEPT !.tagDefinitions = Append(@, d), !.tagDefinitionsByName = Put(@, d.tagName, d)]
AddOrReplace(c, d) ==
  IF IsDefined(c, d) THEN c
  ELSE [c EXCEPT !.tagDefinitions = Append(SelectSeq(@, LAMBDA e : Key(e) # Key(d)), d),
                 !.tagDefinitionsByName = Put(@, Key(d), d)]
AddTagDefinition(c, d) ==
  IF c.threw \/ IsDefined(c, d) THEN c
  ELSE IF HasKey(c, Key(d)) THEN [c EXCEPT !.threw = TRUE]
  ELSE [c EXCEPT !.tagDefinitions = Append(@, d), !.tagDefinitionsByName = Put(@, Key(d), d)]

\* mutant: support is set by name
SetSupportByName(c, d, supported) ==
  IF c.threw THEN c
  ELSE IF ~HasKey(c, Key(d)) THEN [c EXCEPT !.threw = TRUE]
  ELSE [c EXCEPT !.supportedTagDefinitions = IF supported THEN @ \union {d} ELSE @ \ {d},
                 !.reportUnsupportedTags = TRUE]
SetSupportForTag(c, d, supported) ==
  IF c.threw THEN c
  ELSE IF ~IsDefined(c, d) THEN [c EXCEPT !.threw = TRUE]
  ELSE [c EXCEPT !.supportedTagDefinitions = IF supported THEN @ \union {d} ELSE @ \ {d},
                 !.reportUnsupportedTags = TRUE]

SetSupportedHtmlElements(c, elements) ==
  [c EXCEPT !.supportedHtmlElements = elements, !.reportUnsupportedHtmlElements = TRUE]

\* The fields of "validation" are public: a program sets them as it likes
ValidationSwitches ==
  {"ignoreUndefinedTags", "reportUnsupportedTags", "reportUnsupportedHtmlElements"}
SetValidation(c, switch, b) == [c EXCEPT ![switch] = b]

(***************************************************************************)
(* addTagDefinitions(), setSupportForTags() and clear() are loops of those *)
(* two methods: a list of calls, made until one of them throws.            *)
(***************************************************************************)
AddCall(d) == [method |-> "add", definition |-> d, supported |-> FALSE]
SupportCall(d, supported) == [method |-> "support", definition |-> d, supported |-> supported]

Apply(c, call) ==
  IF call.method = "add" THEN AddTagDefinition(c, call.definition)
                         ELSE SetSupportForTag(c, call.definition, call.supported)

StandardCalls == [i \in 1 .. Len(StandardTags) |-> AddCall(StandardTags[i])]
=============================================================================
