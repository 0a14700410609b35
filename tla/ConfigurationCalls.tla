------------------------- MODULE ConfigurationCalls -------------------------
(***************************************************************************)
(* One TSDocConfiguration under every sequence of calls of its public      *)
(* methods, with the loops of the methods that take lists one call at a    *)
(* time, so that an exception can leave any of them half-done.             *)
(***************************************************************************)
EXTENDS TSDocConfiguration

CONSTANTS
  Definitions,        \* the definitions that callers have
  CallLists           \* the lists of definitions that they pass

ASSUME DefinitionsAssumption ==
  /\ \A d \in Definitions : d.tagName \in Names
  /\ StandardTags \in Seq(Definitions)
ASSUME CallListsAssumption == CallLists \subseteq Seq(Definitions)

VARIABLES
  configuration,
  pending,            \* what is left of the loop that runs
  clearing            \* what the last call was to leave defined, if it was clear()

vars == <<configuration, pending, clearing>>

\* The constructor calls clear(false)
Init ==
  /\ configuration = EmptyConfiguration
  /\ pending = StandardCalls
  /\ clearing = "standard"

Idle == pending = <<>>

\* A method is called: the exception of an earlier one is history.
Called == [configuration EXCEPT !.threw = FALSE]

\* mutant: support and the validation switches outlive the definitions
ForgetDefinitions(noStandardTags) ==
  /\ Idle
  /\ configuration' = [Called EXCEPT !.tagDefinitions = <<>>, !.tagDefinitionsByName = <<>>]
  /\ pending' = IF noStandardTags THEN <<>> ELSE StandardCalls
  /\ clearing' = IF noStandardTags THEN "none" ELSE "standard"
Clear(noStandardTags) ==
  /\ Idle
  /\ configuration' = EmptyConfiguration
  /\ pending' = IF noStandardTags THEN <<>> ELSE StandardCalls
  /\ clearing' = IF noStandardTags THEN "none" ELSE "standard"

\* "marks" is <<>> or <<supported>>, the optional parameter
CallsFor(definitions, marks) ==
  IF marks = <<>> THEN [i \in 1 .. Len(definitions) |-> AddCall(definitions[i])]
  ELSE [n \in 1 .. 2 * Len(definitions) |->
          IF n % 2 = 1 THEN AddCall(definitions[(n + 1) \div 2])
                       ELSE SupportCall(definitions[n \div 2], marks[1])]

AddTagDefinitions(definitions, marks) ==
  /\ Idle
  /\ configuration' = Called
  /\ pending' = CallsFor(definitions, marks)
  /\ clearing' = "no"

SetSupportForTags(definitions, supported) ==
  /\ Idle
  /\ configuration' = Called
  /\ pending' = [i \in 1 .. Len(definitions) |-> SupportCall(definitions[i], supported)]
  /\ clearing' = "no"

SetHtmlElements(elements) ==
  /\ Idle
  /\ configuration' = SetSupportedHtmlElements(Called, elements)
  /\ clearing' = "no"
  /\ UNCHANGED pending

SetSwitch(switch, b) ==
  /\ Idle
  /\ configuration' = SetValidation(Called, switch, b)
  /\ clearing' = "no"
  /\ UNCHANGED pending

Iterate ==
  /\ pending # <<>>
  /\ configuration' = Apply(configuration, Head(pending))
  /\ pending' = IF configuration'.threw THEN <<>> ELSE Tail(pending)
  /\ UNCHANGED clearing

Next ==
  \/ \E b \in BOOLEAN : Clear(b)
  \/ \E l \in CallLists, m \in {<<>>, <<TRUE>>, <<FALSE>>} : AddTagDefinitions(l, m)
  \/ \E l \in CallLists, b \in BOOLEAN : SetSupportForTags(l, b)
  \/ \E s \in SUBSET HtmlElements : SetHtmlElements(s)
  \/ \E v \in ValidationSwitches, b \in BOOLEAN : SetSwitch(v, b)
  \/ Iterate

Spec == Init /\ [][Next]_vars

-----------------------------------------------------------------------------
Keys == {UpperCase[n] : n \in Names}
Call == [method : {"add", "support"}, definition : Definitions, supported : BOOLEAN]

Configurations ==
  [tagDefinitions : Seq(Definitions),
   tagDefinitionsByName : UNION {[K -> Definitions] : K \in SUBSET Keys},
   supportedTagDefinitions : SUBSET Definitions,
   ignoreUndefinedTags : BOOLEAN, reportUnsupportedTags : BOOLEAN,
   supportedHtmlElements : SUBSET HtmlElements, reportUnsupportedHtmlElements : BOOLEAN,
   threw : BOOLEAN]

TypeOK ==
  /\ configuration \in Configurations
  /\ pending \in Seq(Call)
  /\ clearing \in {"no", "none", "standard"}

Defined(c) == {c.tagDefinitions[i] : i \in DOMAIN c.tagDefinitions}

(***************************************************************************)
(* The list, the map and the set of one configuration agree, also after a  *)
(* call that threw half-way: the map has exactly the listed definitions,   *)
(* each under its own name, no name is listed twice, and only a listed     *)
(* definition is supported (so that the supportedTagDefinitions getter,    *)
(* which asks isTagSupported() of each listed one, cannot throw).          *)
(***************************************************************************)
Agree(c) ==
  /\ Defined(c) = {c.tagDefinitionsByName[k] : k \in DOMAIN c.tagDefinitionsByName}
  /\ \A k \in DOMAIN c.tagDefinitionsByName : Key(c.tagDefinitionsByName[k]) = k
  /\ \A i, j \in DOMAIN c.tagDefinitions :
       Key(c.tagDefinitions[i]) = Key(c.tagDefinitions[j]) => i = j
  /\ c.supportedTagDefinitions \subseteq Defined(c)
CollectionsAgree == Agree(configuration)

(***************************************************************************)
(* clear() resets everything, whatever was called before and wherever it   *)
(* stopped, and it never throws: afterwards exactly the standard tags are  *)
(* defined (or none), nothing is supported, and every validation switch is *)
(* off, the one that ignores undefined tags among them.                    *)
(***************************************************************************)
ClearStartsOver ==
  clearing # "no" =>
    /\ ~configuration.threw
    /\ configuration.supportedTagDefinitions = {} /\ configuration.supportedHtmlElements = {}
    /\ ~configuration.ignoreUndefinedTags
    /\ ~configuration.reportUnsupportedTags /\ ~configuration.reportUnsupportedHtmlElements
    /\ Idle => configuration.tagDefinitions = IF clearing = "none" THEN <<>> ELSE StandardTags

(***************************************************************************)
(* A definition stays what it was: no call but clear() takes one away,     *)
(* replaces it, or changes the order, not even one that throws.            *)
(***************************************************************************)
DefinitionsStay ==
  [][clearing' = "no" =>
       /\ Len(configuration.tagDefinitions) <= Len(configuration'.tagDefinitions)
       /\ \A i \in DOMAIN configuration.tagDefinitions :
            configuration'.tagDefinitions[i] = configuration.tagDefinitions[i]]_vars
=============================================================================
