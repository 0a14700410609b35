------------------------ MODULE ConfigurationProofs ------------------------
(***************************************************************************)
(* Proofs about ConfigurationCalls: whatever is called, in whatever order, *)
(* and wherever a call throws, the collections of a configuration agree,   *)
(* and definitions stay.                                                   *)
(***************************************************************************)
EXTENDS ConfigurationCalls, TLAPS

\* The key of a definition is a name in capitals.
LEMMA KeyType == ASSUME NEW d \in Definitions PROVE Key(d) \in Keys
BY DefinitionsAssumption DEF Key, Keys

\* A configuration without definitions is consistent.
LEMMA EmptyAgrees == EmptyConfiguration \in Configurations /\ Agree(EmptyConfiguration)
<1> DEFINE none == EmptyConfiguration.tagDefinitionsByName
<1>1. none \in [{} -> Definitions]
  BY DEF EmptyConfiguration
<1>2. none \in UNION {[K -> Definitions] : K \in SUBSET Keys}
  BY <1>1
<1>3. EmptyConfiguration \in Configurations
  BY <1>2 DEF EmptyConfiguration, Configurations
<1>4. Agree(EmptyConfiguration)
  BY <1>1 DEF EmptyConfiguration, Agree, Defined
<1>5. QED
  BY <1>3, <1>4

\* addTagDefinition() keeps a configuration consistent, also when it throws.
LEMMA AddAgrees ==
  ASSUME NEW c \in Configurations, Agree(c), NEW d \in Definitions
  PROVE  AddTagDefinition(c, d) \in Configurations /\ Agree(AddTagDefinition(c, d))
<1> DEFINE byName == c.tagDefinitionsByName
           e == AddTagDefinition(c, d)
<1>1. CASE c.threw \/ IsDefined(c, d)
  BY <1>1 DEF AddTagDefinition
<1>2. CASE ~c.threw /\ ~IsDefined(c, d) /\ HasKey(c, Key(d))
  <2>1. e = [c EXCEPT !.threw = TRUE]
    BY <1>2 DEF AddTagDefinition
  <2>2. e \in Configurations
    BY <2>1 DEF Configurations
  <2>3. /\ e.tagDefinitions = c.tagDefinitions
        /\ e.tagDefinitionsByName = c.tagDefinitionsByName
        /\ e.supportedTagDefinitions = c.supportedTagDefinitions
    BY <2>1 DEF Configurations
  <2>4. QED
    BY <2>2, <2>3 DEF Agree, Defined
<1>3. CASE ~c.threw /\ ~IsDefined(c, d) /\ ~HasKey(c, Key(d))
  <2>1. PICK K \in SUBSET Keys : byName \in [K -> Definitions]
    BY DEF Configurations
  <2>2. DOMAIN byName = K /\ Key(d) \notin K
    BY <1>3, <2>1 DEF HasKey
  <2>3. e = [c EXCEPT !.tagDefinitions = Append(@, d), !.tagDefinitionsByName = Put(@, Key(d), d)]
    BY <1>3 DEF AddTagDefinition
  <2>4. /\ e.tagDefinitionsByName = Put(byName, Key(d), d)
        /\ e.tagDefinitions = Append(c.tagDefinitions, d)
        /\ e.supportedTagDefinitions = c.supportedTagDefinitions
    BY <2>3 DEF Configurations
  <2>5. Put(byName, Key(d), d) \in [K \union {Key(d)} -> Definitions]
    BY <2>1, <2>2 DEF Put
  <2>6. Put(byName, Key(d), d) \in UNION {[J -> Definitions] : J \in SUBSET Keys}
    <3>1. K \union {Key(d)} \in SUBSET Keys
      BY KeyType
    <3>2. QED
      BY <3>1, <2>5
  <2>7. c.tagDefinitions \in Seq(Definitions) /\ Append(c.tagDefinitions, d) \in Seq(Definitions)
    BY DEF Configurations
  <2>8. e \in Configurations
    BY <2>3, <2>6, <2>7 DEF Configurations
  <2>9. Defined(e) = Defined(c) \union {d}
    BY <2>4, <2>7 DEF Defined
  <2>10. /\ e.tagDefinitionsByName[Key(d)] = d
         /\ \A k \in K : e.tagDefinitionsByName[k] = byName[k]
         /\ DOMAIN e.tagDefinitionsByName = K \union {Key(d)}
    BY <2>2, <2>4 DEF Put
  <2>11. Defined(e) = {e.tagDefinitionsByName[k] : k \in DOMAIN e.tagDefinitionsByName}
    BY <2>2, <2>9, <2>10 DEF Agree
  <2>12. \A k \in DOMAIN e.tagDefinitionsByName : Key(e.tagDefinitionsByName[k]) = k
    BY <2>2, <2>10 DEF Agree
  <2>13. \A i \in DOMAIN c.tagDefinitions : Key(c.tagDefinitions[i]) # Key(d)
    <3>1. \A i \in DOMAIN c.tagDefinitions : \E k \in K : c.tagDefinitions[i] = byName[k]
      BY <2>2 DEF Agree, Defined
    <3>2. QED
      BY <3>1, <2>2 DEF Agree
  <2>14. ASSUME NEW i \in DOMAIN e.tagDefinitions, NEW j \in DOMAIN e.tagDefinitions,
                Key(e.tagDefinitions[i]) = Key(e.tagDefinitions[j])
         PROVE  i = j
    BY <2>4, <2>7, <2>13, <2>14 DEF Agree
  <2>15. QED
    BY <2>4, <2>8, <2>9, <2>11, <2>12, <2>14 DEF Agree
<1>4. QED
  BY <1>1, <1>2, <1>3

\* setSupportForTag() keeps a configuration consistent, also when it throws.
LEMMA SupportAgrees ==
  ASSUME NEW c \in Configurations, Agree(c), NEW d \in Definitions, NEW b \in BOOLEAN
  PROVE  /\ SetSupportForTag(c, d, b) \in Configurations
         /\ Agree(SetSupportForTag(c, d, b))
         /\ SetSupportForTag(c, d, b).tagDefinitions = c.tagDefinitions
<1> DEFINE e == SetSupportForTag(c, d, b)
<1>1. IsDefined(c, d) => d \in Defined(c)
  BY DEF IsDefined, HasKey, Agree
<1>2. e \in Configurations
  BY DEF SetSupportForTag, Configurations
<1>3. /\ e.tagDefinitions = c.tagDefinitions
      /\ e.tagDefinitionsByName = c.tagDefinitionsByName
  BY DEF SetSupportForTag, Configurations
<1>4. \/ e.supportedTagDefinitions \subseteq c.supportedTagDefinitions
      \/ /\ IsDefined(c, d)
         /\ e.supportedTagDefinitions \subseteq c.supportedTagDefinitions \union {d}
  BY DEF SetSupportForTag, Configurations
<1>5. Defined(e) = Defined(c)
  BY <1>3 DEF Defined
<1>6. QED
  BY <1>1, <1>2, <1>3, <1>4, <1>5 DEF Agree

\* Each call of a loop keeps the configuration consistent.
LEMMA ApplyAgrees ==
  ASSUME NEW c \in Configurations, Agree(c), NEW call \in Call
  PROVE  Apply(c, call) \in Configurations /\ Agree(Apply(c, call))
<1>1. call.definition \in Definitions /\ call.supported \in BOOLEAN
  BY DEF Call
<1>2. QED
  BY <1>1, AddAgrees, SupportAgrees DEF Apply

\* The loops are of calls with definitions that callers have.
LEMMA CallTypes ==
  /\ \A d \in Definitions : AddCall(d) \in Call
  /\ \A d \in Definitions, b \in BOOLEAN : SupportCall(d, b) \in Call
BY DEF AddCall, SupportCall, Call

\* What clear() leaves to do is a list of calls
LEMMA StandardCallsType == StandardCalls \in Seq(Call)
<1>1. Len(StandardTags) \in Nat /\ DOMAIN StandardTags = 1 .. Len(StandardTags)
  BY DefinitionsAssumption
<1>2. QED
  BY <1>1, CallTypes, DefinitionsAssumption DEF StandardCalls

\* ... and so is what a method with a list does.
LEMMA CallsForType ==
  ASSUME NEW l \in CallLists, NEW marks \in {<<>>, <<TRUE>>, <<FALSE>>}
  PROVE  CallsFor(l, marks) \in Seq(Call)
<1>1. l \in Seq(Definitions)
  BY CallListsAssumption
<1>2. CASE marks = <<>>
  BY <1>1, <1>2, CallTypes DEF CallsFor
<1>3. CASE marks # <<>>
  <2>1. marks[1] \in BOOLEAN
    <3>1. marks = <<TRUE>> \/ marks = <<FALSE>>
      BY <1>3
    <3>2. CASE marks = <<TRUE>>
      BY <3>2, Zenon, <<TRUE>>[1] = TRUE
    <3>3. CASE marks = <<FALSE>>
      BY <3>3, Zenon, <<FALSE>>[1] = FALSE
    <3>4. QED
      BY <3>1, <3>2, <3>3
  <2>2. \A n \in 1 .. 2 * Len(l) : n % 2 = 1 => (n + 1) \div 2 \in 1 .. Len(l)
    BY <1>1
  <2>3. \A n \in 1 .. 2 * Len(l) : n % 2 # 1 => n \div 2 \in 1 .. Len(l)
    BY <1>1
  <2>4. \A n \in 1 .. 2 * Len(l) : CallsFor(l, marks)[n] \in Call
    BY <1>1, <1>3, <2>1, <2>2, <2>3, CallTypes DEF CallsFor
  <2>5. Len(l) \in Nat /\ 2 * Len(l) \in Nat
    BY <1>1
  <2>6. CallsFor(l, marks) = [n \in 1 .. 2 * Len(l) |-> CallsFor(l, marks)[n]]
    BY <1>3 DEF CallsFor
  <2>7. QED
    BY <2>4, <2>5, <2>6
<1>4. QED
  BY <1>2, <1>3
-----------------------------------------------------------------------------
Consistent == TypeOK /\ CollectionsAgree

\* A new configuration is empty or has the standard tags: its collections agree.
LEMMA InitConsistent == Init => Consistent
BY EmptyAgrees, StandardCallsType DEF Init, Consistent, TypeOK, CollectionsAgree

\* A call that begins does not change what the configuration has.
LEMMA CalledAgrees ==
  ASSUME Consistent
  PROVE  /\ Called \in Configurations /\ Agree(Called)
         /\ Called.tagDefinitions = configuration.tagDefinitions
<1>1. configuration \in Configurations /\ Agree(configuration)
  BY DEF Consistent, TypeOK, CollectionsAgree
<1>2. Called \in Configurations
  BY <1>1 DEF Called, Configurations
<1>3. /\ Called.tagDefinitions = configuration.tagDefinitions
      /\ Called.tagDefinitionsByName = configuration.tagDefinitionsByName
      /\ Called.supportedTagDefinitions = configuration.supportedTagDefinitions
  BY <1>1 DEF Called, Configurations
<1>4. Agree(Called)
  BY <1>1, <1>3 DEF Agree, Defined
<1>5. QED
  BY <1>2, <1>3, <1>4

\* setSupportedHtmlElements() does not touch the collections.
LEMMA HtmlAgrees ==
  ASSUME NEW c \in Configurations, Agree(c), NEW s \in SUBSET HtmlElements
  PROVE  /\ SetSupportedHtmlElements(c, s) \in Configurations
         /\ Agree(SetSupportedHtmlElements(c, s))
         /\ SetSupportedHtmlElements(c, s).tagDefinitions = c.tagDefinitions
<1> DEFINE e == SetSupportedHtmlElements(c, s)
<1>1. e \in Configurations
  BY DEF SetSupportedHtmlElements, Configurations
<1>2. /\ e.tagDefinitions = c.tagDefinitions
      /\ e.tagDefinitionsByName = c.tagDefinitionsByName
      /\ e.supportedTagDefinitions = c.supportedTagDefinitions
  BY DEF SetSupportedHtmlElements, Configurations
<1>3. Defined(e) = Defined(c)
  BY <1>2 DEF Defined
<1>4. QED
  BY <1>1, <1>2, <1>3 DEF Agree

\* Setting a validation switch does not touch the collections.
LEMMA SwitchAgrees ==
  ASSUME NEW c \in Configurations, Agree(c), NEW v \in ValidationSwitches, NEW b \in BOOLEAN
  PROVE  /\ SetValidation(c, v, b) \in Configurations
         /\ Agree(SetValidation(c, v, b))
         /\ SetValidation(c, v, b).tagDefinitions = c.tagDefinitions
<1> DEFINE e == SetValidation(c, v, b)
<1>1. \/ e = [c EXCEPT !.ignoreUndefinedTags = b]
      \/ e = [c EXCEPT !.reportUnsupportedTags = b]
      \/ e = [c EXCEPT !.reportUnsupportedHtmlElements = b]
  BY DEF SetValidation, ValidationSwitches
<1>2. e \in Configurations
  BY <1>1 DEF Configurations
<1>3. /\ e.tagDefinitions = c.tagDefinitions
      /\ e.tagDefinitionsByName = c.tagDefinitionsByName
      /\ e.supportedTagDefinitions = c.supportedTagDefinitions
  BY <1>1 DEF Configurations
<1>4. Defined(e) = Defined(c)
  BY <1>3 DEF Defined
<1>5. QED
  BY <1>2, <1>3, <1>4 DEF Agree

\* Each public call, and each element of a list, keeps the collections in agreement.
LEMMA NextConsistent == Consistent /\ [Next]_vars => Consistent'
<1> SUFFICES ASSUME Consistent, [Next]_vars PROVE Consistent'
  OBVIOUS
<1>1. ASSUME NEW b \in BOOLEAN, Clear(b) PROVE Consistent'
  BY <1>1, EmptyAgrees, StandardCallsType DEF Clear, Consistent, TypeOK, CollectionsAgree
<1>2. ASSUME NEW l \in CallLists, NEW m \in {<<>>, <<TRUE>>, <<FALSE>>}, AddTagDefinitions(l, m)
      PROVE  Consistent'
  BY <1>2, CalledAgrees, CallsForType DEF AddTagDefinitions, Consistent, TypeOK, CollectionsAgree
<1>3. ASSUME NEW l \in CallLists, NEW b \in BOOLEAN, SetSupportForTags(l, b) PROVE Consistent'
  <2>1. l \in Seq(Definitions)
    BY CallListsAssumption
  <2>2. [i \in 1 .. Len(l) |-> SupportCall(l[i], b)] \in Seq(Call)
    BY <2>1, CallTypes
  <2>3. QED
    BY <1>3, <2>2, CalledAgrees DEF SetSupportForTags, Consistent, TypeOK, CollectionsAgree
<1>4. ASSUME NEW s \in SUBSET HtmlElements, SetHtmlElements(s) PROVE Consistent'
  BY <1>4, CalledAgrees, HtmlAgrees DEF SetHtmlElements, Consistent, TypeOK, CollectionsAgree
<1>5. ASSUME NEW v \in ValidationSwitches, NEW b \in BOOLEAN, SetSwitch(v, b) PROVE Consistent'
  BY <1>5, CalledAgrees, SwitchAgrees DEF SetSwitch, Consistent, TypeOK, CollectionsAgree
<1>6. ASSUME Iterate PROVE Consistent'
  <2>1. Head(pending) \in Call /\ Tail(pending) \in Seq(Call)
    BY <1>6 DEF Iterate, Consistent, TypeOK
  <2>2. configuration' \in Configurations /\ Agree(configuration')
    BY <1>6, <2>1, ApplyAgrees DEF Iterate, Consistent, TypeOK, CollectionsAgree
  <2>3. pending' \in Seq(Call)
    BY <1>6, <2>1 DEF Iterate
  <2>4. QED
    BY <1>6, <2>2, <2>3 DEF Iterate, Consistent, TypeOK, CollectionsAgree
<1>7. CASE UNCHANGED vars
  BY <1>7 DEF vars, Consistent, TypeOK, CollectionsAgree
<1>8. QED
  BY <1>1, <1>2, <1>3, <1>4, <1>5, <1>6, <1>7 DEF Next

(***************************************************************************)
(* The configuration, the loop and the ghost have their types.             *)
(***************************************************************************)
THEOREM ConfigurationTypeCorrect == Spec => []TypeOK
<1>1. Consistent => TypeOK
  BY DEF Consistent
<1>2. QED
  BY InitConsistent, NextConsistent, <1>1, PTL DEF Spec

(***************************************************************************)
(* The list, the map and the set of a configuration agree, for every list  *)
(* of tags that is passed, in every order of calls and exceptions.         *)
(***************************************************************************)
THEOREM CollectionsAlwaysAgree == Spec => []CollectionsAgree
<1>1. Consistent => CollectionsAgree
  BY DEF Consistent
<1>2. QED
  BY InitConsistent, NextConsistent, <1>1, PTL DEF Spec

-----------------------------------------------------------------------------
\* A list of definitions is a beginning of another.
Prefix(s, t) == Len(s) <= Len(t) /\ \A i \in DOMAIN s : t[i] = s[i]

\* No step takes a definition away: a list is a prefix of itself
LEMMA PrefixSelf == ASSUME NEW s \in Seq(Definitions) PROVE Prefix(s, s)
BY DEF Prefix

\* ... and of itself with a definition added.
LEMMA AddKeeps ==
  ASSUME NEW c \in Configurations, NEW d \in Definitions
  PROVE  Prefix(c.tagDefinitions, AddTagDefinition(c, d).tagDefinitions)
<1> DEFINE e == AddTagDefinition(c, d)
<1>1. c.tagDefinitions \in Seq(Definitions)
  BY DEF Configurations
<1>2. e.tagDefinitions = c.tagDefinitions \/ e.tagDefinitions = Append(c.tagDefinitions, d)
  BY DEF AddTagDefinition, Configurations
<1>3. QED
  BY <1>1, <1>2 DEF Prefix

(***************************************************************************)
(* No call but clear() takes a definition away, replaces or moves it.      *)
(***************************************************************************)
THEOREM DefinitionsAlwaysStay == Spec => DefinitionsStay
<1>1. ASSUME Consistent, [Next]_vars
      PROVE  [clearing' = "no" =>
                Prefix(configuration.tagDefinitions, configuration'.tagDefinitions)]_vars
  <2> SUFFICES ASSUME Next, clearing' = "no"
               PROVE  Prefix(configuration.tagDefinitions, configuration'.tagDefinitions)
    BY <1>1
  <2>1. configuration \in Configurations /\ configuration.tagDefinitions \in Seq(Definitions)
    BY <1>1 DEF Consistent, TypeOK, Configurations
  <2>2. ASSUME NEW b \in BOOLEAN, Clear(b) PROVE FALSE
    BY <2>2 DEF Clear
  <2>3. ASSUME NEW l \in CallLists, NEW m \in {<<>>, <<TRUE>>, <<FALSE>>}, AddTagDefinitions(l, m)
        PROVE  configuration'.tagDefinitions = configuration.tagDefinitions
    BY <1>1, <2>3, CalledAgrees DEF AddTagDefinitions
  <2>4. ASSUME NEW l \in CallLists, NEW b \in BOOLEAN, SetSupportForTags(l, b)
        PROVE  configuration'.tagDefinitions = configuration.tagDefinitions
    BY <1>1, <2>4, CalledAgrees DEF SetSupportForTags
  <2>5. ASSUME NEW s \in SUBSET HtmlElements, SetHtmlElements(s)
        PROVE  configuration'.tagDefinitions = configuration.tagDefinitions
    BY <1>1, <2>5, CalledAgrees, HtmlAgrees DEF SetHtmlElements
  <2>6. ASSUME NEW v \in ValidationSwitches, NEW b \in BOOLEAN, SetSwitch(v, b)
        PROVE  configuration'.tagDefinitions = configuration.tagDefinitions
    BY <1>1, <2>6, CalledAgrees, SwitchAgrees DEF SetSwitch
  <2>7. ASSUME Iterate
        PROVE  Prefix(configuration.tagDefinitions, configuration'.tagDefinitions)
    <3>1. Head(pending) \in Call
      BY <1>1, <2>7 DEF Iterate, Consistent, TypeOK
    <3>2. Head(pending).definition \in Definitions /\ Head(pending).supported \in BOOLEAN
      BY <3>1 DEF Call
    <3>3. Agree(configuration)
      BY <1>1 DEF Consistent, CollectionsAgree
    <3>4. CASE Head(pending).method = "add"
      BY <2>1, <2>7, <3>2, <3>4, AddKeeps DEF Iterate, Apply
    <3>5. CASE Head(pending).method # "add"
      <4>1. configuration'.tagDefinitions = configuration.tagDefinitions
        BY <2>1, <2>7, <3>2, <3>3, <3>5, SupportAgrees DEF Iterate, Apply
      <4>2. QED
        BY <2>1, <4>1, PrefixSelf
    <3>6. QED
      BY <3>4, <3>5
  <2>8. QED
    BY <2>1, <2>2, <2>3, <2>4, <2>5, <2>6, <2>7, PrefixSelf DEF Next
<1>2. QED
  BY <1>1, InitConsistent, NextConsistent, PTL DEF Spec, DefinitionsStay, Prefix

-----------------------------------------------------------------------------
(***************************************************************************)
(* While clear() runs, what is defined are the first of the standard tags, *)
(* and what is pending are the calls for the others.                       *)
(***************************************************************************)
tags == configuration.tagDefinitions

Clearing ==
  clearing # "no" =>
    /\ ~configuration.threw
    /\ configuration.supportedTagDefinitions = {} /\ configuration.supportedHtmlElements = {}
    /\ ~configuration.ignoreUndefinedTags
    /\ ~configuration.reportUnsupportedTags /\ ~configuration.reportUnsupportedHtmlElements
    /\ clearing = "none" => tags = <<>> /\ pending = <<>>
    /\ clearing = "standard" =>
         /\ Len(tags) + Len(pending) = Len(StandardTags)
         /\ \A i \in 1 .. Len(tags) : tags[i] = StandardTags[i]
         /\ \A i \in 1 .. Len(pending) : pending[i] = AddCall(StandardTags[Len(tags) + i])

\* When clear() has emptied the collections, all standard tags are still to be added.
LEMMA ClearedAtFirst ==
  ASSUME configuration' = EmptyConfiguration,
         \/ clearing' = "none" /\ pending' = <<>>
         \/ clearing' = "standard" /\ pending' = StandardCalls
  PROVE  Clearing'
<1>1. Len(StandardTags) \in Nat
  BY DefinitionsAssumption
<1>2. Len(StandardCalls) = Len(StandardTags)
  BY <1>1 DEF StandardCalls
<1>3. \A i \in 1 .. Len(StandardCalls) : StandardCalls[i] = AddCall(StandardTags[i])
  BY <1>1, <1>2 DEF StandardCalls
<1>4. tags' = <<>> /\ Len(tags') = 0
  BY DEF tags, EmptyConfiguration
<1>5. \A i \in 1 .. Len(StandardCalls) : Len(tags') + i = i
  BY <1>1, <1>2, <1>4
<1>6. QED
  BY <1>1, <1>2, <1>3, <1>4, <1>5 DEF Clearing, EmptyConfiguration, tags

\* The constructor begins the way clear() does.
LEMMA InitClearing == Init => Clearing
<1> SUFFICES ASSUME Init PROVE Clearing
  OBVIOUS
<1>1. Len(StandardTags) \in Nat
  BY DefinitionsAssumption
<1>2. Len(StandardCalls) = Len(StandardTags)
  BY <1>1 DEF StandardCalls
<1>3. \A i \in 1 .. Len(StandardCalls) : StandardCalls[i] = AddCall(StandardTags[i])
  BY <1>1, <1>2 DEF StandardCalls
<1>4. tags = <<>> /\ Len(tags) = 0
  BY DEF Init, tags, EmptyConfiguration
<1>5. \A i \in 1 .. Len(StandardCalls) : Len(tags) + i = i
  BY <1>1, <1>2, <1>4
<1>6. QED
  BY <1>1, <1>2, <1>3, <1>4, <1>5 DEF Init, Clearing, EmptyConfiguration, tags

\* The next standard tag can be added: no tag before it has its name.
LEMMA IterateClearing ==
  ASSUME Consistent, Clearing, Iterate, clearing = "standard"
  PROVE  Clearing'
<1> DEFINE n == Len(tags)
           d == StandardTags[n + 1]
<1>1. /\ configuration \in Configurations /\ tags \in Seq(Definitions) /\ n \in Nat
      /\ pending \in Seq(Call) /\ pending # <<>> /\ Len(pending) \in Nat \ {0}
      /\ Agree(configuration)
  BY DEF Consistent, TypeOK, CollectionsAgree, Configurations, Iterate, tags
<1>2. /\ n + 1 \in 1 .. Len(StandardTags) /\ DOMAIN StandardTags = 1 .. Len(StandardTags)
      /\ d \in Definitions
  BY <1>1, DefinitionsAssumption DEF Clearing
<1>3. Head(pending) = AddCall(d)
  BY <1>1 DEF Clearing
<1>4. configuration' = AddTagDefinition(configuration, d)
  BY <1>3 DEF Iterate, Apply, AddCall
<1>5. ~HasKey(configuration, Key(d))
  <2>1. \A i \in 1 .. n : Key(tags[i]) # Key(d)
    BY <1>1, <1>2, StandardTagsAssumption DEF Clearing
  <2>2. SUFFICES ASSUME HasKey(configuration, Key(d)) PROVE FALSE
    OBVIOUS
  <2> DEFINE e == configuration.tagDefinitionsByName[Key(d)]
  <2>3. Key(e) = Key(d) /\ e \in Defined(configuration)
    BY <1>1, <2>2 DEF HasKey, Agree
  <2>4. QED
    BY <1>1, <2>1, <2>3 DEF Defined, tags
<1>6. configuration' =
        [configuration EXCEPT
           !.tagDefinitions = Append(configuration.tagDefinitions, d),
           !.tagDefinitionsByName = Put(configuration.tagDefinitionsByName, Key(d), d)]
  BY <1>4, <1>5 DEF AddTagDefinition, IsDefined, Clearing
<1>7. /\ tags' = Append(tags, d)
      /\ configuration'.threw = configuration.threw
      /\ configuration'.supportedTagDefinitions = configuration.supportedTagDefinitions
      /\ configuration'.supportedHtmlElements = configuration.supportedHtmlElements
      /\ configuration'.ignoreUndefinedTags = configuration.ignoreUndefinedTags
      /\ configuration'.reportUnsupportedTags = configuration.reportUnsupportedTags
      /\ configuration'.reportUnsupportedHtmlElements = configuration.reportUnsupportedHtmlElements
  BY <1>1, <1>6 DEF Configurations, tags
<1>8. pending' = Tail(pending) /\ clearing' = clearing
  BY <1>7 DEF Iterate, Clearing
<1>9. /\ Len(tags') = n + 1 /\ Len(pending') = Len(pending) - 1
      /\ \A i \in 1 .. Len(pending') : pending'[i] = pending[i + 1]
  BY <1>1, <1>2, <1>7, <1>8
<1>10. \A i \in 1 .. Len(pending') : pending'[i] = AddCall(StandardTags[Len(tags') + i])
  <2> TAKE i \in 1 .. Len(pending')
  <2>1. i + 1 \in 1 .. Len(pending) /\ n + (i + 1) = (n + 1) + i
    BY <1>1, <1>9
  <2>2. pending[i + 1] = AddCall(StandardTags[n + (i + 1)])
    BY <2>1 DEF Clearing
  <2>3. QED
    BY <1>9, <2>1, <2>2
<1>11. \A i \in 1 .. Len(tags') : tags'[i] = StandardTags[i]
  BY <1>1, <1>2, <1>7, <1>9 DEF Clearing
<1>12. Len(tags') + Len(pending') = Len(StandardTags)
  <2>1. n + Len(pending) = Len(StandardTags)
    BY DEF Clearing
  <2>2. n \in Nat /\ Len(pending) \in Nat /\ Len(tags') = n + 1 /\ Len(pending') = Len(pending) - 1
    BY <1>1, <1>9
  <2> HIDE DEF n
  <2>3. QED
    BY <2>1, <2>2
<1>13. QED
  BY <1>7, <1>8, <1>10, <1>11, <1>12 DEF Clearing

\* Each tag that is added comes from the front of what is pending.
LEMMA NextClearing == Consistent /\ Clearing /\ [Next]_vars => Clearing'
<1> SUFFICES ASSUME Consistent, Clearing, [Next]_vars PROVE Clearing'
  OBVIOUS
<1>1. ASSUME NEW b \in BOOLEAN, Clear(b) PROVE Clearing'
  BY <1>1, ClearedAtFirst DEF Clear
<1>2. ASSUME clearing' = "no" PROVE Clearing'
  BY <1>2 DEF Clearing
<1>3. ASSUME Iterate PROVE Clearing'
  <2>1. CASE clearing = "no"
    BY <1>2, <1>3, <2>1 DEF Iterate
  <2>2. CASE clearing = "none"
    BY <1>3, <2>2 DEF Iterate, Clearing
  <2>3. CASE clearing = "standard"
    BY <1>3, <2>3, IterateClearing
  <2>4. QED
    BY <2>1, <2>2, <2>3 DEF Consistent, TypeOK
<1>4. CASE UNCHANGED vars
  BY <1>4 DEF vars, Clearing, tags
<1>5. QED
  BY <1>1, <1>2, <1>3, <1>4 DEF Next, AddTagDefinitions, SetSupportForTags, SetHtmlElements,
                                   SetSwitch

(***************************************************************************)
(* clear() starts over, whatever happened before, and never throws: the    *)
(* names of the standard tags are distinct.                                *)
(***************************************************************************)
THEOREM ClearAlwaysStartsOver == Spec => []ClearStartsOver
<1>1. Consistent /\ Clearing => ClearStartsOver
  <2> SUFFICES ASSUME Consistent, Clearing, clearing # "no", Idle
               PROVE  tags = IF clearing = "none" THEN <<>> ELSE StandardTags
    BY DEF ClearStartsOver, Clearing, tags
  <2>1. CASE clearing = "none"
    BY <2>1 DEF Clearing
  <2>2. CASE clearing = "standard"
    <3>1. tags \in Seq(Definitions) /\ StandardTags \in Seq(Definitions)
      BY DefinitionsAssumption DEF Consistent, TypeOK, Configurations, tags
    <3>2. Len(tags) = Len(StandardTags)
      BY <2>2, <3>1, DefinitionsAssumption DEF Clearing, Idle
    <3>3. QED
      BY <2>2, <3>1, <3>2 DEF Clearing
  <2>3. QED
    BY <2>1, <2>2 DEF Consistent, TypeOK
<1>2. QED
  BY <1>1, InitConsistent, NextConsistent, InitClearing, NextClearing, PTL DEF Spec
=============================================================================
